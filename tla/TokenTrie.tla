------------------------------ MODULE TokenTrie ------------------------------
(***************************************************************************)
(* DerivedVocabulary::build: the tokens in their order are entered in a    *)
(* trie one by one, and their bytes under their ids; then the nodes are    *)
(* laid out in arrays, the edges and ids of each node one slice.           *)
(***************************************************************************)
EXTENDS TokenIndex

CONSTANT MaxTrieNodes   \* CompileLimits::max_trie_nodes

VARIABLE trie   \* how far the trie is; the nodes being built; the arrays

NewNode == [children |-> << >>, ids |-> {}]

InitTrie ==
  trie = [at |-> "idle", entries |-> << >>, nodes |-> <<NewNode>>, reverse |-> << >>,
          table |-> << >>, edges |-> << >>, ids |-> << >>]

\* The order of byte strings.
Before(t, u) ==
  \/ IsStrictPrefix(t, u)
  \/ \E k \in 1..Len(t) :
       k <= Len(u) /\ SubSeq(t, 1, k - 1) = SubSeq(u, 1, k - 1) /\ t[k] < u[k]

\* Tokens in that order.
InOrder(tokens) == CHOOSE s \in SetToSeqs(tokens) : \A i, j \in DOMAIN s : i < j => Before(s[i], s[j])

BeginTrie ==
  /\ index.at \notin {"idle", "projecting"} /\ trie.at = "idle"
  /\ trie' = IF << >> \in DOMAIN vocabulary THEN [trie EXCEPT !.at = "empty token"]
             ELSE IF Cardinality(DOMAIN vocabulary) > MaxTrieNodes THEN [trie EXCEPT !.at = "refused"]
             ELSE [trie EXCEPT !.at = "building",
                               !.entries = InOrder(DOMAIN vocabulary)]

\* One byte down from node w.at, through a new node if there is none.
Descended(w, byte) ==
  IF byte \in DOMAIN w.nodes[w.at].children
  THEN [w EXCEPT !.at = w.nodes[w.at].children[byte]]
  ELSE [nodes |-> Append([w.nodes EXCEPT ![w.at].children = Put(@, byte, Len(w.nodes) + 1)], NewNode),
        at |-> Len(w.nodes) + 1]

\* The next token, if no id of it already stands for another.
InsertEntry ==
  /\ trie.at = "building" /\ trie.entries # << >>
  /\ LET t == Head(trie.entries)
         w == FoldLeft(Descended, [nodes |-> trie.nodes, at |-> 1], t)
     IN trie' = IF Len(w.nodes) > MaxTrieNodes THEN [trie EXCEPT !.at = "refused"]
                ELSE IF \E id \in IdsOf(t) : id \in DOMAIN trie.reverse /\ trie.reverse[id] # t
                THEN [trie EXCEPT !.at = "ambiguous"]
                ELSE [trie EXCEPT !.entries = Tail(@),
                                  !.nodes = [w.nodes EXCEPT ![w.at].ids = @ \cup IdsOf(t)],
                                  !.reverse = [id \in IdsOf(t) \cup DOMAIN @ |-> IF id \in IdsOf(t) THEN t ELSE @[id]]]

\* Mutant of LaidOut: the slice of the ids starts where the last one started.
LaidOutOverlapping(arrays, node) ==
  LET bytes == Ascending(DOMAIN node.children)
      ids == Ascending(node.ids)
      start == IF arrays.table = << >> THEN 0 ELSE Last(arrays.table).tokenStart
  IN [table |-> Append(arrays.table,
                  [edgeStart |-> Len(arrays.edges), edgeLen |-> Len(bytes),
                   tokenStart |-> start, tokenLen |-> Len(ids)]),
      edges |-> arrays.edges \o [k \in DOMAIN bytes |->
                                   [byte |-> bytes[k], child |-> node.children[bytes[k]]]],
      ids   |-> arrays.ids \o ids]

\* A node in the arrays.
LaidOut(arrays, node) ==
  LET bytes == Ascending(DOMAIN node.children)
      ids == Ascending(node.ids)
  IN [table |-> Append(arrays.table,
                  [edgeStart |-> Len(arrays.edges), edgeLen |-> Len(bytes),
                   tokenStart |-> Len(arrays.ids), tokenLen |-> Len(ids)]),
      edges |-> arrays.edges \o [k \in DOMAIN bytes |->
                                   [byte |-> bytes[k], child |-> node.children[bytes[k]]]],
      ids   |-> arrays.ids \o ids]

LayOut ==
  /\ trie.at = "building" /\ trie.entries = << >>
  /\ LET arrays == FoldLeft(LaidOut, [table |-> << >>, edges |-> << >>, ids |-> << >>], trie.nodes)
     IN trie' = [trie EXCEPT !.at = "done", !.table = arrays.table, !.edges = arrays.edges,
                             !.ids = arrays.ids]

TrieStep == BeginTrie \/ InsertEntry \/ LayOut

-----------------------------------------------------------------------------
(* The arrays in use. *)

EdgesOf(node) ==
  SubSeq(trie.edges, trie.table[node].edgeStart + 1, trie.table[node].edgeStart + trie.table[node].edgeLen)

IdsAt(node) ==
  ToSet(SubSeq(trie.ids, trie.table[node].tokenStart + 1, trie.table[node].tokenStart + trie.table[node].tokenLen))

\* A walk follows an edge if the automaton stays live.
Onward(met, row) ==
  met \cup {m \in UNION {{<<e.child, NextState(m[2], e.byte)>> : e \in ToSet(EdgesOf(m[1]))} : m \in met} :
            IsLive(m[2])}

\* The pairs of a trie node and a state of the automaton that the walk of the
\* trie meets from state s.
MetFrom(s) == FoldLeft(Onward, {<<1, s>>}, trie.table)

AllowedByTrie(s) == UNION {IdsAt(m[1]) : m \in MetFrom(s) \ {<<1, s>>}}
=============================================================================
