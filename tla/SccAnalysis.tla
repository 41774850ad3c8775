----------------------------- MODULE SccAnalysis -----------------------------
(***************************************************************************)
(* analyze_sccs: the strongly connected components of the nonterminals,    *)
(* by Tarjan's algorithm with the recursion spelled out as a stack of      *)
(* frames.  A step is one turn of the loop: an edge of the top frame, or   *)
(* the end of the frame, which may close a component.                      *)
(***************************************************************************)
EXTENDS Reduction

VARIABLE scc   \* how far the search is, and the components closed

\* dependency_graph: the nonterminals in the rules of A, each once.
Successors(A) == UNION {NonterminalsIn(r.rhs) : r \in RulesOf(grammar, A)}

NoScc ==
  [at |-> "idle", next |-> 0, index |-> << >>, low |-> << >>, stack |-> << >>,
   frames |-> << >>, components |-> {}]

Discovered(s) == DOMAIN s.index

\* The function f with n for A.
With(f, A, n) == [B \in DOMAIN f \cup {A} |-> IF B = A THEN n ELSE f[B]]

\* discover, and the frame pushed for the node, all of whose edges are left.
Discover(s, A) ==
  [s EXCEPT !.index = With(@, A, s.next),
            !.low = With(@, A, s.next),
            !.next = @ + 1,
            !.stack = Append(@, A),
            !.frames = Append(@, [node |-> A, left |-> Successors(A)])]

LowerTo(s, A, n) == IF n < s.low[A] THEN [s EXCEPT !.low[A] = n] ELSE s

BeginScc ==
  /\ reduction.at = "done" /\ scc.at = "idle"
  /\ scc' = [scc EXCEPT !.at = "search"]
  /\ UNCHANGED reductionVars

\* The next root is the smallest id not discovered.
StartRoot ==
  /\ scc.at = "search" /\ scc.frames = << >>
  /\ LET missing == grammar.nonterminals \ Discovered(scc)
     IN scc' = IF missing = {} THEN [scc EXCEPT !.at = "done"] ELSE Discover(scc, Min(missing))
  /\ UNCHANGED reductionVars

Top == Last(scc.frames)

\* Mutant of FollowEdge: an edge to a closed component counts as well.
FollowEdgeToClosed ==
  /\ scc.frames # << >> /\ Top.left # {}
  /\ LET target == Min(Top.left)
         s == [scc EXCEPT !.frames[Len(scc.frames)].left = @ \ {target}]
     IN scc' = IF target \notin Discovered(s) THEN Discover(s, target)
               ELSE LowerTo(s, Top.node, s.index[target])
  /\ UNCHANGED reductionVars

\* The edges of a frame are taken in the order of the ids they lead to.
FollowEdge ==
  /\ scc.frames # << >> /\ Top.left # {}
  /\ LET target == Min(Top.left)
         s == [scc EXCEPT !.frames[Len(scc.frames)].left = @ \ {target}]
     IN scc' = IF target \notin Discovered(s) THEN Discover(s, target)
               ELSE IF target \in ToSet(s.stack) THEN LowerTo(s, Top.node, s.index[target])
               ELSE s
  /\ UNCHANGED reductionVars

\* The frame is done: its parent learns how low it reached, and if it reached
\* nothing below itself, the stack down to it is a component.
EndNode ==
  /\ scc.frames # << >> /\ Top.left = {}
  /\ LET A == Top.node
         popped == [scc EXCEPT !.frames = Front(@)]
         told == IF popped.frames = << >> THEN popped
                 ELSE LowerTo(popped, Last(popped.frames).node, scc.low[A])
         from == CHOOSE k \in 1..Len(scc.stack) : scc.stack[k] = A
     IN scc' = IF scc.low[A] # scc.index[A] THEN told
               ELSE [told EXCEPT !.stack = SubSeq(@, 1, from - 1),
                                 !.components = @ \cup {ToSet(SubSeq(scc.stack, from, Len(scc.stack)))}]
  /\ UNCHANGED reductionVars

SccStep == BeginScc \/ StartRoot \/ FollowEdge \/ EndNode

-----------------------------------------------------------------------------

\* Whether a component is recursive.
IsRecursive(C) == Cardinality(C) > 1 \/ \E A \in C : A \in Successors(A)

ComponentOf(A) == CHOOSE C \in scc.components : A \in C

\* For reference: what A leads to, itself only over a cycle.
Reaches(A) ==
  {B \in grammar.nonterminals :
     \A S \in SUBSET grammar.nonterminals :
       Successors(A) \subseteq S /\ (\A C \in S : Successors(C) \subseteq S) => B \in S}
=============================================================================
