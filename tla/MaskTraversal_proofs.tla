------------------------ MODULE MaskTraversal_proofs ------------------------
(***************************************************************************)
(* Proofs about MaskTraversal, for every language, vocabulary, limit and   *)
(* order in which the edges of a node are tried.                           *)
(*                                                                         *)
(* The nodes of the frames are the prefixes of one path, the node of the   *)
(* top frame, and the recognizer stands at that node or below it, at what  *)
(* the last edge left.  So every frame's checkpoint, which for Earley is   *)
(* only a number of columns, is one of a prefix of the text at hand        *)
(* (PathInv).  That the walk computes the mask that Guide says, and fails  *)
(* when Guide says, rests on counting: an edge was tried exactly if none   *)
(* of the edges still to do is a prefix of it (Done), whatever the shape   *)
(* of the stack (TallyInv).                                                *)
(***************************************************************************)
EXTENDS MaskTraversal, Guide_proofs, FiniteSetTheorems

\* The nodes of the trie, by their paths.
Node == TriePaths \cup {<< >>}

FrameType ==
  [node : Seq(Byte), todo : SUBSET TriePaths, emitted : BOOLEAN, checkpoint : RecognizerCheckpoint]

WalkType ==
  [running : {TRUE}, root : RecognizerCheckpoint, stack : Seq(FrameType), mask : SUBSET Id,
   visited : Nat, failed : BOOLEAN, before : IdleRecognizer]

\* Whether an edge at p or above it is still to be tried.
Ahead(stack, p) == \E i \in 1..Len(stack) : \E q \in stack[i].todo : IsPrefix(q, p)

\* The edges tried so far, of those the walk from text w tries in all.
Done(w, stack) == {p \in TriedEdges(Ordered(w)) : ~Ahead(stack, p)}

\* The frames of a walk from text w, the top one at P.
FrameInv(w, stack, P, i) ==
  LET f == stack[i]
  IN /\ f.node = SubSeq(P, 1, i - 1)
     /\ f.checkpoint = Checkpoint(Ordered(w \o f.node))
     /\ f.todo \subseteq Children(f.node)
     /\ i > 1 => EdgeOutcome(Ordered(w), f.node) = "live"
     /\ i < Len(stack) => f.emitted /\ SubSeq(P, 1, i) \notin f.todo

PathInv(w, stack, P) ==
  /\ P \in Node
  /\ Len(stack) = Len(P) + 1
  /\ \A i \in 1..Len(stack) : FrameInv(w, stack, P, i)

\* What the walk has found so far.
Emitted(w, stack) ==
  {t \in Token : /\ BytesOf[t] \in Done(w, stack)
                 /\ EdgeOutcome(Ordered(w), BytesOf[t]) = "live"
                 /\ stack # << >> /\ ~Last(stack).emitted => BytesOf[t] # Last(stack).node}

TallyInv(w, stack, mask, visited) ==
  /\ visited = Cardinality(Done(w, stack))
  /\ visited <= MaxMaskTrieEdges
  /\ \A p \in Done(w, stack) : EdgeOutcome(Ordered(w), p) # "limit"
  /\ mask = Emitted(w, stack) \cup (IF Accepting(w) THEN {EOS} ELSE {})

\* The recognizer r of a walk from text w.
PositionInv(w, r, stack, failed) ==
  \E p \in Node :
    /\ r = Ordered(w \o p)
    /\ ~failed /\ stack # << >> =>
         /\ IsPrefix(Last(stack).node, p)
         /\ ~Last(stack).emitted => p = Last(stack).node

RunningInv ==
  LET w == walk.before.scans
  IN /\ walk \in WalkType
     /\ guide \in GuideType
     /\ guide.cached = {} /\ ~guide.finished /\ Backend # "dfa"
     /\ w \in Seq(Byte)
     /\ walk.before = Ordered(w)
     /\ walk.root = Checkpoint(Ordered(w))
     /\ PositionInv(w, guide.rec, walk.stack, walk.failed)
     /\ walk.failed => TraversalFails(Ordered(w))
     /\ ~walk.failed =>
          /\ TallyInv(w, walk.stack, walk.mask, walk.visited)
          /\ walk.stack # << >> => PathInv(w, walk.stack, Last(walk.stack).node)

WalkInv ==
  /\ GuideInv(Settled)
  /\ ReplyInv
  /\ walk.running => RunningInv
  /\ ~walk.running => walk = NoWalk

-----------------------------------------------------------------------------
(* Paths. *)

\* Paths are byte strings that are not empty, and finitely many.
LEMMA PathType ==
  /\ \A p \in TriePaths : p \in Seq(Byte) /\ Len(p) \in Nat /\ Len(p) >= 1
  /\ IsFiniteSet(TriePaths)
<1> DEFINE pathsOf(t) == {SubSeq(BytesOf[t], 1, n) : n \in 1..Len(BytesOf[t])}
<1>1. TriePaths = UNION {pathsOf(t) : t \in Token}
  BY DEF TriePaths
<1>2. \A p \in TriePaths : p \in Seq(Byte) /\ Len(p) \in Nat /\ Len(p) >= 1
  <2> SUFFICES ASSUME NEW t \in Token, NEW n \in 1..Len(BytesOf[t])
               PROVE  LET p == SubSeq(BytesOf[t], 1, n) IN p \in Seq(Byte) /\ Len(p) \in Nat /\ Len(p) >= 1
    BY <1>1
  <2>1. BytesOf[t] \in Seq(Byte)
    BY TokenBytes
  <2> QED BY <2>1
<1>3. \A t \in Token : IsFiniteSet(pathsOf(t))
  <2> SUFFICES ASSUME NEW t \in Token PROVE IsFiniteSet(pathsOf(t))
    OBVIOUS
  <2>1. Len(BytesOf[t]) \in Nat
    BY TokenBytes
  <2>2. IsFiniteSet(1..Len(BytesOf[t]))
    BY <2>1, FS_Interval
  <2> DEFINE f == [n \in 1..Len(BytesOf[t]) |-> SubSeq(BytesOf[t], 1, n)]
  <2>3. pathsOf(t) = {f[n] : n \in 1..Len(BytesOf[t])}
    OBVIOUS
  <2>4. f \in Surjection(1..Len(BytesOf[t]), pathsOf(t))
    BY <2>3 DEF Surjection
  <2> QED BY <2>2, <2>4, FS_Surjection
<1>4. IsFiniteSet({pathsOf(t) : t \in Token})
  <2> DEFINE f == [t \in Token |-> pathsOf(t)]
  <2>1. f \in Surjection(Token, {pathsOf(t) : t \in Token})
    BY DEF Surjection
  <2> QED BY <2>1, FS_Surjection, VocabularyAssumption
<1>5. IsFiniteSet(TriePaths)
  <2>1. \A S \in {pathsOf(t) : t \in Token} : IsFiniteSet(S)
    BY <1>3
  <2> HIDE DEF pathsOf
  <2> QED BY <1>1, <1>4, <2>1, FS_UNION
<1> QED BY <1>2, <1>5

\* The beginnings of a path are paths.
LEMMA PathPrefix ==
  ASSUME NEW p \in TriePaths, NEW n \in 1..Len(p)
  PROVE  SubSeq(p, 1, n) \in TriePaths
<1>0. PICK t \in Token : \E m \in 1..Len(BytesOf[t]) : p = SubSeq(BytesOf[t], 1, m)
  BY DEF TriePaths
<1>1. PICK m \in 1..Len(BytesOf[t]) : p = SubSeq(BytesOf[t], 1, m)
  BY <1>0
<1>2. BytesOf[t] \in Seq(Byte) /\ Len(BytesOf[t]) \in Nat
  BY TokenBytes
<1>3. Len(p) = m
  BY <1>1, <1>2
<1>4. SubSeq(p, 1, n) = SubSeq(BytesOf[t], 1, n) /\ n \in 1..Len(BytesOf[t])
  BY <1>1, <1>2, <1>3
<1> QED BY <1>4 DEF TriePaths

\* A prefix is what comes up to its own length.
LEMMA PrefixIsSubSeq ==
  ASSUME NEW q \in Seq(Byte), NEW p \in Seq(Byte)
  PROVE  IsPrefix(q, p) <=> Len(q) <= Len(p) /\ q = SubSeq(p, 1, Len(q))
BY DEF IsPrefix

\* Every sequence is a prefix of itself.
LEMMA PrefixOfItself ==
  ASSUME NEW s \in Seq(Byte)
  PROVE  IsPrefix(s, s)
<1>1. Len(s) <= Len(s) /\ SubSeq(s, 1, Len(s)) = s
  OBVIOUS
<1> QED BY <1>1, PrefixIsSubSeq

\* The beginning of a sequence.
LEMMA Beginning ==
  ASSUME NEW s \in Seq(Byte), NEW n \in 0..Len(s)
  PROVE  /\ SubSeq(s, 1, n) \in Seq(Byte) /\ Len(SubSeq(s, 1, n)) = n
         /\ \A m \in 0..n : SubSeq(SubSeq(s, 1, n), 1, m) = SubSeq(s, 1, m)
OBVIOUS

\* The front of a sequence that is not empty.
LEMMA FrontIsBeginning ==
  ASSUME NEW s \in Seq(Byte), Len(s) >= 1
  PROVE  /\ Front(s) = SubSeq(s, 1, Len(s) - 1)
         /\ Front(s) \in Seq(Byte) /\ Len(Front(s)) = Len(s) - 1
<1>1. Len(s) - 1 \in 0..Len(s)
  OBVIOUS
<1>2. Front(s) = SubSeq(s, 1, Len(s) - 1)
  BY DEF Front
<1> QED BY <1>1, <1>2, Beginning

\* A child is its node and one byte.
LEMMA ChildSplits ==
  ASSUME NEW P \in Seq(Byte), NEW p \in Children(P)
  PROVE  /\ p \in TriePaths /\ p \in Seq(Byte) /\ Len(p) = Len(P) + 1
         /\ SubSeq(p, 1, Len(P)) = P /\ Front(p) = P
         /\ Last(p) \in Byte /\ p = P \o <<Last(p)>>
<1>1. p \in TriePaths /\ Front(p) = P /\ p \in Seq(Byte) /\ Len(p) \in Nat /\ Len(p) >= 1
  BY PathType DEF Children
<1>2. P = SubSeq(p, 1, Len(p) - 1) /\ Len(P) = Len(p) - 1
  BY <1>1, FrontIsBeginning
<1>3. Last(p) = p[Len(p)] /\ p[Len(p)] \in Byte
  BY <1>1 DEF Last
<1>4. p = SubSeq(p, 1, Len(p) - 1) \o <<p[Len(p)]>>
  BY <1>1
<1>5. Len(p) = Len(P) + 1
  BY <1>1, <1>2
<1> QED BY <1>1, <1>2, <1>3, <1>4, <1>5

\* A path is a child of its node.
LEMMA PathIsChild ==
  ASSUME NEW p \in TriePaths
  PROVE  /\ Front(p) \in Node /\ Front(p) \in Seq(Byte) /\ p \in Children(Front(p))
         /\ Front(p) = SubSeq(p, 1, Len(p) - 1)
         /\ Len(Front(p)) = Len(p) - 1
<1>1. p \in Seq(Byte) /\ Len(p) \in Nat /\ Len(p) >= 1
  BY PathType
<1>2. /\ Front(p) = SubSeq(p, 1, Len(p) - 1)
      /\ Front(p) \in Seq(Byte) /\ Len(Front(p)) = Len(p) - 1
  BY <1>1, FrontIsBeginning
<1>4. Front(p) \in Node
  <2>1. CASE Len(p) = 1
    <3>1. Len(Front(p)) = 0
      BY <1>2, <2>1
    <3> QED BY <1>2, <3>1, EmptySeq DEF Node
  <2>2. CASE Len(p) > 1
    <3>1. Len(p) - 1 \in 1..Len(p)
      BY <1>1, <2>2
    <3> QED BY <1>2, <3>1, PathPrefix DEF Node
  <2>3. PICK k \in Nat : k = Len(p) /\ k >= 1
    BY <1>1
  <2>4. Len(p) = 1 \/ Len(p) > 1
    BY <2>3
  <2> QED BY <2>1, <2>2, <2>4
<1> QED BY <1>2, <1>4 DEF Children

\* A node is a sequence of bytes, and none but the root is empty.
LEMMA NodeType ==
  ASSUME NEW P \in Node
  PROVE  P \in Seq(Byte) /\ Len(P) \in Nat /\ (P # << >> => P \in TriePaths /\ Len(P) >= 1)
<1>1. CASE P = << >>
  BY <1>1
<1>2. CASE P \in TriePaths
  BY <1>2, PathType
<1> QED BY <1>1, <1>2 DEF Node

\* How an edge ends says whether the text it leads to is viable.
LEMMA EdgeEnds ==
  ASSUME NEW w \in Seq(Byte), NEW p \in TriePaths
  PROVE  /\ EdgeOutcome(Ordered(w), p) \in {"live", "rejected", "limit"}
         /\ EdgeOutcome(Ordered(w), p) = "live" => Live(w \o p)
         /\ EdgeOutcome(Ordered(w), p) = "rejected" => ~Live(w \o p)
         /\ Live(w \o p) => EdgeOutcome(Ordered(w), p) \in {"live", "limit"}
<1>1. p \in Seq(Byte) /\ Len(p) \in 1..Len(p) /\ SubSeq(p, 1, Len(p)) = p
  BY PathType
<1>2. EdgeOutcome(Ordered(w), p) = ByteEnds(Ordered(w), p, Len(p))
  BY <1>1, EdgeIsByte, FedOrdered
<1>3. ByteEnds(Ordered(w), p, Len(p)) \in {"live", "rejected", "limit"}
  BY DEF ByteEnds, ByteOutcome
<1> QED BY <1>1, <1>2, <1>3, ByteEndsAtText

\* The walk tries what is above an edge it tries, and only enters viable texts.
LEMMA TriedAbove ==
  ASSUME NEW w \in Seq(Byte), NEW x \in TriedEdges(Ordered(w)), NEW n \in 1..Len(x)
  PROVE  /\ SubSeq(x, 1, n) \in TriedEdges(Ordered(w))
         /\ n < Len(x) => Live(w \o SubSeq(x, 1, n))
<1> PICK q : q = SubSeq(x, 1, n)
  OBVIOUS
<1>1. x \in TriePaths /\ (Len(x) = 1 \/ Live(w \o Front(x)))
  BY DEF TriedEdges, Ordered
<1>2. x \in Seq(Byte) /\ Len(x) \in Nat /\ Len(x) >= 1
  BY <1>1, PathType
<1>3. Front(x) = SubSeq(x, 1, Len(x) - 1) /\ Front(x) \in Seq(Byte) /\ Len(Front(x)) = Len(x) - 1
  BY <1>2, FrontIsBeginning
<1>4. q \in TriePaths /\ q \in Seq(Byte) /\ Len(q) = n
  BY <1>1, <1>2, PathPrefix, Beginning
<1>5. \A m \in 0..Len(x) - 1 : Len(x) # 1 => Live(w \o SubSeq(x, 1, m))
  <2> SUFFICES ASSUME NEW m \in 0..Len(x) - 1, Len(x) # 1
               PROVE  Live(w \o SubSeq(x, 1, m))
    OBVIOUS
  <2>1. Live(w \o SubSeq(Front(x), 1, m))
    BY <1>1, <1>3, LivePieces
  <2>2. SubSeq(Front(x), 1, m) = SubSeq(x, 1, m)
    BY <1>2, <1>3, Beginning
  <2> QED BY <2>1, <2>2
<1>0. PICK k \in Nat : k = Len(x) /\ k >= 1 /\ n \in 1..k
  BY <1>2
<1>6. n < Len(x) => Live(w \o q)
  <2>1. n < k => k # 1 /\ n \in 0..k - 1
    BY <1>0
  <2> QED BY <1>0, <1>5, <2>1
<1>7. q \in TriedEdges(Ordered(w))
  <2>1. Front(q) = SubSeq(q, 1, n - 1)
    <3>1. n >= 1 /\ Len(q) = n /\ q \in Seq(Byte)
      BY <1>0, <1>4
    <3>2. Len(q) >= 1
      BY <3>1
    <3> QED BY <3>1, <3>2, FrontIsBeginning
  <2>2. n - 1 \in 0..n /\ n \in 0..Len(x)
    BY <1>0
  <2>3. Front(q) = SubSeq(x, 1, n - 1)
    BY <1>2, <2>1, <2>2, Beginning
  <2>4. n = 1 \/ (n - 1 \in 0..Len(x) - 1 /\ Len(x) # 1)
    BY <1>0
  <2>5. n = 1 \/ Live(w \o Front(q))
    BY <1>5, <2>3, <2>4
  <2> QED BY <1>4, <2>5 DEF TriedEdges, Ordered
<1> QED BY <1>6, <1>7

\* Only finitely many edges are tried.
LEMMA TriedFinite ==
  ASSUME NEW r
  PROVE  IsFiniteSet(TriedEdges(r)) /\ Cardinality(TriedEdges(r)) \in Nat
<1>1. TriedEdges(r) \subseteq TriePaths
  BY DEF TriedEdges
<1> QED BY <1>1, PathType, FS_Subset, FS_CardinalityType

-----------------------------------------------------------------------------
(* The stack. *)

\* What is to be tried at a frame is one byte longer than the frame's node.
LEMMA TodoIsPath ==
  ASSUME NEW w \in Seq(Byte), NEW stack, NEW P, PathInv(w, stack, P),
         NEW i \in 1..Len(stack), NEW q \in stack[i].todo
  PROVE  /\ q \in TriePaths /\ q \in Seq(Byte) /\ Len(q) = i
         /\ SubSeq(q, 1, i - 1) = SubSeq(P, 1, i - 1)
         /\ i < Len(stack) => q # SubSeq(P, 1, i)
<1>1. P \in Seq(Byte) /\ Len(P) \in Nat /\ Len(stack) = Len(P) + 1
  BY NodeType DEF PathInv
<1>2. FrameInv(w, stack, P, i)
  BY DEF PathInv
<1> PICK N : N = SubSeq(P, 1, i - 1)
  OBVIOUS
<1>3. q \in Children(N) /\ (i < Len(stack) => SubSeq(P, 1, i) \notin stack[i].todo)
  BY <1>2 DEF FrameInv
<1>4. i - 1 \in 0..Len(P)
  BY <1>1
<1>5. N \in Seq(Byte) /\ Len(N) = i - 1
  BY <1>1, <1>4, Beginning
<1>6. q \in TriePaths /\ q \in Seq(Byte) /\ Len(q) = Len(N) + 1 /\ SubSeq(q, 1, Len(N)) = N
  BY <1>3, <1>5, ChildSplits
<1>7. Len(q) = i
  BY <1>5, <1>6
<1> QED BY <1>3, <1>5, <1>6, <1>7

\* Nothing else on the stack lies above what is below a child of the top node.
LEMMA OnlyTopLiesAbove ==
  ASSUME NEW w \in Seq(Byte), NEW stack, NEW P, PathInv(w, stack, P),
         NEW p \in Children(P), NEW x \in Seq(Byte), IsPrefix(p, x),
         NEW i \in 1..Len(stack), NEW q \in stack[i].todo, IsPrefix(q, x)
  PROVE  q = p /\ i = Len(stack)
<1>1. P \in Seq(Byte) /\ Len(P) \in Nat /\ Len(stack) = Len(P) + 1
  BY NodeType DEF PathInv
<1>2. p \in Seq(Byte) /\ Len(p) = Len(P) + 1 /\ SubSeq(p, 1, Len(P)) = P
  BY <1>1, ChildSplits
<1>3. q \in Seq(Byte) /\ Len(q) = i /\ (i < Len(stack) => q # SubSeq(P, 1, i))
  BY TodoIsPath
<1>4. p = SubSeq(x, 1, Len(p)) /\ Len(p) <= Len(x) /\ q = SubSeq(x, 1, i)
  BY <1>2, <1>3, PrefixIsSubSeq
<1> PICK k \in Nat : k = Len(P)
  BY <1>1
<1>5. k + 1 \in 0..Len(x) /\ i \in 0..k + 1
  BY <1>1, <1>2, <1>4
<1>6. q = SubSeq(p, 1, i)
  BY <1>1, <1>2, <1>4, <1>5, Beginning
<1>7. i <= k => q = SubSeq(P, 1, i)
  <2> SUFFICES ASSUME i <= k PROVE q = SubSeq(P, 1, i)
    OBVIOUS
  <2>1. i \in 0..k /\ k \in 0..Len(p)
    BY <1>2
  <2> QED BY <1>2, <1>6, <2>1, Beginning
<1>8. i = k + 1
  BY <1>1, <1>3, <1>7
<1>9. SubSeq(p, 1, k + 1) = p
  BY <1>2
<1> QED BY <1>1, <1>6, <1>8, <1>9

\* The stack after one edge p of the top frame: the edge is done, and below it
\* what is to be done if p was entered.
AfterEdge(w, stack, p, next) ==
  LET popped == [stack EXCEPT ![Len(stack)].todo = @ \ {p}]
  IN \/ next = popped /\ EdgeOutcome(Ordered(w), p) # "live"
     \/ /\ EdgeOutcome(Ordered(w), p) = "live"
        /\ next = Append(popped, [node |-> p, todo |-> Children(p), emitted |-> FALSE,
                                  checkpoint |-> Checkpoint(Ordered(w \o p))])

\* The frames of a stack after an edge.
LEMMA AfterEdgeFrames ==
  ASSUME NEW w \in Seq(Byte), NEW stack \in Seq(FrameType), stack # << >>,
         NEW p \in TriePaths, NEW next, AfterEdge(w, stack, p, next)
  PROVE  /\ Len(stack) \in Nat /\ Len(stack) >= 1 /\ next \in Seq(FrameType)
         /\ \A i \in 1..Len(stack) - 1 : next[i] = stack[i]
         /\ next[Len(stack)] = [stack[Len(stack)] EXCEPT !.todo = @ \ {p}]
         /\ EdgeOutcome(Ordered(w), p) # "live" => Len(next) = Len(stack)
         /\ EdgeOutcome(Ordered(w), p) = "live" =>
              /\ Len(next) = Len(stack) + 1
              /\ next[Len(stack) + 1] =
                   [node |-> p, todo |-> Children(p), emitted |-> FALSE,
                    checkpoint |-> Checkpoint(Ordered(w \o p))]
<1> PICK n : n = Len(stack)
  OBVIOUS
<1> PICK f : f = [node |-> p, todo |-> Children(p), emitted |-> FALSE,
                  checkpoint |-> Checkpoint(Ordered(w \o p))]
  OBVIOUS
<1>1. n \in Nat /\ n >= 1 /\ n \in 1..Len(stack) /\ stack[n] \in FrameType
  BY EmptySeq
<1>0. PICK top : top = [stack[n] EXCEPT !.todo = @ \ {p}]
  OBVIOUS
<1>2. top \in FrameType
  BY <1>0, <1>1 DEF FrameType
<1>p. PICK popped : popped = [stack EXCEPT ![n] = top]
  OBVIOUS
<1>3. /\ popped \in Seq(FrameType) /\ Len(popped) = n
      /\ \A i \in 1..n - 1 : popped[i] = stack[i]
      /\ popped[n] = top
  <2>1. popped \in Seq(FrameType) /\ Len(popped) = n
    BY <1>1, <1>2, <1>p, ExceptSeq
  <2>2. \A i \in 1..Len(stack) : popped[i] = IF i = n THEN top ELSE stack[i]
    BY <1>1, <1>2, <1>p, ExceptSeq
  <2>3. \A i \in 1..n - 1 : i \in 1..Len(stack) /\ i # n
    BY <1>1
  <2>4. \A i \in 1..n - 1 : popped[i] = stack[i]
    BY <2>2, <2>3
  <2>5. popped[n] = top
    BY <1>1, <2>2
  <2> QED BY <2>1, <2>4, <2>5
<1>q. popped = [stack EXCEPT ![Len(stack)].todo = @ \ {p}]
  BY <1>0, <1>p
<1>4. CASE next = popped /\ EdgeOutcome(Ordered(w), p) # "live"
  BY <1>0, <1>1, <1>3, <1>4
<1>5. CASE next = Append(popped, f) /\ EdgeOutcome(Ordered(w), p) = "live"
  <2>1. p \in Seq(Byte) /\ Children(p) \subseteq TriePaths
    BY PathType DEF Children
  <2>2. Checkpoint(Ordered(w \o p)) \in RecognizerCheckpoint
    BY <2>1, FedOrdered DEF Checkpoint, RecognizerCheckpoint, Ordered
  <2>3. f \in FrameType
    BY <2>1, <2>2 DEF FrameType
  <2>4. /\ next \in Seq(FrameType) /\ Len(next) = n + 1 /\ next[n + 1] = f
        /\ \A i \in 1..n : next[i] = popped[i]
    BY <1>3, <1>5, <2>3, AppendProperties
  <2>5. /\ \A i \in 1..n - 1 : next[i] = stack[i]
        /\ next[n] = top
    BY <1>1, <1>3, <2>4
  <2> QED BY <1>0, <1>1, <1>5, <2>4, <2>5
<1> QED BY <1>4, <1>5, <1>q DEF AfterEdge

\* What is ahead of an edge x after edge p: what was, but for p itself, and the
\* children of p if it was entered.
LEMMA AheadAfterEdge ==
  ASSUME NEW w \in Seq(Byte), NEW stack \in Seq(FrameType), stack # << >>,
         NEW p \in TriePaths, NEW next, AfterEdge(w, stack, p, next), NEW x
  PROVE  LET n == Len(stack)
         IN Ahead(next, x) <=>
              \/ \E i \in 1..n : \E q \in stack[i].todo : IsPrefix(q, x) /\ (i = n => q # p)
              \/ EdgeOutcome(Ordered(w), p) = "live" /\ \E q \in Children(p) : IsPrefix(q, x)
<1> PICK n : n = Len(stack)
  OBVIOUS
<1> DEFINE live == EdgeOutcome(Ordered(w), p) = "live"
<1> PICK m : m = IF live THEN n + 1 ELSE n
  OBVIOUS
<1>1. /\ n \in Nat /\ n >= 1 /\ stack[n] \in FrameType /\ Len(next) = m
      /\ \A i \in 1..n - 1 : next[i] = stack[i]
      /\ next[n] = [stack[n] EXCEPT !.todo = @ \ {p}]
      /\ m = n + 1 => next[m].todo = Children(p)
  <2>1. Len(stack) \in 1..Len(stack)
    BY EmptySeq
  <2>2. stack[n] \in FrameType
    BY <2>1
  <2>3. /\ Len(stack) \in Nat /\ Len(stack) >= 1
        /\ \A i \in 1..Len(stack) - 1 : next[i] = stack[i]
        /\ next[Len(stack)] = [stack[Len(stack)] EXCEPT !.todo = @ \ {p}]
        /\ ~live => Len(next) = Len(stack)
        /\ live => /\ Len(next) = Len(stack) + 1
                   /\ next[Len(stack) + 1] =
                        [node |-> p, todo |-> Children(p), emitted |-> FALSE,
                         checkpoint |-> Checkpoint(Ordered(w \o p))]
    BY AfterEdgeFrames
  <2>4. live => next[Len(stack) + 1].todo = Children(p)
    BY <2>3
  <2> HIDE DEF live
  <2> QED BY <2>2, <2>3, <2>4
<1> HIDE DEF live
<1>2. next[n].todo = stack[n].todo \ {p}
  BY <1>1 DEF FrameType
<1>3. Ahead(next, x) <=> \E i \in 1..m : \E q \in next[i].todo : IsPrefix(q, x)
  BY <1>1 DEF Ahead
<1>4. \A i \in 1..n : \A q : q \in next[i].todo <=> q \in stack[i].todo /\ (i = n => q # p)
  <2>1. \A i \in 1..n : i = n \/ i \in 1..n - 1
    BY <1>1
  <2> QED BY <1>1, <1>2, <2>1
<1>5. \A i : i \in 1..m <=> i \in 1..n \/ (live /\ i = n + 1)
  BY <1>1
<1>6. live => next[n + 1].todo = Children(p)
  BY <1>1
<1>7. ASSUME Ahead(next, x)
      PROVE  \/ \E i \in 1..n : \E q \in stack[i].todo : IsPrefix(q, x) /\ (i = n => q # p)
             \/ live /\ \E q \in Children(p) : IsPrefix(q, x)
  <2>1. PICK i \in 1..m : \E q \in next[i].todo : IsPrefix(q, x)
    BY <1>3, <1>7
  <2>2. CASE i \in 1..n
    BY <1>4, <2>1, <2>2
  <2>3. CASE live /\ i = n + 1
    BY <1>6, <2>1, <2>3
  <2> QED BY <1>5, <2>1, <2>2, <2>3
<1>8. ASSUME NEW i \in 1..n, NEW q \in stack[i].todo, IsPrefix(q, x), i = n => q # p
      PROVE  Ahead(next, x)
  BY <1>3, <1>4, <1>5, <1>8
<1>9. ASSUME live, NEW q \in Children(p), IsPrefix(q, x)
      PROVE  Ahead(next, x)
  BY <1>3, <1>5, <1>6, <1>9
<1> QED BY <1>7, <1>8, <1>9 DEF live

\* One more edge is done, p, and no other.
LEMMA DoneGrows ==
  ASSUME NEW w \in Seq(Byte), NEW stack \in Seq(FrameType), stack # << >>,
         NEW P, PathInv(w, stack, P), NEW p \in stack[Len(stack)].todo,
         Len(p) = 1 \/ Live(w \o P), EdgeOutcome(Ordered(w), p) # "limit",
         NEW next, AfterEdge(w, stack, p, next)
  PROVE  /\ p \in TriedEdges(Ordered(w)) /\ p \notin Done(w, stack)
         /\ Done(w, next) = Done(w, stack) \cup {p}
<1> PICK n : n = Len(stack)
  OBVIOUS
<1>1. /\ n \in Nat /\ n \in 1..n /\ P \in Seq(Byte) /\ Len(P) \in Nat /\ n = Len(P) + 1
  BY NodeType DEF PathInv
<1>2. p \in Children(P)
  <2>1. FrameInv(w, stack, P, n) /\ SubSeq(P, 1, n - 1) = P
    BY <1>1 DEF PathInv
  <2> QED BY <2>1 DEF FrameInv
<1>3. p \in TriePaths /\ p \in Seq(Byte) /\ Len(p) = n /\ Front(p) = P /\ SubSeq(p, 1, n) = p
  <2>1. p \in TriePaths /\ p \in Seq(Byte) /\ Len(p) = Len(P) + 1 /\ Front(p) = P
    BY <1>1, <1>2, ChildSplits
  <2> QED BY <1>1, <2>1
<1>4. p \in TriedEdges(Ordered(w))
  BY <1>3 DEF TriedEdges, Ordered
<1>5. IsPrefix(p, p)
  BY <1>3, PrefixIsSubSeq
<1>6. Ahead(stack, p)
  BY <1>1, <1>5 DEF Ahead
<1>7. ASSUME NEW x \in TriedEdges(Ordered(w))
      PROVE  ~Ahead(next, x) <=> ~Ahead(stack, x) \/ x = p
  <2>1. x \in TriePaths /\ x \in Seq(Byte) /\ Len(x) \in Nat
    BY PathType DEF TriedEdges
  <2>2. Ahead(stack, x) <=> \E i \in 1..n : \E q \in stack[i].todo : IsPrefix(q, x)
    BY DEF Ahead
  <2>3. Ahead(next, x) <=>
          \/ \E i \in 1..n : \E q \in stack[i].todo : IsPrefix(q, x) /\ (i = n => q # p)
          \/ EdgeOutcome(Ordered(w), p) = "live" /\ \E q \in Children(p) : IsPrefix(q, x)
    BY <1>3, AheadAfterEdge
  <2>4. ASSUME NEW q \in Children(p)
        PROVE  /\ q \in Seq(Byte) /\ Len(q) = n + 1 /\ SubSeq(q, 1, n) = p
    BY <1>3, ChildSplits
  <2>5. CASE ~IsPrefix(p, x)
    <3>1. ASSUME NEW q \in Children(p), IsPrefix(q, x)
          PROVE  FALSE
      <4>1. q \in Seq(Byte) /\ Len(q) = n + 1 /\ SubSeq(q, 1, n) = p
        BY <2>4
      <4>2. Len(q) <= Len(x) /\ q = SubSeq(x, 1, n + 1)
        BY <2>1, <3>1, <4>1, PrefixIsSubSeq
      <4>3. n + 1 \in 0..Len(x) /\ n \in 0..n + 1
        BY <1>1, <2>1, <4>1, <4>2
      <4>4. p = SubSeq(x, 1, n) /\ n <= Len(x)
        BY <2>1, <4>1, <4>2, <4>3, Beginning
      <4> QED BY <1>3, <2>1, <2>5, <4>4, PrefixIsSubSeq
    <3>2. x # p
      BY <1>5, <2>5
    <3> QED BY <2>2, <2>3, <2>5, <3>1, <3>2
  <2>6. CASE IsPrefix(p, x)
    <3>1. Ahead(stack, x)
      BY <1>1, <2>2, <2>6
    <3>2. \A i \in 1..n : \A q \in stack[i].todo : IsPrefix(q, x) => q = p /\ i = n
      BY <1>2, <2>1, <2>6, OnlyTopLiesAbove
    <3>3. p = SubSeq(x, 1, n) /\ n <= Len(x)
      BY <1>3, <2>1, <2>6, PrefixIsSubSeq
    <3>4. CASE x = p
      <4>1. ASSUME NEW q \in Children(p), IsPrefix(q, x)
            PROVE  FALSE
        <5>1. q \in Seq(Byte) /\ Len(q) = n + 1
          BY <2>4
        <5>2. Len(q) <= Len(x)
          BY <2>1, <4>1, <5>1, PrefixIsSubSeq
        <5> QED BY <1>1, <1>3, <3>4, <5>1, <5>2
      <4> QED BY <2>3, <3>2, <3>4, <4>1
    <3>5. CASE x # p
      <4>1. n < Len(x)
        <5>1. Len(x) = n => SubSeq(x, 1, n) = x
          BY <2>1
        <5> QED BY <1>1, <2>1, <3>3, <3>5, <5>1
      <4>2. n \in 1..Len(x) /\ n + 1 \in 1..Len(x) /\ n \in 0..n + 1 /\ n + 1 \in 0..Len(x)
        BY <1>1, <2>1, <4>1
      <4>3. Live(w \o p)
        BY <3>3, <4>1, <4>2, TriedAbove
      <4>4. EdgeOutcome(Ordered(w), p) = "live"
        BY <1>3, <4>3, EdgeEnds
      <4> PICK q : q = SubSeq(x, 1, n + 1)
        OBVIOUS
      <4>5. q \in TriePaths /\ q \in Seq(Byte) /\ Len(q) = n + 1
        BY <2>1, <4>2, PathPrefix, Beginning
      <4>6. IsPrefix(q, x)
        <5>1. Len(q) <= Len(x) /\ q = SubSeq(x, 1, Len(q))
          BY <2>1, <4>2, <4>5
        <5> QED BY <2>1, <4>5, <5>1, PrefixIsSubSeq
      <4>7. Front(q) = p
        <5>1. Len(q) >= 1 /\ Len(q) - 1 = n
          BY <1>1, <4>5
        <5>2. Front(q) = SubSeq(q, 1, n)
          BY <4>5, <5>1, FrontIsBeginning
        <5> QED BY <2>1, <3>3, <4>2, <5>2, Beginning
      <4>8. q \in Children(p)
        BY <4>5, <4>7 DEF Children
      <4> QED BY <2>3, <3>1, <3>5, <4>4, <4>6, <4>8
    <3> QED BY <3>4, <3>5
  <2> QED BY <2>5, <2>6
<1> QED BY <1>4, <1>6, <1>7 DEF Done

\* After an edge that was not entered the top frame is the same; after one that
\* was, it is that of the edge.
LEMMA PathAfterEdge ==
  ASSUME NEW w \in Seq(Byte), NEW stack \in Seq(FrameType), stack # << >>,
         NEW P, PathInv(w, stack, P), NEW p \in stack[Len(stack)].todo,
         stack[Len(stack)].emitted,
         NEW next, AfterEdge(w, stack, p, next)
  PROVE  /\ next # << >> /\ next \in Seq(FrameType)
         /\ EdgeOutcome(Ordered(w), p) = "live" =>
              PathInv(w, next, p) /\ Last(next).node = p /\ ~Last(next).emitted
         /\ EdgeOutcome(Ordered(w), p) # "live" =>
              PathInv(w, next, P) /\ Last(next).node = P /\ Last(next).emitted
<1> DEFINE live == EdgeOutcome(Ordered(w), p) = "live"
<1> PICK n : n = Len(stack)
  OBVIOUS
<1> PICK m : m = IF live THEN n + 1 ELSE n
  OBVIOUS
<1> PICK N : N = IF live THEN p ELSE P
  OBVIOUS
<1>1. /\ n \in Nat /\ n \in 1..n /\ P \in Seq(Byte) /\ Len(P) \in Nat /\ n = Len(P) + 1
      /\ P \in Node
  BY NodeType DEF PathInv
<1>2. stack[n] \in FrameType /\ SubSeq(P, 1, n - 1) = P
  <2>1. n \in 1..Len(stack)
    BY <1>1
  <2>2. stack[n] \in FrameType
    BY <2>1
  <2>3. SubSeq(P, 1, Len(P)) = P
    BY <1>1
  <2> QED BY <1>1, <2>2, <2>3
<1>3. p \in Children(P)
  BY <1>1, <1>2 DEF FrameInv, PathInv
<1>4. /\ p \in TriePaths /\ p \in Seq(Byte) /\ Len(p) = n /\ SubSeq(p, 1, n - 1) = P
      /\ SubSeq(p, 1, n) = p
  <2>1. /\ p \in TriePaths /\ p \in Seq(Byte) /\ Len(p) = Len(P) + 1
        /\ SubSeq(p, 1, Len(P)) = P
    BY <1>1, <1>3, ChildSplits
  <2> QED BY <1>1, <2>1
<1>5. /\ next \in Seq(FrameType) /\ Len(next) = m
      /\ \A i \in 1..n - 1 : next[i] = stack[i]
      /\ next[n] = [stack[n] EXCEPT !.todo = @ \ {p}]
      /\ live =>
           next[m] = [node |-> p, todo |-> Children(p), emitted |-> FALSE,
                      checkpoint |-> Checkpoint(Ordered(w \o p))]
  <2>1. /\ next \in Seq(FrameType)
        /\ \A i \in 1..Len(stack) - 1 : next[i] = stack[i]
        /\ next[Len(stack)] = [stack[Len(stack)] EXCEPT !.todo = @ \ {p}]
        /\ ~live => Len(next) = Len(stack)
        /\ live => /\ Len(next) = Len(stack) + 1
                   /\ next[Len(stack) + 1] =
                        [node |-> p, todo |-> Children(p), emitted |-> FALSE,
                         checkpoint |-> Checkpoint(Ordered(w \o p))]
    BY <1>4, AfterEdgeFrames
  <2> HIDE DEF live
  <2> QED BY <2>1
<1> HIDE DEF live
<1>m. /\ m \in Nat /\ m >= 1 /\ m \in 1..m
      /\ live => m = n + 1
      /\ ~live => m = n
  BY <1>1
<1>6. /\ next[n].node = stack[n].node /\ next[n].checkpoint = stack[n].checkpoint
      /\ next[n].emitted = stack[n].emitted /\ next[n].todo = stack[n].todo \ {p}
  BY <1>2, <1>5 DEF FrameType
<1>7. next # << >> /\ Last(next) = next[m]
  BY <1>5, <1>m, EmptySeq DEF Last
<1>8. \A i \in 0..n - 1 : SubSeq(N, 1, i) = SubSeq(P, 1, i)
  <2> SUFFICES ASSUME NEW i \in 0..n - 1, live PROVE SubSeq(p, 1, i) = SubSeq(P, 1, i)
    OBVIOUS
  <2>1. n - 1 \in 0..Len(p)
    BY <1>1, <1>4
  <2> QED BY <1>4, <2>1, Beginning
<1>9. N \in Node /\ m = Len(N) + 1
  BY <1>1, <1>4, <1>m DEF Node
<1>10. ASSUME NEW i \in 1..n - 1
       PROVE  FrameInv(w, next, N, i)
  <2>1. FrameInv(w, stack, P, i) /\ i < Len(stack) /\ i < Len(next)
    BY <1>1, <1>5, <1>m DEF PathInv
  <2>2. i - 1 \in 0..n - 1 /\ i \in 0..n - 1
    BY <1>1
  <2>3. SubSeq(N, 1, i - 1) = SubSeq(P, 1, i - 1) /\ SubSeq(N, 1, i) = SubSeq(P, 1, i)
    BY <1>8, <2>2
  <2>4. next[i] = stack[i]
    BY <1>5
  <2> QED BY <2>1, <2>3, <2>4 DEF FrameInv
<1>11. FrameInv(w, next, N, n)
  <2>1. FrameInv(w, stack, P, n)
    BY <1>1 DEF PathInv
  <2>2. SubSeq(N, 1, n - 1) = SubSeq(P, 1, n - 1)
    BY <1>1, <1>8
  <2>3. n < Len(next) => next[n].emitted /\ SubSeq(N, 1, n) \notin next[n].todo
    <3>1. n < Len(next) => live
      <4> SUFFICES ASSUME ~live PROVE ~(n < Len(next))
        OBVIOUS
      <4>1. Len(next) = n
        BY <1>5, <1>m
      <4> QED BY <1>1, <4>1
    <3>2. live => SubSeq(N, 1, n) = p
      BY <1>4
    <3> QED BY <1>6, <3>1, <3>2
  <2> QED BY <1>6, <2>1, <2>2, <2>3 DEF FrameInv
<1>12. live => FrameInv(w, next, N, m)
  <2> SUFFICES ASSUME live PROVE FrameInv(w, next, p, n + 1)
    BY <1>m
  <2>1. /\ next[n + 1].node = p /\ next[n + 1].checkpoint = Checkpoint(Ordered(w \o p))
        /\ next[n + 1].todo = Children(p)
    BY <1>5, <1>m
  <2>2. Len(next) = n + 1
    BY <1>5, <1>m
  <2>3. ~(n + 1 < Len(next)) /\ n + 1 - 1 = n
    BY <1>1, <2>2
  <2>4. SubSeq(p, 1, n + 1 - 1) = p
    BY <1>4, <2>3
  <2>5. EdgeOutcome(Ordered(w), p) = "live"
    BY DEF live
  <2> QED BY <2>1, <2>3, <2>4, <2>5 DEF FrameInv
<1>13. \A i \in 1..m : i \in 1..n - 1 \/ i = n \/ (i = m /\ live)
  BY <1>1, <1>m
<1>14. PathInv(w, next, N)
  <2>1. \A i \in 1..Len(next) : FrameInv(w, next, N, i)
    BY <1>5, <1>10, <1>11, <1>12, <1>13
  <2> QED BY <1>5, <1>9, <2>1 DEF PathInv
<1>15. CASE live
  BY <1>5, <1>7, <1>14, <1>15, <1>m DEF live
<1>16. CASE ~live
  <2>1. stack[n].node = P
    BY <1>1, <1>2 DEF FrameInv, PathInv
  <2> QED BY <1>5, <1>6, <1>7, <1>14, <1>16, <1>m, <2>1 DEF live
<1> QED BY <1>15, <1>16

-----------------------------------------------------------------------------
(* What the walk has found. *)

\* The count goes up by one edge, which is within the limit; the mask is the same.
LEMMA TallyAfterEdge ==
  ASSUME NEW w \in Seq(Byte), NEW stack \in Seq(FrameType), stack # << >>,
         NEW P, PathInv(w, stack, P), NEW p \in stack[Len(stack)].todo,
         Len(p) = 1 \/ Live(w \o P), EdgeOutcome(Ordered(w), p) # "limit",
         stack[Len(stack)].emitted,
         NEW next, AfterEdge(w, stack, p, next),
         NEW mask, NEW visited \in Nat, TallyInv(w, stack, mask, visited),
         ~(visited + 1 > MaxMaskTrieEdges)
  PROVE  TallyInv(w, next, mask, visited + 1)
<1>1. /\ p \in TriedEdges(Ordered(w)) /\ p \notin Done(w, stack)
      /\ Done(w, next) = Done(w, stack) \cup {p}
  BY DoneGrows
<1>2. IsFiniteSet(Done(w, stack)) /\ Cardinality(Done(w, stack)) \in Nat
  <2>1. Done(w, stack) \subseteq TriedEdges(Ordered(w))
    BY DEF Done
  <2> QED BY <2>1, TriedFinite, FS_Subset, FS_CardinalityType
<1>3. Cardinality(Done(w, next)) = visited + 1
  BY <1>1, <1>2, FS_AddElement DEF TallyInv
<1>4. Emitted(w, next) = Emitted(w, stack)
  <2>1. \A t \in Token : t \in Emitted(w, stack) <=>
          BytesOf[t] \in Done(w, stack) /\ EdgeOutcome(Ordered(w), BytesOf[t]) = "live"
    BY DEF Emitted, Last
  <2>2. next # << >>
    BY PathAfterEdge
  <2>3. CASE EdgeOutcome(Ordered(w), p) = "live"
    <3>1. Last(next).node = p /\ ~Last(next).emitted
      BY <2>3, PathAfterEdge
    <3>2. \A t \in Token : t \in Emitted(w, next) <=>
            /\ BytesOf[t] \in Done(w, stack) \cup {p}
            /\ EdgeOutcome(Ordered(w), BytesOf[t]) = "live" /\ BytesOf[t] # p
      BY <1>1, <2>2, <3>1 DEF Emitted
    <3> QED BY <1>1, <2>1, <3>2 DEF Emitted
  <2>4. CASE EdgeOutcome(Ordered(w), p) # "live"
    <3>1. Last(next).emitted
      BY <2>4, PathAfterEdge
    <3>2. \A t \in Token : t \in Emitted(w, next) <=>
            /\ BytesOf[t] \in Done(w, stack) \cup {p}
            /\ EdgeOutcome(Ordered(w), BytesOf[t]) = "live"
      BY <1>1, <2>2, <3>1 DEF Emitted
    <3> QED BY <2>1, <2>4, <3>2 DEF Emitted
  <2> QED BY <2>3, <2>4
<1>5. visited + 1 <= MaxMaskTrieEdges
  BY GuideAssumption
<1> QED BY <1>1, <1>3, <1>4, <1>5 DEF TallyInv

\* One edge more than the limit is more than Guide allows.
LEMMA TooManyEdges ==
  ASSUME NEW w \in Seq(Byte), NEW stack \in Seq(FrameType), stack # << >>,
         NEW P, PathInv(w, stack, P), NEW p \in stack[Len(stack)].todo,
         Len(p) = 1 \/ Live(w \o P),
         NEW visited \in Nat, visited = Cardinality(Done(w, stack)),
         visited + 1 > MaxMaskTrieEdges
  PROVE  TraversalFails(Ordered(w))
<1> DEFINE D == Done(w, stack)
           T == TriedEdges(Ordered(w))
<1>1. /\ Len(stack) \in Nat /\ Len(stack) \in 1..Len(stack)
      /\ P \in Seq(Byte) /\ Len(P) \in Nat /\ Len(stack) = Len(P) + 1
  BY NodeType DEF PathInv
<1>2. p \in T /\ p \notin D
  <2>1. FrameInv(w, stack, P, Len(stack)) /\ SubSeq(P, 1, Len(stack) - 1) = P
    BY <1>1 DEF PathInv
  <2>2. p \in TriePaths /\ p \in Seq(Byte) /\ Front(p) = P
    BY <1>1, <2>1, ChildSplits DEF FrameInv
  <2>3. IsPrefix(p, p)
    BY <2>2, PrefixIsSubSeq
  <2> QED BY <1>1, <2>2, <2>3 DEF TriedEdges, Ordered, Done, Ahead
<1>3. D \cup {p} \subseteq T /\ IsFiniteSet(T) /\ Cardinality(T) \in Nat
  BY <1>2, TriedFinite DEF Done
<1>4. IsFiniteSet(D) /\ Cardinality(D \cup {p}) = visited + 1
  <2>1. IsFiniteSet(D)
    BY <1>3, FS_Subset
  <2> QED BY <1>2, <2>1, FS_AddElement
<1>5. visited + 1 <= Cardinality(T)
  BY <1>3, <1>4, FS_Subset
<1>6. Cardinality(T) > MaxMaskTrieEdges
  BY <1>3, <1>5, GuideAssumption
<1> QED BY <1>6 DEF TraversalFails

\* A frame with nothing left to do may be left.
LEMMA LeaveFrame ==
  ASSUME NEW w \in Seq(Byte), NEW stack \in Seq(FrameType), stack # << >>,
         NEW P, PathInv(w, stack, P),
         stack[Len(stack)].emitted, stack[Len(stack)].todo = {},
         NEW mask, NEW visited, TallyInv(w, stack, mask, visited)
  PROVE  LET next == Front(stack)
         IN /\ next \in Seq(FrameType)
            /\ TallyInv(w, next, mask, visited)
            /\ next # << >> => /\ PathInv(w, next, Last(next).node)
                               /\ IsPrefix(Last(next).node, P)
                               /\ Last(next).emitted
<1> PICK next : next = Front(stack)
  OBVIOUS
<1> PICK n : n = Len(stack)
  OBVIOUS
<1>1. /\ n \in Nat /\ n >= 1 /\ P \in Seq(Byte) /\ Len(P) \in Nat /\ n = Len(P) + 1 /\ P \in Node
  BY NodeType DEF PathInv
<1>2. /\ next \in Seq(FrameType) /\ Len(next) = n - 1
      /\ \A i \in 1..n - 1 : next[i] = stack[i]
  <2>1. next = SubSeq(stack, 1, n - 1) /\ n - 1 \in 0..n
    BY <1>1 DEF Front
  <2>2. \A i \in 1..n - 1 : stack[i] \in FrameType
    <3>1. \A i \in 1..n - 1 : i \in 1..Len(stack)
      BY <1>1
    <3> QED BY <3>1, ElementOfSeq
  <2>3. Len(next) = n - 1 /\ \A i \in 1..n - 1 : next[i] = stack[i]
    BY <1>1, <2>1
  <2>4. next \in Seq(FrameType)
    <3>1. \A i \in 1..n - 1 : stack[i] \in FrameType
      BY <2>2
    <3>2. n - 1 = 0 \/ n - 1 \in 1..n
      BY <1>1
    <3> QED BY <1>1, <2>1, <3>1, <3>2, SubSeqProperties
  <2> QED BY <2>3, <2>4
<1>3. \A x : Ahead(next, x) <=> Ahead(stack, x)
  <2> TAKE x
  <2>1. Ahead(stack, x) <=> \E i \in 1..n : \E q \in stack[i].todo : IsPrefix(q, x)
    BY DEF Ahead
  <2>2. Ahead(next, x) <=> \E i \in 1..n - 1 : \E q \in next[i].todo : IsPrefix(q, x)
    BY <1>2 DEF Ahead
  <2>3. \A i : i \in 1..n <=> i \in 1..n - 1 \/ i = n
    BY <1>1
  <2> QED BY <1>2, <2>1, <2>2, <2>3
<1>4. Done(w, next) = Done(w, stack)
  BY <1>3 DEF Done
<1>5. ASSUME next # << >>
      PROVE  /\ PathInv(w, next, Last(next).node)
             /\ IsPrefix(Last(next).node, P)
             /\ Last(next).emitted
  <2> PICK k : k = n - 1
    OBVIOUS
  <2>1. k \in Nat /\ k >= 1 /\ k \in 1..n /\ k < n /\ Len(P) = k /\ k - 1 \in 0..k
    BY <1>1, <1>2, <1>5, EmptySeq
  <2>2. FrameInv(w, stack, P, k)
    BY <2>1 DEF PathInv
  <2>3. Last(next) = stack[k]
    BY <1>2, <2>1 DEF Last
  <2> PICK N : N = SubSeq(P, 1, k - 1)
    OBVIOUS
  <2>4. Last(next).node = N /\ Last(next).emitted
    BY <2>1, <2>2, <2>3 DEF FrameInv
  <2>5. N \in Seq(Byte) /\ Len(N) = k - 1 /\ \A m \in 0..k - 1 : SubSeq(N, 1, m) = SubSeq(P, 1, m)
    BY <1>1, <2>1, Beginning
  <2>6. IsPrefix(N, P)
    <3>1. Len(N) <= Len(P) /\ N = SubSeq(P, 1, Len(N))
      BY <2>1, <2>5
    <3> QED BY <1>1, <2>5, <3>1, PrefixIsSubSeq
  <2>7. N \in Node
    <3>1. CASE k = 1
      <4>1. Len(N) = 0
        <5>1. k - 1 = 0
          BY <2>1, <3>1
        <5> QED BY <2>5, <5>1
      <4> QED BY <2>5, <4>1, EmptySeq DEF Node
    <3>2. CASE k # 1
      <4>0. P # << >>
        BY <2>1
      <4>2. P \in TriePaths
        BY <1>1, <4>0, NodeType
      <4>1. P \in TriePaths /\ k - 1 \in 1..Len(P)
        BY <2>1, <3>2, <4>2
      <4> QED BY <4>1, PathPrefix DEF Node
    <3> QED BY <3>1, <3>2
  <2>8. ASSUME NEW i \in 1..k
        PROVE  FrameInv(w, next, N, i)
    <3>1. FrameInv(w, stack, P, i) /\ i < Len(stack) /\ next[i] = stack[i]
      BY <1>2, <2>1 DEF PathInv
    <3>2. SubSeq(N, 1, i - 1) = SubSeq(P, 1, i - 1)
      BY <2>1, <2>5
    <3>3. i < Len(next) => SubSeq(N, 1, i) = SubSeq(P, 1, i)
      BY <1>2, <2>1, <2>5
    <3> QED BY <3>1, <3>2, <3>3 DEF FrameInv
  <2>9. PathInv(w, next, N)
    BY <1>2, <2>1, <2>5, <2>7, <2>8 DEF PathInv
  <2> QED BY <2>4, <2>6, <2>9
<1>6. Emitted(w, next) = Emitted(w, stack)
  <2>1. next # << >> => Last(next).emitted
    BY <1>5
  <2>2. Last(stack).emitted
    BY DEF Last
  <2> QED BY <1>4, <2>1, <2>2 DEF Emitted
<1>7. TallyInv(w, next, mask, visited)
  BY <1>4, <1>6 DEF TallyInv
<1> QED BY <1>2, <1>5, <1>7

\* The tokens of a node are enabled as soon as the walk is there.
LEMMA EmitFrame ==
  ASSUME NEW w \in Seq(Byte), NEW stack \in Seq(FrameType), stack # << >>,
         NEW P, PathInv(w, stack, P), ~stack[Len(stack)].emitted,
         NEW mask, NEW visited, TallyInv(w, stack, mask, visited)
  PROVE  LET next == [stack EXCEPT ![Len(stack)].emitted = TRUE]
             added == IF Live(w \o P) THEN TokensAt(P) ELSE {}
         IN /\ next \in Seq(FrameType) /\ next # << >>
            /\ Last(next).node = P /\ Last(next).emitted
            /\ PathInv(w, next, P)
            /\ TallyInv(w, next, mask \cup added, visited)
<1> PICK n : n = Len(stack)
  OBVIOUS
<1>1. /\ n \in Nat /\ n >= 1 /\ n \in 1..Len(stack) /\ P \in Seq(Byte) /\ Len(P) \in Nat
      /\ n = Len(P) + 1 /\ P \in Node
  BY NodeType DEF PathInv
<1>0. PICK top : top = [stack[n] EXCEPT !.emitted = TRUE]
  OBVIOUS
<1>2. stack[n] \in FrameType
  BY <1>1, ElementOfSeq
<1>3. /\ top \in FrameType /\ top.node = stack[n].node /\ top.todo = stack[n].todo
      /\ top.checkpoint = stack[n].checkpoint /\ top.emitted = TRUE
  BY <1>0, <1>2 DEF FrameType
<1>n. PICK next : next = [stack EXCEPT ![n] = top]
  OBVIOUS
<1>4. /\ next \in Seq(FrameType) /\ Len(next) = n
      /\ \A i \in 1..n : next[i] = IF i = n THEN top ELSE stack[i]
  <2>0. n \in 1..Len(stack) /\ top \in FrameType
    BY <1>1, <1>3
  <2>1. next \in Seq(FrameType) /\ Len(next) = Len(stack)
    BY <1>n, <2>0, ExceptSeq
  <2>2. \A i \in 1..Len(stack) : next[i] = IF i = n THEN top ELSE stack[i]
    BY <1>n, <2>0, ExceptSeq
  <2> QED BY <2>1, <2>2
<1>5. next = [stack EXCEPT ![Len(stack)].emitted = TRUE]
  BY <1>0, <1>n
<1>6. next # << >> /\ Last(next) = top
  <2>1. Len(next) # 0 /\ next[n] = top
    BY <1>1, <1>4
  <2> QED BY <1>4, <2>1 DEF Last
<1>7. FrameInv(w, stack, P, n) /\ SubSeq(P, 1, n - 1) = P
  <2>1. SubSeq(P, 1, Len(P)) = P
    BY <1>1
  <2> QED BY <1>1, <2>1 DEF PathInv
<1>8. PathInv(w, next, P)
  <2>1. ASSUME NEW i \in 1..n
        PROVE  FrameInv(w, next, P, i)
    <3>1. FrameInv(w, stack, P, i)
      BY DEF PathInv
    <3>2. /\ next[i].node = stack[i].node /\ next[i].todo = stack[i].todo
          /\ next[i].checkpoint = stack[i].checkpoint
          /\ stack[i].emitted => next[i].emitted
      BY <1>3, <1>4
    <3> QED BY <1>4, <3>1, <3>2 DEF FrameInv
  <2> QED BY <1>1, <1>4, <2>1 DEF PathInv
<1>9. Done(w, next) = Done(w, stack)
  <2>1. \A i \in 1..n : next[i].todo = stack[i].todo
    BY <1>3, <1>4
  <2> QED BY <1>4, <2>1 DEF Done, Ahead
<1>10. P # << >> => /\ P \in Done(w, stack) /\ EdgeOutcome(Ordered(w), P) = "live"
                    /\ Live(w \o P)
  <2> SUFFICES ASSUME P # << >>
               PROVE  /\ P \in Done(w, stack) /\ EdgeOutcome(Ordered(w), P) = "live"
                      /\ Live(w \o P)
    OBVIOUS
  <2>1. P \in TriePaths /\ Len(P) >= 1
    BY <1>1, NodeType
  <2>2. stack[n].node = P /\ EdgeOutcome(Ordered(w), P) = "live"
    <3>1. n > 1
      BY <1>1, <2>1
    <3> QED BY <1>7, <3>1 DEF FrameInv
  <2>3. Live(w \o P)
    BY <2>1, <2>2, EdgeEnds
  <2>4. P \in TriedEdges(Ordered(w))
    <3>1. Len(P) - 1 \in 0..Len(P) /\ Front(P) = SubSeq(P, 1, Len(P) - 1)
      BY <1>1, <2>1, FrontIsBeginning
    <3>2. Live(w \o Front(P))
      BY <1>1, <2>3, <3>1, LivePieces
    <3> QED BY <2>1, <3>2 DEF TriedEdges, Ordered
  <2>5. ASSUME NEW i \in 1..n, NEW q \in stack[i].todo, IsPrefix(q, P)
        PROVE  FALSE
    <3>1. q \in Seq(Byte) /\ Len(q) = i /\ (i < n => q # SubSeq(P, 1, i))
      BY <2>5, TodoIsPath
    <3>2. Len(q) <= Len(P) /\ q = SubSeq(P, 1, Len(q))
      BY <1>1, <2>5, <3>1, PrefixIsSubSeq
    <3>3. i < n
      BY <1>1, <3>1, <3>2
    <3> QED BY <3>1, <3>2, <3>3
  <2>6. ~Ahead(stack, P)
    BY <2>5 DEF Ahead
  <2> QED BY <2>2, <2>3, <2>4, <2>6 DEF Done
<1>11. P = << >> => TokensAt(P) = {}
  <2>1. \A t \in Token : BytesOf[t] # << >>
    BY VocabularyAssumption
  <2> QED BY <2>1 DEF TokensAt
<1> PICK added : added = IF Live(w \o P) THEN TokensAt(P) ELSE {}
  OBVIOUS
<1>12. Emitted(w, next) = Emitted(w, stack) \cup added
  <2>1. \A t \in Token : t \in Emitted(w, next) <=>
          BytesOf[t] \in Done(w, stack) /\ EdgeOutcome(Ordered(w), BytesOf[t]) = "live"
    BY <1>3, <1>6, <1>9 DEF Emitted
  <2>2. Last(stack) = stack[n] /\ stack[n].node = P
    BY <1>7 DEF Last, FrameInv
  <2>3. \A t \in Token : t \in Emitted(w, stack) <=>
          /\ BytesOf[t] \in Done(w, stack) /\ EdgeOutcome(Ordered(w), BytesOf[t]) = "live"
          /\ BytesOf[t] # P
    BY <2>2 DEF Emitted
  <2>4. \A t \in Token : t \in added <=> P # << >> /\ BytesOf[t] = P
    BY <1>10, <1>11 DEF TokensAt
  <2>5. added \subseteq Token /\ Emitted(w, next) \subseteq Token /\ Emitted(w, stack) \subseteq Token
    BY DEF TokensAt, Emitted
  <2>6. \A t \in Token : BytesOf[t] # << >>
    BY VocabularyAssumption
  <2> QED BY <1>10, <2>1, <2>3, <2>4, <2>5, <2>6
<1>13. TallyInv(w, next, mask \cup added, visited)
  BY <1>9, <1>12 DEF TallyInv
<1> QED BY <1>3, <1>4, <1>5, <1>6, <1>7, <1>8, <1>13 DEF FrameInv

\* A walk begins with nothing done: every edge is below one of the root.
LEMMA NothingDone ==
  ASSUME NEW w \in Seq(Byte), NEW f \in FrameType,
         f.node = << >>, f.todo = Children(<< >>), ~f.emitted,
         f.checkpoint = Checkpoint(Ordered(w))
  PROVE  /\ PathInv(w, <<f>>, << >>)
         /\ TallyInv(w, <<f>>, IF Accepting(w) THEN {EOS} ELSE {}, 0)
<1> PICK stack : stack = <<f>>
  OBVIOUS
<1>1. Len(stack) = 1 /\ stack[1] = f /\ \A i \in 1..1 : i = 1
  OBVIOUS
<1>2. w \o << >> = w /\ SubSeq(<< >>, 1, 0) = << >> /\ << >> \in Node /\ Len(<< >>) = 0
  BY DEF Node
<1>3. PathInv(w, stack, << >>)
  <2>1. FrameInv(w, stack, << >>, 1)
    <3>0. 1 - 1 = 0 /\ ~(1 > 1)
      OBVIOUS
    <3>4. stack[1].node = << >> /\ stack[1].node = SubSeq(<< >>, 1, 1 - 1)
      BY <1>1, <1>2, <3>0
    <3>1. /\ stack[1].node = SubSeq(<< >>, 1, 1 - 1) /\ stack[1].node = << >>
          /\ ~(1 > 1) /\ ~(1 < Len(stack))
      BY <1>1, <3>0, <3>4
    <3>2. stack[1].checkpoint = Checkpoint(Ordered(w \o stack[1].node))
      BY <1>1, <1>2, <3>1
    <3>3. stack[1].todo \subseteq Children(stack[1].node)
      BY <1>1, <3>1
    <3> QED BY <3>1, <3>2, <3>3 DEF FrameInv
  <2> QED BY <1>1, <1>2, <2>1 DEF PathInv
<1>4. Done(w, stack) = {}
  <2> SUFFICES ASSUME NEW x \in TriedEdges(Ordered(w)) PROVE Ahead(stack, x)
    BY DEF Done
  <2>1. x \in TriePaths /\ x \in Seq(Byte) /\ Len(x) \in Nat /\ Len(x) >= 1
    BY PathType DEF TriedEdges
  <2> PICK q : q = SubSeq(x, 1, 1)
    OBVIOUS
  <2>2. q \in TriePaths /\ q \in Seq(Byte) /\ Len(q) = 1
    <3>1. 1 \in 1..Len(x) /\ 1 \in 0..Len(x)
      BY <2>1
    <3> QED BY <2>1, <3>1, PathPrefix, Beginning
  <2>3. Front(q) = << >>
    <3>0. Len(q) >= 1 /\ Len(q) - 1 = 0
      BY <2>2
    <3>1. Front(q) \in Seq(Byte) /\ Len(Front(q)) = 0
      BY <2>2, <3>0, FrontIsBeginning
    <3> QED BY <3>1, EmptySeq
  <2>4. IsPrefix(q, x)
    <3>1. Len(q) <= Len(x) /\ q = SubSeq(x, 1, Len(q))
      BY <2>1, <2>2
    <3> QED BY <2>1, <2>2, <3>1, PrefixIsSubSeq
  <2>5. q \in stack[1].todo
    BY <1>1, <2>2, <2>3 DEF Children
  <2> QED BY <1>1, <2>4, <2>5 DEF Ahead
<1>5. Emitted(w, stack) = {}
  BY <1>4 DEF Emitted
<1>6. Cardinality({}) = 0
  BY FS_EmptySet
<1>7. TallyInv(w, stack, IF Accepting(w) THEN {EOS} ELSE {}, 0)
  <2>1. 0 <= MaxMaskTrieEdges
    BY GuideAssumption
  <2>2. 0 = Cardinality(Done(w, stack))
    BY <1>4, <1>6
  <2>3. \A p \in Done(w, stack) : EdgeOutcome(Ordered(w), p) # "limit"
    BY <1>4
  <2> QED BY <1>5, <2>1, <2>2, <2>3 DEF TallyInv
<1> QED BY <1>3, <1>7

\* A walk that comes back to the root has found the mask of Guide, and Guide's
\* limits were kept.
LEMMA EverythingDone ==
  ASSUME NEW w \in Seq(Byte), NEW mask, NEW visited \in Nat, Backend # "dfa",
         TallyInv(w, << >>, mask, visited)
  PROVE  /\ ~TraversalFails(Ordered(w))
         /\ mask = EnabledTokens(Ordered(w)) \cup
                     (IF IsAccepting(Ordered(w)) THEN {EOS} ELSE {})
<1>1. Done(w, << >>) = TriedEdges(Ordered(w))
  BY DEF Done, Ahead
<1>2. ~TraversalFails(Ordered(w))
  BY <1>1, GuideAssumption DEF TraversalFails, TallyInv
<1>3. IsAccepting(Ordered(w)) <=> Accepting(w)
  BY DEF IsAccepting, Ordered
<1>4. ASSUME NEW t \in Token
      PROVE  t \in Emitted(w, << >>) <=> t \in EnabledTokens(Ordered(w))
  <2> PICK b : b = BytesOf[t]
    OBVIOUS
  <2>1. b \in Seq(Byte) /\ Len(b) \in Nat /\ Len(b) >= 1 /\ SubSeq(b, 1, Len(b)) = b
    BY TokenBytes
  <2>2. \A n \in 1..Len(b) : SubSeq(b, 1, n) \in TriePaths
    BY DEF TriePaths
  <2>3. t \in Emitted(w, << >>) <=>
          b \in TriedEdges(Ordered(w)) /\ EdgeOutcome(Ordered(w), b) = "live"
    BY <1>1 DEF Emitted
  <2>4. t \in EnabledTokens(Ordered(w)) <=>
          \A n \in 1..Len(b) : EdgeOutcome(Ordered(w), SubSeq(b, 1, n)) = "live"
    BY DEF EnabledTokens
  <2>5. ASSUME b \in TriedEdges(Ordered(w)), EdgeOutcome(Ordered(w), b) = "live",
               NEW n \in 1..Len(b)
        PROVE  EdgeOutcome(Ordered(w), SubSeq(b, 1, n)) = "live"
    <3> PICK q : q = SubSeq(b, 1, n)
      OBVIOUS
    <3>1. q \in TriedEdges(Ordered(w)) /\ (n < Len(b) => Live(w \o q))
      BY <2>5, TriedAbove
    <3>2. q \in TriePaths /\ EdgeOutcome(Ordered(w), q) # "limit"
      BY <1>1, <3>1 DEF TallyInv, TriedEdges
    <3>3. n < Len(b) => EdgeOutcome(Ordered(w), q) = "live"
      BY <3>1, <3>2, EdgeEnds
    <3>4. n = Len(b) => q = b
      BY <2>1
    <3>5. n < Len(b) \/ n = Len(b)
      BY <2>1
    <3> QED BY <2>5, <3>3, <3>4, <3>5
  <2>6. ASSUME \A n \in 1..Len(b) : EdgeOutcome(Ordered(w), SubSeq(b, 1, n)) = "live"
        PROVE  b \in TriedEdges(Ordered(w)) /\ EdgeOutcome(Ordered(w), b) = "live"
    <3>1. Len(b) \in 1..Len(b)
      BY <2>1
    <3>2. b \in TriePaths /\ EdgeOutcome(Ordered(w), b) = "live"
      BY <2>1, <2>2, <2>6, <3>1
    <3>3. Live(w \o b)
      BY <3>2, EdgeEnds
    <3>4. Front(b) = SubSeq(b, 1, Len(b) - 1) /\ Len(b) - 1 \in 0..Len(b)
      BY <2>1, FrontIsBeginning
    <3>5. Live(w \o Front(b))
      BY <2>1, <3>3, <3>4, LivePieces
    <3> QED BY <3>2, <3>5 DEF TriedEdges, Ordered
  <2> QED BY <2>3, <2>4, <2>5, <2>6
<1>5. Emitted(w, << >>) = EnabledTokens(Ordered(w))
  <2>1. Emitted(w, << >>) \subseteq Token /\ EnabledTokens(Ordered(w)) \subseteq Token
    BY DEF Emitted, EnabledTokens
  <2> QED BY <1>4, <2>1
<1> QED BY <1>2, <1>3, <1>5 DEF TallyInv

-----------------------------------------------------------------------------
(* The steps of the walk. *)

\* The recognizer is below the top frame's node, so that its checkpoint can be
\* restored and leads to the node.
LEMMA BackToTheFrame ==
  ASSUME NEW w \in Seq(Byte), NEW stack \in Seq(FrameType), stack # << >>,
         PathInv(w, stack, Last(stack).node), NEW r, PositionInv(w, r, stack, FALSE)
  PROVE  /\ Last(stack).node \in Node
         /\ Last(stack).checkpoint = Checkpoint(Ordered(w \o Last(stack).node))
         /\ CanRestore(r, Last(stack).checkpoint)
         /\ Restore(r, Last(stack).checkpoint) = Ordered(w \o Last(stack).node)
         /\ ~Last(stack).emitted => r = Ordered(w \o Last(stack).node)
<1> PICK P : P = Last(stack).node
  OBVIOUS
<1>1. P \in Node /\ P \in Seq(Byte) /\ Len(stack) \in Nat /\ Len(stack) >= 1 /\ Len(stack) = Len(P) + 1
  BY NodeType DEF PathInv
<1>2. Last(stack) = stack[Len(stack)] /\ Len(stack) \in 1..Len(stack)
  BY <1>1 DEF Last
<1>3. Last(stack).checkpoint = Checkpoint(Ordered(w \o P))
  BY <1>2 DEF PathInv, FrameInv
<1>4. PICK p \in Node : /\ r = Ordered(w \o p) /\ IsPrefix(P, p)
                        /\ ~Last(stack).emitted => p = P
  BY DEF PositionInv
<1>5. PICK x \in Seq(Byte) : p = P \o x
  BY <1>1, <1>4, NodeType, PrefixSplits
<1>6. w \o p = (w \o P) \o x /\ w \o P \in Seq(Byte)
  <2>1. w \o P \in Seq(Byte)
    BY <1>1, FedOrdered
  <2>2. (w \o P) \o x = w \o (P \o x)
    BY <1>1, ByteConcatAssociative
  <2> QED BY <1>5, <2>1, <2>2
<1> QED BY <1>1, <1>3, <1>4, <1>6, RestoreToPrefix

\* A recognizer fed in order has one history, in its scans and its columns.
LEMMA OrderedScans ==
  ASSUME NEW u
  PROVE  Ordered(u).scans = u /\ Ordered(u).columns = u
BY DEF Ordered

\* The guide without its recognizer is left alone by the walk.
LEMMA SettledStays ==
  ASSUME GuideInv(Settled), walk.running, walk'.running, walk'.before = walk.before,
         guide \in GuideType, NEW r \in IdleRecognizer, guide' = [guide EXCEPT !.rec = r]
  PROVE  /\ Settled' = Settled /\ GuideInv(Settled')
         /\ guide' \in GuideType /\ guide'.rec = r
         /\ guide'.cached = guide.cached /\ guide'.finished = guide.finished
<1>1. [guide' EXCEPT !.rec = walk'.before] = [guide EXCEPT !.rec = walk.before]
  BY DEF GuideType
<1>2. Settled' = Settled
  BY <1>1 DEF Settled
<1> QED BY <1>2 DEF GuideType

\* Emit keeps the invariant.
LEMMA EmitStep ==
  ASSUME WalkInv, Emit
  PROVE  WalkInv' /\ Settled' = Settled
<1> PICK w : w = walk.before.scans
  OBVIOUS
<1> PICK P : P = Top.node
  OBVIOUS
<1>1. /\ walk.running /\ walk.stack # << >> /\ ~walk.failed /\ ~Top.emitted
      /\ guide' = guide /\ reply' = reply
  BY DEF Emit, Walking
<1>2. /\ RunningInv /\ w \in Seq(Byte) /\ walk \in WalkType /\ guide \in GuideType
      /\ walk.failed = FALSE
  BY <1>1 DEF WalkInv, RunningInv, WalkType
<1>3. walk.stack \in Seq(FrameType) /\ walk.mask \in SUBSET Id
  BY <1>2 DEF WalkType
<1>4. /\ PathInv(w, walk.stack, P) /\ PositionInv(w, guide.rec, walk.stack, FALSE)
      /\ TallyInv(w, walk.stack, walk.mask, walk.visited)
  BY <1>1, <1>2 DEF RunningInv, Top
<1>5. guide.rec = Ordered(w \o P) /\ P \in Node
  BY <1>1, <1>2, <1>3, <1>4, BackToTheFrame DEF Top
<1>6. Top = walk.stack[Len(walk.stack)]
  BY DEF Top, Last
<1> PICK next : next = [walk.stack EXCEPT ![Len(walk.stack)].emitted = TRUE]
  OBVIOUS
<1> PICK added : added = IF Live(w \o P) THEN TokensAt(P) ELSE {}
  OBVIOUS
<1>7. /\ next \in Seq(FrameType) /\ next # << >>
      /\ Last(next).node = P /\ Last(next).emitted
      /\ PathInv(w, next, P)
      /\ TallyInv(w, next, walk.mask \cup added, walk.visited)
  BY <1>1, <1>2, <1>3, <1>4, <1>6, EmitFrame
<1>8. added \subseteq Id
  BY DEF TokensAt, Id
<1>9. walk' = [walk EXCEPT !.stack = next, !.mask = walk.mask \cup added]
  <2>0. guide.rec = Ordered(w \o P)
    BY <1>5
  <2>1. guide.rec.scans = w \o P
    BY <2>0, OrderedScans
  <2>3. /\ [walk EXCEPT !.stack[Len(walk.stack)].emitted = TRUE, !.mask = walk.mask \cup added]
             = [walk EXCEPT !.stack = next, !.mask = walk.mask \cup added]
        /\ walk.mask \cup {} = walk.mask
    OBVIOUS
  <2> QED BY <2>1, <2>3 DEF Emit
<1>10. /\ walk' \in WalkType /\ walk'.stack = next /\ walk'.mask = walk.mask \cup added
       /\ walk'.running /\ walk'.visited = walk.visited /\ walk'.before = walk.before
       /\ walk'.root = walk.root /\ walk'.failed = walk.failed
  BY <1>1, <1>2, <1>3, <1>7, <1>8, <1>9 DEF WalkType
<1>11. PositionInv(w, guide.rec, next, FALSE)
  <2>1. IsPrefix(P, P)
    BY <1>5, NodeType, PrefixIsSubSeq
  <2> QED BY <1>5, <1>7, <2>1 DEF PositionInv
<1>12. RunningInv'
  BY <1>1, <1>2, <1>7, <1>10, <1>11 DEF RunningInv
<1>13. Settled' = Settled
  BY <1>1, <1>10 DEF Settled
<1> QED BY <1>1, <1>10, <1>12, <1>13 DEF WalkInv, ReplyInv

\* A step of the walk that puts r for the recognizer and changes the walk's
\* variables to others that keep the invariant, keeps it.
LEMMA WalkStepKeepsInv ==
  ASSUME WalkInv, walk.running, reply' = reply,
         NEW r \in IdleRecognizer, guide' = [guide EXCEPT !.rec = r],
         NEW stack \in Seq(FrameType), NEW visited \in Nat, NEW failed \in BOOLEAN,
         walk' = [walk EXCEPT !.stack = stack, !.visited = visited, !.failed = failed],
         PositionInv(walk.before.scans, r, stack, failed),
         failed => TraversalFails(Ordered(walk.before.scans)),
         ~failed => /\ TallyInv(walk.before.scans, stack, walk.mask, visited)
                    /\ stack # << >> => PathInv(walk.before.scans, stack, Last(stack).node)
  PROVE  WalkInv' /\ Settled' = Settled
<1>1. RunningInv /\ walk \in WalkType /\ guide \in GuideType
  BY DEF WalkInv, RunningInv
<1>2. /\ walk' \in WalkType /\ walk'.running
      /\ walk'.stack = stack /\ walk'.visited = visited /\ walk'.failed = failed
      /\ walk'.mask = walk.mask /\ walk'.before = walk.before /\ walk'.root = walk.root
  BY <1>1 DEF WalkType
<1>3. GuideInv(Settled)
  BY DEF WalkInv
<1>4. /\ Settled' = Settled /\ GuideInv(Settled')
      /\ guide' \in GuideType /\ guide'.rec = r
      /\ guide'.cached = guide.cached /\ guide'.finished = guide.finished
  BY <1>1, <1>2, <1>3, SettledStays
<1>5. RunningInv'
  BY <1>1, <1>2, <1>4 DEF RunningInv
<1> QED BY <1>2, <1>4, <1>5 DEF WalkInv, ReplyInv

\* Leave keeps the invariant, and its restore is never refused.
LEMMA LeaveStep ==
  ASSUME WalkInv, Leave
  PROVE  WalkInv' /\ Settled' = Settled
<1> PICK w : w = walk.before.scans
  OBVIOUS
<1> PICK P : P = Top.node
  OBVIOUS
<1>1. /\ walk.running /\ walk.stack # << >> /\ ~walk.failed /\ Top.emitted /\ Top.todo = {}
      /\ reply' = reply
  BY DEF Leave, Walking
<1>2. /\ RunningInv /\ w \in Seq(Byte) /\ walk \in WalkType /\ guide \in GuideType
      /\ walk.failed = FALSE
  BY <1>1 DEF WalkInv, RunningInv, WalkType
<1>3. walk.stack \in Seq(FrameType) /\ walk.visited \in Nat
  BY <1>2 DEF WalkType
<1>4. /\ PathInv(w, walk.stack, P) /\ PositionInv(w, guide.rec, walk.stack, FALSE)
      /\ TallyInv(w, walk.stack, walk.mask, walk.visited)
  BY <1>1, <1>2 DEF RunningInv, Top
<1>5. /\ P \in Node
      /\ CanRestore(guide.rec, Top.checkpoint)
      /\ Restore(guide.rec, Top.checkpoint) = Ordered(w \o P)
  <2>1. P = Last(walk.stack).node /\ Top = Last(walk.stack)
    BY DEF Top
  <2>2. PathInv(w, walk.stack, Last(walk.stack).node)
    BY <1>4, <2>1
  <2>3. /\ Last(walk.stack).node \in Node
        /\ CanRestore(guide.rec, Last(walk.stack).checkpoint)
        /\ Restore(guide.rec, Last(walk.stack).checkpoint) = Ordered(w \o Last(walk.stack).node)
    BY <1>1, <1>2, <1>3, <1>4, <2>2, BackToTheFrame
  <2> QED BY <2>1, <2>3
<1>6. Top = walk.stack[Len(walk.stack)]
  BY DEF Top, Last
<1> PICK next : next = Front(walk.stack)
  OBVIOUS
<1>7. /\ next \in Seq(FrameType)
      /\ TallyInv(w, next, walk.mask, walk.visited)
      /\ next # << >> => /\ PathInv(w, next, Last(next).node)
                         /\ IsPrefix(Last(next).node, P)
                         /\ Last(next).emitted
  BY <1>1, <1>2, <1>3, <1>4, <1>6, LeaveFrame
<1>8. /\ guide' = [guide EXCEPT !.rec = Ordered(w \o P)]
      /\ walk' = [walk EXCEPT !.stack = next]
  BY <1>5 DEF Leave
<1>9. walk' = [walk EXCEPT !.stack = next, !.visited = walk.visited, !.failed = FALSE]
  BY <1>2, <1>8 DEF WalkType
<1>10. PositionInv(w, Ordered(w \o P), next, FALSE)
  BY <1>5, <1>7 DEF PositionInv
<1>11. Ordered(w \o P) \in IdleRecognizer
  BY <1>2, <1>5, NodeType, FedOrdered
<1> QED BY <1>1, <1>3, <1>7, <1>8, <1>9, <1>10, <1>11, WalkStepKeepsInv

\* How one byte fed to a recognizer in order ends.
LEMMA OneByte ==
  ASSUME NEW w \in Seq(Byte), NEW P \in Seq(Byte), NEW p \in Children(P)
  PROVE  LET a == TryAdvance(Ordered(w \o P), <<Last(p)>>)
             out == EdgeOutcome(Ordered(w), p)
         IN /\ out = "live" => a.out \in {"live", "accepting"} /\ a.rec = Ordered(w \o p)
            /\ out # "live" => a.out = out /\ a.rec = Ordered(w \o P)
<1> PICK b : b = Last(p)
  OBVIOUS
<1> PICK a : a = TryAdvance(Ordered(w \o P), <<b>>)
  OBVIOUS
<1>1. p \in TriePaths /\ b \in Byte /\ <<b>> \in Seq(Byte) /\ p = P \o <<b>> /\ Front(p) = P
  BY ChildSplits
<1>2. w \o P \in Seq(Byte) /\ Fed(Ordered(w), P) = Ordered(w \o P)
  BY FedOrdered
<1>3. (w \o P) \o <<b>> = w \o p
  BY <1>1, ByteConcatAssociative
<1>4. Fed(Ordered(w \o P), <<b>>) = Ordered(w \o p) /\ Ordered(w \o P) \in IdleRecognizer
  <2>1. Fed(Ordered(w \o P), <<b>>) = Ordered((w \o P) \o <<b>>)
    BY <1>1, <1>2, FedOrdered, Zenon
  <2>2. Ordered(w \o P) \in IdleRecognizer
    BY <1>1, <1>2, FedOrdered, Zenon
  <2> QED BY <1>3, <2>1, <2>2
<1>5. Fed(Ordered(w \o P), << >>) = Ordered(w \o P)
  <2>1. (w \o P) \o << >> = w \o P /\ << >> \in Seq(Byte)
    BY <1>2
  <2> QED BY <1>2, <2>1, FedOrdered
<1>6. ByteEnds(Ordered(w \o P), <<b>>, 1) = EdgeOutcome(Ordered(w), p)
  <2>1. SubSeq(<<b>>, 1, 1 - 1) = << >> /\ <<b>>[1] = b
    OBVIOUS
  <2>2. ByteEnds(Ordered(w \o P), <<b>>, 1) = ByteOutcome(Ordered(w \o P), b)
    BY <1>5, <2>1 DEF ByteEnds
  <2>3. EdgeOutcome(Ordered(w), p) = ByteOutcome(Ordered(w \o P), b)
    BY <1>1, <1>2 DEF EdgeOutcome
  <2> QED BY <2>2, <2>3
<1>7. \A i \in 1..Len(<<b>>) : i = 1
  OBVIOUS
<1>8. 1 \in 1..Len(<<b>>)
  OBVIOUS
<1>9. \/ /\ a.rec = Ordered(w \o p) /\ a.out \in {"live", "accepting"}
         /\ ByteEnds(Ordered(w \o P), <<b>>, 1) = "live"
      \/ /\ a.rec = Ordered(w \o P) /\ a.out \in {"limit", "rejected"}
         /\ ByteEnds(Ordered(w \o P), <<b>>, 1) = a.out
  <2> PICK r : r = Ordered(w \o P)
    OBVIOUS
  <2>0. \/ /\ TryAdvance(r, <<b>>).rec = Fed(r, <<b>>)
           /\ TryAdvance(r, <<b>>).out = IF IsAccepting(Fed(r, <<b>>)) THEN "accepting" ELSE "live"
           /\ \A i \in 1..Len(<<b>>) : ByteEnds(r, <<b>>, i) = "live"
        \/ /\ TryAdvance(r, <<b>>).rec = r
           /\ TryAdvance(r, <<b>>).out \in {"limit", "rejected"}
           /\ \E i \in 1..Len(<<b>>) : /\ ByteEnds(r, <<b>>, i) = TryAdvance(r, <<b>>).out
                                      /\ \A j \in 1..i - 1 : ByteEnds(r, <<b>>, j) = "live"
    <3>1. r \in IdleRecognizer /\ <<b>> \in Seq(Byte)
      BY <1>1, <1>4
    <3> QED BY <3>1, TryAdvanceIsAtomic, Zenon
  <2>1. \/ /\ a.rec = Fed(r, <<b>>) /\ a.out \in {"live", "accepting"}
           /\ ByteEnds(r, <<b>>, 1) = "live"
        \/ /\ a.rec = r /\ a.out \in {"limit", "rejected"}
           /\ ByteEnds(r, <<b>>, 1) = a.out
    BY <1>7, <1>8, <2>0
  <2> QED BY <1>4, <2>1
<1> QED BY <1>6, <1>9

\* Descend keeps the invariant: the restore before an edge is never refused,
\* and a limit that ends the walk is one that Guide sees.
LEMMA DescendStep ==
  ASSUME WalkInv, NEW p \in TriePaths, Descend(p)
  PROVE  WalkInv' /\ Settled' = Settled
<1> PICK w : w = walk.before.scans
  OBVIOUS
<1> PICK P : P = Top.node
  OBVIOUS
<1>1. /\ walk.running /\ walk.stack # << >> /\ ~walk.failed /\ Top.emitted /\ p \in Top.todo
      /\ reply' = reply
  BY DEF Descend, Walking
<1>2. /\ RunningInv /\ w \in Seq(Byte) /\ walk \in WalkType /\ guide \in GuideType
      /\ walk.failed = FALSE /\ guide.rec \in IdleRecognizer
  BY <1>1 DEF WalkInv, RunningInv, WalkType, GuideType
<1>3. walk.stack \in Seq(FrameType) /\ walk.visited \in Nat /\ walk.visited + 1 \in Nat
  BY <1>2 DEF WalkType
<1>4. /\ PathInv(w, walk.stack, P) /\ PositionInv(w, guide.rec, walk.stack, FALSE)
      /\ TallyInv(w, walk.stack, walk.mask, walk.visited)
  BY <1>1, <1>2 DEF RunningInv, Top
<1>5. /\ P \in Node /\ P \in Seq(Byte)
      /\ CanRestore(guide.rec, Top.checkpoint)
      /\ Restore(guide.rec, Top.checkpoint) = Ordered(w \o P)
  <2>1. P = Last(walk.stack).node /\ Top = Last(walk.stack)
    BY DEF Top
  <2>2. PathInv(w, walk.stack, Last(walk.stack).node)
    BY <1>4, <2>1
  <2>3. /\ Last(walk.stack).node \in Node
        /\ CanRestore(guide.rec, Last(walk.stack).checkpoint)
        /\ Restore(guide.rec, Last(walk.stack).checkpoint) = Ordered(w \o Last(walk.stack).node)
    BY <1>1, <1>2, <1>3, <1>4, <2>2, BackToTheFrame
  <2> QED BY <2>1, <2>3, NodeType
<1> PICK n : n = Len(walk.stack)
  OBVIOUS
<1>6. Top = walk.stack[n] /\ p \in walk.stack[n].todo /\ walk.stack[n].emitted
  BY <1>1 DEF Top, Last
<1>7. /\ p \in Children(P)
      /\ Len(p) = 1 \/ Live(w \o P)
  <2>1. n = Len(P) + 1 /\ Len(P) \in Nat /\ n \in 1..Len(walk.stack)
    BY <1>4, <1>5 DEF PathInv
  <2>2. FrameInv(w, walk.stack, P, n)
    BY <1>4, <2>1 DEF PathInv
  <2>3. p \in Children(P) /\ (n > 1 => EdgeOutcome(Ordered(w), P) = "live")
    BY <1>6, <2>2 DEF FrameInv
  <2>4. Len(p) = Len(P) + 1
    BY <1>5, <2>3, ChildSplits
  <2>5. CASE Len(P) = 0
    BY <2>3, <2>4, <2>5
  <2>6. CASE Len(P) # 0
    <3>1. P \in TriePaths
      BY <1>5, <2>6, EmptySeq, NodeType
    <3>2. n > 1
      BY <2>1, <2>6
    <3> QED BY <1>2, <2>3, <3>1, <3>2, EdgeEnds
  <2> QED BY <2>5, <2>6
<1>8. CASE walk.visited + 1 > MaxMaskTrieEdges
  <2>1. guide' = guide /\ walk' = [walk EXCEPT !.failed = TRUE]
    BY <1>8 DEF Descend
  <2>2. guide' = [guide EXCEPT !.rec = guide.rec]
    BY <1>2, <2>1 DEF GuideType
  <2>3. walk' = [walk EXCEPT !.stack = walk.stack, !.visited = walk.visited, !.failed = TRUE]
    BY <1>2, <2>1 DEF WalkType
  <2>4. walk.visited = Cardinality(Done(w, walk.stack))
    BY <1>4 DEF TallyInv
  <2>5. TraversalFails(Ordered(w))
    BY <1>1, <1>2, <1>3, <1>4, <1>6, <1>7, <1>8, <2>4, TooManyEdges
  <2>6. PositionInv(w, guide.rec, walk.stack, TRUE)
    BY <1>4 DEF PositionInv
  <2> QED BY <1>1, <1>2, <1>3, <2>2, <2>3, <2>5, <2>6, WalkStepKeepsInv
<1>9. CASE ~(walk.visited + 1 > MaxMaskTrieEdges)
  <2> PICK a : a = TryAdvance(Ordered(w \o P), <<Last(p)>>)
    OBVIOUS
  <2> PICK out : out = EdgeOutcome(Ordered(w), p)
    OBVIOUS
  <2> PICK popped : popped = [walk.stack EXCEPT ![Len(walk.stack)].todo = @ \ {p}]
    OBVIOUS
  <2> PICK next : next = IF a.out \in {"live", "accepting"} THEN Append(popped, Frame(p, a.rec)) ELSE popped
    OBVIOUS
  <2>1. /\ guide' = [guide EXCEPT !.rec = a.rec]
        /\ walk' = [walk EXCEPT !.visited = walk.visited + 1, !.failed = (a.out = "limit"),
                                !.stack = next]
    BY <1>5, <1>9 DEF Descend
  <2>2. walk' = [walk EXCEPT !.stack = next, !.visited = walk.visited + 1,
                             !.failed = (a.out = "limit")]
    BY <2>1
  <2>3. /\ out = "live" => a.out \in {"live", "accepting"} /\ a.rec = Ordered(w \o p)
        /\ out # "live" => a.out = out /\ a.rec = Ordered(w \o P)
    BY <1>2, <1>5, <1>7, OneByte
  <2>4. p \in Seq(Byte) /\ out \in {"live", "rejected", "limit"}
    BY <1>2, PathType, EdgeEnds
  <2>5. a.rec \in IdleRecognizer
    <3>1. w \o p \in Seq(Byte) /\ w \o P \in Seq(Byte)
      BY <1>2, <1>5, <2>4, FedOrdered, Zenon
    <3>2. Ordered(w \o p) \in IdleRecognizer /\ Ordered(w \o P) \in IdleRecognizer
      BY <2>4, <3>1, FedOrdered, Zenon
    <3> QED BY <2>3, <3>2
  <2>6. AfterEdge(w, walk.stack, p, next)
    <3>1. CASE out = "live"
      <4>1. Frame(p, a.rec) = [node |-> p, todo |-> Children(p), emitted |-> FALSE,
                               checkpoint |-> Checkpoint(Ordered(w \o p))]
        BY <2>3, <3>1 DEF Frame
      <4> QED BY <2>3, <3>1, <4>1 DEF AfterEdge
    <3>2. CASE out # "live"
      BY <2>3, <2>4, <3>2 DEF AfterEdge
    <3> QED BY <3>1, <3>2
  <2>7. /\ next # << >> /\ next \in Seq(FrameType)
        /\ IF out = "live"
           THEN PathInv(w, next, p) /\ Last(next).node = p /\ ~Last(next).emitted
           ELSE PathInv(w, next, P) /\ Last(next).node = P /\ Last(next).emitted
    <3>1. /\ next # << >> /\ next \in Seq(FrameType)
          /\ EdgeOutcome(Ordered(w), p) = "live" =>
               PathInv(w, next, p) /\ Last(next).node = p /\ ~Last(next).emitted
          /\ EdgeOutcome(Ordered(w), p) # "live" =>
               PathInv(w, next, P) /\ Last(next).node = P /\ Last(next).emitted
      <4> PICK stack : stack = walk.stack
        OBVIOUS
      <4>1. /\ stack \in Seq(FrameType) /\ stack # << >> /\ w \in Seq(Byte)
            /\ PathInv(w, stack, P) /\ AfterEdge(w, stack, p, next)
        BY <1>1, <1>2, <1>3, <1>4, <2>6
      <4>2. p \in stack[Len(stack)].todo /\ stack[Len(stack)].emitted
        BY <1>6
      <4>3. next # << >>
        BY <4>1, <4>2, PathAfterEdge
      <4>4. next \in Seq(FrameType)
        BY <4>1, AfterEdgeFrames
      <4>5. EdgeOutcome(Ordered(w), p) = "live" =>
              PathInv(w, next, p) /\ Last(next).node = p /\ ~Last(next).emitted
        BY <4>1, <4>2, PathAfterEdge
      <4>6. EdgeOutcome(Ordered(w), p) # "live" =>
              PathInv(w, next, P) /\ Last(next).node = P /\ Last(next).emitted
        BY <4>1, <4>2, PathAfterEdge
      <4> QED BY <4>3, <4>4, <4>5, <4>6
    <3> QED BY <3>1
  <2>8. (a.out = "limit") <=> (out = "limit")
    BY <2>3
  <2>9. IsPrefix(P, P) /\ IsPrefix(p, p) /\ p \in Node
    BY <1>5, <2>4, PrefixIsSubSeq DEF Node
  <2>10. PositionInv(w, a.rec, next, FALSE) /\ PositionInv(w, a.rec, next, a.out = "limit")
    BY <1>5, <2>3, <2>7, <2>9 DEF PositionInv
  <2>11. out = "limit" => TraversalFails(Ordered(w))
    <3>1. Front(p) = P
      BY <1>5, <1>7, ChildSplits
    <3> QED BY <1>7, <3>1 DEF TraversalFails, TriedEdges, Ordered
  <2>12. out # "limit" => TallyInv(w, next, walk.mask, walk.visited + 1)
    BY <1>1, <1>2, <1>3, <1>4, <1>6, <1>7, <1>9, <2>6, TallyAfterEdge
  <2>13. (a.out = "limit") \in BOOLEAN
    OBVIOUS
  <2>14. PathInv(w, next, Last(next).node)
    BY <2>7
  <2>15. walk.running /\ reply' = reply /\ guide' = [guide EXCEPT !.rec = a.rec]
    BY <1>1, <2>1
  <2>16. walk.visited + 1 \in Nat /\ next \in Seq(FrameType)
    BY <1>3, <2>7, <2>8
  <2>17. PositionInv(walk.before.scans, a.rec, next, a.out = "limit")
    BY <2>10
  <2>18. a.out = "limit" => TraversalFails(Ordered(walk.before.scans))
    BY <2>3, <2>4, <2>11
  <2>19. ~(a.out = "limit") =>
           /\ TallyInv(walk.before.scans, next, walk.mask, walk.visited + 1)
           /\ next # << >> => PathInv(walk.before.scans, next, Last(next).node)
    BY <2>3, <2>4, <2>12, <2>14
  <2> QED BY <2>2, <2>5, <2>13, <2>15, <2>16, <2>17, <2>18, <2>19, WalkStepKeepsInv, Zenon
<1> QED BY <1>8, <1>9

\* A walk begins at the root of the trie and at the guide's own text.
LEMMA BeginStep ==
  ASSUME WalkInv, BeginWalk
  PROVE  WalkInv' /\ Settled' = Settled
<1>1. /\ ~walk.running /\ guide' = guide /\ reply' = reply
      /\ guide.cached = {} /\ ~guide.finished /\ Backend # "dfa"
  BY DEF BeginWalk
<1>2. Settled = guide /\ GuideInv(guide)
  BY <1>1 DEF WalkInv, Settled
<1> PICK w : w = guide.rec.scans
  OBVIOUS
<1>3. /\ w \in Seq(Byte) /\ guide.rec = Ordered(w) /\ guide \in GuideType
      /\ Ordered(w) \in IdleRecognizer /\ Ordered(w).scans = w
  BY <1>2, GuideFields, FedOrdered, OrderedScans DEF GuideInv, GuideType
<1> PICK f : f = Frame(<< >>, guide.rec)
  OBVIOUS
<1> PICK mask : mask = IF Accepting(w) THEN {EOS} ELSE {}
  OBVIOUS
<1>4. Checkpoint(Ordered(w)) \in RecognizerCheckpoint
  BY <1>3 DEF Checkpoint, RecognizerCheckpoint, Ordered
<1>5. /\ f \in FrameType /\ f.node = << >> /\ f.todo = Children(<< >>) /\ ~f.emitted
      /\ f.checkpoint = Checkpoint(Ordered(w))
  BY <1>3, <1>4 DEF Frame, FrameType, Children
<1>6. PathInv(w, <<f>>, << >>) /\ TallyInv(w, <<f>>, mask, 0)
  BY <1>3, <1>5, NothingDone
<1>7. /\ <<f>> \in Seq(FrameType) /\ <<f>> # << >> /\ Last(<<f>>) = f /\ mask \in SUBSET Id
  BY <1>5 DEF Last, Id
<1>8. walk' = [running |-> TRUE, root |-> Checkpoint(Ordered(w)), stack |-> <<f>>, mask |-> mask,
               visited |-> 0, failed |-> FALSE, before |-> Ordered(w)]
  BY <1>3 DEF BeginWalk, IsAccepting, Ordered
<1>9. walk' \in WalkType
  BY <1>3, <1>4, <1>7, <1>8 DEF WalkType
<1>10. PositionInv(w, Ordered(w), <<f>>, FALSE)
  <2>1. w \o << >> = w /\ << >> \in Node /\ << >> \in Seq(Byte)
    BY <1>3 DEF Node
  <2>2. IsPrefix(<< >>, << >>)
    BY <2>1, PrefixOfItself
  <2> QED BY <1>5, <1>7, <2>1, <2>2 DEF PositionInv
<1>11. RunningInv'
  BY <1>1, <1>3, <1>5, <1>6, <1>7, <1>8, <1>9, <1>10 DEF RunningInv
<1>12. Settled' = Settled
  <2>1. [guide EXCEPT !.rec = Ordered(w)] = guide
    BY <1>3 DEF GuideType
  <2> QED BY <1>1, <1>2, <1>8, <2>1 DEF Settled
<1> QED BY <1>1, <1>8, <1>11, <1>12 DEF WalkInv, ReplyInv

\* A walk ends as Guide's fill_mask does, for good and for bad.
LEMMA EndStep ==
  ASSUME WalkInv, EndWalk
  PROVE  /\ WalkInv'
         /\ Settled' = Filled(Settled)
         /\ reply' = [call |-> <<"mask">>, out |-> FillOutcome(Settled),
                      mask |-> UNION Filled(Settled).cached]
<1> PICK w : w = walk.before.scans
  OBVIOUS
<1> PICK g : g = Settled
  OBVIOUS
<1>1. walk.running /\ (walk.stack = << >> \/ walk.failed) /\ walk' = NoWalk
  BY DEF EndWalk
<1>2. RunningInv /\ GuideInv(g)
  BY <1>1 DEF WalkInv
<1>3. /\ walk \in WalkType /\ guide \in GuideType /\ w \in Seq(Byte)
      /\ guide.cached = {} /\ ~guide.finished /\ Backend # "dfa"
      /\ walk.before = Ordered(w) /\ walk.root = Checkpoint(Ordered(w))
  BY <1>2 DEF RunningInv
<1>4. /\ g = [guide EXCEPT !.rec = Ordered(w)]
      /\ g.rec = Ordered(w) /\ g.cached = {} /\ ~g.finished
      /\ Ordered(w) \in IdleRecognizer
  BY <1>1, <1>3, FedOrdered DEF Settled, GuideType
<1>5. CanRestore(guide.rec, walk.root) /\ Restore(guide.rec, walk.root) = Ordered(w)
  <2>1. PICK p \in Node : guide.rec = Ordered(w \o p)
    BY <1>2 DEF RunningInv, PositionInv
  <2> QED BY <1>3, <2>1, NodeType, RestoreToPrefix
<1>6. /\ guide' = [guide EXCEPT !.rec = Ordered(w), !.cached = IF walk.failed THEN {} ELSE {walk.mask}]
      /\ reply' = [call |-> <<"mask">>, out |-> IF walk.failed THEN "limit" ELSE "ok",
                   mask |-> IF walk.failed THEN {} ELSE walk.mask]
  BY <1>5 DEF EndWalk
<1>7. CASE walk.failed
  <2>1. FillOutcome(g) = "limit" /\ Filled(g) = g
    BY <1>2, <1>3, <1>4, <1>7 DEF FillOutcome, Filled, RunningInv
  <2>2. guide' = g
    BY <1>3, <1>4, <1>6, <1>7 DEF GuideType
  <2>3. Settled' = g
    BY <1>1, <2>2 DEF Settled, NoWalk
  <2>4. reply' = [call |-> <<"mask">>, out |-> "limit", mask |-> {}] /\ UNION g.cached = {}
    BY <1>4, <1>6, <1>7
  <2> QED BY <1>1, <1>2, <2>1, <2>3, <2>4 DEF WalkInv, ReplyInv, Outcomes, NoWalk
<1>8. CASE ~walk.failed
  <2>1. walk.stack = << >> /\ walk.visited \in Nat /\ TallyInv(w, << >>, walk.mask, walk.visited)
    BY <1>1, <1>2, <1>3, <1>8 DEF RunningInv, WalkType
  <2>2. ~TraversalFails(g.rec) /\ walk.mask = MaskOf(g)
    BY <1>3, <1>4, <2>1, EverythingDone DEF MaskOf
  <2>3. FillOutcome(g) = "ok" /\ Filled(g) = [g EXCEPT !.cached = {walk.mask}]
    BY <1>4, <2>2 DEF FillOutcome, Filled
  <2>4. guide' = Filled(g)
    BY <1>3, <1>4, <1>6, <1>8, <2>3 DEF GuideType
  <2>5. Settled' = Filled(g)
    BY <1>1, <2>4 DEF Settled, NoWalk
  <2>6. GuideInv(Filled(g)) /\ Filled(g).cached = {MaskOf(g)} /\ UNION Filled(g).cached \subseteq Id
    BY <1>2, <2>3, FillKeepsInv
  <2>7. UNION Filled(g).cached = walk.mask
    BY <2>2, <2>6
  <2>8. reply' = [call |-> <<"mask">>, out |-> "ok", mask |-> walk.mask]
    BY <1>6, <1>8
  <2> QED BY <1>1, <2>3, <2>5, <2>6, <2>7, <2>8 DEF WalkInv, ReplyInv, Outcomes, NoWalk
<1> QED BY <1>7, <1>8

\* Between walks the guide is the settled one, and its operations are Guide's.
LEMMA OtherStep ==
  ASSUME WalkInv, FillWithoutWalk \/ OtherCall
  PROVE  WalkInv' /\ Settled = guide /\ Settled' = guide'
<1>1. ~walk.running /\ walk' = walk
  BY DEF FillWithoutWalk, OtherCall
<1>2. Settled = guide /\ Settled' = guide'
  BY <1>1 DEF Settled
<1>3. Inv
  BY <1>2 DEF WalkInv, Inv
<1>4. FillMask \/ (\E t \in CallerId : Advance(t)) \/ (\E n \in 1..MaxRollback : Rollback(n)) \/ Reset
  BY DEF FillWithoutWalk, OtherCall
<1>5. Next
  <2>1. \A n \in 1..MaxRollback : n \in 0..MaxRollback + 1
    BY GuideAssumption
  <2> QED BY <1>4, <2>1 DEF Next
<1>6. Inv'
  BY <1>3, <1>5, StepKeepsInv
<1>7. WalkInv'
  BY <1>1, <1>2, <1>6 DEF WalkInv, Inv, ReplyInv, NoWalk
<1> QED BY <1>2, <1>7

\* Every step keeps the invariant.
LEMMA WalkNextKeepsInv ==
  ASSUME WalkInv, [WalkNext]_walkVars
  PROVE  WalkInv'
<1>1. CASE FillWithoutWalk \/ OtherCall
  BY <1>1, OtherStep
<1>2. CASE BeginWalk
  BY <1>2, BeginStep
<1>3. CASE Emit
  BY <1>3, EmitStep
<1>4. CASE Leave
  BY <1>4, LeaveStep
<1>5. ASSUME NEW p \in TriePaths, Descend(p)
      PROVE  WalkInv'
  BY <1>5, DescendStep
<1>6. CASE EndWalk
  BY <1>6, EndStep
<1>7. CASE UNCHANGED walkVars
  BY <1>7 DEF walkVars, WalkInv, RunningInv, ReplyInv, Settled, NoWalk
<1> QED BY <1>1, <1>2, <1>3, <1>4, <1>5, <1>6, <1>7 DEF WalkNext, WalkStep

\* The invariant holds throughout.
LEMMA WalkInvariance == WalkSpec => []WalkInv
<1>1. WalkInit => WalkInv
  BY NewGuideInv DEF WalkInit, Init, WalkInv, ReplyInv, Answer, Outcomes, Settled, NoWalk
<1>2. WalkInv /\ [WalkNext]_walkVars => WalkInv'
  BY WalkNextKeepsInv
<1> QED BY <1>1, <1>2, PTL DEF WalkSpec

-----------------------------------------------------------------------------
(* The properties. *)

\* During a walk the recognizer's tables, scans and byte count are those of the
\* root and one path of the trie, whatever edges failed before (engine.rs:1406-1520).
THEOREM AlwaysOnThePath == WalkSpec => []RecognizerIsOnThePath
<1>1. WalkInv => RecognizerIsOnThePath
  <2> SUFFICES ASSUME WalkInv, walk.running
               PROVE  \E p \in TriePaths \cup {<< >>} :
                        guide.rec = [columns  |-> walk.before.columns \o p,
                                     scans    |-> walk.before.scans \o p,
                                     position |-> walk.before.position + Len(p)]
    BY DEF RecognizerIsOnThePath
  <2> PICK w : w = walk.before.scans
    OBVIOUS
  <2>1. w \in Seq(Byte) /\ walk.before = Ordered(w)
    BY DEF WalkInv, RunningInv
  <2>2. PICK p \in Node : guide.rec = Ordered(w \o p)
    BY DEF WalkInv, RunningInv, PositionInv
  <2>3. Ordered(w \o p) = Fed(Ordered(w), p)
    BY <2>1, <2>2, NodeType, FedOrdered
  <2> QED BY <2>1, <2>2, <2>3 DEF Fed, Node
<1> QED BY <1>1, WalkInvariance, PTL

\* From below P, a recognizer can be restored to any node above P.
LEMMA RestoreAcross ==
  ASSUME NEW w \in Seq(Byte), NEW N \in Seq(Byte), NEW P \in Seq(Byte), NEW p \in Seq(Byte),
         IsPrefix(N, P), IsPrefix(P, p)
  PROVE  /\ CanRestore(Ordered(w \o p), Checkpoint(Ordered(w \o N)))
         /\ Restore(Ordered(w \o p), Checkpoint(Ordered(w \o N))) = Fed(Ordered(w), N)
<1>1. PICK x \in Seq(Byte) : p = P \o x
  BY PrefixSplits
<1>2. PICK y \in Seq(Byte) : P = N \o y
  BY PrefixSplits
<1> PICK z : z = y \o x
  OBVIOUS
<1>3. z \in Seq(Byte)
  OBVIOUS
<1>4. p = N \o z
  <2>1. \A u \in Seq(Byte) : (N \o y) \o u = N \o (y \o u)
    BY ByteConcatAssociative, Zenon
  <2> QED BY <1>1, <1>2, <2>1
<1>5. w \o N \in Seq(Byte)
  OBVIOUS
<1>6. w \o p = (w \o N) \o z
  <2>1. (w \o N) \o z = w \o (N \o z)
    <3>1. \A u \in Seq(Byte) : (w \o N) \o u = w \o (N \o u)
      BY ByteConcatAssociative, Zenon
    <3> QED BY <1>3, <3>1
  <2> QED BY <1>4, <2>1
<1>7. Fed(Ordered(w), N) = Ordered(w \o N)
  BY FedOrdered
<1> QED BY <1>3, <1>5, <1>6, <1>7, RestoreToPrefix

\* Every frame can be restored while the recognizer is below the top one.
LEMMA FrameRestores ==
  ASSUME NEW w \in Seq(Byte), NEW stack, NEW P, PathInv(w, stack, P),
         NEW p \in Seq(Byte), IsPrefix(P, p), NEW i \in 1..Len(stack)
  PROVE  /\ CanRestore(Ordered(w \o p), stack[i].checkpoint)
         /\ Restore(Ordered(w \o p), stack[i].checkpoint) = Fed(Ordered(w), stack[i].node)
<1>1. P \in Seq(Byte) /\ Len(stack) = Len(P) + 1 /\ Len(P) \in Nat
  BY NodeType DEF PathInv
<1>N. PICK N : N = SubSeq(P, 1, i - 1)
  OBVIOUS
<1>2. stack[i].node = N /\ stack[i].checkpoint = Checkpoint(Ordered(w \o N))
  BY <1>N DEF PathInv, FrameInv
<1>3. i - 1 \in 0..Len(P)
  BY <1>1
<1>4. N \in Seq(Byte) /\ Len(N) = i - 1
  BY <1>1, <1>3, <1>N, Beginning
<1>5. Len(N) <= Len(P) /\ N = SubSeq(P, 1, Len(N))
  BY <1>1, <1>3, <1>4, <1>N
<1>6. IsPrefix(N, P)
  BY <1>1, <1>4, <1>5, PrefixIsSubSeq
<1>7. /\ CanRestore(Ordered(w \o p), Checkpoint(Ordered(w \o N)))
      /\ Restore(Ordered(w \o p), Checkpoint(Ordered(w \o N))) = Fed(Ordered(w), N)
  BY <1>1, <1>4, <1>6, RestoreAcross
<1> QED BY <1>2, <1>7

\* Every frame of the stack can be returned to, though for Earley all of them
\* truncate one chart (earley.rs:577-596; engine.rs:1406-1520).
THEOREM CheckpointsAlwaysNest == WalkSpec => []CheckpointsNest
<1>1. WalkInv => CheckpointsNest
  <2> SUFFICES ASSUME WalkInv, Walking, NEW i \in 1..Len(walk.stack)
               PROVE  LET c == walk.stack[i].checkpoint
                      IN /\ CanRestore(guide.rec, c)
                         /\ Restore(guide.rec, c) = Fed(walk.before, walk.stack[i].node)
    BY DEF CheckpointsNest
  <2>w. PICK w : w = walk.before.scans
    OBVIOUS
  <2>P. PICK P : P = Last(walk.stack).node
    OBVIOUS
  <2>s. PICK stack : stack = walk.stack
    OBVIOUS
  <2>1. /\ w \in Seq(Byte) /\ walk.before = Ordered(w)
        /\ PositionInv(w, guide.rec, walk.stack, walk.failed)
        /\ PathInv(w, stack, P) /\ ~walk.failed /\ walk.stack # << >>
    BY <2>w, <2>P, <2>s DEF WalkInv, RunningInv, Walking
  <2>2. PICK p \in Node : guide.rec = Ordered(w \o p) /\ IsPrefix(P, p)
    BY <2>1, <2>P DEF PositionInv
  <2>3. p \in Seq(Byte)
    BY NodeType
  <2>4. i \in 1..Len(stack)
    BY <2>s
  <2>5. /\ CanRestore(Ordered(w \o p), stack[i].checkpoint)
        /\ Restore(Ordered(w \o p), stack[i].checkpoint) = Fed(Ordered(w), stack[i].node)
    BY <2>1, <2>2, <2>3, <2>4, FrameRestores
  <2> QED BY <2>1, <2>2, <2>5, <2>s
<1> QED BY <1>1, WalkInvariance, PTL

\* Guide's instance is built from the same operators.
LEMMA AtomicLanguage ==
  ASSUME NEW w
  PROVE  (Atomic!Live(w) <=> Live(w)) /\ (Atomic!Accepting(w) <=> Accepting(w))
BY DEF Atomic!Live, Live, Atomic!Accepting, Accepting, Atomic!IsPrefix, IsPrefix

\* What the guide beneath the refinement asks of its recognizer is what the walk's guide
\* asks, operator by operator.
LEMMA AtomicRecognizer ==
  ASSUME NEW r, NEW b, NEW bs, NEW c
  PROVE  /\ Atomic!IsAccepting(r) <=> IsAccepting(r)
         /\ Atomic!ByteOutcome(r, b) = ByteOutcome(r, b)
         /\ Atomic!Fed(r, bs) = Fed(r, bs)
         /\ Atomic!Checkpoint(r) = Checkpoint(r)
         /\ Atomic!CanRestore(r, c) <=> CanRestore(r, c)
         /\ Atomic!Restore(r, c) = Restore(r, c)
<1>1. Atomic!IsAccepting(r) <=> IsAccepting(r)
  BY AtomicLanguage DEF Atomic!IsAccepting, IsAccepting
<1>2. Atomic!ByteOutcome(r, b) = ByteOutcome(r, b)
  BY AtomicLanguage DEF Atomic!ByteOutcome, ByteOutcome
<1>3. Atomic!Fed(r, bs) = Fed(r, bs)
  BY DEF Atomic!Fed, Fed
<1>4. Atomic!Checkpoint(r) = Checkpoint(r)
  BY DEF Atomic!Checkpoint, Checkpoint
<1>5. Atomic!CanRestore(r, c) <=> CanRestore(r, c)
  BY DEF Atomic!CanRestore, CanRestore
<1>6. Atomic!Restore(r, c) = Restore(r, c)
  BY DEF Atomic!Restore, Restore
<1> QED BY <1>1, <1>2, <1>3, <1>4, <1>5, <1>6

\* The recognizer that a failing byte leaves.
LEMMA AtomicSpoiled ==
  ASSUME NEW r, NEW b
  PROVE  Atomic!Spoiled(r, b) = Spoiled(r, b)
BY AtomicRecognizer DEF Atomic!Spoiled, Spoiled

\* A chunk of bytes.
LEMMA AtomicTryAdvance ==
  ASSUME NEW r, NEW bs
  PROVE  Atomic!TryAdvance(r, bs) = TryAdvance(r, bs)
<1> DEFINE before(i) == Fed(r, SubSeq(bs, 1, i - 1))
           stops == {i \in 1..Len(bs) : ByteOutcome(before(i), bs[i]) # "live"}
           atomicBefore(i) == Atomic!Fed(r, SubSeq(bs, 1, i - 1))
           atomicStops == {i \in 1..Len(bs) : Atomic!ByteOutcome(atomicBefore(i), bs[i]) # "live"}
<1>1. \A i : atomicBefore(i) = before(i)
  BY AtomicRecognizer
<1>2. \A i : Atomic!ByteOutcome(atomicBefore(i), bs[i]) = ByteOutcome(before(i), bs[i])
  BY <1>1, AtomicRecognizer
<1>3. atomicStops = stops
  BY <1>2
<1> DEFINE stopOf(S) == CHOOSE i \in S : \A j \in S : i <= j
<1>4. Atomic!TryAdvance(r, bs) =
        IF atomicStops = {}
        THEN [out |-> IF Atomic!IsAccepting(Atomic!Fed(r, bs)) THEN "accepting" ELSE "live",
              rec |-> Atomic!Fed(r, bs)]
        ELSE [out |-> Atomic!ByteOutcome(atomicBefore(stopOf(atomicStops)), bs[stopOf(atomicStops)]),
              rec |-> Atomic!Restore(Atomic!Spoiled(atomicBefore(stopOf(atomicStops)),
                                                    bs[stopOf(atomicStops)]),
                                     Atomic!Checkpoint(r))]
  BY DEF Atomic!TryAdvance
<1>5. TryAdvance(r, bs) =
        IF stops = {}
        THEN [out |-> IF IsAccepting(Fed(r, bs)) THEN "accepting" ELSE "live", rec |-> Fed(r, bs)]
        ELSE [out |-> ByteOutcome(before(stopOf(stops)), bs[stopOf(stops)]),
              rec |-> Restore(Spoiled(before(stopOf(stops)), bs[stopOf(stops)]), Checkpoint(r))]
  BY DEF TryAdvance
<1> HIDE DEF before, stops, atomicBefore, atomicStops, stopOf
<1> QED BY <1>1, <1>2, <1>3, <1>4, <1>5, AtomicRecognizer, AtomicSpoiled

\* The trie.
LEMMA AtomicPaths ==
  /\ Atomic!TriePaths = TriePaths
  /\ \A p : Atomic!Front(p) = Front(p) /\ Atomic!Last(p) = Last(p)
BY DEF Atomic!TriePaths, TriePaths, Atomic!Front, Front, Atomic!Last, Last

\* Sizes of sets.
LEMMA AtomicCard ==
  \A S : Atomic!Cardinality(S) = Cardinality(S)
BY DEF Atomic!Cardinality, Cardinality

\* What a walk may be asked for, fill_mask.
LEMMA AtomicMasks ==
  ASSUME NEW g
  PROVE  Atomic!FillOutcome(g) = FillOutcome(g) /\ Atomic!Filled(g) = Filled(g)
<1>1. \A r, p : Atomic!EdgeOutcome(r, p) = EdgeOutcome(r, p)
  BY AtomicRecognizer, AtomicPaths DEF Atomic!EdgeOutcome, EdgeOutcome
<1>2. \A r : Atomic!TriedEdges(r) = TriedEdges(r)
  BY AtomicLanguage, AtomicPaths DEF Atomic!TriedEdges, TriedEdges
<1>3. \A r : Atomic!TraversalFails(r) <=> TraversalFails(r)
  BY <1>1, <1>2, AtomicCard DEF Atomic!TraversalFails, TraversalFails
<1>4. \A r : Atomic!EnabledTokens(r) = EnabledTokens(r)
  BY <1>1, AtomicLanguage DEF Atomic!EnabledTokens, EnabledTokens
<1>5. Atomic!MaskOf(g) = MaskOf(g)
  BY <1>4, AtomicRecognizer DEF Atomic!MaskOf, MaskOf
<1>6. Atomic!FillOutcome(g) = FillOutcome(g)
  BY <1>3 DEF Atomic!FillOutcome, FillOutcome
<1> QED BY <1>5, <1>6 DEF Atomic!Filled, Filled

\* and the operations between walks.
LEMMA AtomicCommits ==
  ASSUME NEW g, NEW t, NEW c, NEW h
  PROVE  /\ Atomic!Advanced(g, t) = Advanced(g, t)
         /\ Atomic!AdvanceOutcome(g, t) = AdvanceOutcome(g, t)
         /\ Atomic!Restored(g, c, h) = Restored(g, c, h)
         /\ Atomic!CheckpointOf(g) = CheckpointOf(g)
         /\ Atomic!NewGuide = NewGuide
<1>1. \A r : Atomic!Try(r, t) = Try(r, t)
  BY AtomicRecognizer, AtomicTryAdvance, AtomicLanguage DEF Atomic!Try, Try
<1>2. Atomic!CheckpointOf(g) = CheckpointOf(g)
  BY AtomicRecognizer DEF Atomic!CheckpointOf, CheckpointOf
<1>3. \A past, e : Atomic!Retained(past, e) = Retained(past, e)
  BY DEF Atomic!Retained, Retained
<1>5. Atomic!AdvanceOutcome(g, t) = AdvanceOutcome(g, t)
  BY <1>1, AtomicRecognizer DEF Atomic!AdvanceOutcome, AdvanceOutcome
<1>6. Atomic!Committed(g, t) = Committed(g, t)
  BY <1>1, <1>2, <1>3 DEF Atomic!Committed, Committed
<1>7. Atomic!Refused(g, t) = Refused(g, t)
  BY <1>1 DEF Atomic!Refused, Refused
<1>8. Atomic!Advanced(g, t) = Advanced(g, t)
  BY <1>5, <1>6, <1>7 DEF Atomic!Advanced, Advanced
<1>9. Atomic!Restored(g, c, h) = Restored(g, c, h)
  BY AtomicRecognizer DEF Atomic!Restored, Restored
<1>10. Atomic!NewGuide = NewGuide
  BY DEF Atomic!NewGuide, NewGuide, Atomic!Fresh, Fresh
<1> QED BY <1>2, <1>5, <1>8, <1>9, <1>10

\* An operation between walks is one of the settled guide.
LEMMA AtomicOther ==
  ASSUME WalkInv, FillWithoutWalk \/ OtherCall
  PROVE  Atomic!Next
<1>1. Settled = guide /\ Settled' = guide'
  BY OtherStep
<1>2. CASE FillWithoutWalk
  <2>1. Atomic!FillMask
    BY <1>1, <1>2, AtomicMasks DEF FillWithoutWalk, FillMask, Atomic!FillMask
  <2> QED BY <2>1 DEF Atomic!Next
<1>3. ASSUME NEW t \in CallerId, Advance(t)
      PROVE  Atomic!Next
  <2>1. Atomic!Advance(t)
    BY <1>1, <1>3, AtomicCommits DEF Advance, Atomic!Advance, Answer, Atomic!Answer
  <2>2. t \in Atomic!CallerId
    BY DEF CallerId, Id, Atomic!CallerId, Atomic!Id
  <2> QED BY <2>1, <2>2 DEF Atomic!Next
<1>4. ASSUME NEW n \in 1..MaxRollback, Rollback(n)
      PROVE  Atomic!Next
  <2>1. Atomic!Rollback(n)
    BY <1>1, <1>4, AtomicCommits, AtomicRecognizer
       DEF Rollback, Atomic!Rollback, Answer, Atomic!Answer
  <2>2. n \in 0..MaxRollback + 1
    BY GuideAssumption
  <2> QED BY <2>1, <2>2 DEF Atomic!Next
<1>5. CASE Reset
  <2>1. Atomic!Reset
    BY <1>1, <1>5, AtomicCommits DEF Reset, Atomic!Reset, Answer, Atomic!Answer
  <2> QED BY <2>1 DEF Atomic!Next
<1> QED BY <1>2, <1>3, <1>4, <1>5 DEF OtherCall

\* The traversal on the guide's own recognizer is one step of Guide: the mask is
\* the one Guide computes, it fails exactly when Guide says, and the recognizer
\* is left as it was ("mask queries are pure", README.md:149).
THEOREM WalkRefinesGuide == WalkSpec => WalkIsAtomic
<1>1. WalkInit => Atomic!Init
  <2>1. WalkInit => Settled = NewGuide /\ reply = Answer(<<"new">>, "ok")
    BY DEF WalkInit, Init, Settled, NoWalk
  <2> QED BY <2>1, AtomicCommits DEF Atomic!Init, Answer, Atomic!Answer
<1>2. WalkInv /\ [WalkNext]_walkVars => [Atomic!Next]_Atomic!vars
  <2> SUFFICES ASSUME WalkInv, [WalkNext]_walkVars
               PROVE  Atomic!Next \/ (Settled' = Settled /\ reply' = reply)
    BY DEF Atomic!vars
  <2>1. CASE FillWithoutWalk \/ OtherCall
    BY <2>1, AtomicOther
  <2>2. CASE BeginWalk
    BY <2>2, BeginStep DEF BeginWalk
  <2>3. CASE Emit
    BY <2>3, EmitStep DEF Emit
  <2>4. CASE Leave
    BY <2>4, LeaveStep DEF Leave
  <2>5. ASSUME NEW p \in TriePaths, Descend(p)
        PROVE  Settled' = Settled /\ reply' = reply
    BY <2>5, DescendStep DEF Descend
  <2>6. CASE EndWalk
    <3>1. Atomic!FillMask
      BY <2>6, EndStep, AtomicMasks DEF Atomic!FillMask
    <3> QED BY <3>1 DEF Atomic!Next
  <2>7. CASE UNCHANGED walkVars
    BY <2>7 DEF walkVars, Settled
  <2> QED BY <2>1, <2>2, <2>3, <2>4, <2>5, <2>6, <2>7 DEF WalkNext, WalkStep
<1> QED BY <1>1, <1>2, WalkInvariance, PTL DEF WalkSpec, WalkIsAtomic
=============================================================================
