---------------------------- MODULE MaskTraversal ----------------------------
(***************************************************************************)
(* How a structural guide computes a mask: fill_structural_mask walks the  *)
(* token trie depth first on the guide's OWN recognizer, advancing it      *)
(* along an edge and restoring it to the checkpoint of the frame on the    *)
(* way back.  For Earley each restore truncates the one chart all frames   *)
(* share, so a frame's checkpoint is good only while no frame above it has *)
(* truncated below it; an error may leave the walk at any depth.           *)
(*                                                                         *)
(* Guide takes the walk for one step.  This module shows that it is one:   *)
(* with the steps of the walk spelled out, it implements Guide.            *)
(***************************************************************************)
EXTENDS Guide

VARIABLE walk   \* the traversal under way

walkVars == <<guide, reply, walk>>

NoWalk == [running |-> FALSE]

\* A trie node is the path to it; the children of a node are one byte longer.
Children(node) == {p \in TriePaths : Front(p) = node}

TokensAt(node) == {t \in Token : BytesOf[t] = node}

\* The order of the edges of a node is left open.
Frame(node, r) ==
  [node |-> node, todo |-> Children(node), emitted |-> FALSE, checkpoint |-> Checkpoint(r)]

WalkInit == Init /\ walk = NoWalk

\* fill_mask, where it needs no walk: the mask is cached, or the guide finished.
FillWithoutWalk ==
  /\ ~walk.running
  /\ guide.cached # {} \/ guide.finished \/ Backend = "dfa"
  /\ FillMask
  /\ UNCHANGED walk

BeginWalk ==
  /\ ~walk.running
  /\ guide.cached = {} /\ ~guide.finished /\ Backend # "dfa"
  /\ walk' = [running |-> TRUE,
              root    |-> Checkpoint(guide.rec),
              stack   |-> <<Frame(<< >>, guide.rec)>>,
              mask    |-> IF IsAccepting(guide.rec) THEN {EOS} ELSE {},
              visited |-> 0,
              failed  |-> FALSE,
              before  |-> guide.rec]
  /\ UNCHANGED <<guide, reply>>

-----------------------------------------------------------------------------

Top == Last(walk.stack)

Walking == walk.running /\ walk.stack # << >> /\ ~walk.failed

\* A node's tokens are enabled on the first visit, while the recognizer is live.
Emit ==
  /\ Walking /\ ~Top.emitted
  /\ walk' = [walk EXCEPT !.stack[Len(walk.stack)].emitted = TRUE,
                          !.mask = IF Live(guide.rec.scans) THEN @ \cup TokensAt(Top.node) ELSE @]
  /\ UNCHANGED <<guide, reply>>

\* No edge is left: back to the frame's checkpoint.
Leave ==
  /\ Walking /\ Top.emitted /\ Top.todo = {}
  /\ IF CanRestore(guide.rec, Top.checkpoint)
     THEN /\ guide' = [guide EXCEPT !.rec = Restore(@, Top.checkpoint)]
          /\ walk' = [walk EXCEPT !.stack = Front(@)]
     ELSE walk' = [walk EXCEPT !.failed = TRUE] /\ UNCHANGED guide
  /\ UNCHANGED reply

\* Mutant of Descend: the recognizer is not restored before the next edge.
DescendWithoutRestore(p) ==
  /\ Walking /\ Top.emitted /\ p \in Top.todo
  /\ LET a == TryAdvance(guide.rec, <<Last(p)>>)
         popped == [walk.stack EXCEPT ![Len(walk.stack)].todo = @ \ {p}]
     IN /\ guide' = [guide EXCEPT !.rec = a.rec]
        /\ walk' = [walk EXCEPT !.visited = @ + 1, !.failed = (a.out = "limit"),
                                !.stack = IF a.out \in {"live", "accepting"}
                                          THEN Append(popped, Frame(p, a.rec)) ELSE popped]
  /\ UNCHANGED reply

\* One edge: the recognizer goes back to the frame's checkpoint, and from there
\* over the byte of the edge.  A limit ends the walk.
Descend(p) ==
  /\ Walking /\ Top.emitted /\ p \in Top.todo
  /\ IF walk.visited + 1 > MaxMaskTrieEdges \/ ~CanRestore(guide.rec, Top.checkpoint)
     THEN walk' = [walk EXCEPT !.failed = TRUE] /\ UNCHANGED guide
     ELSE LET a == TryAdvance(Restore(guide.rec, Top.checkpoint), <<Last(p)>>)
              popped == [walk.stack EXCEPT ![Len(walk.stack)].todo = @ \ {p}]
          IN /\ guide' = [guide EXCEPT !.rec = a.rec]
             /\ walk' = [walk EXCEPT !.visited = @ + 1, !.failed = (a.out = "limit"),
                                     !.stack = IF a.out \in {"live", "accepting"}
                                               THEN Append(popped, Frame(p, a.rec)) ELSE popped]
  /\ UNCHANGED reply

\* Mutant of EndWalk: on an error the root is not restored.
EndWalkInPlace ==
  /\ walk.running /\ (walk.stack = << >> \/ walk.failed)
  /\ guide' = [guide EXCEPT !.cached = IF walk.failed THEN {} ELSE {walk.mask}]
  /\ reply' = [call |-> <<"mask">>, out |-> IF walk.failed THEN "limit" ELSE "ok",
               mask |-> IF walk.failed THEN {} ELSE walk.mask]
  /\ walk' = NoWalk

\* Whatever happened, the root checkpoint is restored.
EndWalk ==
  /\ walk.running /\ (walk.stack = << >> \/ walk.failed)
  /\ LET ok == ~walk.failed /\ CanRestore(guide.rec, walk.root)
     IN /\ guide' = [guide EXCEPT !.rec = IF CanRestore(@, walk.root) THEN Restore(@, walk.root) ELSE @,
                                  !.cached = IF ok THEN {walk.mask} ELSE {}]
        /\ reply' = [call |-> <<"mask">>, out |-> IF ok THEN "ok" ELSE "limit",
                     mask |-> IF ok THEN walk.mask ELSE {}]
  /\ walk' = NoWalk

WalkStep == Emit \/ Leave \/ (\E p \in TriePaths : Descend(p)) \/ EndWalk

\* The other operations of the guide, between walks.
OtherCall ==
  /\ ~walk.running
  /\ \/ \E t \in CallerId : Advance(t)
     \/ \E n \in 1..MaxRollback : Rollback(n)
     \/ Reset
  /\ UNCHANGED walk

WalkNext == FillWithoutWalk \/ BeginWalk \/ WalkStep \/ OtherCall

WalkSpec == WalkInit /\ [][WalkNext]_walkVars

-----------------------------------------------------------------------------
(* Properties. *)

\* The recognizer is at every moment the one at the root plus the path of some
\* node, in order; between walks it is the guide's.
RecognizerIsOnThePath ==
  walk.running =>
    \E p \in TriePaths \cup {<< >>} :
      guide.rec = [columns  |-> walk.before.columns \o p,
                   scans    |-> walk.before.scans \o p,
                   position |-> walk.before.position + Len(p)]

\* Every checkpoint on the stack can still be restored, to its own node, in the
\* order the walk will do it: no frame above has truncated what it needs.
CheckpointsNest ==
  Walking =>
    \A i \in 1..Len(walk.stack) :
      LET c == walk.stack[i].checkpoint
      IN /\ CanRestore(guide.rec, c)
         /\ Restore(guide.rec, c) = Fed(walk.before, walk.stack[i].node)

\* The guide as a caller sees it: a walk has not happened until it ends.
Settled == IF walk.running THEN [guide EXCEPT !.rec = walk.before] ELSE guide

Atomic == INSTANCE Guide WITH guide <- Settled

\* The walk computes exactly the mask that Guide says, fails exactly when Guide
\* says, and leaves no trace in the recognizer ("mask queries are pure",
\* README.md:149).
WalkIsAtomic == Atomic!Init /\ [][Atomic!Next]_Atomic!vars
=============================================================================
