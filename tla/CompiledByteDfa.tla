--------------------------- MODULE CompiledByteDfa ---------------------------
(***************************************************************************)
(* CompiledByteDfa::compile, from the automaton the regex library built:   *)
(* its states are numbered in the order a breadth-first search finds them, *)
(* and the states from which acceptance can be reached are marked, going   *)
(* backwards over predecessors laid out in one array, a slice per state.   *)
(*                                                                         *)
(* A step of the search is one state taken from the queue; a step of the   *)
(* marking, one state taken from the stack.                                *)
(***************************************************************************)
EXTENDS Integers, Sequences, FiniteSets, SequencesExt

CONSTANTS
  Byte,
  Automata,       \* automata of the library: [start, step, accepting]
  MaxDfaStates    \* CompileLimits::max_dfa_states

\* A dead state of the library, and DEAD_DFA_STATE.
RawDead == "dead"
Dead == -1

ASSUME ByteAssumption == Byte \subseteq Nat /\ IsFiniteSet(Byte)

\* The library's automata are complete: from every state each byte leads to a state
\* or to a dead one.
ASSUME AutomataAssumption ==
  /\ MaxDfaStates \in Nat
  /\ \A A \in Automata :
       /\ RawDead \notin DOMAIN A.step
       /\ A.step \in [DOMAIN A.step -> [Byte -> DOMAIN A.step \cup {RawDead}]]
       /\ A.start \in DOMAIN A.step
       /\ A.accepting \subseteq DOMAIN A.step

VARIABLES
  raw,   \* the library's automaton
  dfa    \* how far the compilation is, and the tables

dfaVars == <<raw, dfa>>

InitDfa ==
  /\ raw \in Automata
  /\ dfa = [at |-> "numbering", number |-> [r \in {raw.start} |-> 0], queue |-> <<raw.start>>,
            rows |-> << >>, accepting |-> {}, offsets |-> << >>, predecessors |-> << >>,
            live |-> {}, stack |-> << >>]

\* The numbers of a finite set in ascending order.
Ascending(S) == CHOOSE s \in SetToSeqs(S) : \A i, j \in DOMAIN s : i < j => s[i] < s[j]

\* The tables are indexed by states, which count from 0.
States(d) == 0..(Len(d.rows) - 1)
RowOf(d, s) == d.rows[s + 1]

\* What is found, and next if that is a raw state without a number.
WithTarget(found, next) ==
  IF next = RawDead \/ next \in DOMAIN dfa.number \cup ToSet(found) THEN found
  ELSE Append(found, next)

\* The raw states a row leads to that have no number yet, in the order of bytes.
NewTargets(current) ==
  LET bytes == Ascending(Byte)
  IN FoldLeft(WithTarget, << >>, [k \in DOMAIN bytes |-> raw.step[current][bytes[k]]])

NumberState ==
  /\ dfa.at = "numbering" /\ dfa.queue # << >>
  /\ LET current == Head(dfa.queue)
         new == NewTargets(current)
         known == Cardinality(DOMAIN dfa.number)
         number == [r \in DOMAIN dfa.number \cup ToSet(new) |->
                      IF r \in DOMAIN dfa.number THEN dfa.number[r]
                      ELSE known + (CHOOSE k \in DOMAIN new : new[k] = r) - 1]
     IN IF known + Len(new) > MaxDfaStates
        THEN dfa' = [dfa EXCEPT !.at = "refused"]
        ELSE dfa' = [dfa EXCEPT
               !.number = number,
               !.queue = Tail(@) \o new,
               !.rows = Append(@, [byte \in Byte |->
                          LET next == raw.step[current][byte]
                          IN IF next = RawDead THEN Dead ELSE number[next]]),
               !.accepting = IF current \in raw.accepting THEN @ \cup {number[current]} ELSE @]
  /\ UNCHANGED raw

-----------------------------------------------------------------------------
(* compute_liveness. *)

\* Each target of a row once.
TargetsOf(s) == {RowOf(dfa, s)[byte] : byte \in Byte} \ {Dead}

PredecessorCount(t) == Cardinality({s \in States(dfa) : t \in TargetsOf(s)})

WithOffset(offsets, t) == Append(offsets, Last(offsets) + PredecessorCount(t))

\* Where the slices begin and end: the slice of t is offsets[t + 1] to offsets[t + 2].
Offsets == FoldLeft(WithOffset, <<0>>, [k \in 1..Len(dfa.rows) |-> k - 1])

\* Sources are entered in order, each at the first free place of its targets.
Placed(offsets) ==
  [cursor \in 1..Last(offsets) |->
     LET t == CHOOSE t \in States(dfa) : offsets[t + 1] < cursor /\ cursor <= offsets[t + 2]
     IN Ascending({s \in States(dfa) : t \in TargetsOf(s)})[cursor - offsets[t + 1]]]

LayOutPredecessors ==
  /\ dfa.at = "numbering" /\ dfa.queue = << >>
  /\ LET offsets == Offsets
     IN dfa' = [dfa EXCEPT !.at = "marking", !.offsets = offsets, !.predecessors = Placed(offsets),
                           !.live = dfa.accepting, !.stack = Ascending(dfa.accepting)]
  /\ UNCHANGED raw

\* A state whose target is live.
Marked(m, s) ==
  IF s \in m.live THEN m ELSE [live |-> m.live \cup {s}, stack |-> Append(m.stack, s)]

\* Mutant of MarkLive: the slice ends one short.
MarkLiveShort ==
  /\ dfa.at = "marking" /\ dfa.stack # << >>
  /\ LET target == Last(dfa.stack)
         slice == SubSeq(dfa.predecessors, dfa.offsets[target + 1] + 1, dfa.offsets[target + 2] - 1)
         m == FoldLeft(Marked, [live |-> dfa.live, stack |-> Front(dfa.stack)], slice)
     IN dfa' = [dfa EXCEPT !.live = m.live, !.stack = m.stack]
  /\ UNCHANGED raw

MarkLive ==
  /\ dfa.at = "marking" /\ dfa.stack # << >>
  /\ LET target == Last(dfa.stack)
         slice == SubSeq(dfa.predecessors, dfa.offsets[target + 1] + 1, dfa.offsets[target + 2])
         m == FoldLeft(Marked, [live |-> dfa.live, stack |-> Front(dfa.stack)], slice)
     IN dfa' = [dfa EXCEPT !.live = m.live, !.stack = m.stack]
  /\ UNCHANGED raw

EndMarking ==
  /\ dfa.at = "marking" /\ dfa.stack = << >>
  /\ dfa' = [dfa EXCEPT !.at = "done"]
  /\ UNCHANGED raw

CompileStep == NumberState \/ LayOutPredecessors \/ MarkLive \/ EndMarking

-----------------------------------------------------------------------------
(* The compiled automaton in use. *)

NextState(s, byte) == IF s \in States(dfa) THEN RowOf(dfa, s)[byte] ELSE Dead
IsAccepting(s) == s \in dfa.accepting
IsLive(s) == s \in dfa.live

\* The state after some bytes.
After(s, bytes) == FoldLeft(NextState, s, bytes)

RawNext(q, byte) == IF q = RawDead THEN RawDead ELSE raw.step[q][byte]

\* For reference: the library's automaton after some bytes.
RawAfter(r, bytes) == FoldLeft(RawNext, r, bytes)
=============================================================================
