------------------------------ MODULE TokenIndex ------------------------------
(***************************************************************************)
(* The vocabulary, and Index::from_certified_dfa: from the start state on, *)
(* every state some tokens lead to gets a row, the live state after each   *)
(* token that has one.  A state that is not accepting and has no row makes *)
(* the vocabulary incompatible, and an id that leads to two states from    *)
(* the same one is ambiguous.                                              *)
(*                                                                         *)
(* Tokens come out of a hash map: the order in which states are found, and *)
(* so worked off, is left open.                                            *)
(***************************************************************************)
EXTENDS CompiledByteDfa

CONSTANTS
  Id,          \* token ids
  Eos,         \* eos_token_id
  Token,       \* byte strings that may be inserted
  MaxEntries   \* bound: ids in the vocabulary, counted once for each of their tokens

ASSUME TokenAssumption == Token \subseteq Seq(Byte) /\ Id \subseteq Nat /\ Eos \in Nat

VARIABLES
  vocabulary,   \* the ids of each token
  index         \* how far the projection is, its rows and final states

indexVars == <<vocabulary, index>>

InitIndex ==
  /\ vocabulary = << >>
  /\ index = [at |-> "idle", seen |-> {}, list |-> {}, rows |-> << >>, final |-> {}]

\* A map with y under x.
Put(f, x, y) == [z \in DOMAIN f \cup {x} |-> IF z = x THEN y ELSE f[z]]

IdsOf(t) == IF t \in DOMAIN vocabulary THEN vocabulary[t] ELSE {}

Entries == UNION {{<<t, id>> : id \in vocabulary[t]} : t \in DOMAIN vocabulary}

\* Vocabulary::try_insert, which refuses the id of EOS.
TryInsert(t, id) ==
  /\ index.at = "idle"
  /\ id # Eos
  /\ Cardinality(Entries \cup {<<t, id>>}) <= MaxEntries
  /\ vocabulary' = Put(vocabulary, t, IdsOf(t) \cup {id})
  /\ UNCHANGED index

\* Vocabulary::remove
RemoveToken(t) ==
  /\ index.at = "idle"
  /\ t \in DOMAIN vocabulary
  /\ vocabulary' = [u \in DOMAIN vocabulary \ {t} |-> vocabulary[u]]
  /\ UNCHANGED index

-----------------------------------------------------------------------------

\* A language without words has an index without rows.
BeginIndex ==
  /\ dfa.at = "done" /\ index.at = "idle"
  /\ index' = IF ~IsLive(0) /\ ~IsAccepting(0) THEN [index EXCEPT !.at = "done"]
              ELSE [index EXCEPT !.at = "projecting", !.seen = {0}, !.list = {0}]
  /\ UNCHANGED vocabulary

\* Where the tokens lead from state s, if that is live.
Steps(s) == {e \in {<<entry[2], After(s, entry[1])>> : entry \in Entries} : IsLive(e[2])}

Disagree(steps) == \E e, f \in steps : e[1] = f[1] /\ e[2] # f[2]

\* A row with these steps.
RowWith(steps) == [id \in {e[1] : e \in steps} |-> (CHOOSE e \in steps : e[1] = id)[2]]

\* Mutant of Turn: a state is final only if it also has a row.
TurnLate(ix, s, steps, accepting) ==
  IF Disagree(steps) THEN [ix EXCEPT !.at = "ambiguous"]
  ELSE IF steps = {} THEN [ix EXCEPT !.at = "incompatible"]
  ELSE [ix EXCEPT !.final = IF accepting THEN @ \cup {s} ELSE @,
                  !.rows = Put(@, s, RowWith(steps)),
                  !.list = (@ \ {s}) \cup ({e[2] : e \in steps} \ ix.seen),
                  !.seen = @ \cup {e[2] : e \in steps}]

\* Mutant of Turn: a state that was seen is entered in the worklist again.
TurnAgain(ix, s, steps, accepting) ==
  IF Disagree(steps) THEN [ix EXCEPT !.at = "ambiguous"]
  ELSE IF steps = {} /\ ~accepting THEN [ix EXCEPT !.at = "incompatible"]
  ELSE [ix EXCEPT !.final = IF accepting THEN @ \cup {s} ELSE @,
                  !.rows = Put(@, s, RowWith(steps)),
                  !.list = (@ \ {s}) \cup {e[2] : e \in steps}]

\* One turn of the worklist of ix: state s, the steps its tokens take, and
\* whether it is accepting.
Turn(ix, s, steps, accepting) ==
  IF Disagree(steps) THEN [ix EXCEPT !.at = "ambiguous"]
  ELSE IF steps = {} /\ ~accepting THEN [ix EXCEPT !.at = "incompatible"]
  ELSE [ix EXCEPT !.final = IF accepting THEN @ \cup {s} ELSE @,
                  !.rows = Put(@, s, RowWith(steps)),
                  !.list = (@ \ {s}) \cup ({e[2] : e \in steps} \ ix.seen),
                  !.seen = @ \cup {e[2] : e \in steps}]

\* EOS is entered in the row of every final state.
WithEos(ix) ==
  [ix EXCEPT !.at = "done",
             !.rows = [s \in DOMAIN @ |-> IF s \in ix.final THEN Put(@[s], Eos, s) ELSE @[s]]]

ExpandState(s) ==
  /\ index.at = "projecting" /\ s \in index.list
  /\ index' = Turn(index, s, Steps(s), IsAccepting(s))
  /\ UNCHANGED vocabulary

FinishIndex ==
  /\ index.at = "projecting" /\ index.list = {}
  /\ index' = WithEos(index)
  /\ UNCHANGED vocabulary

IndexStep ==
  \/ \E t \in Token, id \in Id : TryInsert(t, id)
  \/ \E t \in Token : RemoveToken(t)
  \/ BeginIndex
  \/ \E s \in index.list : ExpandState(s)
  \/ FinishIndex
=============================================================================
