--------------------------- MODULE ByteRecognizer ---------------------------
(***************************************************************************)
(* The incremental recognizer behind RecognizerState: one value that holds *)
(* a whole-DFA, an LALR or an Earley recognizer.  How a backend finds out  *)
(* whether a byte is viable is abstracted to the language; what it stores, *)
(* what a failing byte leaves behind, and what a checkpoint captures are   *)
(* kept, because the transactional contract depends on them:               *)
(*   - an Earley checkpoint captures the active scans and the NUMBER of    *)
(*     chart columns, and restoring it truncates the chart;                *)
(*   - a DFA or LALR checkpoint captures the whole state by value.         *)
(* A recognizer is a record                                                *)
(*   columns  : the bytes whose tables it holds (for Earley, the byte each *)
(*              chart column after column 0 was built for);                *)
(*   scans    : the bytes its scanning state belongs to, NoScans once the  *)
(*              scans were taken and not put back;                         *)
(*   position : the byte count checked against max_input_bytes.            *)
(* It is in order when columns = scans and position = Len(columns).        *)
(***************************************************************************)
EXTENDS ByteLanguage

CONSTANTS
  Backend,        \* "dfa", "lalr" or "earley"
  MaxInputBytes,  \* RuntimeLimits.max_input_bytes
  Overflow,       \* the <<prefix, byte>> on which a table limit is exceeded
  NoScans

ASSUME RecognizerAssumption ==
  /\ Backend \in {"dfa", "lalr", "earley"}
  /\ MaxInputBytes \in Nat
  /\ Overflow \subseteq Seq(Byte) \X Byte
  /\ Backend = "dfa" => Overflow = {}
  /\ NoScans \notin Seq(Byte)

Recognizer ==
  [columns : Seq(Byte), scans : Seq(Byte) \cup {NoScans}, position : Nat]

Fresh == [columns |-> << >>, scans |-> << >>, position |-> 0]

\* Accepting is read off the last chart column (Earley), the stack (LALR) or
\* the state (DFA); liveness also off the active scans.
IsAccepting(r) == Accepting(r.columns)

\* advance_byte: how one byte ends.  The input limit is checked first; the
\* table limits are hit while the new column, stack or candidates are built.
ByteOutcome(r, b) ==
  IF r.position + 1 > MaxInputBytes \/ <<r.scans, b>> \in Overflow THEN "limit"
  ELSE IF Live(Append(r.scans, b)) THEN "live" ELSE "rejected"

\* advance_byte: what a failing byte leaves behind.  Earley has pushed a column
\* and taken the scans (and counted the byte if the column was completed), LALR
\* has drained its candidates, the DFA has changed nothing.
Spoiled(r, b) ==
  IF Backend = "dfa" \/ r.position + 1 > MaxInputBytes THEN r
  ELSE IF Backend = "lalr" THEN [r EXCEPT !.scans = NoScans]
  ELSE [columns  |-> Append(r.columns, b),
        scans    |-> NoScans,
        position |-> r.position + (IF ByteOutcome(r, b) = "rejected" THEN 1 ELSE 0)]

\* The recognizer after the bytes bs, every one of them live.
Fed(r, bs) ==
  [columns  |-> r.columns \o bs,
   scans    |-> r.scans \o bs,
   position |-> r.position + Len(bs)]

-----------------------------------------------------------------------------

RecognizerCheckpoint ==
  [count : Nat, saved : Seq(Byte), scans : Seq(Byte) \cup {NoScans}, position : Nat]

\* checkpoint: Earley stores only how many columns there are.
Checkpoint(r) ==
  [count    |-> Len(r.columns),
   saved    |-> IF Backend = "earley" THEN << >> ELSE r.columns,
   scans    |-> r.scans,
   position |-> r.position]

\* Mutant of CanRestore: one column too many is asked for.
CanRestoreStrictly(r, c) == Backend = "earley" => c.count < Len(r.columns)

\* restore: the one check is that the chart is long enough to truncate.
CanRestore(r, c) == Backend = "earley" => c.count <= Len(r.columns)

\* Mutants of Restore: the columns stay, or one too many of them goes.
RestoreKeepsColumns(r, c) ==
  [columns |-> r.columns, scans |-> c.scans, position |-> c.position]

RestoreTruncatesTooFar(r, c) ==
  [columns  |-> SubSeq(r.columns, 1, c.count - 1),
   scans    |-> c.scans,
   position |-> c.position]

Restore(r, c) ==
  [columns  |-> IF Backend = "earley" THEN SubSeq(r.columns, 1, c.count) ELSE c.saved,
   scans    |-> c.scans,
   position |-> c.position]

\* Mutant of TryAdvance: a limit returns early, before the restore.
TryAdvanceForgetsRestore(r, bs) ==
  LET before(i) == Fed(r, SubSeq(bs, 1, i - 1))
      stops == {i \in 1..Len(bs) : ByteOutcome(before(i), bs[i]) # "live"}
      stop == CHOOSE i \in stops : \A j \in stops : i <= j
  IN IF stops = {} THEN [out |-> "live", rec |-> Fed(r, bs)]
     ELSE [out |-> ByteOutcome(before(stop), bs[stop]),
           rec |-> Spoiled(before(stop), bs[stop])]

\* try_advance_bytes: feed the bytes up to the first that is not live; then
\* the checkpoint taken on entry is restored.
TryAdvance(r, bs) ==
  LET before(i) == Fed(r, SubSeq(bs, 1, i - 1))
      stops == {i \in 1..Len(bs) : ByteOutcome(before(i), bs[i]) # "live"}
      stop == CHOOSE i \in stops : \A j \in stops : i <= j
  IN IF stops = {}
     THEN [out |-> IF IsAccepting(Fed(r, bs)) THEN "accepting" ELSE "live",
           rec |-> Fed(r, bs)]
     ELSE [out |-> ByteOutcome(before(stop), bs[stop]),
           rec |-> Restore(Spoiled(before(stop), bs[stop]), Checkpoint(r))]
============================================================================
