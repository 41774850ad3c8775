---------------------------- MODULE PyRecognizer ----------------------------
(***************************************************************************)
(* The Python class Recognizer: one RecognizerState and a table of         *)
(* checkpoints that only grows.  The handle of a checkpoint is its index   *)
(* in the table, so the caller may restore any of them, any number of      *)
(* times, in any order.  Handles count from 0 in the code and from 1 here. *)
(***************************************************************************)
EXTENDS ByteRecognizer

CONSTANTS
  Chunk,                  \* the byte chunks a caller may pass to advance()
  MaxCheckpointHistory,   \* RuntimeLimits.max_checkpoint_history
  HandleOrder             \* "any", or "nested": the caller restores only
                          \* checkpoints whose bytes it has not undone since

ASSUME PyRecognizerAssumption ==
  /\ Chunk \subseteq Seq(Byte)
  /\ MaxCheckpointHistory \in Nat
  /\ HandleOrder \in {"any", "nested"}

VARIABLES
  rec,      \* the RecognizerState
  table,    \* the checkpoints taken, by handle
  reply,    \* what the last call returned
  text,     \* history: the bytes the caller has advanced by and not undone
  marks     \* history: for each checkpoint taken, the handle the caller was
            \* given and the text of that moment

vars == <<rec, table, reply, text, marks>>

Outcomes == {"none", "live", "accepting", "rejected", "limit", "ok", "invalid"}

Init ==
  /\ rec = Fresh
  /\ table = << >>
  /\ reply = "none"
  /\ text = << >>
  /\ marks = << >>

-----------------------------------------------------------------------------

\* advance(data)
Advance(bs) ==
  LET a == TryAdvance(rec, bs)
  IN /\ rec' = a.rec
     /\ reply' = a.out
     /\ text' = IF a.out \in {"live", "accepting"} THEN text \o bs ELSE text
     /\ UNCHANGED <<table, marks>>

\* Mutant of TakeCheckpoint: the oldest checkpoint gives way to the new one, as
\* in the history of a guide.
TakeCheckpointDropsOldest ==
  /\ table' = IF Len(table) < MaxCheckpointHistory THEN Append(table, Checkpoint(rec))
              ELSE Append(SubSeq(table, 2, Len(table)), Checkpoint(rec))
  /\ marks' = Append(marks, [handle |-> Len(table'), text |-> text])
  /\ reply' = "ok"
  /\ UNCHANGED <<rec, text>>

\* checkpoint(): refused once the table is full.
TakeCheckpoint ==
  IF Len(table) >= MaxCheckpointHistory
  THEN reply' = "limit" /\ UNCHANGED <<rec, table, text, marks>>
  ELSE /\ table' = Append(table, Checkpoint(rec))
       /\ marks' = Append(marks, [handle |-> Len(table'), text |-> text])
       /\ reply' = "ok"
       /\ UNCHANGED <<rec, text>>

\* A handle that no call has returned.
NoMark == [handle |-> Len(table) + 1, text |-> text]

\* The handles a caller that keeps to HandleOrder passes to restore().
Usable(m) == HandleOrder = "nested" => IsPrefix(m.text, text)

\* restore(handle), of the handle of mark m.
RestoreCheckpoint(m) ==
  /\ Usable(m)
  /\ IF m.handle \in 1..Len(table) /\ CanRestore(rec, table[m.handle])
     THEN /\ rec' = Restore(rec, table[m.handle])
          /\ text' = m.text
          /\ reply' = "ok"
     ELSE /\ reply' = "invalid"
          /\ UNCHANGED <<rec, text>>
  /\ UNCHANGED <<table, marks>>

Next ==
  \/ \E bs \in Chunk : Advance(bs)
  \/ TakeCheckpoint
  \/ \E m \in ToSet(marks) \cup {NoMark} : RestoreCheckpoint(m)

Spec == Init /\ [][Next]_vars

-----------------------------------------------------------------------------

\* The two questions a caller can ask, accepting and live, are answered for
\* the bytes advanced by and not undone, whatever was rejected, hit a limit or
\* was restored on the way (README.md:45).
AnswersForText ==
  /\ IsAccepting(rec) <=> Accepting(text)
  /\ (rec.scans # NoScans /\ Live(rec.scans)) <=> Live(text)

\* restore "Restores a checkpoint created by this recognizer"
\* (python_bindings/mod.rs:1030): after a restore that reports success, the
\* recognizer accepts exactly if it accepted when the call that returned the
\* handle took the checkpoint.
RestoreReturnsToCheckpoint ==
  [][\A m \in ToSet(marks) : RestoreCheckpoint(m) /\ reply' = "ok" =>
       (IsAccepting(rec') <=> Accepting(m.text))]_vars

\* A checkpoint of this recognizer is never refused, however full the table was
\* when it was taken and since.
RestoreIsNeverRefused ==
  [][\A m \in ToSet(marks) : RestoreCheckpoint(m) => reply' = "ok"]_vars

\* A chunk that is rejected or hits a limit half-way leaves no trace: neither
\* the columns it pushed nor the scans it took (README.md:45, 124).
FailedAdvanceLeavesNoTrace ==
  [][reply' \in {"rejected", "limit", "invalid"} => rec' = rec]_vars
============================================================================
