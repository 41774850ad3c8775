------------------------- MODULE PyRecognizer_proofs -------------------------
(***************************************************************************)
(* Proofs about PyRecognizer, for every language, backend, set of chunks   *)
(* and limit.                                                              *)
(*                                                                         *)
(* What the caller sees is not inductive: an Earley checkpoint stores no   *)
(* bytes, so that restoring it gives back the right recognizer rests on    *)
(* every handle being a checkpoint of a recognizer in order at its mark,   *)
(* and on the columns kept being those of the mark.  The second is the     *)
(* caller's part: NestedHandles is what Handles must keep to.  A backend   *)
(* that captures its state by value needs nothing of the caller.           *)
(***************************************************************************)
EXTENDS PyRecognizer, FoldLemmas

-----------------------------------------------------------------------------
(***************************************************************************)
(* The recognizer.  TryAdvanceIsAtomic says that the destructive byte loop *)
(* of try_advance_bytes, which stops anywhere and leaves the recognizer    *)
(* spoiled, followed by a restore that for Earley only truncates, is a     *)
(* transaction: all of the bytes or none.                                  *)
(***************************************************************************)

\* The recognizers a caller may meet: their scans are in place.
IdleRecognizer == [columns : Seq(Byte), scans : Seq(Byte), position : Nat]

\* Truncation undoes what was appended.
LEMMA TruncateUndoesConcat ==
  ASSUME NEW S, NEW s \in Seq(S), NEW t \in Seq(S)
  PROVE  SubSeq(s \o t, 1, Len(s)) = s
OBVIOUS

\* A sequence is what comes up to a point and what comes after it.
LEMMA SplitAt ==
  ASSUME NEW bs \in Seq(Byte), NEW n \in 0..Len(bs)
  PROVE  bs = SubSeq(bs, 1, n) \o SubSeq(bs, n + 1, Len(bs))
<1>1. CASE n = 0
  <2>1. SubSeq(bs, 1, 0) = << >> /\ SubSeq(bs, 1, Len(bs)) = bs
    OBVIOUS
  <2>2. << >> \o bs = bs
    OBVIOUS
  <2> QED BY <1>1, <2>1, <2>2
<1>2. ASSUME NEW i \in 1..Len(bs)
      PROVE  bs = SubSeq(bs, 1, i) \o SubSeq(bs, i + 1, Len(bs))
  OBVIOUS
<1>3. n = 0 \/ n \in 1..Len(bs)
  OBVIOUS
<1> QED BY <1>1, <1>2, <1>3

\* A text that begins with w is w and some bytes more.
LEMMA PrefixSplits ==
  ASSUME NEW w \in Seq(Byte), NEW t \in Seq(Byte), IsPrefix(w, t)
  PROVE  \E x \in Seq(Byte) : t = w \o x
<1>1. Len(w) \in 0..Len(t) /\ w = SubSeq(t, 1, Len(w))
  BY DEF IsPrefix
<1>2. t = SubSeq(t, 1, Len(w)) \o SubSeq(t, Len(w) + 1, Len(t))
  BY <1>1, SplitAt
<1>3. SubSeq(t, Len(w) + 1, Len(t)) \in Seq(Byte)
  BY <1>1
<1> QED BY <1>1, <1>2, <1>3

\* Feeding bytes keeps a recognizer settled.
LEMMA FedType ==
  ASSUME NEW r \in IdleRecognizer, NEW bs \in Seq(Byte)
  PROVE  /\ Fed(r, bs) \in IdleRecognizer
         /\ Fed(r, bs).columns = r.columns \o bs
         /\ Fed(r, bs).scans = r.scans \o bs
         /\ Fed(r, bs).position = r.position + Len(bs)
BY DEF Fed, IdleRecognizer

\* The checkpoint taken before any number of live bytes and one that fails can
\* be restored, and gives back the recognizer it was taken of.
LEMMA RestoreUndoesFailure ==
  ASSUME NEW r \in IdleRecognizer, NEW bs \in Seq(Byte), NEW b \in Byte
  PROVE  /\ CanRestore(Spoiled(Fed(r, bs), b), Checkpoint(r))
         /\ Restore(Spoiled(Fed(r, bs), b), Checkpoint(r)) = r
<1> DEFINE spoiled == Spoiled(Fed(r, bs), b)
           c == Checkpoint(r)
<1>1. /\ r = [columns |-> r.columns, scans |-> r.scans, position |-> r.position]
      /\ r.columns \in Seq(Byte)
  BY DEF IdleRecognizer
<1>2. /\ c.count = Len(r.columns) /\ c.scans = r.scans /\ c.position = r.position
      /\ Backend # "earley" => c.saved = r.columns
  BY DEF Checkpoint
<1>3. ASSUME Backend = "earley"
      PROVE  \E t \in Seq(Byte) : spoiled.columns = r.columns \o t
  <2>1. spoiled.columns = r.columns \o bs \/ spoiled.columns = Append(r.columns \o bs, b)
    BY <1>3, FedType DEF Spoiled
  <2>2. Append(r.columns \o bs, b) = r.columns \o Append(bs, b) /\ Append(bs, b) \in Seq(Byte)
    BY <1>1
  <2>3. CASE spoiled.columns = r.columns \o bs
    BY <2>3
  <2>4. CASE spoiled.columns = Append(r.columns \o bs, b)
    BY <2>2, <2>4, Zenon
  <2> QED BY <2>1, <2>3, <2>4
<1>4. CASE Backend = "earley"
  <2>1. PICK t \in Seq(Byte) : spoiled.columns = r.columns \o t
    BY <1>3, <1>4
  <2>2. SubSeq(spoiled.columns, 1, Len(r.columns)) = r.columns
    BY <1>1, <2>1, TruncateUndoesConcat
  <2>3. Len(r.columns) <= Len(spoiled.columns)
    BY <1>1, <2>1
  <2> QED BY <1>1, <1>2, <1>4, <2>2, <2>3 DEF Restore, CanRestore
<1>5. CASE Backend # "earley"
  BY <1>1, <1>2, <1>5 DEF Restore, CanRestore
<1> QED BY <1>4, <1>5

\* How byte i of bs ends, if those before it are live.
ByteEnds(r, bs, i) == ByteOutcome(Fed(r, SubSeq(bs, 1, i - 1)), bs[i])

\* try_advance_bytes feeds all of the bytes or none of them.
LEMMA TryAdvanceIsAtomic ==
  ASSUME NEW r \in IdleRecognizer, NEW bs \in Seq(Byte)
  PROVE  \/ /\ TryAdvance(r, bs).rec = Fed(r, bs)
            /\ TryAdvance(r, bs).out = IF IsAccepting(Fed(r, bs)) THEN "accepting" ELSE "live"
            /\ \A i \in 1..Len(bs) : ByteEnds(r, bs, i) = "live"
         \/ /\ TryAdvance(r, bs).rec = r
            /\ TryAdvance(r, bs).out \in {"limit", "rejected"}
            /\ \E i \in 1..Len(bs) : /\ ByteEnds(r, bs, i) = TryAdvance(r, bs).out
                                     /\ \A j \in 1..i - 1 : ByteEnds(r, bs, j) = "live"
<1> DEFINE stops == {i \in 1..Len(bs) : ByteEnds(r, bs, i) # "live"}
           stop == CHOOSE i \in stops : \A j \in stops : i <= j
           before == Fed(r, SubSeq(bs, 1, stop - 1))
           failure == [out |-> ByteOutcome(before, bs[stop]),
                       rec |-> Restore(Spoiled(before, bs[stop]), Checkpoint(r))]
<1>1. TryAdvance(r, bs) =
        IF stops = {}
        THEN [out |-> IF IsAccepting(Fed(r, bs)) THEN "accepting" ELSE "live",
              rec |-> Fed(r, bs)]
        ELSE failure
  BY DEF TryAdvance, ByteEnds
<1>2. CASE stops = {}
  BY <1>1, <1>2
<1>3. CASE stops # {}
  <2> HIDE DEF stops
  <2>0. stops \in SUBSET Nat
    BY DEF stops
  <2>1. \E i \in stops : \A j \in stops : i <= j
    BY <1>3, <2>0, LeastExists
  <2> USE DEF stops
  <2>2. stop \in stops /\ \A j \in stops : stop <= j
    BY <2>1
  <2>3. stop \in 1..Len(bs) /\ bs[stop] \in Byte /\ SubSeq(bs, 1, stop - 1) \in Seq(Byte)
    BY <2>2
  <2>4. failure.rec = r
    BY <2>3, RestoreUndoesFailure
  <2>5. failure.out = ByteEnds(r, bs, stop) /\ failure.out \in {"limit", "rejected"}
    BY <2>2 DEF ByteEnds, ByteOutcome
  <2>6. \A j \in 1..stop - 1 : ByteEnds(r, bs, j) = "live"
    BY <2>2, <2>3
  <2> QED BY <1>1, <1>3, <2>3, <2>4, <2>5, <2>6
<1> QED BY <1>2, <1>3

\* A recognizer in order, whose tables, scans and position are of one text.
Ordered(w) == [columns |-> w, scans |-> w, position |-> Len(w)]

\* Feeding keeps a recognizer in order.
LEMMA FedOrdered ==
  ASSUME NEW w \in Seq(Byte), NEW bs \in Seq(Byte)
  PROVE  /\ Ordered(w) \in IdleRecognizer
         /\ Fed(Ordered(w), bs) = Ordered(w \o bs)
         /\ w \o bs \in Seq(Byte)
BY DEF Ordered, IdleRecognizer, Fed

\* A checkpoint of a recognizer in order can be restored from every longer text
\* that begins with its own.
LEMMA RestoreToPrefix ==
  ASSUME NEW w \in Seq(Byte), NEW x \in Seq(Byte)
  PROVE  /\ CanRestore(Ordered(w \o x), Checkpoint(Ordered(w)))
         /\ Restore(Ordered(w \o x), Checkpoint(Ordered(w))) = Ordered(w)
<1>1. SubSeq(w \o x, 1, Len(w)) = w /\ Len(w) <= Len(w \o x)
  BY TruncateUndoesConcat
<1> QED BY <1>1 DEF Ordered, Checkpoint, CanRestore, Restore

-----------------------------------------------------------------------------
(* What a recognizer and its handles keep to. *)

\* What a caller over an Earley recognizer keeps to; the run py_recognizer_stale
\* shows what happens otherwise.
HandlesAreSafe == Backend = "earley" => HandleOrder = "nested"

\* What the history keeps of a checkpoint.
Mark == [handle : Nat, text : Seq(Byte)]

HandleInv(h) ==
  /\ marks[h] \in Mark
  /\ marks[h].handle = h
  /\ table[h] = Checkpoint(Ordered(marks[h].text))

PyInv ==
  /\ text \in Seq(Byte)
  /\ rec = Ordered(text)
  /\ table \in Seq(RecognizerCheckpoint)
  /\ marks \in Seq(Mark)
  /\ Len(marks) = Len(table)
  /\ \A h \in 1..Len(table) : HandleInv(h)

\* The checkpoint of a recognizer in order has the fields of a checkpoint.
LEMMA CheckpointType ==
  ASSUME NEW w \in Seq(Byte)
  PROVE  Checkpoint(Ordered(w)) \in RecognizerCheckpoint
BY DEF Checkpoint, Ordered, RecognizerCheckpoint

\* The handle of a mark is its index in the table.
LEMMA MarkedHandle ==
  ASSUME PyInv, NEW m \in ToSet(marks)
  PROVE  m.handle \in 1..Len(table) /\ HandleInv(m.handle) /\ marks[m.handle] = m
<1>1. PICK h \in 1..Len(marks) : m = marks[h]
  BY DEF PyInv, ToSet
<1>2. h \in 1..Len(table) /\ HandleInv(h)
  BY <1>1 DEF PyInv
<1>3. m.handle = h
  BY <1>1, <1>2 DEF HandleInv
<1> QED BY <1>1, <1>2, <1>3

\* A usable handle is never refused, and leads back to its mark.
LEMMA UsableHandleRestores ==
  ASSUME HandlesAreSafe, PyInv, NEW m \in ToSet(marks), Usable(m)
  PROVE  /\ m.handle \in 1..Len(table)
         /\ CanRestore(rec, table[m.handle])
         /\ Restore(rec, table[m.handle]) = Ordered(m.text)
         /\ m.text \in Seq(Byte)
<1> DEFINE w == m.text
           h == m.handle
<1>1. /\ h \in 1..Len(table) /\ w \in Seq(Byte) /\ table[h] = Checkpoint(Ordered(w))
      /\ text \in Seq(Byte) /\ rec = Ordered(text)
  BY MarkedHandle DEF PyInv, HandleInv, Mark
<1>2. CASE Backend = "earley"
  <2>1. IsPrefix(w, text)
    BY <1>2 DEF HandlesAreSafe, Usable
  <2>2. \E x \in Seq(Byte) : text = w \o x
    BY <1>1, <2>1, PrefixSplits
  <2> QED BY <1>1, <2>2, RestoreToPrefix
<1>3. CASE Backend # "earley"
  BY <1>1, <1>3 DEF CanRestore, Restore, Checkpoint, Ordered
<1> QED BY <1>2, <1>3

\* restore() of a handle that no call has returned changes nothing.
LEMMA UnknownHandleIsRefused ==
  ASSUME table \in Seq(RecognizerCheckpoint), RestoreCheckpoint(NoMark)
  PROVE  reply' = "invalid" /\ UNCHANGED <<rec, text, table, marks>>
<1>1. NoMark.handle \notin 1..Len(table)
  BY DEF NoMark
<1> QED BY <1>1 DEF RestoreCheckpoint

\* advance(data) appends all of its bytes to the text or changes nothing.
LEMMA AdvanceResult ==
  ASSUME PyInv, NEW bs \in Chunk, Advance(bs)
  PROVE  \/ reply' \in {"live", "accepting"} /\ text' = text \o bs /\ rec' = Ordered(text \o bs)
         \/ reply' \in {"limit", "rejected"} /\ text' = text /\ rec' = rec
<1>1. bs \in Seq(Byte) /\ text \in Seq(Byte) /\ rec = Ordered(text)
  BY PyRecognizerAssumption DEF PyInv
<1>2. rec \in IdleRecognizer /\ Fed(rec, bs) = Ordered(text \o bs)
  BY <1>1, FedOrdered
<1>3. /\ rec' = TryAdvance(rec, bs).rec
      /\ reply' = TryAdvance(rec, bs).out
      /\ text' = IF reply' \in {"live", "accepting"} THEN text \o bs ELSE text
  BY DEF Advance
<1> QED BY <1>1, <1>2, <1>3, TryAdvanceIsAtomic

\* The invariant of a caller that restores no handle out of turn: it holds to begin with,
LEMMA PyInvInit == Init => PyInv
<1> SUFFICES ASSUME Init PROVE PyInv
  OBVIOUS
<1>1. text = << >> /\ rec = Fresh /\ table = << >> /\ marks = << >>
  BY DEF Init
<1>2. Ordered(<< >>) = Fresh
  BY DEF Ordered, Fresh
<1> QED BY <1>1, <1>2 DEF PyInv

\* every step keeps it,
LEMMA PyInvNext ==
  ASSUME HandlesAreSafe, PyInv, [Next]_vars
  PROVE  PyInv'
<1>1. CASE \E bs \in Chunk : Advance(bs)
  <2>1. PICK bs \in Chunk : Advance(bs)
    BY <1>1
  <2>2. UNCHANGED <<table, marks>>
    BY <2>1 DEF Advance
  <2>3. text' \in Seq(Byte) /\ rec' = Ordered(text')
    <3>1. bs \in Seq(Byte) /\ text \in Seq(Byte) /\ rec = Ordered(text)
      BY PyRecognizerAssumption DEF PyInv
    <3> QED BY <2>1, <3>1, AdvanceResult, FedOrdered
  <2> QED BY <2>2, <2>3 DEF PyInv, HandleInv
<1>2. CASE TakeCheckpoint
  <2>1. CASE Len(table) >= MaxCheckpointHistory
    BY <1>2, <2>1 DEF TakeCheckpoint, PyInv, HandleInv
  <2>2. CASE ~(Len(table) >= MaxCheckpointHistory)
    <3> DEFINE n == Len(table)
               c == Checkpoint(Ordered(text))
               m == [handle |-> n + 1, text |-> text]
    <3>1. n \in Nat /\ c \in RecognizerCheckpoint /\ m \in Mark
      BY CheckpointType DEF PyInv, Mark
    <3>2. /\ table' = Append(table, c)
          /\ marks' = Append(marks, [handle |-> Len(table'), text |-> text])
          /\ UNCHANGED <<rec, text>>
      BY <1>2, <2>2 DEF TakeCheckpoint, PyInv
    <3>3. table' \in Seq(RecognizerCheckpoint) /\ Len(table') = n + 1
      BY <3>1, <3>2 DEF PyInv
    <3>4. marks' = Append(marks, m)
      BY <3>2, <3>3
    <3>5. marks' \in Seq(Mark) /\ Len(marks') = n + 1
      BY <3>1, <3>4 DEF PyInv
    <3>6. \A h \in 1..Len(table') : HandleInv(h)'
      <4> SUFFICES ASSUME NEW h \in 1..n + 1 PROVE HandleInv(h)'
        BY <3>3
      <4>1. CASE h \in 1..n
        <5>1. table'[h] = table[h] /\ marks'[h] = marks[h]
          BY <3>1, <3>2, <3>4, <4>1 DEF PyInv
        <5> QED BY <4>1, <5>1 DEF PyInv, HandleInv
      <4>2. CASE h = n + 1
        <5>1. table'[h] = c /\ marks'[h] = m
          BY <3>1, <3>2, <3>4, <4>2 DEF PyInv
        <5> QED BY <3>1, <4>2, <5>1 DEF HandleInv
      <4> QED BY <3>1, <4>1, <4>2
    <3> HIDE DEF n, c, m
    <3> QED BY <3>2, <3>3, <3>5, <3>6 DEF PyInv
  <2> QED BY <2>1, <2>2
<1>3. ASSUME NEW m \in ToSet(marks), RestoreCheckpoint(m)
      PROVE  PyInv'
  <2>1. /\ rec' = Ordered(m.text) /\ text' = m.text /\ m.text \in Seq(Byte)
        /\ UNCHANGED <<table, marks>>
    BY <1>3, UsableHandleRestores DEF RestoreCheckpoint
  <2> QED BY <2>1 DEF PyInv, HandleInv
<1>5. CASE RestoreCheckpoint(NoMark)
  <2>1. UNCHANGED <<rec, text, table, marks>>
    BY <1>5, UnknownHandleIsRefused DEF PyInv
  <2> QED BY <2>1 DEF PyInv, HandleInv
<1>4. CASE UNCHANGED vars
  BY <1>4 DEF vars, PyInv, HandleInv
<1> QED BY <1>1, <1>2, <1>3, <1>4, <1>5 DEF Next

\* and so it holds throughout.
LEMMA PyInvariant ==
  ASSUME HandlesAreSafe
  PROVE  Spec => []PyInv
<1>1. PyInv /\ [Next]_vars => PyInv'
  BY PyInvNext
<1> QED BY PyInvInit, <1>1, PTL DEF Spec

-----------------------------------------------------------------------------

\* is_accepting and is_live answer for the bytes advanced by and not undone,
\* whatever was rejected, met a limit or was restored (README.md:45).
THEOREM AnswersAreForText ==
  ASSUME HandlesAreSafe
  PROVE  Spec => []AnswersForText
<1>1. PyInv => AnswersForText
  BY RecognizerAssumption DEF PyInv, AnswersForText, Ordered, IsAccepting
<1> QED BY PyInvariant, <1>1, PTL

\* A checkpoint that was restored gives back the answers of its moment
\* (python_bindings/mod.rs:1030).
THEOREM RestoresReturn ==
  ASSUME HandlesAreSafe
  PROVE  Spec => RestoreReturnsToCheckpoint
<1>1. ASSUME PyInv, [Next]_vars
      PROVE  [\A m \in ToSet(marks) : RestoreCheckpoint(m) /\ reply' = "ok" =>
               (IsAccepting(rec') <=> Accepting(m.text))]_vars
  <2> SUFFICES ASSUME NEW m \in ToSet(marks), RestoreCheckpoint(m)
               PROVE  IsAccepting(rec') <=> Accepting(m.text)
    OBVIOUS
  <2>1. rec' = Ordered(m.text)
    BY <1>1, UsableHandleRestores DEF RestoreCheckpoint
  <2> QED BY <2>1 DEF Ordered, IsAccepting
<1> QED BY PyInvariant, <1>1, PTL DEF Spec, RestoreReturnsToCheckpoint

\* restore() of a checkpoint of this recognizer is never refused.
THEOREM RestoresAreNeverRefused ==
  ASSUME HandlesAreSafe
  PROVE  Spec => RestoreIsNeverRefused
<1>1. ASSUME PyInv, [Next]_vars
      PROVE  [\A m \in ToSet(marks) : RestoreCheckpoint(m) => reply' = "ok"]_vars
  BY <1>1, UsableHandleRestores DEF RestoreCheckpoint
<1> QED BY PyInvariant, <1>1, PTL DEF Spec, RestoreIsNeverRefused

-----------------------------------------------------------------------------
(* Whatever the order in which handles are restored. *)

\* The checkpoints of recognizers whose scans are in place.
SettledCheckpoint == [count : Nat, saved : Seq(Byte), scans : Seq(Byte), position : Nat]

\* The scans are always in place, in the recognizer and in every checkpoint, even
\* when a stale handle has put them over the columns of another text.
ScansInv ==
  /\ rec \in IdleRecognizer
  /\ text \in Seq(Byte)
  /\ table \in Seq(SettledCheckpoint)
  /\ marks \in Seq(Mark)
  /\ reply \in Outcomes

\* What holds of the scans whatever handles the caller restores.
LEMMA ScansInvariant == Spec => []ScansInv
<1>1. Init => ScansInv
  BY DEF Init, ScansInv, IdleRecognizer, Fresh, Outcomes
<1>2. ASSUME ScansInv, [Next]_vars
      PROVE  ScansInv'
  <2>1. ASSUME NEW bs \in Chunk, Advance(bs)
        PROVE  ScansInv'
    <3>1. bs \in Seq(Byte)
      BY PyRecognizerAssumption
    <3>2. rec' \in IdleRecognizer /\ reply' \in Outcomes
      <4>1. rec \in IdleRecognizer /\ rec' = TryAdvance(rec, bs).rec /\ reply' = TryAdvance(rec, bs).out
        BY <1>2, <2>1 DEF ScansInv, Advance
      <4>2. rec' \in {rec, Fed(rec, bs)} /\ reply' \in {"live", "accepting", "limit", "rejected"}
        BY <3>1, <4>1, TryAdvanceIsAtomic
      <4> QED BY <3>1, <4>1, <4>2, FedType DEF Outcomes
    <3>3. text' \in Seq(Byte) /\ UNCHANGED <<table, marks>>
      BY <1>2, <2>1, <3>1 DEF ScansInv, Advance
    <3> QED BY <1>2, <3>2, <3>3 DEF ScansInv
  <2>2. CASE TakeCheckpoint
    <3>1. Checkpoint(rec) \in SettledCheckpoint
      BY <1>2 DEF SettledCheckpoint, ScansInv, IdleRecognizer, Checkpoint
    <3>2. CASE table' = table /\ marks' = marks
      BY <1>2, <2>2, <3>2 DEF ScansInv, TakeCheckpoint, Outcomes
    <3>3. CASE /\ table' = Append(table, Checkpoint(rec))
               /\ marks' = Append(marks, [handle |-> Len(table'), text |-> text])
      <4>1. table' \in Seq(SettledCheckpoint)
        BY <1>2, <3>1, <3>3 DEF ScansInv
      <4>2. marks' \in Seq(Mark)
        <5>1. Len(table') \in Nat
          BY <4>1
        <5>2. [handle |-> Len(table'), text |-> text] \in Mark
          BY <1>2, <5>1 DEF ScansInv, Mark
        <5> QED BY <1>2, <3>3, <5>2 DEF ScansInv
      <4>3. rec' = rec /\ text' = text /\ reply' \in Outcomes
        BY <1>2, <2>2 DEF ScansInv, TakeCheckpoint, Outcomes
      <4> QED BY <1>2, <4>1, <4>2, <4>3 DEF ScansInv
    <3> QED BY <2>2, <3>2, <3>3 DEF TakeCheckpoint
  <2>3. ASSUME NEW m \in ToSet(marks) \cup {NoMark}, RestoreCheckpoint(m)
        PROVE  ScansInv'
    <3> DEFINE h == m.handle
    <3>1. m.text \in Seq(Byte) /\ (h \in 1..Len(table) => table[h] \in SettledCheckpoint)
      <4>1. CASE m = NoMark
        BY <1>2, <4>1, ElementOfSeq DEF ScansInv, NoMark
      <4>2. CASE m \in ToSet(marks)
        <5>1. PICK i \in 1..Len(marks) : m = marks[i]
          BY <1>2, <4>2 DEF ScansInv, ToSet
        <5>2. m \in Mark
          BY <1>2, <5>1, ElementOfSeq DEF ScansInv
        <5> QED BY <1>2, <5>2, ElementOfSeq DEF ScansInv, Mark
      <4> QED BY <2>3, <4>1, <4>2
    <3>2. ASSUME h \in 1..Len(table), CanRestore(rec, table[h])
          PROVE  Restore(rec, table[h]) \in IdleRecognizer
      <4>1. table[h] \in SettledCheckpoint
        BY <3>1, <3>2
      <4> HIDE DEF h
      <4>2. rec.columns \in Seq(Byte)
        BY <1>2 DEF ScansInv, IdleRecognizer
      <4>3. Backend = "earley" => table[h].count \in 0..Len(rec.columns)
        <5>1. table[h].count \in Nat
          BY <4>1 DEF SettledCheckpoint
        <5>2. Backend = "earley" => table[h].count <= Len(rec.columns)
          BY <3>2 DEF CanRestore
        <5> QED BY <4>2, <5>1, <5>2
      <4>4. Backend = "earley" => SubSeq(rec.columns, 1, table[h].count) \in Seq(Byte)
        BY <4>3, <4>2
      <4> QED BY <4>1, <4>4 DEF IdleRecognizer, SettledCheckpoint, Restore
    <3> QED BY <1>2, <2>3, <3>1, <3>2 DEF ScansInv, RestoreCheckpoint, Outcomes
  <2>4. CASE UNCHANGED vars
    BY <1>2, <2>4 DEF ScansInv, vars
  <2> QED BY <1>2, <2>1, <2>2, <2>3, <2>4 DEF Next
<1> QED BY <1>1, <1>2, PTL DEF Spec

\* A call that fails half-way through its bytes leaves the recognizer as it was,
\* columns and scans included, and whatever handles were restored before
\* (README.md:45, 124).
THEOREM FailuresLeaveNoTrace == Spec => FailedAdvanceLeavesNoTrace
<1>1. ASSUME ScansInv, [Next]_vars
      PROVE  [reply' \in {"rejected", "limit", "invalid"} => rec' = rec]_vars
  <2> SUFFICES ASSUME Next, reply' \in {"rejected", "limit", "invalid"}
               PROVE  rec' = rec
    BY <1>1 DEF vars
  <2>1. ASSUME NEW bs \in Chunk, Advance(bs)
        PROVE  rec' = rec
    <3>1. bs \in Seq(Byte) /\ rec \in IdleRecognizer
      BY <1>1, PyRecognizerAssumption DEF ScansInv
    <3> QED BY <2>1, <3>1, TryAdvanceIsAtomic DEF Advance
  <2>2. CASE TakeCheckpoint
    BY <2>2 DEF TakeCheckpoint
  <2>3. ASSUME NEW m \in ToSet(marks) \cup {NoMark}, RestoreCheckpoint(m)
        PROVE  rec' = rec
    BY <2>3 DEF RestoreCheckpoint
  <2> QED BY <2>1, <2>2, <2>3 DEF Next
<1> QED BY ScansInvariant, <1>1, PTL DEF Spec, FailedAdvanceLeavesNoTrace
==============================================================================
