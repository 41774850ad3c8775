---------------------------- MODULE Guide_proofs ----------------------------
(***************************************************************************)
(* Proofs about Guide, for every language, vocabulary, backend and limit.  *)
(*                                                                         *)
(* The invariants the runs check are not inductive as they stand: that a   *)
(* rollback succeeds and returns to the right text depends on every        *)
(* history entry being a checkpoint of a PREFIX of the current text, for   *)
(* an Earley checkpoint stores no text, only how many columns to keep.     *)
(* GuideInv says so, and that the cached mask was computed by a traversal  *)
(* that no limit cut short.  That a pickled guide can be rebuilt from its  *)
(* tokens depends on each of them having been taken where those before it  *)
(* had led: ReplayInv.                                                     *)
(***************************************************************************)
EXTENDS PyGuide, FoldLemmas

-----------------------------------------------------------------------------
(***************************************************************************)
(* The recognizer.  TryAdvanceIsAtomic says that the destructive byte loop *)
(* of try_advance_bytes, which stops anywhere and leaves the recognizer    *)
(* spoiled, followed by a restore that for Earley only truncates, is a     *)
(* transaction: all of the bytes or none.                                  *)
(***************************************************************************)

\* The recognizers a caller may meet: their scans are in place.
IdleRecognizer == [columns : Seq(Byte), scans : Seq(Byte), position : Nat]

\* Truncation undoes what was appended.
LEMMA TruncateUndoesConcat ==
  ASSUME NEW S, NEW s \in Seq(S), NEW t \in Seq(S)
  PROVE  SubSeq(s \o t, 1, Len(s)) = s
OBVIOUS

\* Concatenation of texts is associative.
LEMMA ByteConcatAssociative ==
  \A u, v, x \in Seq(Byte) : (u \o v) \o x = u \o (v \o x)
BY ConcatAssociative

\* To append a byte to a concatenation is to append it to the second text.
LEMMA AppendToConcat ==
  ASSUME NEW u \in Seq(Byte), NEW v \in Seq(Byte), NEW b \in Byte
  PROVE  Append(u \o v, b) = u \o Append(v, b)
OBVIOUS

\* The beginning of a sequence.
LEMMA BeginningIs ==
  ASSUME NEW S, NEW s \in Seq(S), NEW m \in 0..Len(s)
  PROVE  /\ Len(SubSeq(s, 1, m)) = m
         /\ \A i \in 1..m : SubSeq(s, 1, m)[i] = s[i]
OBVIOUS

\* A sequence is what comes up to a point and what comes after it.
LEMMA SplitAt ==
  ASSUME NEW bs \in Seq(Byte), NEW n \in 0..Len(bs)
  PROVE  bs = SubSeq(bs, 1, n) \o SubSeq(bs, n + 1, Len(bs))
<1>1. CASE n = 0
  <2>1. SubSeq(bs, 1, 0) = << >> /\ SubSeq(bs, 1, Len(bs)) = bs
    OBVIOUS
  <2>2. << >> \o bs = bs
    OBVIOUS
  <2> QED BY <1>1, <2>1, <2>2
<1>2. ASSUME NEW i \in 1..Len(bs)
      PROVE  bs = SubSeq(bs, 1, i) \o SubSeq(bs, i + 1, Len(bs))
  OBVIOUS
<1>3. n = 0 \/ n \in 1..Len(bs)
  OBVIOUS
<1> QED BY <1>1, <1>2, <1>3

\* A text that begins with w is w and some bytes more.
LEMMA PrefixSplits ==
  ASSUME NEW w \in Seq(Byte), NEW t \in Seq(Byte), IsPrefix(w, t)
  PROVE  \E x \in Seq(Byte) : t = w \o x
<1>1. Len(w) \in 0..Len(t) /\ w = SubSeq(t, 1, Len(w))
  BY DEF IsPrefix
<1>2. t = SubSeq(t, 1, Len(w)) \o SubSeq(t, Len(w) + 1, Len(t))
  BY <1>1, SplitAt
<1>3. SubSeq(t, Len(w) + 1, Len(t)) \in Seq(Byte)
  BY <1>1
<1> QED BY <1>1, <1>2, <1>3

\* Feeding bytes keeps a recognizer settled.
LEMMA FedType ==
  ASSUME NEW r \in IdleRecognizer, NEW bs \in Seq(Byte)
  PROVE  /\ Fed(r, bs) \in IdleRecognizer
         /\ Fed(r, bs).columns = r.columns \o bs
         /\ Fed(r, bs).scans = r.scans \o bs
         /\ Fed(r, bs).position = r.position + Len(bs)
BY DEF Fed, IdleRecognizer

\* The checkpoint taken before any number of live bytes and one that fails can
\* be restored, and gives back the recognizer it was taken of.
LEMMA RestoreUndoesFailure ==
  ASSUME NEW r \in IdleRecognizer, NEW bs \in Seq(Byte), NEW b \in Byte
  PROVE  /\ CanRestore(Spoiled(Fed(r, bs), b), Checkpoint(r))
         /\ Restore(Spoiled(Fed(r, bs), b), Checkpoint(r)) = r
<1> DEFINE spoiled == Spoiled(Fed(r, bs), b)
           c == Checkpoint(r)
<1>1. /\ r = [columns |-> r.columns, scans |-> r.scans, position |-> r.position]
      /\ r.columns \in Seq(Byte)
  BY DEF IdleRecognizer
<1>2. /\ c.count = Len(r.columns) /\ c.scans = r.scans /\ c.position = r.position
      /\ Backend # "earley" => c.saved = r.columns
  BY DEF Checkpoint
<1>3. ASSUME Backend = "earley"
      PROVE  \E t \in Seq(Byte) : spoiled.columns = r.columns \o t
  <2>1. spoiled.columns = r.columns \o bs \/ spoiled.columns = Append(r.columns \o bs, b)
    BY <1>3, FedType DEF Spoiled
  <2>2. Append(r.columns \o bs, b) = r.columns \o Append(bs, b) /\ Append(bs, b) \in Seq(Byte)
    BY <1>1
  <2>3. CASE spoiled.columns = r.columns \o bs
    BY <2>3
  <2>4. CASE spoiled.columns = Append(r.columns \o bs, b)
    BY <2>2, <2>4, Zenon
  <2> QED BY <2>1, <2>3, <2>4
<1>4. CASE Backend = "earley"
  <2>1. PICK t \in Seq(Byte) : spoiled.columns = r.columns \o t
    BY <1>3, <1>4
  <2>2. SubSeq(spoiled.columns, 1, Len(r.columns)) = r.columns
    BY <1>1, <2>1, TruncateUndoesConcat
  <2>3. Len(r.columns) <= Len(spoiled.columns)
    BY <1>1, <2>1
  <2> QED BY <1>1, <1>2, <1>4, <2>2, <2>3 DEF Restore, CanRestore
<1>5. CASE Backend # "earley"
  BY <1>1, <1>2, <1>5 DEF Restore, CanRestore
<1> QED BY <1>4, <1>5

\* How byte i of bs ends, if those before it are live.
ByteEnds(r, bs, i) == ByteOutcome(Fed(r, SubSeq(bs, 1, i - 1)), bs[i])

\* try_advance_bytes feeds all of the bytes or none of them.
LEMMA TryAdvanceIsAtomic ==
  ASSUME NEW r \in IdleRecognizer, NEW bs \in Seq(Byte)
  PROVE  \/ /\ TryAdvance(r, bs).rec = Fed(r, bs)
            /\ TryAdvance(r, bs).out = IF IsAccepting(Fed(r, bs)) THEN "accepting" ELSE "live"
            /\ \A i \in 1..Len(bs) : ByteEnds(r, bs, i) = "live"
         \/ /\ TryAdvance(r, bs).rec = r
            /\ TryAdvance(r, bs).out \in {"limit", "rejected"}
            /\ \E i \in 1..Len(bs) : /\ ByteEnds(r, bs, i) = TryAdvance(r, bs).out
                                     /\ \A j \in 1..i - 1 : ByteEnds(r, bs, j) = "live"
<1> DEFINE stops == {i \in 1..Len(bs) : ByteEnds(r, bs, i) # "live"}
           stop == CHOOSE i \in stops : \A j \in stops : i <= j
           before == Fed(r, SubSeq(bs, 1, stop - 1))
           failure == [out |-> ByteOutcome(before, bs[stop]),
                       rec |-> Restore(Spoiled(before, bs[stop]), Checkpoint(r))]
<1>1. TryAdvance(r, bs) =
        IF stops = {}
        THEN [out |-> IF IsAccepting(Fed(r, bs)) THEN "accepting" ELSE "live",
              rec |-> Fed(r, bs)]
        ELSE failure
  BY DEF TryAdvance, ByteEnds
<1>2. CASE stops = {}
  BY <1>1, <1>2
<1>3. CASE stops # {}
  <2> HIDE DEF stops
  <2>0. stops \in SUBSET Nat
    BY DEF stops
  <2>1. \E i \in stops : \A j \in stops : i <= j
    BY <1>3, <2>0, LeastExists
  <2> USE DEF stops
  <2>2. stop \in stops /\ \A j \in stops : stop <= j
    BY <2>1
  <2>3. stop \in 1..Len(bs) /\ bs[stop] \in Byte /\ SubSeq(bs, 1, stop - 1) \in Seq(Byte)
    BY <2>2
  <2>4. failure.rec = r
    BY <2>3, RestoreUndoesFailure
  <2>5. failure.out = ByteEnds(r, bs, stop) /\ failure.out \in {"limit", "rejected"}
    BY <2>2 DEF ByteEnds, ByteOutcome
  <2>6. \A j \in 1..stop - 1 : ByteEnds(r, bs, j) = "live"
    BY <2>2, <2>3
  <2> QED BY <1>1, <1>3, <2>3, <2>4, <2>5, <2>6
<1> QED BY <1>2, <1>3

\* A recognizer in order, whose tables, scans and position are of one text.
Ordered(w) == [columns |-> w, scans |-> w, position |-> Len(w)]

\* Feeding keeps a recognizer in order.
LEMMA FedOrdered ==
  ASSUME NEW w \in Seq(Byte), NEW bs \in Seq(Byte)
  PROVE  /\ Ordered(w) \in IdleRecognizer
         /\ Fed(Ordered(w), bs) = Ordered(w \o bs)
         /\ w \o bs \in Seq(Byte)
BY DEF Ordered, IdleRecognizer, Fed

\* A checkpoint of a recognizer in order can be restored from every longer text
\* that begins with its own.
LEMMA RestoreToPrefix ==
  ASSUME NEW w \in Seq(Byte), NEW x \in Seq(Byte)
  PROVE  /\ CanRestore(Ordered(w \o x), Checkpoint(Ordered(w)))
         /\ Restore(Ordered(w \o x), Checkpoint(Ordered(w))) = Ordered(w)
<1>1. SubSeq(w \o x, 1, Len(w)) = w /\ Len(w) <= Len(w \o x)
  BY TruncateUndoesConcat
<1> QED BY <1>1 DEF Ordered, Checkpoint, CanRestore, Restore

-----------------------------------------------------------------------------
(* What a guide keeps to. *)

\* The committed bytes of a guide at text w.
BytesAt(w) == IF Backend = "dfa" THEN << >> ELSE w

\* The bytes a committed id stands for.
Spelled(t) == IF t = EOS THEN << >> ELSE BytesOf[t]

\* The text of history entry i, or the current text after the last.
TextAt(g, i) == IF i > Len(g.history) THEN g.rec.scans ELSE g.history[i].rec.scans

GuideType ==
  [rec      : IdleRecognizer,
   tokens   : Seq(Id),
   bytes    : Seq(Byte),
   finished : BOOLEAN,
   history  : Seq(HistoryEntry),
   cached   : {{}} \cup {{m} : m \in SUBSET Id}]

InOrder(g) ==
  /\ g.rec = Ordered(g.rec.scans)
  /\ g.bytes = BytesAt(g.rec.scans)

EntryInv(g, i) ==
  LET e == g.history[i]
      w == e.rec.scans
  IN /\ w \in Seq(Byte)
     /\ e.rec = Checkpoint(Ordered(w))
     /\ e.tokens = Len(g.tokens) - Len(g.history) + i - 1
     /\ e.bytes = Len(BytesAt(w))
     /\ ~e.finished
     /\ TextAt(g, i + 1) = w \o Spelled(g.tokens[e.tokens + 1])
     /\ \A j \in i + 1..Len(g.history) + 1 : \E x \in Seq(Byte) : TextAt(g, j) = w \o x
     /\ e.tokens > 0 => Live(w)

HistoryInv(g) ==
  /\ Len(g.history) <= MaxRollback
  /\ Len(g.history) <= Len(g.tokens)
  /\ \A i \in 1..Len(g.history) : EntryInv(g, i)

ViableInv(g) ==
  /\ g.tokens # << >> => Live(g.rec.scans)
  /\ g.finished => g.tokens # << >> /\ Accepting(g.rec.scans)
  /\ \A i \in 1..Len(g.tokens) : g.tokens[i] = EOS <=> g.finished /\ i = Len(g.tokens)

MaskInv(g) ==
  \/ g.cached = {}
  \/ /\ g.cached = {MaskOf(g)}
     /\ g.finished \/ Backend = "dfa" \/ ~TraversalFails(g.rec)

GuideInv(g) ==
  g \in GuideType /\ InOrder(g) /\ HistoryInv(g) /\ ViableInv(g) /\ MaskInv(g)

ReplyInv == reply.out \in Outcomes /\ reply.mask \subseteq Id

-----------------------------------------------------------------------------
(* The recognizer under a guide. *)

\* A prefix of a viable text is viable.
LEMMA LivePrefix ==
  ASSUME NEW w \in Seq(Byte), NEW x \in Seq(Byte), Live(w \o x)
  PROVE  Live(w)
<1>1. PICK y \in Language : IsPrefix(w \o x, y)
  BY DEF Live
<1>2. y \in Seq(Byte)
  BY LanguageAssumption
<1>3. IsPrefix(w, y)
  BY <1>1, <1>2 DEF IsPrefix
<1> QED BY <1>3 DEF Live

\* A complete document is viable.
LEMMA AcceptingIsLive ==
  ASSUME NEW w \in Seq(Byte), Accepting(w)
  PROVE  Live(w)
BY LanguageAssumption DEF Live, Accepting, IsPrefix

\* The bytes of a token.
LEMMA TokenBytes ==
  ASSUME NEW t \in Token
  PROVE  /\ BytesOf[t] \in Seq(Byte)
         /\ Len(BytesOf[t]) \in Nat \ {0}
         /\ t # EOS /\ t \in Id
<1>1. BytesOf[t] \in Seq(Byte) \ {<< >>}
  BY VocabularyAssumption
<1>2. t # EOS /\ t \in Id
  BY VocabularyAssumption DEF Id
<1>3. Len(BytesOf[t]) # 0
  BY <1>1, EmptySeq
<1>4. Len(BytesOf[t]) \in Nat
  BY <1>1
<1> QED BY <1>1, <1>2, <1>3, <1>4

\* How byte i ends, in terms of the text.
LEMMA ByteEndsAtText ==
  ASSUME NEW w \in Seq(Byte), NEW bs \in Seq(Byte), NEW i \in 1..Len(bs)
  PROVE  LET upTo == w \o SubSeq(bs, 1, i)
         IN /\ ByteEnds(Ordered(w), bs, i) = "live" => Live(upTo)
            /\ ByteEnds(Ordered(w), bs, i) = "rejected" => ~Live(upTo)
            /\ Live(upTo) => ByteEnds(Ordered(w), bs, i) \in {"live", "limit"}
<1> DEFINE pre == SubSeq(bs, 1, i - 1)
<1>1. pre \in Seq(Byte) /\ bs[i] \in Byte
  OBVIOUS
<1>2. Fed(Ordered(w), pre).scans = w \o pre
  BY <1>1 DEF Ordered, Fed
<1>3. Append(w \o pre, bs[i]) = w \o SubSeq(bs, 1, i)
  <2>1. Append(pre, bs[i]) = SubSeq(bs, 1, i)
    OBVIOUS
  <2> HIDE DEF pre
  <2>2. Append(w \o pre, bs[i]) = w \o Append(pre, bs[i])
    BY <1>1, AppendToConcat, Zenon
  <2> QED BY <2>1, <2>2
<1> QED BY <1>2, <1>3 DEF ByteEnds, ByteOutcome

\* The traversal's edge for the first n bytes of a token is try_advance_bytes'
\* n-th byte.
LEMMA EdgeIsByte ==
  ASSUME NEW r \in IdleRecognizer, NEW bs \in Seq(Byte), NEW n \in 1..Len(bs)
  PROVE  EdgeOutcome(r, SubSeq(bs, 1, n)) = ByteEnds(r, bs, n)
<1>1. Front(SubSeq(bs, 1, n)) = SubSeq(bs, 1, n - 1)
  BY DEF Front
<1>2. Last(SubSeq(bs, 1, n)) = bs[n]
  BY DEF Last
<1> QED BY <1>1, <1>2 DEF EdgeOutcome, ByteEnds

\* If a text with some more bytes is viable, so is it with fewer of them.
LEMMA LivePieces ==
  ASSUME NEW w \in Seq(Byte), NEW bs \in Seq(Byte), Live(w \o bs), NEW n \in 0..Len(bs)
  PROVE  Live(w \o SubSeq(bs, 1, n))
<1> PICK u : u = SubSeq(bs, 1, n)
  OBVIOUS
<1> PICK v : v = SubSeq(bs, n + 1, Len(bs))
  OBVIOUS
<1>1. u \in Seq(Byte) /\ v \in Seq(Byte)
  OBVIOUS
<1>2. bs = u \o v
  BY SplitAt
<1>3. (w \o u) \o v = w \o (u \o v) /\ w \o u \in Seq(Byte)
  <2>1. (w \o u) \o v = w \o (u \o v)
    BY <1>1, ByteConcatAssociative, Zenon
  <2>2. w \o u \in Seq(Byte)
    BY <1>1
  <2> QED BY <2>1, <2>2, Zenon
<1>4. Live((w \o u) \o v)
  BY <1>2, <1>3, Zenon
<1> QED BY <1>1, <1>3, <1>4, LivePrefix

\* Trying a token either feeds it, and then its mask bit is set and the text
\* stays viable, or changes nothing, and then its bit is clear.
LEMMA TryResult ==
  ASSUME NEW w \in Seq(Byte), NEW t \in Token
  PROVE  LET r == Ordered(w)
         IN \/ /\ Try(r, t).out \in {"live", "accepting"}
               /\ Try(r, t).rec = Ordered(w \o BytesOf[t])
               /\ Live(w \o BytesOf[t])
               /\ t \in EnabledTokens(r)
            \/ /\ Try(r, t).out = "limit" /\ Backend # "dfa"
               /\ Try(r, t).rec = r
               /\ t \notin EnabledTokens(r)
            \/ /\ Try(r, t).out = "rejected"
               /\ Try(r, t).rec = r
               /\ ~Live(w \o BytesOf[t])
               /\ t \notin EnabledTokens(r)
<1> DEFINE r == Ordered(w)
           bs == BytesOf[t]
<1>1. bs \in Seq(Byte) /\ Len(bs) \in Nat \ {0}
  BY TokenBytes
<1>2. r \in IdleRecognizer /\ r.scans = w /\ Fed(r, bs) = Ordered(w \o bs)
  BY <1>1, FedOrdered DEF Ordered
<1>3. CASE Backend = "dfa"
  BY <1>2, <1>3 DEF Try, EnabledTokens
<1>4. CASE Backend # "dfa"
  <2>1. Try(r, t) = TryAdvance(r, bs)
    BY <1>4 DEF Try
  <2>2. t \in EnabledTokens(r) <=> \A n \in 1..Len(bs) : ByteEnds(r, bs, n) = "live"
    BY <1>1, <1>2, <1>4, EdgeIsByte DEF EnabledTokens
  <2>3. CASE /\ TryAdvance(r, bs).rec = Fed(r, bs)
             /\ TryAdvance(r, bs).out \in {"live", "accepting"}
             /\ \A i \in 1..Len(bs) : ByteEnds(r, bs, i) = "live"
    <3>1. Live(w \o SubSeq(bs, 1, Len(bs)))
      BY <1>1, <2>3, ByteEndsAtText
    <3>2. SubSeq(bs, 1, Len(bs)) = bs
      BY <1>1
    <3> QED BY <1>2, <2>1, <2>2, <2>3, <3>1, <3>2
  <2>4. CASE /\ TryAdvance(r, bs).rec = r
             /\ TryAdvance(r, bs).out \in {"limit", "rejected"}
             /\ \E i \in 1..Len(bs) : ByteEnds(r, bs, i) = TryAdvance(r, bs).out
    <3>1. PICK i \in 1..Len(bs) : ByteEnds(r, bs, i) = TryAdvance(r, bs).out
      BY <2>4
    <3>2. t \notin EnabledTokens(r)
      BY <2>2, <2>4, <3>1
    <3>3. ASSUME TryAdvance(r, bs).out = "rejected"
          PROVE  ~Live(w \o bs)
      <4>1. ~Live(w \o SubSeq(bs, 1, i))
        BY <1>1, <3>1, <3>3, ByteEndsAtText
      <4>2. Live(w \o bs) => Live(w \o SubSeq(bs, 1, i))
        BY <1>1, LivePieces
      <4> QED BY <4>1, <4>2
    <3> QED BY <1>4, <2>1, <2>4, <3>2, <3>3
  <2> QED BY <1>1, <1>2, <2>3, <2>4, TryAdvanceIsAtomic
<1> QED BY <1>3, <1>4

-----------------------------------------------------------------------------
(* Committing a token. *)

\* How many entries retain_checkpoint drops to make room.
Dropped(h) == IF Len(h) < MaxRollback THEN 0 ELSE 1

\* retain_checkpoint drops at most the oldest entry and adds the new one.
LEMMA RetainedResult ==
  ASSUME NEW h \in Seq(HistoryEntry), NEW c \in HistoryEntry,
         Len(h) <= MaxRollback, MaxRollback # 0
  PROVE  LET k == Dropped(h)
             r == Retained(h, c)
         IN /\ k \in {0, 1} /\ k <= Len(h)
            /\ r \in Seq(HistoryEntry)
            /\ Len(r) = Len(h) - k + 1 /\ Len(r) <= MaxRollback
            /\ \A i \in 1..Len(h) - k : r[i] = h[i + k]
            /\ r[Len(h) - k + 1] = c
<1>0. MaxRollback \in Nat /\ Len(h) \in Nat
  BY GuideAssumption
<1>1. CASE Len(h) < MaxRollback
  <2>1. Retained(h, c) = Append(h, c) /\ Dropped(h) = 0
    BY <1>1 DEF Retained, Dropped
  <2>2. /\ Append(h, c) \in Seq(HistoryEntry)
        /\ Len(Append(h, c)) = Len(h) + 1
        /\ \A i \in 1..Len(h) : Append(h, c)[i] = h[i]
        /\ Append(h, c)[Len(h) + 1] = c
    OBVIOUS
  <2> QED BY <1>0, <1>1, <2>1, <2>2
<1>2. CASE Len(h) = MaxRollback
  <2> DEFINE tail == SubSeq(h, 2, Len(h))
  <2>1. Retained(h, c) = Append(tail, c) /\ Dropped(h) = 1
    BY <1>0, <1>2 DEF Retained, Dropped
  <2>2. /\ tail \in Seq(HistoryEntry) /\ Len(tail) = Len(h) - 1
        /\ \A i \in 1..Len(h) - 1 : tail[i] = h[i + 1]
    BY <1>0, <1>2
  <2> HIDE DEF tail
  <2>3. /\ Append(tail, c) \in Seq(HistoryEntry)
        /\ Len(Append(tail, c)) = Len(tail) + 1
        /\ \A i \in 1..Len(tail) : Append(tail, c)[i] = tail[i]
        /\ Append(tail, c)[Len(tail) + 1] = c
    BY <2>2
  <2> QED BY <1>0, <1>2, <2>1, <2>2, <2>3
<1> QED BY <1>0, <1>1, <1>2

\* What the fields of a guide in its invariant are.
LEMMA GuideFields ==
  ASSUME NEW g, GuideInv(g)
  PROVE  /\ g.rec.scans \in Seq(Byte)
         /\ g.rec = Ordered(g.rec.scans)
         /\ g.bytes = BytesAt(g.rec.scans)
         /\ g.tokens \in Seq(Id) /\ g.bytes \in Seq(Byte) /\ g.finished \in BOOLEAN
         /\ g.history \in Seq(HistoryEntry)
         /\ Len(g.tokens) \in Nat /\ Len(g.history) \in Nat
BY DEF GuideInv, GuideType, InOrder, IdleRecognizer

\* The text spelled by a committed id is well typed.
LEMMA SpelledType ==
  ASSUME NEW t \in Id
  PROVE  Spelled(t) \in Seq(Byte)
<1>1. CASE t = EOS
  BY <1>1 DEF Spelled
<1>2. CASE t # EOS
  BY <1>2, TokenBytes DEF Spelled, Id
<1> QED BY <1>1, <1>2

\* A commit appends the bytes of its id to the text, which stays viable.
LEMMA CommitResult ==
  ASSUME NEW g, GuideInv(g), NEW t \in CallerId, AdvanceOutcome(g, t) = "ok"
  PROVE  LET v == g.rec.scans \o Spelled(t)
         IN /\ t \in Id /\ ~g.finished /\ v \in Seq(Byte)
            /\ Committed(g, t).rec = Ordered(v)
            /\ Committed(g, t).bytes = BytesAt(v)
            /\ Live(v)
            /\ t = EOS => Accepting(v)
            /\ t \in MaskOf(g)
<1> DEFINE w == g.rec.scans
<1>1. /\ w \in Seq(Byte) /\ g.rec = Ordered(w) /\ g.bytes = BytesAt(w)
      /\ g.rec.columns = w
  BY GuideFields DEF Ordered
<1>2. ~g.finished
  BY DEF AdvanceOutcome
<1>3. CASE t = EOS
  <2>1. w \o Spelled(t) = w
    BY <1>1, <1>3 DEF Spelled
  <2>2. IsAccepting(g.rec) /\ Accepting(w)
    BY <1>1, <1>3 DEF AdvanceOutcome, IsAccepting
  <2>3. Live(w)
    BY <1>1, <2>2, AcceptingIsLive
  <2>4. t \in MaskOf(g)
    BY <1>2, <1>3, <2>2 DEF MaskOf
  <2>5. Committed(g, t).rec = g.rec /\ Committed(g, t).bytes = g.bytes
    BY <1>3 DEF Committed
  <2> QED BY <1>1, <1>2, <1>3, <2>1, <2>2, <2>3, <2>4, <2>5 DEF Id
<1>4. CASE t # EOS
  <2>1. t \in Token /\ Try(g.rec, t).out \notin {"limit", "rejected"}
    BY <1>4 DEF AdvanceOutcome
  <2>2. /\ Try(g.rec, t).rec = Ordered(w \o BytesOf[t])
        /\ Live(w \o BytesOf[t])
        /\ t \in EnabledTokens(g.rec)
    BY <1>1, <2>1, TryResult
  <2>3. t \in MaskOf(g)
    BY <1>2, <2>2 DEF MaskOf
  <2>4. BytesOf[t] \in Seq(Byte) /\ t \in Id
    BY <2>1, TokenBytes
  <2>5. /\ Committed(g, t).rec = Try(g.rec, t).rec
        /\ Committed(g, t).bytes = IF Backend = "dfa" THEN g.bytes ELSE g.bytes \o BytesOf[t]
    BY <1>4 DEF Committed
  <2> QED BY <1>1, <1>2, <1>4, <2>2, <2>3, <2>4, <2>5 DEF Spelled, BytesAt
<1> QED BY <1>3, <1>4

\* The checkpoint a commit retains is one of the text before it.
LEMMA CheckpointType ==
  ASSUME NEW g, GuideInv(g)
  PROVE  /\ CheckpointOf(g) \in HistoryEntry
         /\ CheckpointOf(g).rec = Checkpoint(Ordered(g.rec.scans))
         /\ CheckpointOf(g).rec.scans = g.rec.scans
         /\ CheckpointOf(g).tokens = Len(g.tokens)
         /\ CheckpointOf(g).bytes = Len(BytesAt(g.rec.scans))
         /\ CheckpointOf(g).finished = g.finished
<1> DEFINE w == g.rec.scans
<1>1. /\ w \in Seq(Byte) /\ g.rec = Ordered(w) /\ g.bytes = BytesAt(w)
      /\ Len(g.tokens) \in Nat /\ Len(g.bytes) \in Nat /\ g.finished \in BOOLEAN
  BY GuideFields
<1>2. Checkpoint(Ordered(w)) \in RecognizerCheckpoint /\ Checkpoint(Ordered(w)).scans = w
  BY <1>1 DEF Checkpoint, RecognizerCheckpoint, Ordered
<1>3. CheckpointOf(g) = [rec |-> Checkpoint(Ordered(w)), tokens |-> Len(g.tokens),
                         bytes |-> Len(BytesAt(w)), finished |-> g.finished]
  BY <1>1 DEF CheckpointOf
<1> QED BY <1>1, <1>2, <1>3 DEF HistoryEntry

\* The index that entry i of the grown history had before, n of them and T tokens.
LEMMA Shift ==
  ASSUME NEW n \in Nat, NEW k \in Nat, NEW m \in Nat, m = n - k + 1, k <= n,
         NEW i \in 1..m - 1
  PROVE  i \in Nat /\ i + k \in 1..n /\ i + 1 \in 1..m /\ (i + 1) + k = (i + k) + 1
OBVIOUS

\* A commit keeps the history's invariant: the entry it adds is one of a prefix
\* of the new text, and those it keeps still are.
Grown(g, f, t) ==
  /\ f.history = Retained(g.history, CheckpointOf(g))
  /\ f.tokens = Append(g.tokens, t)
  /\ f.rec.scans = g.rec.scans \o Spelled(t)

\* A commit adds its checkpoint at the new end of the history and drops at most
\* the oldest one, so that the history stays what the past prescribes.
LEMMA HistoryGrows ==
  ASSUME NEW g, NEW f, NEW t \in Id, GuideInv(g), ~g.finished, Grown(g, f, t)
  PROVE  HistoryInv(f)
<1> PICK h : h = g.history
  OBVIOUS
<1> PICK c : c = CheckpointOf(g)
  OBVIOUS
<1> PICK w : w = g.rec.scans
  OBVIOUS
<1>v. PICK v : v = w \o Spelled(t)
  OBVIOUS
<1>g. /\ h \in Seq(HistoryEntry) /\ w \in Seq(Byte) /\ g.tokens \in Seq(Id)
      /\ HistoryInv(g) /\ g.history = h /\ g.rec.scans = w
  BY GuideFields DEF GuideInv
<1>f. /\ f.history = Retained(h, c)
      /\ f.tokens = Append(g.tokens, t)
      /\ f.rec.scans = v /\ v = w \o Spelled(t)
  BY <1>v DEF Grown
<1>c. /\ c \in HistoryEntry
      /\ c.rec = Checkpoint(Ordered(w)) /\ c.rec.scans = w
      /\ c.tokens = Len(g.tokens) /\ c.bytes = Len(BytesAt(w))
      /\ ~c.finished
  BY CheckpointType
<1>l. c.tokens > 0 => Live(w)
  BY <1>g, <1>c DEF GuideInv, ViableInv
<1> DEFINE k == Dropped(h)
           m == Len(h) - k + 1
<1>1. /\ Len(h) \in Nat /\ Len(h) <= MaxRollback /\ Len(h) <= Len(g.tokens)
      /\ Len(g.tokens) \in Nat /\ MaxRollback \in Nat
      /\ \A i \in 1..Len(h) : EntryInv(g, i)
  BY <1>g, GuideAssumption DEF HistoryInv
<1>2. /\ Len(f.tokens) = Len(g.tokens) + 1
      /\ \A i \in 1..Len(g.tokens) : f.tokens[i] = g.tokens[i]
      /\ f.tokens[Len(g.tokens) + 1] = t
  BY <1>g, <1>f
<1>3. CASE MaxRollback = 0
  BY <1>g, <1>f, <1>1, <1>2, <1>3 DEF HistoryInv, Retained
<1>4. CASE MaxRollback # 0
  <2>1. /\ k \in Nat /\ k <= Len(h) /\ m \in Nat /\ m >= 1
        /\ Len(f.history) = m /\ m <= MaxRollback /\ m <= Len(f.tokens)
        /\ \A i \in 1..m - 1 : f.history[i] = h[i + k]
        /\ f.history[m] = c
    <3>1. /\ k \in {0, 1} /\ k <= Len(h)
          /\ Len(f.history) = m /\ m <= MaxRollback
          /\ \A i \in 1..Len(h) - k : f.history[i] = h[i + k]
          /\ f.history[m] = c
      <4>1. /\ h \in Seq(HistoryEntry) /\ c \in HistoryEntry
            /\ Len(h) <= MaxRollback /\ MaxRollback # 0
            /\ f.history = Retained(h, c)
        BY <1>g, <1>f, <1>c, <1>1, <1>4
      <4>2. /\ k \in {0, 1} /\ k <= Len(h)
            /\ Len(Retained(h, c)) = Len(h) - k + 1
            /\ Len(Retained(h, c)) <= MaxRollback
            /\ \A i \in 1..Len(h) - k : Retained(h, c)[i] = h[i + k]
            /\ Retained(h, c)[Len(h) - k + 1] = c
        BY <4>1, RetainedResult
      <4> QED BY <4>1, <4>2
    <3> HIDE DEF k
    <3>0. k \in Nat
      BY <3>1
    <3>2. k \in Nat /\ m \in Nat /\ m >= 1 /\ m <= Len(f.tokens) /\ m - 1 = Len(h) - k
      BY <1>1, <1>2, <3>1
    <3> QED BY <3>0, <3>1, <3>2
  <2>0. m = Len(h) - k + 1
    OBVIOUS
  <2> HIDE DEF k, m
  <2>2. \A i \in 1..m : TextAt(f, i) = TextAt(g, i + k)
    <3>1. ASSUME NEW i \in 1..m - 1
          PROVE  TextAt(f, i) = TextAt(g, i + k)
      <4>1. i <= Len(f.history) /\ i + k <= Len(h) /\ i \in Nat /\ i + k \in Nat
        <5>1. k \in Nat /\ m \in Nat /\ Len(h) \in Nat /\ Len(f.history) = m
          BY <1>1, <2>1
        <5> QED BY <2>0, <5>1
      <4>2. f.history[i] = h[i + k]
        BY <2>1
      <4>3. TextAt(f, i) = f.history[i].rec.scans
        BY <2>1, <4>1 DEF TextAt
      <4>4. TextAt(g, i + k) = h[i + k].rec.scans
        BY <1>g, <1>1, <4>1 DEF TextAt
      <4> QED BY <4>2, <4>3, <4>4
    <3>2. TextAt(f, m) = TextAt(g, m + k)
      BY <1>g, <1>f, <1>c, <1>1, <2>0, <2>1 DEF TextAt
    <3> QED BY <2>1, <3>1, <3>2
  <2>3. TextAt(f, m + 1) = v /\ TextAt(f, m) = w
    BY <1>c, <1>f, <2>1 DEF TextAt
  <2>4. ASSUME NEW i \in 1..m - 1
        PROVE  EntryInv(f, i)
    <3>1. /\ i + k \in 1..Len(h) /\ i \in Nat /\ f.history[i] = h[i + k]
          /\ i + 1 \in 1..m /\ (i + 1) + k = (i + k) + 1
      <4>1. i \in Nat /\ i + k \in 1..Len(h) /\ i + 1 \in 1..m /\ (i + 1) + k = (i + k) + 1
        BY <1>1, <2>0, <2>1, Shift
      <4> QED BY <2>1, <4>1
    <3>2. PICK e : e = h[i + k]
      OBVIOUS
    <3>3. /\ e.rec.scans \in Seq(Byte)
          /\ e.rec = Checkpoint(Ordered(e.rec.scans))
          /\ e.tokens = Len(g.tokens) - Len(h) + (i + k) - 1
          /\ e.bytes = Len(BytesAt(e.rec.scans))
          /\ ~e.finished
          /\ TextAt(g, (i + k) + 1) = e.rec.scans \o Spelled(g.tokens[e.tokens + 1])
          /\ \A j \in (i + k) + 1..Len(h) + 1 :
               \E x \in Seq(Byte) : TextAt(g, j) = e.rec.scans \o x
          /\ e.tokens > 0 => Live(e.rec.scans)
      BY <1>g, <1>1, <3>1, <3>2 DEF EntryInv
    <3>4. /\ e.tokens = Len(f.tokens) - m + i - 1
          /\ e.tokens + 1 \in 1..Len(g.tokens)
      <4>1. e.tokens = Len(g.tokens) - Len(h) + (i + k) - 1
        BY <3>3
      <4>2. e.tokens = (Len(g.tokens) + 1) - m + i - 1 /\ e.tokens + 1 \in 1..Len(g.tokens)
        <5>1. PICK T \in Nat : T = Len(g.tokens)
          BY <1>1
        <5>2. PICK n \in Nat : n = Len(h)
          BY <1>1
        <5>3. PICK j \in Nat : j = k
          BY <2>1
        <5>4. /\ i \in Nat /\ i + j >= 1 /\ i + j <= n /\ n <= T
              /\ e.tokens = T - n + (i + j) - 1 /\ m = n - j + 1
          BY <1>1, <2>0, <2>1, <3>1, <4>1, <5>1, <5>2, <5>3
        <5>5. e.tokens \in Nat /\ e.tokens + 1 \in 1..T
          BY <5>4
        <5>6. e.tokens = (T + 1) - m + i - 1
          BY <5>4
        <5> QED BY <5>1, <5>5, <5>6
      <4> QED BY <1>2, <4>2
    <3>5. TextAt(f, i + 1) = e.rec.scans \o Spelled(f.tokens[e.tokens + 1])
      BY <1>2, <2>2, <3>1, <3>3, <3>4
    <3>6. ASSUME NEW j \in i + 1..m
          PROVE  \E x \in Seq(Byte) : TextAt(f, j) = e.rec.scans \o x
      <4>1. j \in 1..m /\ j + k \in (i + k) + 1..Len(h) + 1
        BY <1>1, <2>0, <2>1, <3>1
      <4>2. TextAt(f, j) = TextAt(g, j + k)
        BY <2>2, <4>1
      <4> QED BY <3>3, <4>1, <4>2
    <3>7. \E x \in Seq(Byte) : v = e.rec.scans \o x
      <4>0. m \in i + 1..m
        BY <2>1, <3>1
      <4>1. PICK x \in Seq(Byte) : w = e.rec.scans \o x
        BY <2>3, <3>6, <4>0
      <4>2. Spelled(t) \in Seq(Byte)
        BY SpelledType
      <4>3. (e.rec.scans \o x) \o Spelled(t) = e.rec.scans \o (x \o Spelled(t))
        BY <3>3, <4>2, ByteConcatAssociative, Zenon
      <4>4. x \o Spelled(t) \in Seq(Byte)
        BY <4>2
      <4> QED BY <1>f, <4>1, <4>3, <4>4, Zenon
    <3>8. \A j \in i + 1..m + 1 : \E x \in Seq(Byte) : TextAt(f, j) = e.rec.scans \o x
      <4>1. \A j \in i + 1..m + 1 : j \in i + 1..m \/ j = m + 1
        BY <2>1, <3>1
      <4> QED BY <2>3, <3>6, <3>7, <4>1
    <3> QED BY <2>1, <3>1, <3>2, <3>3, <3>4, <3>5, <3>8 DEF EntryInv
  <2>5. EntryInv(f, m)
    <3>1. c.tokens = Len(f.tokens) - m + m - 1
      <4>1. PICK T \in Nat : T = Len(g.tokens)
        BY <1>1
      <4>2. PICK j \in Nat : j = m
        BY <2>1
      <4>3. T = (T + 1) - j + j - 1
        OBVIOUS
      <4> QED BY <1>c, <1>2, <4>1, <4>2, <4>3
    <3>2. TextAt(f, m + 1) = w \o Spelled(f.tokens[c.tokens + 1])
      BY <1>c, <1>f, <1>2, <2>3
    <3>3. \A j \in m + 1..m + 1 : \E x \in Seq(Byte) : TextAt(f, j) = w \o x
      <4>1. \A j \in m + 1..m + 1 : j = m + 1
        BY <2>1
      <4>2. Spelled(t) \in Seq(Byte)
        BY SpelledType
      <4> QED BY <1>f, <2>3, <4>1, <4>2
    <3> QED BY <1>g, <1>c, <1>l, <2>1, <3>1, <3>2, <3>3 DEF EntryInv
  <2> QED BY <2>1, <2>4, <2>5 DEF HistoryInv
<1> QED BY <1>3, <1>4

\* The history after a commit is again the newest commits, at most MaxRollback.
LEMMA CommitKeepsHistory ==
  ASSUME NEW g, GuideInv(g), NEW t \in CallerId, AdvanceOutcome(g, t) = "ok"
  PROVE  HistoryInv(Committed(g, t))
<1>1. t \in Id /\ ~g.finished /\ Committed(g, t).rec = Ordered(g.rec.scans \o Spelled(t))
  BY CommitResult
<1>2. Grown(g, Committed(g, t), t)
  <2>1. Committed(g, t).history = Retained(g.history, CheckpointOf(g))
    BY DEF Committed
  <2>2. Committed(g, t).tokens = Append(g.tokens, t)
    BY DEF Committed
  <2>3. Committed(g, t).rec.scans = g.rec.scans \o Spelled(t)
    BY <1>1 DEF Ordered
  <2> QED BY <2>1, <2>2, <2>3 DEF Grown
<1> QED BY <1>1, <1>2, HistoryGrows

\* A commit keeps the guide's invariant.
LEMMA CommitKeepsInv ==
  ASSUME NEW g, GuideInv(g), NEW t \in CallerId, AdvanceOutcome(g, t) = "ok"
  PROVE  GuideInv(Committed(g, t))
<1> DEFINE f == Committed(g, t)
           v == g.rec.scans \o Spelled(t)
<1>1. /\ t \in Id /\ ~g.finished /\ v \in Seq(Byte)
      /\ f.rec = Ordered(v) /\ f.bytes = BytesAt(v) /\ Live(v)
      /\ t = EOS => Accepting(v)
  BY CommitResult
<1>2. /\ g.tokens \in Seq(Id) /\ Len(g.tokens) \in Nat
      /\ g.history \in Seq(HistoryEntry) /\ Len(g.history) <= MaxRollback
      /\ \A i \in 1..Len(g.tokens) : g.tokens[i] # EOS
  BY <1>1, GuideFields DEF GuideInv, HistoryInv, ViableInv
<1>3. f = [rec |-> Ordered(v), tokens |-> Append(g.tokens, t), bytes |-> BytesAt(v),
           finished |-> t = EOS, history |-> Retained(g.history, CheckpointOf(g)),
           cached |-> {}]
  BY <1>1 DEF Committed
<1>4. Retained(g.history, CheckpointOf(g)) \in Seq(HistoryEntry)
  <2>1. CASE MaxRollback = 0
    BY <1>2, <2>1 DEF Retained
  <2>2. CASE MaxRollback # 0
    BY <1>2, <2>2, CheckpointType, RetainedResult
  <2> QED BY <2>1, <2>2
<1>5. Ordered(v) \in IdleRecognizer /\ Ordered(v).scans = v /\ BytesAt(v) \in Seq(Byte)
  BY <1>1 DEF Ordered, IdleRecognizer, BytesAt
<1>6. Append(g.tokens, t) \in Seq(Id)
  BY <1>1, <1>2
<1>7. f \in GuideType
  BY <1>3, <1>4, <1>5, <1>6 DEF GuideType
<1>8. InOrder(f)
  BY <1>1, <1>5 DEF InOrder
<1>9. HistoryInv(f)
  BY CommitKeepsHistory
<1>10. ViableInv(f)
  <2>1. /\ f.tokens = Append(g.tokens, t) /\ f.finished = (t = EOS) /\ f.rec.scans = v
    BY <1>3, <1>5
  <2>2. /\ Len(f.tokens) = Len(g.tokens) + 1 /\ f.tokens # << >>
        /\ \A i \in 1..Len(g.tokens) : f.tokens[i] = g.tokens[i]
        /\ f.tokens[Len(g.tokens) + 1] = t
    <3>1. /\ Len(f.tokens) = Len(g.tokens) + 1
          /\ \A i \in 1..Len(g.tokens) : f.tokens[i] = g.tokens[i]
          /\ f.tokens[Len(g.tokens) + 1] = t
      BY <1>1, <1>2, <2>1
    <3>2. Len(f.tokens) # 0
      BY <1>2, <3>1
    <3>3. Len(<< >>) = 0
      OBVIOUS
    <3> QED BY <3>1, <3>2, <3>3
  <2>3. ASSUME NEW i \in 1..Len(f.tokens)
        PROVE  f.tokens[i] = EOS <=> f.finished /\ i = Len(f.tokens)
    <3>1. CASE i \in 1..Len(g.tokens)
      BY <1>2, <2>2, <3>1
    <3>2. CASE i = Len(f.tokens)
      BY <2>1, <2>2, <3>2
    <3> QED BY <1>2, <2>2, <3>1, <3>2
  <2> QED BY <1>1, <2>1, <2>2, <2>3 DEF ViableInv
<1>11. MaskInv(f)
  BY <1>3 DEF MaskInv
<1> HIDE DEF f
<1> QED BY <1>7, <1>8, <1>9, <1>10, <1>11 DEF GuideInv, f

\* An advance that fails leaves the guide, its recognizer included, as it was.
LEMMA RefuseChangesNothing ==
  ASSUME NEW g, GuideInv(g), NEW t \in CallerId, AdvanceOutcome(g, t) # "ok"
  PROVE  Advanced(g, t) = g
<1>1. Advanced(g, t) = Refused(g, t)
  BY DEF Advanced
<1>2. CASE ~g.finished /\ Len(g.tokens) < MaxCommittedTokens /\ t \in Token
  <2>1. t # EOS /\ Len(g.tokens) \in Nat
    BY <1>2, TokenBytes, GuideFields
  <2>2. ~(Len(g.tokens) + 1 > MaxCommittedTokens)
    BY <1>2, <2>1, GuideAssumption
  <2>3. Try(g.rec, t).out \in {"limit", "rejected"}
    BY <1>2, <2>1, <2>2 DEF AdvanceOutcome
  <2>4. Try(g.rec, t).rec = g.rec
    BY <1>2, <2>3, GuideFields, TryResult
  <2>5. [g EXCEPT !.rec = g.rec] = g
    BY DEF GuideInv, GuideType
  <2> QED BY <1>1, <1>2, <2>4, <2>5 DEF Refused
<1>3. CASE ~(~g.finished /\ Len(g.tokens) < MaxCommittedTokens /\ t \in Token)
  BY <1>1, <1>3 DEF Refused
<1> QED BY <1>2, <1>3

\* Filling the mask changes nothing but the cache, which then holds the mask.
LEMMA FillKeepsInv ==
  ASSUME NEW g, GuideInv(g)
  PROVE  /\ GuideInv(Filled(g))
         /\ FillOutcome(g) # "ok" => Filled(g) = g
         /\ FillOutcome(g) = "ok" => Filled(g).cached = {MaskOf(g)}
         /\ UNION Filled(g).cached \subseteq Id
<1>1. MaskOf(g) \in SUBSET Id
  BY DEF MaskOf, EnabledTokens, Id
<1>2. g \in GuideType
  BY DEF GuideInv
<1>3. CASE FillOutcome(g) = "ok" /\ g.cached = {}
  <2> DEFINE f == [g EXCEPT !.cached = {MaskOf(g)}]
  <2>1. Filled(g) = f
    BY <1>3 DEF Filled
  <2>2. f \in GuideType
    BY <1>1, <1>2 DEF GuideType
  <2>3. /\ f.rec = g.rec /\ f.tokens = g.tokens /\ f.bytes = g.bytes
        /\ f.finished = g.finished /\ f.history = g.history /\ f.cached = {MaskOf(g)}
    BY <1>2 DEF GuideType
  <2> HIDE DEF f
  <2>4. InOrder(f) /\ HistoryInv(f) /\ ViableInv(f)
    <3>1. InOrder(f) /\ ViableInv(f)
      BY <2>3 DEF GuideInv, InOrder, ViableInv
    <3>2. \A i : TextAt(f, i) = TextAt(g, i)
      BY <2>3 DEF TextAt
    <3>3. ASSUME NEW i \in 1..Len(g.history), EntryInv(g, i)
          PROVE  EntryInv(f, i)
      BY <2>3, <3>2, <3>3 DEF EntryInv
    <3> QED BY <2>3, <3>1, <3>3 DEF GuideInv, HistoryInv
  <2>5. MaskOf(f) = MaskOf(g)
    BY <2>3 DEF MaskOf
  <2>6. MaskInv(f)
    BY <1>3, <2>3, <2>5 DEF MaskInv, FillOutcome
  <2> QED BY <1>1, <1>3, <2>1, <2>2, <2>3, <2>4, <2>6 DEF GuideInv
<1>4. CASE FillOutcome(g) # "ok"
  BY <1>2, <1>4 DEF Filled, GuideType, FillOutcome
<1>5. CASE FillOutcome(g) = "ok" /\ g.cached # {}
  BY <1>1, <1>5 DEF Filled, GuideInv, MaskInv
<1> QED BY <1>3, <1>4, <1>5

-----------------------------------------------------------------------------
(* Rolling back. *)

\* A new guide is in its invariant.
LEMMA NewGuideInv == GuideInv(NewGuide)
<1>1. Fresh = Ordered(<< >>)
  BY DEF Fresh, Ordered
<1>2. << >> \in Seq(Byte) /\ << >> \in Seq(Id) /\ << >> \in Seq(HistoryEntry)
  OBVIOUS
<1>3. NewGuide \in GuideType
  BY <1>2 DEF NewGuide, GuideType, IdleRecognizer, Fresh
<1>4. InOrder(NewGuide)
  BY <1>1 DEF InOrder, NewGuide, BytesAt, Ordered
<1>5. HistoryInv(NewGuide) /\ ViableInv(NewGuide) /\ MaskInv(NewGuide)
  BY GuideAssumption DEF HistoryInv, ViableInv, MaskInv, NewGuide
<1> QED BY <1>3, <1>4, <1>5 DEF GuideInv

\* reset restores the checkpoint of a new guide, which gives a new guide.
LEMMA ResetIsNew ==
  ASSUME NEW g, GuideInv(g)
  PROVE  Restored(g, CheckpointOf(NewGuide), << >>) = NewGuide
<1> DEFINE w == g.rec.scans
           c == CheckpointOf(NewGuide)
<1>1. w \in Seq(Byte) /\ g.rec = Ordered(w) /\ g.tokens \in Seq(Id) /\ g.bytes \in Seq(Byte)
  BY GuideFields
<1>2. c.rec = Checkpoint(Ordered(<< >>)) /\ c.tokens = 0 /\ c.bytes = 0 /\ c.finished = FALSE
  BY DEF CheckpointOf, NewGuide, Fresh, Ordered
<1>3. << >> \o w = w /\ << >> \in Seq(Byte)
  BY <1>1
<1>4. Restore(Ordered(<< >> \o w), Checkpoint(Ordered(<< >>))) = Ordered(<< >>)
  BY <1>1, <1>3, RestoreToPrefix
<1>5. Restore(g.rec, c.rec) = Fresh
  BY <1>1, <1>2, <1>3, <1>4 DEF Fresh, Ordered
<1>6. SubSeq(g.tokens, 1, 0) = << >> /\ SubSeq(g.bytes, 1, 0) = << >>
  BY <1>1
<1> HIDE DEF c
<1>7. Restored(g, c, << >>) = NewGuide
  BY <1>2, <1>5, <1>6 DEF Restored, NewGuide
<1> QED BY <1>7 DEF c

\* A checkpoint in the history can be restored, and gives back its text.
LEMMA EntryRestores ==
  ASSUME NEW g, GuideInv(g), NEW k \in 1..Len(g.history)
  PROVE  LET e == g.history[k]
             w == e.rec.scans
         IN /\ CanRestore(g.rec, e.rec)
            /\ Restore(g.rec, e.rec) = Ordered(w)
            /\ Restored(g, e, SubSeq(g.history, 1, k - 1)) =
                 [rec |-> Ordered(w), tokens |-> SubSeq(g.tokens, 1, e.tokens),
                  bytes |-> BytesAt(w), finished |-> FALSE,
                  history |-> SubSeq(g.history, 1, k - 1), cached |-> {}]
<1> PICK e : e = g.history[k]
  OBVIOUS
<1> PICK w : w = e.rec.scans
  OBVIOUS
<1>1. /\ EntryInv(g, k) /\ g.history \in Seq(HistoryEntry)
      /\ Len(g.history) \in Nat /\ k \in Nat /\ k <= Len(g.history)
  BY GuideFields DEF GuideInv, HistoryInv
<1>2. /\ w \in Seq(Byte) /\ e.rec = Checkpoint(Ordered(w)) /\ e.bytes = Len(BytesAt(w))
      /\ e \in HistoryEntry /\ ~e.finished
      /\ \E x \in Seq(Byte) : g.rec.scans = w \o x
  <2>1. Len(g.history) + 1 \in k + 1..Len(g.history) + 1
    BY <1>1
  <2>2. TextAt(g, Len(g.history) + 1) = g.rec.scans
    BY <1>1 DEF TextAt
  <2>3. e \in HistoryEntry
    BY <1>1
  <2> QED BY <1>1, <2>1, <2>2, <2>3 DEF EntryInv
<1>3. PICK x \in Seq(Byte) : g.rec.scans = w \o x
  BY <1>2
<1>4. g.rec = Ordered(w \o x) /\ g.bytes = BytesAt(w \o x)
  BY <1>3, GuideFields
<1>5. CanRestore(g.rec, e.rec) /\ Restore(g.rec, e.rec) = Ordered(w)
  BY <1>2, <1>4, RestoreToPrefix
<1>6. SubSeq(g.bytes, 1, e.bytes) = BytesAt(w)
  <2>1. CASE Backend = "dfa"
    <3>1. BytesAt(w) = << >> /\ BytesAt(w \o x) = << >>
      BY <2>1 DEF BytesAt
    <3>2. g.bytes = << >> /\ e.bytes = Len(<< >>)
      BY <1>2, <1>4, <3>1
    <3>3. Len(<< >>) = 0 /\ SubSeq(<< >>, 1, 0) = << >>
      OBVIOUS
    <3> QED BY <3>1, <3>2, <3>3
  <2>2. CASE Backend # "dfa"
    <3>1. g.bytes = w \o x /\ e.bytes = Len(w) /\ BytesAt(w) = w
      BY <1>2, <1>4, <2>2 DEF BytesAt
    <3>2. SubSeq(w \o x, 1, Len(w)) = w
      BY <1>2, TruncateUndoesConcat
    <3> QED BY <3>1, <3>2
  <2> QED BY <2>1, <2>2
<1>7. e.finished = FALSE
  BY <1>2 DEF HistoryEntry
<1> QED BY <1>5, <1>6, <1>7 DEF Restored

\* Going back to a history entry keeps the history's invariant.
LEMMA RollbackKeepsHistory ==
  ASSUME NEW g, NEW f, NEW k \in 1..Len(g.history), GuideInv(g),
         f.history = SubSeq(g.history, 1, k - 1),
         f.tokens = SubSeq(g.tokens, 1, g.history[k].tokens),
         f.rec.scans = g.history[k].rec.scans
  PROVE  /\ HistoryInv(f)
         /\ g.history[k].tokens = Len(g.tokens) - Len(g.history) + k - 1
         /\ g.history[k].tokens \in Nat /\ g.history[k].tokens < Len(g.tokens)
<1> PICK n \in Nat : n = Len(g.history)
  BY GuideFields
<1> PICK T \in Nat : T = Len(g.tokens)
  BY GuideFields
<1> PICK h \in Seq(HistoryEntry) : h = g.history
  BY GuideFields
<1>1. /\ k \in 1..n /\ n <= T /\ n <= MaxRollback /\ Len(h) = n
      /\ \A i \in 1..n : EntryInv(g, i)
      /\ g.tokens \in Seq(Id) /\ Len(g.tokens) = T
  BY GuideFields DEF GuideInv, HistoryInv
<1>2. PICK m : m = h[k].tokens
  OBVIOUS
<1>3. m = T - n + k - 1
  BY <1>1, <1>2 DEF EntryInv
<1>4. m \in Nat /\ m <= T - 1 /\ k - 1 <= m /\ k - 1 \in Nat /\ k - 1 <= MaxRollback
  BY <1>1, <1>3, GuideAssumption
<1>5. /\ f.history \in Seq(HistoryEntry) /\ Len(f.history) = k - 1
      /\ \A i \in 1..k - 1 : f.history[i] = h[i]
  BY <1>1, <1>4
<1>6. /\ Len(f.tokens) = m
      /\ \A i \in 1..m : f.tokens[i] = g.tokens[i]
  <2>1. f.tokens = SubSeq(g.tokens, 1, m)
    BY <1>2
  <2>2. g.tokens \in Seq(Id) /\ m \in 0..Len(g.tokens)
    BY <1>1, <1>4
  <2>3. /\ Len(SubSeq(g.tokens, 1, m)) = m
        /\ \A i \in 1..m : SubSeq(g.tokens, 1, m)[i] = g.tokens[i]
    BY <2>2, BeginningIs, Zenon
  <2> QED BY <2>1, <2>3
<1>7. \A i \in 1..k : TextAt(f, i) = TextAt(g, i)
  <2>1. ASSUME NEW i \in 1..k - 1
        PROVE  TextAt(f, i) = TextAt(g, i)
    BY <1>1, <1>5 DEF TextAt
  <2>2. TextAt(f, k) = TextAt(g, k)
    BY <1>1, <1>5 DEF TextAt
  <2> QED BY <1>1, <2>1, <2>2
<1>8. ASSUME NEW i \in 1..k - 1
      PROVE  EntryInv(f, i)
  <2>1. PICK e : e = h[i]
    OBVIOUS
  <2>2. i \in 1..n /\ i + 1 \in 1..k /\ i \in Nat
    BY <1>1
  <2>3. /\ e.rec.scans \in Seq(Byte)
        /\ e.rec = Checkpoint(Ordered(e.rec.scans))
        /\ e.tokens = T - n + i - 1
        /\ e.bytes = Len(BytesAt(e.rec.scans))
        /\ ~e.finished
        /\ TextAt(g, i + 1) = e.rec.scans \o Spelled(g.tokens[e.tokens + 1])
        /\ \A j \in i + 1..n + 1 : \E x \in Seq(Byte) : TextAt(g, j) = e.rec.scans \o x
        /\ e.tokens > 0 => Live(e.rec.scans)
    BY <1>1, <2>1, <2>2 DEF EntryInv
  <2>4. e.tokens = m - (k - 1) + i - 1
    BY <1>1, <1>3, <2>2, <2>3
  <2>5. e.tokens + 1 \in 1..m
    <3>1. PICK a \in Nat : a = k - 1
      BY <1>4
    <3>2. /\ e.tokens = m - a + i - 1
          /\ m \in Nat /\ a <= m /\ i \in Nat /\ i >= 1 /\ i <= a
      BY <1>4, <2>2, <2>4, <3>1
    <3> QED BY <3>2
  <2>6. TextAt(f, i + 1) = e.rec.scans \o Spelled(f.tokens[e.tokens + 1])
    BY <1>6, <1>7, <2>2, <2>3, <2>5
  <2>7. \A j \in i + 1..(k - 1) + 1 : \E x \in Seq(Byte) : TextAt(f, j) = e.rec.scans \o x
    <3>1. \A j \in i + 1..(k - 1) + 1 : j \in 1..k /\ j \in i + 1..n + 1
      BY <1>1, <2>2
    <3> QED BY <1>7, <2>3, <3>1
  <2> QED BY <1>5, <1>6, <2>1, <2>3, <2>4, <2>6, <2>7 DEF EntryInv
<1>9. HistoryInv(f)
  BY <1>4, <1>5, <1>6, <1>8 DEF HistoryInv
<1>10. m \in Nat /\ m < T
  BY <1>4
<1>11. m = g.history[k].tokens
  BY <1>2
<1> QED BY <1>3, <1>9, <1>10, <1>11

\* Rolling back keeps the guide's invariant and takes back the last tokens.
LEMMA RollbackKeepsInv ==
  ASSUME NEW g, GuideInv(g), NEW k \in 1..Len(g.history)
  PROVE  LET e == g.history[k]
             f == Restored(g, e, SubSeq(g.history, 1, k - 1))
         IN /\ GuideInv(f)
            /\ f.tokens = SubSeq(g.tokens, 1, Len(g.tokens) - Len(g.history) + k - 1)
            /\ Len(f.history) = k - 1
            /\ f.history = SubSeq(g.history, 1, k - 1)
            /\ f.rec.scans = e.rec.scans
            /\ f.finished = FALSE
            /\ e.finished = FALSE
<1> PICK e : e = g.history[k]
  OBVIOUS
<1>f. PICK f : f = Restored(g, e, SubSeq(g.history, 1, k - 1))
  OBVIOUS
<1> PICK w : w = e.rec.scans
  OBVIOUS
<1>1. f = [rec |-> Ordered(w), tokens |-> SubSeq(g.tokens, 1, e.tokens),
           bytes |-> BytesAt(w), finished |-> FALSE,
           history |-> SubSeq(g.history, 1, k - 1), cached |-> {}]
  BY <1>f, EntryRestores
<1>2. /\ f.rec = Ordered(w) /\ f.rec.scans = w /\ f.bytes = BytesAt(w)
      /\ f.tokens = SubSeq(g.tokens, 1, e.tokens) /\ f.finished = FALSE
      /\ f.history = SubSeq(g.history, 1, k - 1) /\ f.cached = {}
  BY <1>1 DEF Ordered
<1>3. /\ HistoryInv(f)
      /\ e.tokens = Len(g.tokens) - Len(g.history) + k - 1
      /\ e.tokens \in Nat /\ e.tokens < Len(g.tokens)
  BY <1>2, RollbackKeepsHistory
<1>4. /\ EntryInv(g, k) /\ w \in Seq(Byte) /\ ~e.finished /\ (e.tokens > 0 => Live(w))
      /\ e \in HistoryEntry
  <2>1. EntryInv(g, k)
    BY DEF GuideInv, HistoryInv
  <2>2. /\ g.history \in Seq(HistoryEntry) /\ Len(g.history) \in Nat
        /\ k \in 1..Len(g.history)
    BY GuideFields
  <2>3. e \in HistoryEntry
    BY <2>2
  <2> QED BY <2>1, <2>3 DEF EntryInv
<1>5. /\ g.tokens \in Seq(Id) /\ Len(g.tokens) \in Nat /\ g.history \in Seq(HistoryEntry)
      /\ Len(g.history) \in Nat
  BY GuideFields
<1>6. /\ f.tokens \in Seq(Id) /\ Len(f.tokens) = e.tokens
      /\ \A i \in 1..e.tokens : f.tokens[i] = g.tokens[i]
  <2>1. PICK s \in Seq(Id) : s = g.tokens
    BY <1>5
  <2>2. PICK m \in Nat : m = e.tokens /\ m <= Len(s)
    <3>1. e.tokens \in Nat /\ e.tokens <= Len(s)
      <4>1. e.tokens \in Nat /\ e.tokens < Len(g.tokens)
        BY <1>3
      <4>2. Len(g.tokens) \in Nat
        BY <1>5
      <4>3. e.tokens <= Len(g.tokens)
        BY <4>1, <4>2
      <4> QED BY <2>1, <4>1, <4>3
    <3> QED BY <3>1
  <2>3. /\ SubSeq(s, 1, m) \in Seq(Id) /\ Len(SubSeq(s, 1, m)) = m
        /\ \A i \in 1..m : SubSeq(s, 1, m)[i] = s[i]
    BY <2>2
  <2> QED BY <1>2, <2>1, <2>2, <2>3
<1>7. f.history \in Seq(HistoryEntry) /\ Len(f.history) = k - 1
  BY <1>2, <1>5
<1>8. f \in GuideType
  <2>0. w \in Seq(Byte)
    BY <1>4
  <2>1. Ordered(w) \in IdleRecognizer /\ BytesAt(w) \in Seq(Byte)
    BY <2>0 DEF Ordered, IdleRecognizer, BytesAt
  <2>2. SubSeq(g.tokens, 1, e.tokens) \in Seq(Id)
    BY <1>2, <1>6
  <2>3. SubSeq(g.history, 1, k - 1) \in Seq(HistoryEntry)
    BY <1>2, <1>7
  <2> QED BY <1>1, <2>1, <2>2, <2>3 DEF GuideType
<1>9. InOrder(f) /\ MaskInv(f)
  BY <1>2 DEF InOrder, MaskInv
<1>10. ViableInv(f)
  <2>1. f.tokens # << >> => Live(f.rec.scans)
    <3>1. f.tokens # << >> => Len(f.tokens) # 0
      BY <1>6, EmptySeq
    <3>2. Len(f.tokens) # 0 => Live(w)
      <4>1. e.tokens \in Nat /\ Len(f.tokens) = e.tokens /\ (e.tokens > 0 => Live(w))
        BY <1>3, <1>4, <1>6
      <4> QED BY <4>1
    <3> QED BY <1>2, <3>1, <3>2
  <2>2. \A i \in 1..Len(g.tokens) : g.tokens[i] = EOS <=> g.finished /\ i = Len(g.tokens)
    BY DEF GuideInv, ViableInv
  <2>3. ASSUME NEW i \in 1..Len(f.tokens)
        PROVE  f.tokens[i] # EOS
    <3>1. i \in 1..Len(g.tokens) /\ i # Len(g.tokens)
      <4>1. PICK T \in Nat : T = Len(g.tokens)
        BY <1>5
      <4>2. PICK m \in Nat : m = Len(f.tokens) /\ m <= T - 1
        <5>1. e.tokens \in Nat /\ e.tokens < T /\ Len(f.tokens) = e.tokens
          BY <1>3, <1>6, <4>1
        <5>2. e.tokens <= T - 1
          BY <5>1
        <5> QED BY <5>1, <5>2
      <4> QED BY <4>1, <4>2
    <3> QED BY <1>6, <2>2, <3>1
  <2> QED BY <1>2, <2>1, <2>3 DEF ViableInv
<1>11. GuideInv(f)
  BY <1>3, <1>8, <1>9, <1>10 DEF GuideInv
<1>12. e.finished = FALSE
  BY <1>4 DEF HistoryEntry
<1> QED BY <1>f, <1>2, <1>3, <1>7, <1>11, <1>12

-----------------------------------------------------------------------------
(* The specification. *)

Inv == GuideInv(guide) /\ ReplyInv

\* What each operation does in a state of the invariant: a commit is one of an
\* enabled id, a failure changes nothing, a rollback reaches its entry.
LEMMA AdvanceStep ==
  ASSUME Inv, NEW t \in CallerId, Advance(t)
  PROVE  /\ Inv'
         /\ reply'.out # "ok" => UNCHANGED guide
<1>1. CASE AdvanceOutcome(guide, t) = "ok"
  <2>1. guide' = Committed(guide, t) /\ reply' = Answer(<<"advance", t>>, "ok")
    BY <1>1 DEF Advance, Advanced
  <2>2. GuideInv(guide')
    BY <1>1, <2>1, CommitKeepsInv DEF Inv
  <2> QED BY <2>1, <2>2 DEF Inv, ReplyInv, Answer, Outcomes
<1>2. CASE AdvanceOutcome(guide, t) # "ok"
  <2>1. guide' = guide /\ reply' = Answer(<<"advance", t>>, AdvanceOutcome(guide, t))
    BY <1>2, RefuseChangesNothing DEF Advance, Inv
  <2>2. AdvanceOutcome(guide, t) \in Outcomes
    BY DEF AdvanceOutcome, Outcomes
  <2> QED BY <2>1, <2>2 DEF Inv, ReplyInv, Answer
<1> QED BY <1>1, <1>2

\* fill_mask keeps the invariant.
LEMMA FillMaskStep ==
  ASSUME Inv, FillMask
  PROVE  /\ Inv'
         /\ reply'.out # "ok" => UNCHANGED guide
<1>1. FillOutcome(guide) \in Outcomes
  BY DEF FillOutcome, Outcomes
<1> QED BY <1>1, FillKeepsInv DEF FillMask, Inv, ReplyInv

\* rollback keeps the invariant.
LEMMA RollbackStep ==
  ASSUME Inv, NEW n \in 0..MaxRollback + 1, Rollback(n)
  PROVE  /\ Inv'
         /\ reply'.out # "ok" => UNCHANGED guide
         /\ IF n # 0 /\ n <= Len(guide.history)
            THEN LET k == Len(guide.history) - n + 1
                 IN /\ reply' = Answer(<<"rollback", n>>, "ok")
                    /\ guide' = Restored(guide, guide.history[k],
                                         SubSeq(guide.history, 1, k - 1))
                    /\ k \in 1..Len(guide.history)
            ELSE UNCHANGED guide
<1>1. n \in Nat /\ Len(guide.history) \in Nat
  BY GuideAssumption, GuideFields DEF Inv
<1>2. CASE n = 0 \/ n > Len(guide.history)
  BY <1>1, <1>2 DEF Rollback, Inv, ReplyInv, Answer, Outcomes
<1>3. CASE n # 0 /\ n <= Len(guide.history)
  <2> PICK k : k = Len(guide.history) - n + 1
    OBVIOUS
  <2>1. k \in 1..Len(guide.history) /\ k - 1 = Len(guide.history) - n
    BY <1>1, <1>3
  <2>2. CanRestore(guide.rec, guide.history[k].rec)
    BY <2>1, EntryRestores DEF Inv
  <2>3. /\ reply' = Answer(<<"rollback", n>>, "ok")
        /\ guide' = Restored(guide, guide.history[k], SubSeq(guide.history, 1, k - 1))
    BY <1>1, <1>3, <2>1, <2>2 DEF Rollback
  <2>4. GuideInv(guide')
    BY <2>1, <2>3, RollbackKeepsInv DEF Inv
  <2> QED BY <1>3, <2>1, <2>3, <2>4 DEF Inv, ReplyInv, Answer, Outcomes
<1> QED BY <1>1, <1>2, <1>3

\* reset keeps the invariant.
LEMMA ResetStep ==
  ASSUME Inv, Reset
  PROVE  /\ Inv'
         /\ guide' = NewGuide
         /\ reply'.out = "ok"
BY ResetIsNew, NewGuideInv DEF Inv, Reset, ReplyInv, Answer, Outcomes

\* accepts_tokens keeps the invariant.
LEMMA AskStep ==
  ASSUME Inv, NEW s \in Trial, AskAcceptsTokens(s)
  PROVE  Inv' /\ UNCHANGED guide
BY DEF Inv, AskAcceptsTokens, ReplyInv, Answer, Outcomes

\* Every step keeps the invariant.
LEMMA StepKeepsInv ==
  ASSUME Inv, [Next]_vars
  PROVE  Inv'
<1>1. ASSUME NEW t \in CallerId, Advance(t)
      PROVE  Inv'
  BY <1>1, AdvanceStep
<1>2. CASE FillMask
  BY <1>2, FillMaskStep
<1>3. ASSUME NEW s \in Trial, AskAcceptsTokens(s)
      PROVE  Inv'
  BY <1>3, AskStep
<1>4. ASSUME NEW n \in 0..MaxRollback + 1, Rollback(n)
      PROVE  Inv'
  BY <1>4, RollbackStep
<1>5. CASE Reset
  BY <1>5, ResetStep
<1>6. CASE UNCHANGED vars
  BY <1>6 DEF vars, Inv, ReplyInv
<1> QED BY <1>1, <1>2, <1>3, <1>4, <1>5, <1>6 DEF Next

\* The inductive invariant holds in every state.
LEMMA Invariance == Spec => []Inv
<1>1. Init => Inv
  BY NewGuideInv DEF Init, Inv, ReplyInv, Answer, Outcomes
<1>2. Inv /\ [Next]_vars => Inv'
  BY StepKeepsInv
<1> QED BY <1>1, <1>2, PTL DEF Spec

-----------------------------------------------------------------------------
(* The properties. *)

\* Every field of the guide stays in its type; in particular the scans a failing
\* Earley or LALR byte destroys are always back in place when a call returns
\* (engine.rs:686-714, 1189-1295).
THEOREM TypeCorrect == Spec => []TypeOK
<1>1. Inv => TypeOK
  BY DEF Inv, GuideInv, ReplyInv, TypeOK, GuideType, IdleRecognizer
<1> QED BY <1>1, Invariance, PTL

\* The recognizer's tables, its scans, its byte count and the committed bytes are
\* of one text, whatever was tried, undone or reset (earley.rs:577-596).
THEOREM TablesAlwaysMatchText == Spec => []TablesMatchText
<1>1. Inv => TablesMatchText
  BY DEF Inv, GuideInv, InOrder, Ordered, BytesAt, TablesMatchText
<1> QED BY <1>1, Invariance, PTL

\* The decoded text stays completable, and a finished one is complete (README.md,
\* exact constrained decoding; engine.rs:1189-1269).
THEOREM DecodingIsExact == Spec => []DecodedTextIsViable
<1>1. ASSUME Inv
      PROVE  DecodedTextIsViable
  <2>1. /\ ViableInv(guide) /\ Len(guide.tokens) \in Nat /\ guide.tokens \in Seq(Id)
        /\ guide.finished \in BOOLEAN
    BY <1>1, GuideFields DEF Inv, GuideInv
  <2>2. guide.tokens # << >> => Len(guide.tokens) # 0
    BY <2>1, EmptySeq
  <2>3. CASE guide.finished
    <3>1. Len(guide.tokens) \in 1..Len(guide.tokens)
      BY <2>1, <2>2, <2>3 DEF ViableInv
    <3> QED BY <2>1, <2>3, <3>1 DEF DecodedTextIsViable, ViableInv
  <2>4. CASE ~guide.finished
    BY <2>1, <2>4 DEF DecodedTextIsViable, ViableInv
  <2> QED BY <2>3, <2>4
<1> QED BY <1>1, Invariance, PTL

\* Below the bound on committed tokens, the mask's bits are those of the ids that
\* can be committed.
LEMMA MaskIsExact ==
  ASSUME NEW g, GuideInv(g), NEW t \in Id, Len(g.tokens) < MaxCommittedTokens
  PROVE  t \in MaskOf(g) <=> AdvanceOutcome(g, t) = "ok"
<1>1. ~(Len(g.tokens) + 1 > MaxCommittedTokens) /\ t \in CallerId
  BY GuideFields, GuideAssumption DEF CallerId
<1>2. CASE g.finished
  BY <1>2 DEF MaskOf, AdvanceOutcome
<1>3. CASE ~g.finished /\ t = EOS
  <2>1. t \notin EnabledTokens(g.rec)
    BY <1>3, VocabularyAssumption DEF EnabledTokens
  <2> QED BY <1>1, <1>3, <2>1 DEF MaskOf, AdvanceOutcome
<1>4. CASE ~g.finished /\ t # EOS
  <2>1. t \in Token
    BY <1>4 DEF Id
  <2>2. t \in MaskOf(g) <=> t \in EnabledTokens(g.rec)
    BY <1>4 DEF MaskOf
  <2>3. AdvanceOutcome(g, t) = "ok" <=> Try(g.rec, t).out \notin {"limit", "rejected"}
    BY <1>1, <1>4, <2>1 DEF AdvanceOutcome
  <2>4. PICK w \in Seq(Byte) : g.rec = Ordered(w)
    BY GuideFields
  <2>5. t \in EnabledTokens(Ordered(w))
          <=> Try(Ordered(w), t).out \notin {"limit", "rejected"}
    BY <2>1, TryResult
  <2> QED BY <2>2, <2>3, <2>4, <2>5
<1> QED BY <1>2, <1>3, <1>4

\* A cached mask is always the mask of the current state, bit for bit, however
\* many commits, rollbacks and resets lie since (engine.rs:1306-1327).
THEOREM MasksAreExact == Spec => []CachedMaskIsExact
<1>1. ASSUME Inv, Len(guide.tokens) < MaxCommittedTokens,
             NEW m \in guide.cached, NEW t \in Id
      PROVE  t \in m <=> AdvanceOutcome(guide, t) = "ok"
  <2>1. m = MaskOf(guide)
    BY <1>1 DEF Inv, GuideInv, MaskInv
  <2> QED BY <1>1, <2>1, MaskIsExact DEF Inv
<1>2. Inv => CachedMaskIsExact
  BY <1>1 DEF CachedMaskIsExact
<1> QED BY <1>2, Invariance, PTL

\* A call that reports an error has changed nothing, although advance has fed
\* bytes to the recognizer and rollback pops its history before it asks whether
\* the checkpoint can be restored (engine.rs:1189-1295).
THEOREM FailuresChangeNothing == Spec => FailureChangesNothing
<1>1. ASSUME Inv, [Next]_vars
      PROVE  [reply'.out # "ok" => UNCHANGED guide]_vars
  <2>1. ASSUME NEW t \in CallerId, Advance(t)
        PROVE  reply'.out # "ok" => UNCHANGED guide
    BY <1>1, <2>1, AdvanceStep
  <2>2. ASSUME FillMask
        PROVE  reply'.out # "ok" => UNCHANGED guide
    BY <1>1, <2>2, FillMaskStep
  <2>3. ASSUME NEW s \in Trial, AskAcceptsTokens(s)
        PROVE  UNCHANGED guide
    BY <2>3 DEF AskAcceptsTokens
  <2>4. ASSUME NEW n \in 0..MaxRollback + 1, Rollback(n)
        PROVE  reply'.out # "ok" => UNCHANGED guide
    BY <1>1, <2>4, RollbackStep
  <2>5. ASSUME Reset
        PROVE  reply'.out = "ok"
    BY <1>1, <2>5, ResetStep
  <2> QED BY <1>1, <2>1, <2>2, <2>3, <2>4, <2>5 DEF Next
<1> QED BY <1>1, Invariance, PTL DEF Spec, FailureChangesNothing

\* The history is that of the newest commits, and each of its checkpoints, though
\* an Earley one is but a column count, can be restored to the tables, the scans
\* and the position of its text (engine.rs:1329-1395, earley.rs:577-596).
THEOREM HistoryIsExact == Spec => []HistoryIsTheNewestCommits
<1>1. ASSUME Inv, NEW i \in 1..Len(guide.history)
      PROVE  LET h == guide.history
                 n == Len(h)
                 textAt(j) == IF j > n THEN guide.rec.scans ELSE h[j].rec.scans
                 t == guide.tokens[h[i].tokens + 1]
             IN /\ h[i].tokens = Len(guide.tokens) - n + i - 1
                /\ ~h[i].finished
                /\ textAt(i + 1) = IF t = EOS THEN textAt(i) ELSE textAt(i) \o BytesOf[t]
                /\ h[i].bytes = IF Backend = "dfa" THEN 0 ELSE Len(textAt(i))
                /\ CanRestore(guide.rec, h[i].rec)
                /\ Restore(guide.rec, h[i].rec) =
                     [columns |-> textAt(i), scans |-> textAt(i), position |-> Len(textAt(i))]
  <2> PICK h : h = guide.history
    OBVIOUS
  <2> PICK n \in Nat : n = Len(h) /\ i \in 1..n
    BY <1>1, GuideFields DEF Inv
  <2> PICK w : w = h[i].rec.scans
    OBVIOUS
  <2>1. /\ EntryInv(guide, i) /\ w \in Seq(Byte)
    BY <1>1 DEF Inv, GuideInv, HistoryInv, EntryInv
  <2>2. CanRestore(guide.rec, h[i].rec) /\ Restore(guide.rec, h[i].rec) = Ordered(w)
    BY <1>1, EntryRestores DEF Inv
  <2>3. /\ h[i].tokens = Len(guide.tokens) - n + i - 1
        /\ ~h[i].finished
        /\ h[i].bytes = Len(BytesAt(w))
        /\ TextAt(guide, i + 1) = w \o Spelled(guide.tokens[h[i].tokens + 1])
    BY <2>1 DEF EntryInv
  <2>4. h[i].bytes = IF Backend = "dfa" THEN 0 ELSE Len(w)
    BY <2>3 DEF BytesAt
  <2>5. w \o << >> = w
    BY <2>1
  <2>6. TextAt(guide, i + 1)
          = IF guide.tokens[h[i].tokens + 1] = EOS THEN w
            ELSE w \o BytesOf[guide.tokens[h[i].tokens + 1]]
    BY <2>3, <2>5 DEF Spelled
  <2>7. TextAt(guide, i + 1) = IF i + 1 > n THEN guide.rec.scans ELSE h[i + 1].rec.scans
    BY DEF TextAt
  <2>8. ~(i > n)
    OBVIOUS
  <2> QED BY <2>2, <2>3, <2>4, <2>6, <2>7, <2>8 DEF Ordered
<1>2. Inv => HistoryIsTheNewestCommits
  <2>1. ASSUME Inv
        PROVE  Len(guide.history) <= MaxRollback /\ Len(guide.history) <= Len(guide.tokens)
    BY <2>1 DEF Inv, GuideInv, HistoryInv
  <2> QED BY <1>1, <2>1 DEF HistoryIsTheNewestCommits
<1> QED BY <1>2, Invariance, PTL

\* rollback(n) takes back the last n tokens, and is refused only when fewer are
\* remembered (engine.rs:1271-1295).
THEOREM RollbacksCountTokens == Spec => RollbackCountsTokens
<1>1. ASSUME Inv, NEW n \in 1..MaxRollback + 1, Rollback(n)
      PROVE  IF n <= Len(guide.history)
             THEN /\ reply'.out = "ok"
                  /\ guide'.tokens = SubSeq(guide.tokens, 1, Len(guide.tokens) - n)
                  /\ Len(guide'.history) = Len(guide.history) - n
             ELSE UNCHANGED guide
  <2>1. n \in 0..MaxRollback + 1 /\ n \in Nat /\ n # 0
    BY GuideAssumption
  <2>2. CASE n <= Len(guide.history)
    <3> PICK k : k = Len(guide.history) - n + 1
      OBVIOUS
    <3>1. /\ reply' = Answer(<<"rollback", n>>, "ok")
          /\ guide' = Restored(guide, guide.history[k], SubSeq(guide.history, 1, k - 1))
          /\ k \in 1..Len(guide.history)
      BY <1>1, <2>1, <2>2, RollbackStep
    <3>2. /\ guide'.tokens =
               SubSeq(guide.tokens, 1, Len(guide.tokens) - Len(guide.history) + k - 1)
          /\ Len(guide'.history) = k - 1
      BY <1>1, <3>1, RollbackKeepsInv DEF Inv
    <3>3. Len(guide.tokens) \in Nat /\ Len(guide.history) \in Nat
      BY <1>1, GuideFields DEF Inv
    <3>4. /\ Len(guide.tokens) - Len(guide.history) + k - 1 = Len(guide.tokens) - n
          /\ k - 1 = Len(guide.history) - n
      <4>1. PICK T \in Nat : T = Len(guide.tokens)
        BY <3>3
      <4>2. PICK m \in Nat : m = Len(guide.history)
        BY <3>3
      <4>3. T - m + (m - n + 1) - 1 = T - n /\ (m - n + 1) - 1 = m - n
        BY <2>1
      <4> QED BY <4>1, <4>2, <4>3
    <3> QED BY <2>2, <3>1, <3>2, <3>4 DEF Answer
  <2>3. CASE ~(n <= Len(guide.history))
    BY <1>1, <2>1, <2>3, RollbackStep
  <2> QED BY <2>2, <2>3
<1>2. Inv /\ [Next]_vars =>
        [\A n \in 1..MaxRollback + 1 : Rollback(n) =>
           IF n <= Len(guide.history)
           THEN /\ reply'.out = "ok"
                /\ guide'.tokens = SubSeq(guide.tokens, 1, Len(guide.tokens) - n)
                /\ Len(guide'.history) = Len(guide.history) - n
           ELSE UNCHANGED guide]_vars
  BY <1>1
<1> QED BY <1>2, Invariance, PTL DEF Spec, RollbackCountsTokens

-----------------------------------------------------------------------------
(* The guide implements GuidePromise. *)

\* The snapshots that a history stands for.
Snapshot(e) == [text |-> e.rec.scans, done |-> e.finished]
PastOf(h) == [i \in 1..Len(h) |-> Snapshot(h[i])]
Snapshots == [text : Seq(Byte) \cup {NoScans}, done : BOOLEAN]

\* A snapshot of a committed moment has the fields the promise remembers.
LEMMA SnapshotType ==
  ASSUME NEW e \in HistoryEntry
  PROVE  Snapshot(e) \in Snapshots
BY DEF HistoryEntry, RecognizerCheckpoint, Snapshot, Snapshots

\* The past of a guide is a sequence of snapshots.
LEMMA PastType ==
  ASSUME NEW h \in Seq(HistoryEntry)
  PROVE  PastOf(h) \in Seq(Snapshots) /\ Len(PastOf(h)) = Len(h)
<1>1. \A i \in 1..Len(h) : Snapshot(h[i]) \in Snapshots
  BY SnapshotType
<1>2. Len(h) \in Nat
  OBVIOUS
<1> QED BY <1>1, <1>2, IsASeq DEF PastOf

\* The snapshots the promise remembers after a commit, with newest snapshot z.
Remember(p, z) ==
  IF MaxRollback = 0 THEN p
  ELSE IF Len(p) < MaxRollback THEN Append(p, z)
  ELSE SubSeq(Append(p, z), Len(Append(p, z)) - MaxRollback + 1, Len(Append(p, z)))

\* retain_checkpoint keeps the snapshots the promise remembers.
LEMMA PastRetained ==
  ASSUME NEW h \in Seq(HistoryEntry), NEW c \in HistoryEntry, Len(h) <= MaxRollback
  PROVE  PastOf(Retained(h, c)) = Remember(PastOf(h), Snapshot(c))
<1> PICK n \in Nat : n = Len(h)
  OBVIOUS
<1> PICK z : z = Snapshot(c)
  OBVIOUS
<1> PICK r : r = Retained(h, c)
  OBVIOUS
<1> PICK p \in Seq(Snapshots) : p = PastOf(h) /\ Len(p) = n
  BY PastType
<1>0. MaxRollback \in Nat
  BY GuideAssumption
<1>1. \A i \in 1..n : p[i] = Snapshot(h[i])
  BY DEF PastOf
<1>2. z \in Snapshots
  BY SnapshotType
<1>3. CASE MaxRollback = 0
  BY <1>3 DEF Retained, Remember
<1>4. CASE MaxRollback # 0
  <2>1. PICK k \in Nat : k = Dropped(h) /\ k <= n
    BY <1>4, RetainedResult
  <2>2. /\ r \in Seq(HistoryEntry) /\ Len(r) = n - k + 1
        /\ \A i \in 1..n - k : r[i] = h[i + k]
        /\ r[n - k + 1] = c
    <3>1. LET d == Dropped(h)
              q == Retained(h, c)
          IN /\ q \in Seq(HistoryEntry) /\ Len(q) = Len(h) - d + 1
             /\ \A i \in 1..Len(h) - d : q[i] = h[i + d]
             /\ q[Len(h) - d + 1] = c
      BY <1>4, RetainedResult
    <3> QED BY <2>1, <3>1
  <2>3. /\ PastOf(r) \in Seq(Snapshots) /\ Len(PastOf(r)) = n - k + 1
        /\ \A i \in 1..n - k : PastOf(r)[i] = p[i + k]
        /\ PastOf(r)[n - k + 1] = z
    <3>1. PastOf(r) \in Seq(Snapshots) /\ Len(PastOf(r)) = n - k + 1
      BY <2>2, PastType
    <3>2. \A i \in 1..n - k + 1 : PastOf(r)[i] = Snapshot(r[i])
      BY <2>2 DEF PastOf
    <3>3. \A i \in 1..n - k : i \in 1..n - k + 1 /\ i + k \in 1..n
      BY <2>1
    <3>4. n - k + 1 \in 1..n - k + 1
      BY <2>1
    <3> QED BY <1>1, <2>2, <3>1, <3>2, <3>3, <3>4
  <2>a. PICK a : a = Append(p, z)
    OBVIOUS
  <2>4. /\ a \in Seq(Snapshots)
        /\ a = Append(p, z) /\ Len(a) = n + 1
        /\ \A i \in 1..n : a[i] = p[i]
        /\ a[n + 1] = z
    BY <1>2, <2>a
  <2>5. CASE Len(h) < MaxRollback
    <3>1. k = 0 /\ Remember(p, z) = a
      BY <1>4, <2>1, <2>4, <2>5 DEF Dropped, Remember
    <3>2. \A i \in 1..n + 1 : PastOf(r)[i] = a[i]
      <4>1. \A i \in 1..n + 1 : i \in 1..n \/ i = n + 1
        OBVIOUS
      <4>2. \A i \in 1..n : PastOf(r)[i] = p[i] /\ a[i] = p[i]
        BY <2>3, <2>4, <3>1
      <4>3. PastOf(r)[n + 1] = z
        BY <2>3, <3>1
      <4> QED BY <2>4, <4>1, <4>2, <4>3
    <3>3. Len(PastOf(r)) = n + 1
      BY <2>3, <3>1
    <3>4. PastOf(r) = a
      BY <2>3, <2>4, <3>2, <3>3, SeqEqual
    <3> QED BY <3>1, <3>4
  <2>6. CASE Len(h) = MaxRollback
    <3>1. k = 1 /\ n = MaxRollback
      BY <2>1, <2>6 DEF Dropped
    <3>b. PICK b : b = SubSeq(a, 2, n + 1)
      OBVIOUS
    <3>2. /\ b \in Seq(Snapshots)
          /\ b = SubSeq(a, 2, n + 1) /\ Len(b) = n
          /\ \A i \in 1..n : b[i] = a[i + 1]
      BY <2>4, <3>b
    <3>3. Remember(p, z) = b
      <4>1. Len(a) - MaxRollback + 1 = 2
        BY <2>4, <3>1
      <4>2. Remember(p, z) = SubSeq(a, Len(a) - MaxRollback + 1, Len(a))
        <5>1. ~(Len(p) < MaxRollback)
          BY <1>0, <3>1
        <5> QED BY <1>4, <2>a, <5>1, Zenon DEF Remember
      <4> QED BY <2>4, <3>b, <4>1, <4>2
    <3>4. \A i \in 1..n : PastOf(r)[i] = b[i]
      <4>1. \A i \in 1..n : i \in 1..n - 1 \/ i = n
        OBVIOUS
      <4>2. \A i \in 1..n - 1 : PastOf(r)[i] = p[i + 1] /\ b[i] = p[i + 1]
        BY <2>3, <2>4, <3>1, <3>2
      <4>3. PastOf(r)[n] = z /\ b[n] = z
        BY <1>4, <2>3, <2>4, <3>1, <3>2
      <4> QED BY <4>1, <4>2, <4>3
    <3>5. Len(PastOf(r)) = n
      BY <2>3, <3>1
    <3>6. PastOf(r) = b
      BY <2>3, <3>2, <3>4, <3>5, SeqEqual
    <3> QED BY <3>3, <3>6
  <2> QED BY <1>0, <2>5, <2>6
<1> QED BY <1>3, <1>4

\* The legal ids of the promise are those of the mask, unless a limit cut the
\* traversal short.
LEMMA MaskIsLegal ==
  ASSUME NEW g, GuideInv(g)
  PROVE  LET legal == IF g.finished THEN {}
                      ELSE {t \in Token : Live(g.rec.scans \o BytesOf[t])}
                             \cup (IF Accepting(g.rec.scans) THEN {EOS} ELSE {})
         IN /\ MaskOf(g) \subseteq legal
            /\ g.finished \/ Backend = "dfa" \/ ~TraversalFails(g.rec) => MaskOf(g) = legal
<1> PICK w \in Seq(Byte) : w = g.rec.scans /\ g.rec = Ordered(w)
  BY GuideFields
<1>1. IsAccepting(g.rec) <=> Accepting(w)
  BY DEF IsAccepting, Ordered
<1>2. ASSUME NEW t \in Token, t \in EnabledTokens(g.rec)
      PROVE  Live(w \o BytesOf[t])
  BY <1>2, TryResult
<1>3. ASSUME NEW t \in Token, Live(w \o BytesOf[t]),
             Backend = "dfa" \/ ~TraversalFails(g.rec)
      PROVE  t \in EnabledTokens(g.rec)
  <2>1. CASE Backend = "dfa"
    BY <1>3, <2>1 DEF EnabledTokens, Ordered
  <2>2. CASE Backend # "dfa" /\ ~TraversalFails(g.rec)
    <3> PICK bs : bs = BytesOf[t]
      OBVIOUS
    <3>1. bs \in Seq(Byte) /\ Len(bs) \in Nat \ {0}
      BY TokenBytes
    <3>2. ASSUME NEW n \in 1..Len(bs)
          PROVE  EdgeOutcome(g.rec, SubSeq(bs, 1, n)) = "live"
      <4> PICK p : p = SubSeq(bs, 1, n)
        OBVIOUS
      <4>1. p \in TriePaths
        BY DEF TriePaths
      <4>2. Front(p) = SubSeq(bs, 1, n - 1)
        BY <3>1 DEF Front
      <4>7. Live(w \o SubSeq(bs, 1, n - 1)) /\ Live(w \o p)
        BY <1>3, <3>1, LivePieces
      <4>8. p \in TriedEdges(g.rec)
        BY <4>1, <4>2, <4>7 DEF TriedEdges
      <4>9. EdgeOutcome(g.rec, p) # "limit"
        BY <2>2, <4>8 DEF TraversalFails
      <4>10. EdgeOutcome(g.rec, p) = ByteEnds(Ordered(w), bs, n)
        BY <3>1, EdgeIsByte, FedOrdered
      <4>11. ByteEnds(Ordered(w), bs, n) \in {"live", "limit"}
        BY <3>1, <4>7, ByteEndsAtText
      <4> QED BY <4>9, <4>10, <4>11
    <3> QED BY <2>2, <3>2 DEF EnabledTokens
  <2> QED BY <1>3, <2>1, <2>2
<1>4. EnabledTokens(g.rec) \subseteq Token
  BY DEF EnabledTokens
<1> QED BY <1>1, <1>2, <1>3, <1>4 DEF MaskOf

\* The state of the promise, as KeepsPromise reads it off the guide.
LEMMA PromiseState ==
  Promise!vars = <<guide.rec.scans, guide.finished, PastOf(guide.history), reply>>
BY DEF Promise!vars, PastOf, Snapshot

\* The promise's legal ids, in the guide's terms.
LEMMA PromiseLegal ==
  Promise!Legal =
    IF guide.finished THEN {}
    ELSE {t \in Token : Live(guide.rec.scans \o BytesOf[t])}
           \cup (IF Accepting(guide.rec.scans) THEN {EOS} ELSE {})
<1>1. \A w : (Promise!Live(w) <=> Live(w)) /\ (Promise!Accepting(w) <=> Accepting(w))
  BY DEF Promise!Live, Promise!IsPrefix, Promise!Accepting, Live, IsPrefix, Accepting
<1> QED BY <1>1 DEF Promise!Legal

\* A commit of the guide is one of the promise.
LEMMA PromiseCommit ==
  ASSUME Inv, NEW t \in CallerId, Advance(t), AdvanceOutcome(guide, t) = "ok"
  PROVE  Promise!Commit(t)
<1> PICK g : g = guide
  OBVIOUS
<1> PICK f : f = Committed(g, t)
  OBVIOUS
<1>1. /\ guide' = f /\ reply' = Answer(<<"advance", t>>, "ok") /\ GuideInv(g)
  BY DEF Advance, Advanced, Inv
<1>2. /\ t \in MaskOf(g) /\ f.rec.scans = g.rec.scans \o Spelled(t) /\ t \in Id
  <2>1. g = guide /\ GuideInv(g) /\ AdvanceOutcome(g, t) = "ok"
    BY <1>1
  <2>2. f.rec = Ordered(g.rec.scans \o Spelled(t)) /\ t \in MaskOf(g) /\ t \in Id
    BY <2>1, CommitResult
  <2> QED BY <2>2 DEF Ordered
<1>3. f.finished = (t = EOS) /\ f.history = Retained(g.history, CheckpointOf(g))
  BY DEF Committed
<1>4. t \in Promise!Legal
  BY <1>1, <1>2, MaskIsLegal, PromiseLegal
<1>5. PastOf(f.history) = Remember(PastOf(g.history), [text |-> g.rec.scans, done |-> g.finished])
  <2>1. /\ g.history \in Seq(HistoryEntry) /\ Len(g.history) <= MaxRollback
    BY <1>1 DEF GuideInv, GuideType, HistoryInv
  <2>2. /\ CheckpointOf(g) \in HistoryEntry
        /\ Snapshot(CheckpointOf(g)) = [text |-> g.rec.scans, done |-> g.finished]
    BY <1>1, CheckpointType DEF Snapshot
  <2> QED BY <1>3, <2>1, <2>2, PastRetained
<1>6. g.rec.scans \o Spelled(t)
        = IF t = EOS THEN g.rec.scans ELSE g.rec.scans \o BytesOf[t]
  <2>1. g.rec.scans \o << >> = g.rec.scans
    BY <1>1, GuideFields
  <2> QED BY <2>1 DEF Spelled
<1>7. PastOf(guide.history)' = Promise!Remembered
  <2>1. PastOf(guide.history)' = PastOf(f.history)
    BY <1>1 DEF PastOf, Snapshot
  <2>2. Promise!Remembered
          = Remember(PastOf(g.history), [text |-> g.rec.scans, done |-> g.finished])
    BY DEF Promise!Remembered, Promise!Newest, Remember, PastOf, Snapshot
  <2> QED BY <1>5, <2>1, <2>2
<1> QED BY <1>1, <1>2, <1>3, <1>4, <1>6, <1>7
        DEF Promise!Commit, Promise!Answer, Answer, PastOf, Snapshot

\* An advance of the guide that fails is refused by the promise, or over a limit.
LEMMA PromiseRefuse ==
  ASSUME Inv, NEW t \in CallerId, Advance(t), AdvanceOutcome(guide, t) # "ok"
  PROVE  Promise!Refuse(t) \/ Promise!OverLimit
<1> PICK g : g = guide
  OBVIOUS
<1> PICK e : e = AdvanceOutcome(g, t)
  OBVIOUS
<1>1. guide' = g /\ reply' = Answer(<<"advance", t>>, e) /\ GuideInv(g)
  BY RefuseChangesNothing DEF Advance, Inv
<1>2. Promise!Unchanged
  BY <1>1 DEF Promise!Unchanged
<1>3. CASE e = "limit"
  BY <1>1, <1>2, <1>3 DEF Promise!OverLimit, Promise!Answer, Answer
<1>4. CASE e # "limit"
  <2>1. e \in {"finished", "eos_not_accepting", "unknown", "not_allowed"}
    BY <1>4 DEF AdvanceOutcome
  <2>2. t \notin Promise!Legal
    <3> PICK w \in Seq(Byte) : w = g.rec.scans /\ g.rec = Ordered(w)
      BY <1>1, GuideFields
    <3>1. CASE g.finished
      BY <3>1, PromiseLegal
    <3>2. CASE ~g.finished /\ t = EOS
      <4>1. ~IsAccepting(g.rec)
        BY <1>4, <3>2 DEF AdvanceOutcome
      <4>2. ~Accepting(w) /\ EOS \notin Token
        BY <4>1, VocabularyAssumption DEF IsAccepting, Ordered
      <4> QED BY <3>2, <4>2, PromiseLegal
    <3>3. CASE ~g.finished /\ t \notin Id
      BY <3>3, PromiseLegal DEF Id
    <3>4. CASE ~g.finished /\ t \in Token
      <4>1. t # EOS
        BY <3>4, TokenBytes
      <4>2. Try(g.rec, t).out = "rejected"
        BY <1>4, <3>4, <4>1 DEF AdvanceOutcome
      <4>3. ~Live(w \o BytesOf[t])
        BY <3>4, <4>2, TryResult
      <4> QED BY <3>4, <4>1, <4>3, PromiseLegal
    <3> QED BY <3>1, <3>2, <3>3, <3>4 DEF Id
  <2> QED BY <1>1, <1>2, <2>1, <2>2 DEF Promise!Refuse, Promise!Answer, Answer
<1> QED BY <1>3, <1>4

\* A mask of the guide is one of the promise, or over a limit.
LEMMA PromiseMask ==
  ASSUME Inv, FillMask
  PROVE  Promise!Mask \/ Promise!OverLimit
<1> PICK g : g = guide
  OBVIOUS
<1>1. /\ GuideInv(g) /\ guide' = Filled(g)
      /\ reply' = [call |-> <<"mask">>, out |-> FillOutcome(g), mask |-> UNION Filled(g).cached]
  BY DEF FillMask, Inv
<1>2. /\ Filled(g).rec = g.rec /\ Filled(g).finished = g.finished
      /\ Filled(g).history = g.history
  BY <1>1 DEF Filled, GuideInv, GuideType
<1>3. Promise!Unchanged
  BY <1>1, <1>2 DEF Promise!Unchanged
<1>4. CASE FillOutcome(g) = "ok"
  <2>1. Filled(g).cached = {MaskOf(g)} /\ GuideInv(Filled(g))
    BY <1>1, <1>4, FillKeepsInv
  <2>2. /\ MaskOf(Filled(g)) = MaskOf(g)
        /\ g.finished \/ Backend = "dfa" \/ ~TraversalFails(g.rec)
    BY <1>2, <2>1 DEF GuideInv, MaskInv, MaskOf
  <2>3. MaskOf(g) = Promise!Legal
    BY <1>1, <2>2, MaskIsLegal, PromiseLegal
  <2> QED BY <1>1, <1>3, <1>4, <2>1, <2>3 DEF Promise!Mask
<1>5. CASE FillOutcome(g) # "ok"
  <2>1. FillOutcome(g) = "limit" /\ g.cached = {} /\ Filled(g) = g
    BY <1>1, <1>5, FillKeepsInv DEF FillOutcome
  <2> QED BY <1>1, <1>3, <2>1 DEF Promise!OverLimit, Promise!Answer
<1> QED BY <1>4, <1>5

\* A rollback of the guide is one of the promise.
LEMMA PromiseUndo ==
  ASSUME Inv, NEW n \in 0..MaxRollback + 1, Rollback(n)
  PROVE  Promise!Undo(n)
<1> PICK g : g = guide
  OBVIOUS
<1> PICK h : h = g.history
  OBVIOUS
<1>1. /\ GuideInv(g) /\ h \in Seq(HistoryEntry) /\ n \in Nat /\ Len(h) \in Nat
      /\ Len(PastOf(h)) = Len(h) /\ guide.history = h
  BY GuideFields, GuideAssumption, PastType DEF Inv
<1>2. CASE n = 0
  BY <1>2 DEF Rollback, Promise!Undo, Promise!Unchanged, Promise!Answer, Answer
<1>3. CASE n # 0 /\ n > Len(h)
  BY <1>1, <1>3
     DEF Rollback, Promise!Undo, Promise!Unchanged, Promise!Answer, Answer, PastOf, Snapshot
<1>4. CASE n # 0 /\ n <= Len(h)
  <2> PICK k : k = Len(h) - n + 1
    OBVIOUS
  <2>1. k \in 1..Len(h) /\ k - 1 = Len(h) - n /\ k \in Nat /\ k - 1 \in Nat
    BY <1>1, <1>4
  <2>2. /\ reply' = Answer(<<"rollback", n>>, "ok")
        /\ guide' = Restored(g, h[k], SubSeq(h, 1, k - 1))
    BY <1>1, <1>4, RollbackStep
  <2>3. /\ guide'.history = SubSeq(h, 1, k - 1)
        /\ guide'.rec.scans = h[k].rec.scans
        /\ guide'.finished = FALSE /\ h[k].finished = FALSE
    <3>1. k \in 1..Len(g.history) /\ h = g.history
      BY <2>1
    <3>2. LET f == Restored(g, g.history[k], SubSeq(g.history, 1, k - 1))
          IN /\ f.history = SubSeq(g.history, 1, k - 1)
             /\ f.rec.scans = g.history[k].rec.scans
             /\ f.finished = FALSE /\ g.history[k].finished = FALSE
      BY <1>1, <3>1, RollbackKeepsInv
    <3> QED BY <2>2, <3>1, <3>2
  <2>4. PastOf(SubSeq(h, 1, k - 1)) = SubSeq(PastOf(h), 1, k - 1)
    <3>1. SubSeq(h, 1, k - 1) \in Seq(HistoryEntry) /\ Len(SubSeq(h, 1, k - 1)) = k - 1
      BY <1>1, <2>1
    <3>2. \A i \in 1..k - 1 : SubSeq(h, 1, k - 1)[i] = h[i]
      BY <1>1, <2>1
    <3>3. PastOf(SubSeq(h, 1, k - 1)) \in Seq(Snapshots) /\ PastOf(h) \in Seq(Snapshots)
      BY <1>1, <3>1, PastType
    <3>4. \A i \in 1..k - 1 : PastOf(SubSeq(h, 1, k - 1))[i] = PastOf(h)[i]
      <4>1. \A i \in 1..k - 1 : i \in 1..Len(h)
        BY <1>1, <2>1
      <4> QED BY <3>1, <3>2, <4>1 DEF PastOf
    <3>5. Len(PastOf(SubSeq(h, 1, k - 1))) = k - 1
      BY <3>1, PastType
    <3> PICK a : a = PastOf(SubSeq(h, 1, k - 1))
      OBVIOUS
    <3> PICK b : b = PastOf(h)
      OBVIOUS
    <3>6. /\ SubSeq(b, 1, k - 1) \in Seq(Snapshots) /\ Len(SubSeq(b, 1, k - 1)) = k - 1
          /\ \A i \in 1..k - 1 : SubSeq(b, 1, k - 1)[i] = b[i]
      BY <1>1, <2>1, <3>3
    <3>7. a \in Seq(Snapshots) /\ Len(a) = k - 1 /\ \A i \in 1..k - 1 : a[i] = b[i]
      BY <3>3, <3>4, <3>5
    <3> QED BY <3>6, <3>7, SeqEqual
  <2>5. PastOf(guide.history)' = SubSeq(PastOf(h), 1, Len(h) - n)
    BY <2>1, <2>3, <2>4 DEF PastOf, Snapshot
  <2>6. PastOf(h)[k] = [text |-> h[k].rec.scans, done |-> h[k].finished]
    BY <2>1 DEF PastOf, Snapshot
  <2>7. Promise!Undo(n) <=>
          /\ guide'.rec.scans = PastOf(h)[Len(PastOf(h)) - n + 1].text
          /\ guide'.finished = PastOf(h)[Len(PastOf(h)) - n + 1].done
          /\ PastOf(guide.history)' = SubSeq(PastOf(h), 1, Len(PastOf(h)) - n)
          /\ reply' = Promise!Answer(<<"rollback", n>>, "ok")
    <3>1. ~(n > Len(PastOf(h))) /\ n # 0
      BY <1>1, <1>4
    <3>2. guide.history = h
      BY <1>1
    <3> QED BY <3>1, <3>2 DEF Promise!Undo, PastOf, Snapshot
  <2>8. Len(PastOf(h)) - n + 1 = k
    BY <1>1
  <2>9. /\ PastOf(h)[Len(PastOf(h)) - n + 1].text = h[k].rec.scans
        /\ PastOf(h)[Len(PastOf(h)) - n + 1].done = h[k].finished
    BY <2>6, <2>8
  <2>10. /\ PastOf(guide.history)' = SubSeq(PastOf(h), 1, Len(PastOf(h)) - n)
         /\ reply' = Promise!Answer(<<"rollback", n>>, "ok")
    BY <1>1, <2>2, <2>5 DEF Promise!Answer, Answer
  <2> QED BY <2>3, <2>7, <2>9, <2>10
<1> QED BY <1>1, <1>2, <1>3, <1>4

\* The guide implements the promise made to a decoding loop: every step of every
\* backend commits a legal id, refuses one that is not, writes exactly the legal
\* ids into a mask, takes back tokens, or stutters (README.md:149).
THEOREM PromiseIsKept == Spec => KeepsPromise
<1>1. Init => Promise!Init
  BY DEF Init, NewGuide, Fresh, Answer, Promise!Init, Promise!Answer
<1>2. Inv /\ [Next]_vars => [Promise!Next]_(Promise!vars)
  <2> SUFFICES ASSUME Inv, [Next]_vars
               PROVE  Promise!Next \/ UNCHANGED Promise!vars
    OBVIOUS
  <2>1. ASSUME NEW t \in CallerId, Advance(t)
        PROVE  Promise!Next
    BY <2>1, PromiseCommit, PromiseRefuse DEF Promise!Next
  <2>2. CASE FillMask
    BY <2>2, PromiseMask DEF Promise!Next
  <2>3. ASSUME NEW s \in Trial, AskAcceptsTokens(s)
        PROVE  Promise!Next
    BY <2>3 DEF AskAcceptsTokens, Answer, Promise!Next, Promise!Try, Promise!Answer,
                Promise!Unchanged
  <2>4. ASSUME NEW n \in 0..MaxRollback + 1, Rollback(n)
        PROVE  Promise!Next
    BY <2>4, PromiseUndo DEF Promise!Next
  <2>5. CASE Reset
    BY <2>5, ResetStep
       DEF Reset, NewGuide, Fresh, Answer, Promise!Next, Promise!Restart, Promise!Answer
  <2>6. CASE UNCHANGED vars
    BY <2>6, PromiseState DEF vars, PastOf, Promise!vars
  <2> QED BY <2>1, <2>2, <2>3, <2>4, <2>5, <2>6 DEF Next
<1> QED BY <1>1, <1>2, Invariance, PTL DEF Spec, KeepsPromise, Promise!Spec

-----------------------------------------------------------------------------
(* Trials.  accepts_tokens folds advance over a clone. *)

SpellStep ==
  [p \in Seq(Byte) \X CallerId |-> IF p[2] \in Token THEN p[1] \o BytesOf[p[2]] ELSE p[1]]

\* Spelling is a fold.
LEMMA SpellingFolds ==
  ASSUME NEW w \in Seq(Byte), NEW s \in Seq(CallerId)
  PROVE  /\ IsStep(SpellStep, Seq(Byte), CallerId)
         /\ Spelling(w, s) = Folded(SpellStep, w, s)
<1> DEFINE Equation(g) ==
             g = [T \in SUBSET DOMAIN s |->
                    IF T = {} THEN w
                    ELSE LET x == Max(T)
                         IN IF s[x] \in Token THEN g[T \ {x}] \o BytesOf[s[x]] ELSE g[T \ {x}]]
           iter == CHOOSE g : Equation(g)
           p == Partial(SpellStep, w, s)
<1>1. IsStep(SpellStep, Seq(Byte), CallerId)
  BY TokenBytes DEF IsStep, SpellStep
<1>2. StepsAs(p, Seq(Byte), CallerId, SpellStep, w, s)
  BY <1>1, PartialSteps, Zenon
<1>3. DOMAIN s = 1..Len(s)
  OBVIOUS
<1>4. Spelling(w, s) = iter[DOMAIN s]
  BY Zenon DEF Spelling, FoldLeft, MapThenFoldSet
<1> HIDE DEF p
<1>5. Equation(p)
  BY <1>2 DEF StepsAs, SpellStep
<1>6. Equation(iter)
  <2> HIDE DEF Equation
  <2> QED BY <1>5
<1> HIDE DEF iter
<1>7. StepAlike(iter, p, Len(s))
  <2>1. iter[{}] = w /\ p[{}] = w
    BY <1>3, <1>5, <1>6
  <2>2. ASSUME NEW T \in SUBSET (1..Len(s)), T # {}, iter[T \ {Max(T)}] = p[T \ {Max(T)}]
        PROVE  iter[T] = p[T]
    <3>1. iter[T] = IF s[Max(T)] \in Token THEN iter[T \ {Max(T)}] \o BytesOf[s[Max(T)]]
                                            ELSE iter[T \ {Max(T)}]
      BY <1>3, <1>6, <2>2
    <3>2. p[T] = IF s[Max(T)] \in Token THEN p[T \ {Max(T)}] \o BytesOf[s[Max(T)]]
                                         ELSE p[T \ {Max(T)}]
      BY <1>3, <1>5, <2>2
    <3> QED BY <2>2, <3>1, <3>2
  <2> QED BY <2>1, <2>2 DEF StepAlike
<1>8. FoldsTo(iter, SpellStep, w, s)
  BY <1>1, <1>7, FoldsAlike, Zenon DEF p
<1> QED BY <1>1, <1>4, <1>8 DEF FoldsTo

TrialState == [ok : BOOLEAN, g : {g \in GuideType : GuideInv(g)}]

TryStep == [p \in TrialState \X CallerId |-> TrialStep(p[1], p[2])]

\* A clone that has tried a token is a guide again.
LEMMA TrialStepType ==
  ASSUME NEW a \in TrialState, NEW t \in CallerId
  PROVE  TrialStep(a, t) \in TrialState
<1>1. GuideInv(a.g)
  BY DEF TrialState
<1>2. GuideInv(Advanced(a.g, t))
  <2>1. CASE AdvanceOutcome(a.g, t) = "ok"
    BY <1>1, <2>1, CommitKeepsInv DEF Advanced
  <2>2. CASE AdvanceOutcome(a.g, t) # "ok"
    BY <1>1, <2>2, RefuseChangesNothing
  <2> QED BY <2>1, <2>2
<1>3. Advanced(a.g, t) \in GuideType
  BY <1>2 DEF GuideInv
<1> QED BY <1>2, <1>3 DEF TrialStep, TrialState

\* What the clone becomes is a fold.
LEMMA TriedFolds ==
  ASSUME NEW g, GuideInv(g), NEW s \in Seq(CallerId)
  PROVE  /\ IsStep(TryStep, TrialState, CallerId)
         /\ [ok |-> TRUE, g |-> g] \in TrialState
         /\ Tried(g, s) = Folded(TryStep, [ok |-> TRUE, g |-> g], s)
<1> DEFINE a == [ok |-> TRUE, g |-> g]
           Equation(h) ==
             h = [T \in SUBSET DOMAIN s |->
                    IF T = {} THEN a
                    ELSE LET x == Max(T) IN TrialStep(h[T \ {x}], s[x])]
           iter == CHOOSE h : Equation(h)
           p == Partial(TryStep, a, s)
<1>0. a \in TrialState
  BY DEF TrialState, GuideInv
<1>1. IsStep(TryStep, TrialState, CallerId)
  BY TrialStepType DEF IsStep, TryStep
<1>2. Tried(g, s) = iter[DOMAIN s]
  BY Zenon DEF Tried, FoldLeft, MapThenFoldSet
<1> HIDE DEF a
<1>3. StepsAs(p, TrialState, CallerId, TryStep, a, s)
  BY <1>0, <1>1, PartialSteps, Zenon
<1>4. DOMAIN s = 1..Len(s)
  OBVIOUS
<1> HIDE DEF p
<1>5. Equation(p)
  BY <1>3 DEF StepsAs, TryStep
<1>6. Equation(iter)
  <2> HIDE DEF Equation
  <2> QED BY <1>5
<1> HIDE DEF iter
<1>7. StepAlike(iter, p, Len(s))
  <2>1. iter[{}] = a /\ p[{}] = a
    BY <1>4, <1>5, <1>6
  <2>2. ASSUME NEW T \in SUBSET (1..Len(s)), T # {}, iter[T \ {Max(T)}] = p[T \ {Max(T)}]
        PROVE  iter[T] = p[T]
    <3>1. iter[T] = TrialStep(iter[T \ {Max(T)}], s[Max(T)])
      BY <1>4, <1>6, <2>2
    <3>2. p[T] = TrialStep(p[T \ {Max(T)}], s[Max(T)])
      BY <1>4, <1>5, <2>2
    <3> QED BY <2>2, <3>1, <3>2
  <2> QED BY <2>1, <2>2 DEF StepAlike
<1>8. FoldsTo(iter, TryStep, a, s)
  BY <1>0, <1>1, <1>7, FoldsAlike, Zenon DEF p
<1> QED BY <1>0, <1>1, <1>2, <1>8 DEF a, FoldsTo

\* A text grows by the bytes of each token.
LEMMA SpellingGrows ==
  ASSUME NEW w \in Seq(Byte), NEW s \in Seq(CallerId)
  PROVE  /\ Spelling(w, s) \in Seq(Byte)
         /\ Spelling(w, << >>) = w
         /\ \A t \in CallerId :
              Spelling(w, Append(s, t)) =
                IF t \in Token THEN Spelling(w, s) \o BytesOf[t] ELSE Spelling(w, s)
<1>1. IsStep(SpellStep, Seq(Byte), CallerId) /\ Spelling(w, s) = Folded(SpellStep, w, s)
  BY SpellingFolds
<1>2. << >> \in Seq(CallerId)
  OBVIOUS
<1>3. Spelling(w, << >>) = Folded(SpellStep, w, << >>)
  BY <1>2, SpellingFolds, Zenon
<1>4. Spelling(w, << >>) = w
  BY <1>1, <1>3, FoldedEmpty, Zenon
<1>5. Spelling(w, s) \in Seq(Byte)
  BY <1>1, FoldedType
<1>6. ASSUME NEW t \in CallerId
      PROVE  Spelling(w, Append(s, t)) =
                IF t \in Token THEN Spelling(w, s) \o BytesOf[t] ELSE Spelling(w, s)
  <2>1. Append(s, t) \in Seq(CallerId)
    OBVIOUS
  <2>2. Spelling(w, Append(s, t)) = Folded(SpellStep, w, Append(s, t))
    BY <2>1, SpellingFolds, Zenon
  <2>3. Folded(SpellStep, w, Append(s, t)) = SpellStep[<<Folded(SpellStep, w, s), t>>]
    BY <1>1, FoldedLast
  <2> QED BY <1>1, <1>5, <2>2, <2>3 DEF SpellStep
<1> QED BY <1>4, <1>5, <1>6

\* What some tokens spell begins with what the first of them spell.
LEMMA SpellingPrefix ==
  ASSUME NEW w \in Seq(Byte), NEW s \in Seq(CallerId), NEW k \in 0..Len(s)
  PROVE  \E x \in Seq(Byte) : Spelling(w, s) = Spelling(w, SubSeq(s, 1, k)) \o x
<1> DEFINE upTo(j) == Spelling(w, SubSeq(s, 1, j))
           S == {j \in Nat : j <= Len(s) - k => \E x \in Seq(Byte) : upTo(k + j) = upTo(k) \o x}
<1>0. Len(s) - k \in Nat /\ Len(s) \in Nat /\ k \in Nat
  OBVIOUS
<1>1. \A j \in 0..Len(s) : SubSeq(s, 1, j) \in Seq(CallerId)
  OBVIOUS
<1>2. \A j \in 0..Len(s) : upTo(j) \in Seq(Byte)
  BY <1>1, SpellingGrows
<1>3. 0 \in S
  <2>1. upTo(k) \o << >> = upTo(k) /\ << >> \in Seq(Byte)
    <3> HIDE DEF upTo
    <3> QED BY <1>2
  <2>2. k + 0 = k
    OBVIOUS
  <2> QED BY <2>1, <2>2
<1>4. ASSUME NEW j \in 0..(Len(s) - k) - 1, j \in S
      PROVE  j + 1 \in S
  <2> PICK i : i = k + j
    OBVIOUS
  <2> PICK t : t = s[i + 1]
    OBVIOUS
  <2>1. i \in 0..Len(s) /\ i + 1 \in 0..Len(s) /\ i + 1 = k + (j + 1) /\ t \in CallerId
    BY <1>0
  <2>2. SubSeq(s, 1, i + 1) = Append(SubSeq(s, 1, i), t)
    BY <2>1
  <2>3. SubSeq(s, 1, i) \in Seq(CallerId)
    BY <1>1, <2>1
  <2>4. upTo(i + 1) = IF t \in Token THEN upTo(i) \o BytesOf[t] ELSE upTo(i)
    <3>1. \A u \in Seq(CallerId), y \in CallerId :
            Spelling(w, Append(u, y)) =
              IF y \in Token THEN Spelling(w, u) \o BytesOf[y] ELSE Spelling(w, u)
      BY SpellingGrows
    <3>2. Spelling(w, Append(SubSeq(s, 1, i), t)) =
            IF t \in Token THEN upTo(i) \o BytesOf[t] ELSE upTo(i)
      BY <2>1, <2>3, <3>1, Zenon
    <3> QED BY <2>2, <3>2, Zenon
  <2>5. PICK x \in Seq(Byte) : upTo(i) = upTo(k) \o x
    <3>1. j <= Len(s) - k
      BY <1>0
    <3> HIDE DEF upTo
    <3> QED BY <1>4, <3>1
  <2>6. upTo(k) \in Seq(Byte) /\ \A u \in Seq(Byte) : (upTo(k) \o x) \o u = upTo(k) \o (x \o u)
    BY <1>2, <2>5, ByteConcatAssociative
  <2> HIDE DEF upTo
  <2>7. \E y \in Seq(Byte) : upTo(i + 1) = upTo(k) \o y
    <3>1. CASE t \in Token
      <4>1. BytesOf[t] \in Seq(Byte)
        BY <3>1, TokenBytes
      <4>2. x \o BytesOf[t] \in Seq(Byte)
        BY <4>1, <2>5
      <4> QED BY <3>1, <2>4, <2>5, <2>6, <4>1, <4>2, Zenon
    <3>2. CASE t \notin Token
      BY <3>2, <2>4, <2>5
    <3> QED BY <3>1, <3>2
  <2>8. j + 1 \in Nat
    OBVIOUS
  <2> QED BY <2>1, <2>7, <2>8
<1>5. \A j \in 0..Len(s) - k : j \in S
  <2> HIDE DEF S
  <2> QED BY <1>0, <1>3, <1>4, UpTo
<1>6. \E x \in Seq(Byte) : upTo(k + (Len(s) - k)) = upTo(k) \o x
  <2>1. Len(s) - k \in S /\ Len(s) - k <= Len(s) - k
    <3>1. Len(s) - k \in 0..Len(s) - k
      BY <1>0
    <3> HIDE DEF S
    <3> QED BY <1>0, <1>5, <3>1
  <2> HIDE DEF upTo
  <2> QED BY <2>1
<1>7. k + (Len(s) - k) = Len(s) /\ SubSeq(s, 1, Len(s)) = s
  BY <1>0
<1> QED BY <1>6, <1>7

\* The bytes of u fit the limits of a run.
HasRoom(u) ==
  /\ Backend = "dfa" \/ Len(u) <= MaxInputBytes
  /\ \A i \in 1..Len(u) : <<SubSeq(u, 1, i - 1), u[i]>> \notin Overflow

\* Where a text fits, so does its beginning.
LEMMA RoomForPrefix ==
  ASSUME NEW u \in Seq(Byte), NEW x \in Seq(Byte), HasRoom(u \o x)
  PROVE  HasRoom(u)
<1>1. Len(u) \in Nat /\ Len(x) \in Nat /\ Len(u \o x) = Len(u) + Len(x) /\ MaxInputBytes \in Nat
  BY RecognizerAssumption
<1>2. ASSUME NEW i \in 1..Len(u)
      PROVE  i \in 1..Len(u \o x) /\ (u \o x)[i] = u[i] /\ SubSeq(u \o x, 1, i - 1) = SubSeq(u, 1, i - 1)
  OBVIOUS
<1> QED BY <1>1, <1>2 DEF HasRoom

\* Within the limits a token is taken exactly if its bytes keep the text viable.
LEMMA TryWithRoom ==
  ASSUME NEW w \in Seq(Byte), NEW t \in Token, HasRoom(w \o BytesOf[t])
  PROVE  /\ Try(Ordered(w), t).out # "limit"
         /\ Try(Ordered(w), t).out # "rejected" <=> Live(w \o BytesOf[t])
<1> DEFINE r == Ordered(w)
           bs == BytesOf[t]
<1>1. bs \in Seq(Byte) /\ Len(bs) \in Nat
  BY TokenBytes
<1>2. ASSUME Try(r, t).out = "limit"
      PROVE  FALSE
  <2>1. Backend # "dfa"
    BY <1>2 DEF Try
  <2>2. TryAdvance(r, bs).out = "limit"
    BY <1>2, <2>1 DEF Try
  <2>3. r \in IdleRecognizer
    BY <1>1, FedOrdered
  <2>4. PICK i \in 1..Len(bs) : ByteEnds(r, bs, i) = "limit"
    BY <1>1, <2>2, <2>3, TryAdvanceIsAtomic
  <2> DEFINE pre == SubSeq(bs, 1, i - 1)
  <2>5. pre \in Seq(Byte) /\ bs[i] \in Byte /\ Len(pre) = i - 1
    BY <1>1
  <2>6. Fed(r, pre).scans = w \o pre /\ Fed(r, pre).position = Len(w) + Len(pre)
    BY DEF Fed, Ordered
  <2>7. Len(w) + i > MaxInputBytes \/ <<w \o pre, bs[i]>> \in Overflow
    <3>1. ByteOutcome(Fed(r, pre), bs[i]) = "limit"
      BY <2>4 DEF ByteEnds
    <3>2. Fed(r, pre).position + 1 = Len(w) + i
      BY <1>1, <2>5, <2>6
    <3> QED BY <2>6, <3>1, <3>2 DEF ByteOutcome
  <2>8. /\ Len(w) + i \in 1..Len(w \o bs)
        /\ (w \o bs)[Len(w) + i] = bs[i]
        /\ SubSeq(w \o bs, 1, Len(w) + i - 1) = w \o pre
    BY <1>1
  <2>9. Len(w) + i <= Len(w \o bs) /\ MaxInputBytes \in Nat /\ Len(w \o bs) \in Nat
    BY <1>1, <2>8, RecognizerAssumption
  <2>10. ~(Len(w) + i > MaxInputBytes)
    BY <2>1, <2>9 DEF HasRoom
  <2> QED BY <2>7, <2>8, <2>10 DEF HasRoom
<1> QED BY <1>2, TryResult

\* One step of a trial that took every token so far.
LEMMA TrialStepResult ==
  ASSUME NEW g, GuideInv(g), NEW t \in CallerId, t # EOS,
         Len(g.tokens) + 1 <= MaxCommittedTokens,
         t \in Token => HasRoom(g.rec.scans \o BytesOf[t])
  PROVE  LET f == Advanced(g, t)
         IN /\ AdvanceOutcome(g, t) = "ok" <=>
                 ~g.finished /\ t \in Token /\ Live(g.rec.scans \o BytesOf[t])
            /\ AdvanceOutcome(g, t) = "ok" =>
                 /\ f.rec.scans = g.rec.scans \o BytesOf[t]
                 /\ Len(f.tokens) = Len(g.tokens) + 1
                 /\ ~f.finished
<1> DEFINE w == g.rec.scans
<1>1. w \in Seq(Byte) /\ g.rec = Ordered(w) /\ g.tokens \in Seq(Id) /\ g.finished \in BOOLEAN
  BY GuideFields
<1>2. ~(Len(g.tokens) + 1 > MaxCommittedTokens)
  BY <1>1, GuideAssumption
<1>3. AdvanceOutcome(g, t) = "ok" <=> ~g.finished /\ t \in Token /\ Live(w \o BytesOf[t])
  <2>1. CASE t \in Token
    <3>1. /\ Try(g.rec, t).out # "limit"
          /\ Try(g.rec, t).out # "rejected" <=> Live(w \o BytesOf[t])
      BY <1>1, <2>1, TryWithRoom
    <3> QED BY <1>1, <1>2, <2>1, <3>1 DEF AdvanceOutcome
  <2>2. CASE t \notin Token
    BY <1>2, <2>2 DEF AdvanceOutcome
  <2> QED BY <2>1, <2>2
<1>4. ASSUME AdvanceOutcome(g, t) = "ok"
      PROVE  LET f == Advanced(g, t)
             IN /\ f.rec.scans = w \o BytesOf[t]
                /\ Len(f.tokens) = Len(g.tokens) + 1
                /\ ~f.finished
  <2>1. Advanced(g, t) = Committed(g, t) /\ Spelled(t) = BytesOf[t]
    BY <1>4 DEF Advanced, Spelled
  <2>2. Committed(g, t).rec = Ordered(w \o Spelled(t)) /\ t \in Id
    BY <1>4, CommitResult
  <2>3. Committed(g, t).tokens = Append(g.tokens, t) /\ ~Committed(g, t).finished
    BY DEF Committed
  <2>4. Len(Append(g.tokens, t)) = Len(g.tokens) + 1
    BY <1>1, <2>2
  <2>5. Ordered(w \o Spelled(t)).scans = w \o Spelled(t)
    BY DEF Ordered
  <2> HIDE DEF w
  <2> QED BY <2>1, <2>2, <2>3, <2>4, <2>5, Zenon
<1> QED BY <1>3, <1>4

\* After the first k tokens: the clone took them all exactly if they are tokens,
\* the guide was not finished and their bytes are viable; and then it has them.
TrialInv(g, s, k) ==
  LET a == Tried(g, SubSeq(s, 1, k))
      bytes == Spelling(g.rec.scans, SubSeq(s, 1, k))
  IN /\ a.ok \in BOOLEAN /\ GuideInv(a.g)
     /\ a.ok <=> /\ \A i \in 1..k : s[i] \in Token
                 /\ k > 0 => ~g.finished /\ Live(bytes)
     /\ a.ok => /\ a.g.rec.scans = bytes
                /\ Len(a.g.tokens) = Len(g.tokens) + k
                /\ a.g.finished = g.finished

\* A trial goes on by one token.
LEMMA TriedGrows ==
  ASSUME NEW g, GuideInv(g), NEW s \in Seq(CallerId)
  PROVE  /\ Tried(g, s) \in TrialState
         /\ Tried(g, << >>) = [ok |-> TRUE, g |-> g]
         /\ \A t \in CallerId : Tried(g, Append(s, t)) = TrialStep(Tried(g, s), t)
<1> PICK a : a = [ok |-> TRUE, g |-> g]
  OBVIOUS
<1>1. /\ IsStep(TryStep, TrialState, CallerId) /\ a \in TrialState
      /\ \A u \in Seq(CallerId) : Tried(g, u) = Folded(TryStep, a, u)
  <2>1. << >> \in Seq(CallerId)
    OBVIOUS
  <2> QED BY <2>1, TriedFolds
<1>2. << >> \in Seq(CallerId) /\ \A t \in CallerId : Append(s, t) \in Seq(CallerId)
  OBVIOUS
<1>3. Tried(g, << >>) = a
  <2>1. IsStep(TryStep, TrialState, CallerId) /\ a \in TrialState
    BY <1>1
  <2>2. Folded(TryStep, a, << >>) = a
    BY <2>1, FoldedEmpty, Zenon
  <2> QED BY <1>1, <1>2, <2>2
<1>4. Folded(TryStep, a, s) \in TrialState
  BY <1>1, FoldedType, Zenon
<1>5. ASSUME NEW t \in CallerId
      PROVE  Tried(g, Append(s, t)) = TrialStep(Tried(g, s), t)
  <2>1. Folded(TryStep, a, Append(s, t)) = TryStep[<<Folded(TryStep, a, s), t>>]
    BY <1>1, FoldedLast
  <2>2. Tried(g, Append(s, t)) = Folded(TryStep, a, Append(s, t))
    BY <1>1, <1>2
  <2>3. Tried(g, s) = Folded(TryStep, a, s)
    BY <1>1
  <2>4. TryStep[<<Folded(TryStep, a, s), t>>] = TrialStep(Folded(TryStep, a, s), t)
    BY <1>4 DEF TryStep
  <2> QED BY <2>1, <2>2, <2>3, <2>4
<1> QED BY <1>1, <1>3, <1>4, <1>5

\* The claim holds after every token of a trial that fits the limits.
LEMMA TrialInvStep ==
  ASSUME NEW g, GuideInv(g), NEW s \in Seq(CallerId), NEW k \in 0..Len(s) - 1,
         \A i \in 1..Len(s) : s[i] # EOS,
         Len(g.tokens) + Len(s) <= MaxCommittedTokens,
         HasRoom(Spelling(g.rec.scans, s)),
         TrialInv(g, s, k)
  PROVE  TrialInv(g, s, k + 1)
<1> DEFINE w == g.rec.scans
           u == SubSeq(s, 1, k)
           a == Tried(g, u)
           v == Spelling(w, u)
<1>0. w \in Seq(Byte) /\ g.tokens \in Seq(Id)
  BY GuideFields
<1> PICK t : t = s[k + 1]
  OBVIOUS
<1>1. /\ u \in Seq(CallerId) /\ t \in CallerId /\ t # EOS
      /\ SubSeq(s, 1, k + 1) = Append(u, t)
      /\ k \in Nat /\ k + 1 \in 0..Len(s) /\ Len(s) \in Nat
  OBVIOUS
<1> HIDE DEF u
<1>2. Tried(g, Append(u, t)) = TrialStep(a, t) /\ a \in TrialState
  BY <1>1, TriedGrows
<1>3. /\ v \in Seq(Byte)
      /\ Spelling(w, Append(u, t)) = IF t \in Token THEN v \o BytesOf[t] ELSE v
  <2>1. w \in Seq(Byte) /\ u \in Seq(CallerId) /\ t \in CallerId
    BY <1>0, <1>1
  <2> HIDE DEF w
  <2>2. Spelling(w, u) \in Seq(Byte)
    BY <2>1, SpellingGrows, Zenon
  <2>3. \A c \in CallerId :
          Spelling(w, Append(u, c)) =
            IF c \in Token THEN Spelling(w, u) \o BytesOf[c] ELSE Spelling(w, u)
    BY <2>1, SpellingGrows, Zenon
  <2> QED BY <2>1, <2>2, <2>3
<1>4. a.ok \in BOOLEAN /\ GuideInv(a.g)
  <2>1. a \in TrialState
    BY <1>2
  <2> HIDE DEF a
  <2> QED BY <2>1 DEF TrialState
<1>5. TrialStep(a, t).g = Advanced(a.g, t)
      /\ TrialStep(a, t).ok = (a.ok /\ AdvanceOutcome(a.g, t) = "ok")
      /\ TrialStep(a, t).ok \in BOOLEAN /\ GuideInv(TrialStep(a, t).g)
  <2>1. TrialStep(a, t) \in TrialState
    BY <1>1, <1>2, TrialStepType
  <2> QED BY <2>1 DEF TrialStep, TrialState
<1>6. /\ a.ok <=> (\A i \in 1..k : s[i] \in Token) /\ (k > 0 => ~g.finished /\ Live(v))
      /\ a.ok => /\ a.g.rec.scans = v
                 /\ Len(a.g.tokens) = Len(g.tokens) + k
                 /\ a.g.finished = g.finished
  BY DEF TrialInv, u
<1>7. ASSUME t \in Token
      PROVE  HasRoom(v \o BytesOf[t])
  <2>1. PICK x \in Seq(Byte) : Spelling(w, s) = Spelling(w, SubSeq(s, 1, k + 1)) \o x
    BY <1>0, <1>1, SpellingPrefix
  <2>2. Spelling(w, SubSeq(s, 1, k + 1)) = v \o BytesOf[t]
    BY <1>1, <1>3, <1>7
  <2>3. v \o BytesOf[t] \in Seq(Byte)
    BY <1>3, <1>7, TokenBytes
  <2>4. HasRoom((v \o BytesOf[t]) \o x)
    BY <2>1, <2>2
  <2> HIDE DEF v
  <2> QED BY <2>3, <2>4, RoomForPrefix
<1>8. Len(g.tokens) + k + 1 <= MaxCommittedTokens
  BY <1>0, <1>1, GuideAssumption
<1>9. ASSUME a.ok
      PROVE  /\ AdvanceOutcome(a.g, t) = "ok" <=>
                  ~g.finished /\ t \in Token /\ Live(v \o BytesOf[t])
             /\ AdvanceOutcome(a.g, t) = "ok" =>
                  /\ Advanced(a.g, t).rec.scans = v \o BytesOf[t]
                  /\ Len(Advanced(a.g, t).tokens) = Len(g.tokens) + k + 1
                  /\ ~Advanced(a.g, t).finished
  <2>1. /\ a.g.rec.scans = v
        /\ Len(a.g.tokens) + 1 <= MaxCommittedTokens
        /\ a.g.finished = g.finished
        /\ Len(a.g.tokens) + 1 = Len(g.tokens) + k + 1
    BY <1>6, <1>8, <1>9
  <2> HIDE DEF a, v
  <2> QED BY <1>1, <1>4, <1>7, <2>1, TrialStepResult
<1>10. t \in Token /\ Live(v \o BytesOf[t]) => Live(v)
  <2>1. t \in Token => BytesOf[t] \in Seq(Byte)
    BY TokenBytes
  <2> HIDE DEF v
  <2> QED BY <1>3, <2>1, LivePrefix
<1>11. (\A i \in 1..k + 1 : s[i] \in Token) <=> (\A i \in 1..k : s[i] \in Token) /\ t \in Token
  BY <1>1
<1> HIDE DEF a, v
<1>12. TrialStep(a, t).ok <=> /\ \A i \in 1..k + 1 : s[i] \in Token
                             /\ ~g.finished /\ Live(v \o BytesOf[t])
  <2>1. CASE a.ok
    BY <1>5, <1>6, <1>9, <1>11, <2>1
  <2>2. CASE ~a.ok
    BY <1>1, <1>5, <1>6, <1>10, <1>11, <2>2
  <2> QED BY <2>1, <2>2
<1>13. TrialStep(a, t).ok =>
          /\ TrialStep(a, t).g.rec.scans = v \o BytesOf[t]
          /\ Len(TrialStep(a, t).g.tokens) = Len(g.tokens) + (k + 1)
          /\ TrialStep(a, t).g.finished = g.finished
  <2> SUFFICES ASSUME TrialStep(a, t).ok
               PROVE  /\ TrialStep(a, t).g.rec.scans = v \o BytesOf[t]
                      /\ Len(TrialStep(a, t).g.tokens) = Len(g.tokens) + (k + 1)
                      /\ TrialStep(a, t).g.finished = g.finished
    OBVIOUS
  <2>1. a.ok /\ AdvanceOutcome(a.g, t) = "ok" /\ ~g.finished
    BY <1>5, <1>12
  <2>2. Advanced(a.g, t).finished \in BOOLEAN /\ g.finished \in BOOLEAN
    BY <1>4, <1>5, GuideFields
  <2>3. Len(g.tokens) + k + 1 = Len(g.tokens) + (k + 1)
    <3>1. Len(g.tokens) \in Nat
      BY <1>0
    <3>2. \A m \in Nat : m + k + 1 = m + (k + 1)
      BY <1>1
    <3> QED BY <3>1, <3>2, Zenon
  <2> QED BY <1>5, <1>9, <2>1, <2>2, <2>3
<1>14. k + 1 > 0
  BY <1>1
<1>15. ASSUME \A i \in 1..k + 1 : s[i] \in Token
       PROVE  Spelling(w, Append(u, t)) = v \o BytesOf[t]
  BY <1>3, <1>11, <1>15
<1>16. /\ Tried(g, SubSeq(s, 1, k + 1)) = TrialStep(a, t)
       /\ Spelling(w, SubSeq(s, 1, k + 1)) = Spelling(w, Append(u, t))
  BY <1>1, <1>2
<1>17. /\ TrialStep(a, t).ok <=>
            /\ \A i \in 1..k + 1 : s[i] \in Token
            /\ k + 1 > 0 => ~g.finished /\ Live(Spelling(w, Append(u, t)))
       /\ TrialStep(a, t).ok => TrialStep(a, t).g.rec.scans = Spelling(w, Append(u, t))
  BY <1>12, <1>13, <1>14, <1>15
<1> QED BY <1>5, <1>13, <1>16, <1>17 DEF TrialInv

\* accepts_tokens on a clone that is good is exact.
LEMMA TrialIsExact ==
  ASSUME NEW g, GuideInv(g), NEW s \in Seq(CallerId), s # << >>,
         Len(g.tokens) + Len(s) <= MaxCommittedTokens,
         HasRoom(Spelling(g.rec.scans, s))
  PROVE  AcceptsTokens(g, s) <=>
           /\ \A i \in 1..Len(s) : s[i] \in Token
           /\ ~g.finished /\ Live(Spelling(g.rec.scans, s))
<1>1. Len(s) \in Nat /\ Len(s) > 0 /\ SubSeq(s, 1, Len(s)) = s
  BY EmptySeq
<1>2. CASE \A i \in 1..Len(s) : s[i] # EOS
  <2> DEFINE S == {k \in Nat : k <= Len(s) => TrialInv(g, s, k)}
  <2>1. 0 \in S
    <3>1. SubSeq(s, 1, 0) = << >> /\ g.rec.scans \in Seq(Byte)
      BY GuideFields
    <3>2. Tried(g, << >>) = [ok |-> TRUE, g |-> g]
      BY TriedGrows
    <3>3. Spelling(g.rec.scans, << >>) = g.rec.scans
      BY <3>1, SpellingGrows
    <3>4. Len(g.tokens) + 0 = Len(g.tokens)
      BY GuideFields
    <3> PICK a : a = [ok |-> TRUE, g |-> g]
      OBVIOUS
    <3>5. a.ok = TRUE /\ a.g = g /\ (\A i \in 1..0 : s[i] \in Token) /\ ~(0 > 0)
      OBVIOUS
    <3>6. Tried(g, SubSeq(s, 1, 0)) = a /\ Spelling(g.rec.scans, SubSeq(s, 1, 0)) = g.rec.scans
      BY <3>1, <3>2, <3>3
    <3>7. TrialInv(g, s, 0)
      BY <3>4, <3>5, <3>6, Zenon DEF TrialInv
    <3> QED BY <3>7
  <2>2. ASSUME NEW k \in 0..Len(s) - 1, k \in S
        PROVE  k + 1 \in S
    <3>1. k <= Len(s) /\ k + 1 \in Nat
      BY <1>1
    <3>2. TrialInv(g, s, k)
      BY <2>2, <3>1
    <3>3. TrialInv(g, s, k + 1)
      BY <1>2, <3>2, TrialInvStep
    <3> QED BY <3>1, <3>3
  <2>3. \A k \in 0..Len(s) : k \in S
    <3> HIDE DEF S
    <3> QED BY <1>1, <2>1, <2>2, UpTo
  <2>4. TrialInv(g, s, Len(s))
    <3>1. Len(s) \in 0..Len(s) /\ Len(s) <= Len(s)
      BY <1>1
    <3> QED BY <2>3, <3>1
  <2>5. Tried(g, s).ok <=> /\ \A i \in 1..Len(s) : s[i] \in Token
                           /\ ~g.finished /\ Live(Spelling(g.rec.scans, s))
    BY <1>1, <2>4 DEF TrialInv
  <2> QED BY <1>2, <2>5 DEF AcceptsTokens
<1>3. CASE \E i \in 1..Len(s) : s[i] = EOS
  <2>1. EOS \notin Token
    BY VocabularyAssumption
  <2> QED BY <1>3, <2>1 DEF AcceptsTokens
<1> QED BY <1>2, <1>3

\* accepts_tokens, which commits its sequence to a clone one token after another,
\* says yes exactly to what the schema can still complete, for every sequence that
\* fits the limits (engine.rs:1180-1187).
THEOREM TrialsAreAlwaysExact == Spec => []TrialsAreExact
<1>1. Inv => TrialsAreExact
  <2> SUFFICES ASSUME GuideInv(guide), NEW s \in Trial, s # << >>,
                      Len(guide.tokens) + Len(s) <= MaxCommittedTokens,
                      HasRoom(Spelling(guide.rec.scans, s))
               PROVE  AcceptsTokens(guide, s) <=>
                        /\ \A i \in 1..Len(s) : s[i] \in Token
                        /\ ~guide.finished /\ Live(Spelling(guide.rec.scans, s))
    BY Zenon DEF Inv, TrialsAreExact, HasRoom
  <2>1. s \in Seq(CallerId)
    BY GuideAssumption
  <2> QED BY <2>1, TrialIsExact
<1> QED BY <1>1, Invariance, PTL

-----------------------------------------------------------------------------
(* The guide handed to Python. *)

\* What the first k of some tokens spell.
TextOf(s, k) == Spelling(<< >>, SubSeq(s, 1, k))

\* Whether a guide that is not finished takes t at text w, its room for tokens aside.
TakenAt(w, t) ==
  IF t = EOS THEN IsAccepting(Ordered(w))
  ELSE t \in Token /\ Try(Ordered(w), t).out \notin {"limit", "rejected"}

\* The committed tokens spell the text, each was taken where those before it had led,
\* and every history entry is of the text that its tokens spell.  So the tokens can be
\* committed once more, to a guide that knows nothing else.
ReplayInv(g) ==
  /\ Len(g.tokens) <= MaxCommittedTokens
  /\ g.rec.scans = TextOf(g.tokens, Len(g.tokens))
  /\ \A k \in 0..Len(g.tokens) - 1 : TakenAt(TextOf(g.tokens, k), g.tokens[k + 1])
  /\ \A i \in 1..Len(g.history) : g.history[i].rec.scans = TextOf(g.tokens, g.history[i].tokens)

\* advance succeeds if there is room and the token is taken.
LEMMA OutcomeIsOk ==
  ASSUME NEW g, GuideInv(g), NEW t \in CallerId
  PROVE  AdvanceOutcome(g, t) = "ok" <=>
           ~g.finished /\ Len(g.tokens) + 1 <= MaxCommittedTokens /\ TakenAt(g.rec.scans, t)
<1>1. g.rec = Ordered(g.rec.scans) /\ Len(g.tokens) \in Nat /\ MaxCommittedTokens \in Nat
  BY GuideFields, GuideAssumption
<1> DEFINE room == Len(g.tokens) + 1 > MaxCommittedTokens
           n == Len(g.tokens)
<1>2. ~room <=> n + 1 <= MaxCommittedTokens
  <2> HIDE DEF n
  <2> QED BY <1>1 DEF n
<1> HIDE DEF room, n
<1>3. AdvanceOutcome(g, t) =
        IF g.finished THEN "finished"
        ELSE IF room THEN "limit"
        ELSE IF t = EOS THEN IF IsAccepting(g.rec) THEN "ok" ELSE "eos_not_accepting"
        ELSE IF t \notin Token THEN IF Backend = "dfa" THEN "not_allowed" ELSE "unknown"
        ELSE IF Try(g.rec, t).out = "limit" THEN "limit"
        ELSE IF Try(g.rec, t).out = "rejected" THEN "not_allowed"
        ELSE "ok"
  BY DEF AdvanceOutcome, room
<1> QED BY <1>1, <1>2, <1>3 DEF TakenAt, n

\* More tokens do not change what the first ones are.
LEMMA TextOfAppend ==
  ASSUME NEW s \in Seq(Id), NEW t \in Id
  PROVE  /\ \A k \in 0..Len(s) : TextOf(Append(s, t), k) = TextOf(s, k)
         /\ TextOf(Append(s, t), Len(s) + 1) = TextOf(s, Len(s)) \o Spelled(t)
         /\ TextOf(s, Len(s)) \in Seq(Byte)
<1>1. s \in Seq(CallerId) /\ t \in CallerId /\ << >> \in Seq(Byte)
  BY DEF CallerId
<1>2. /\ \A k \in 0..Len(s) : SubSeq(Append(s, t), 1, k) = SubSeq(s, 1, k)
      /\ SubSeq(Append(s, t), 1, Len(s) + 1) = Append(s, t)
      /\ SubSeq(s, 1, Len(s)) = s
  OBVIOUS
<1>3. /\ Spelling(<< >>, s) \in Seq(Byte)
      /\ Spelling(<< >>, Append(s, t)) =
           IF t \in Token THEN Spelling(<< >>, s) \o BytesOf[t] ELSE Spelling(<< >>, s)
  BY <1>1, SpellingGrows
<1>4. Spelling(<< >>, Append(s, t)) = Spelling(<< >>, s) \o Spelled(t)
  <2>1. CASE t = EOS
    <3>1. t \notin Token
      BY <2>1, VocabularyAssumption
    <3>2. Spelling(<< >>, s) \o << >> = Spelling(<< >>, s)
      <4> DEFINE u == Spelling(<< >>, s)
      <4> HIDE DEF u
      <4>1. u \o << >> = u
        BY <1>3 DEF u
      <4> QED BY <4>1 DEF u
    <3> QED BY <1>3, <2>1, <3>1, <3>2 DEF Spelled
  <2>2. CASE t # EOS
    BY <1>3, <2>2 DEF Spelled, Id
  <2> QED BY <2>1, <2>2
<1> QED BY <1>2, <1>3, <1>4 DEF TextOf

\* Tokens cut off do not change what the rest are.
LEMMA TextOfFront ==
  ASSUME NEW s \in Seq(Id), NEW m \in 0..Len(s)
  PROVE  LET f == SubSeq(s, 1, m)
         IN /\ f \in Seq(Id) /\ Len(f) = m
            /\ \A k \in 0..m : TextOf(f, k) = TextOf(s, k)
            /\ \A k \in 1..m : f[k] = s[k]
<1> DEFINE f == SubSeq(s, 1, m)
<1>1. /\ f \in Seq(Id) /\ Len(f) = m
      /\ \A k \in 1..m : f[k] = s[k]
      /\ \A k \in 0..m : SubSeq(f, 1, k) = SubSeq(s, 1, k)
  OBVIOUS
<1> QED BY <1>1 DEF TextOf

\* A commit goes on where the tokens before it led.
LEMMA CommitKeepsReplay ==
  ASSUME NEW g, GuideInv(g), ReplayInv(g), NEW t \in CallerId, AdvanceOutcome(g, t) = "ok"
  PROVE  /\ ReplayInv(Committed(g, t))
         /\ Len(Committed(g, t).history) =
              IF MaxRollback = 0 THEN Len(g.history) ELSE Len(g.history) + 1 - Dropped(g.history)
<1> DEFINE f == Committed(g, t)
           s == g.tokens
           h == g.history
           n == Len(s)
           c == CheckpointOf(g)
<1>1. /\ s \in Seq(Id) /\ n \in Nat /\ h \in Seq(HistoryEntry) /\ Len(h) \in Nat
      /\ MaxRollback \in Nat /\ MaxCommittedTokens \in Nat
  BY GuideFields, GuideAssumption
<1>2. /\ t \in Id /\ f.rec.scans = g.rec.scans \o Spelled(t)
  <2>1. t \in Id /\ f.rec = Ordered(g.rec.scans \o Spelled(t))
    BY CommitResult
  <2> QED BY <2>1 DEF Ordered
<1>3. f.tokens = Append(s, t) /\ f.history = Retained(h, c)
  BY DEF Committed
<1>4. n + 1 <= MaxCommittedTokens /\ TakenAt(g.rec.scans, t)
  BY OutcomeIsOk
<1>5. c \in HistoryEntry /\ c.rec.scans = g.rec.scans /\ c.tokens = n
  BY CheckpointType
<1>6. /\ n <= MaxCommittedTokens
      /\ g.rec.scans = TextOf(s, n)
      /\ \A k \in 0..n - 1 : TakenAt(TextOf(s, k), s[k + 1])
      /\ \A i \in 1..Len(h) : h[i].rec.scans = TextOf(s, h[i].tokens)
  BY DEF ReplayInv
<1>7. \A i \in 1..Len(h) : h[i].tokens \in 0..n
  <2> SUFFICES ASSUME NEW i \in 1..Len(h)
               PROVE  h[i].tokens \in 0..n
    OBVIOUS
  <2>1. /\ h[i].tokens = n - Len(h) + i - 1 /\ Len(h) <= n
    BY DEF GuideInv, HistoryInv, EntryInv
  <2> DEFINE l == Len(h)
             k == h[i].tokens
  <2>2. k = n - l + i - 1 /\ l <= n /\ i \in 1..l /\ l \in Nat
    BY <1>1, <2>1
  <2> HIDE DEF n, l, k
  <2>3. k \in 0..n
    BY <1>1, <2>2
  <2> QED BY <2>3 DEF k
<1> HIDE DEF f, c
<1>8. /\ Len(f.tokens) = n + 1
      /\ f.tokens[n + 1] = t /\ \A k \in 1..n : f.tokens[k] = s[k]
  BY <1>1, <1>2, <1>3
<1>9. /\ \A k \in 0..n : TextOf(f.tokens, k) = TextOf(s, k)
      /\ TextOf(f.tokens, n + 1) = TextOf(s, n) \o Spelled(t)
  BY <1>1, <1>2, <1>3, TextOfAppend
<1>10. f.rec.scans = TextOf(f.tokens, Len(f.tokens))
  BY <1>2, <1>6, <1>8, <1>9
<1>11. ASSUME NEW k \in 0..Len(f.tokens) - 1
       PROVE  TakenAt(TextOf(f.tokens, k), f.tokens[k + 1])
  <2> HIDE DEF n
  <2>1. k \in 0..n /\ ((k \in 0..n - 1 /\ k + 1 \in 1..n) \/ k = n)
    BY <1>1, <1>8, <1>11
  <2>2. CASE k \in 0..n - 1 /\ k + 1 \in 1..n
    BY <1>6, <1>8, <1>9, <2>1, <2>2
  <2>3. CASE k = n
    BY <1>4, <1>6, <1>8, <1>9, <2>1, <2>3
  <2> QED BY <2>1, <2>2, <2>3
<1>12. /\ \A i \in 1..Len(f.history) : f.history[i].rec.scans = TextOf(f.tokens, f.history[i].tokens)
       /\ Len(f.history) = IF MaxRollback = 0 THEN Len(h) ELSE Len(h) + 1 - Dropped(h)
  <2>0. Len(h) <= MaxRollback
    BY DEF GuideInv, HistoryInv
  <2>1. \A i \in 1..Len(h) : h[i].rec.scans = TextOf(f.tokens, h[i].tokens)
    BY <1>6, <1>7, <1>9
  <2>2. c.rec.scans = TextOf(f.tokens, c.tokens)
    BY <1>1, <1>5, <1>6, <1>9
  <2>3. CASE MaxRollback = 0
    <3>1. f.history = h
      BY <1>3, <2>3 DEF Retained
    <3> QED BY <2>1, <2>3, <3>1
  <2>4. CASE MaxRollback # 0
    <3> DEFINE d == Dropped(h)
               r == f.history
               l == Len(h)
    <3>1. /\ d \in {0, 1} /\ d <= l
          /\ Len(r) = l - d + 1
          /\ \A i \in 1..l - d : r[i] = h[i + d]
          /\ r[l - d + 1] = c
      <4> HIDE DEF h
      <4> QED BY <1>1, <1>3, <1>5, <2>0, <2>4, RetainedResult
    <3> HIDE DEF d, r
    <3>2. ASSUME NEW i \in 1..Len(r)
          PROVE  r[i].rec.scans = TextOf(f.tokens, r[i].tokens)
      <4> HIDE DEF l
      <4>1. (i \in 1..l - d /\ i + d \in 1..l) \/ i = l - d + 1
        BY <1>1, <3>1 DEF l
      <4>2. CASE i \in 1..l - d /\ i + d \in 1..l
        BY <2>1, <3>1, <4>2 DEF l
      <4>3. CASE i = l - d + 1
        BY <2>2, <3>1, <4>3
      <4> QED BY <4>1, <4>2, <4>3
    <3>3. Len(r) = l + 1 - d
      <4> HIDE DEF l
      <4> QED BY <1>1, <3>1 DEF l
    <3> QED BY <2>4, <3>2, <3>3 DEF r, d
  <2> QED BY <2>3, <2>4
<1>13. ReplayInv(f)
  <2>1. Len(f.tokens) <= MaxCommittedTokens
    BY <1>4, <1>8
  <2> QED BY <2>1, <1>10, <1>11, <1>12 DEF ReplayInv
<1> QED BY <1>12, <1>13 DEF f

\* A rollback returns to a text that the tokens left spell.
LEMMA RollbackKeepsReplay ==
  ASSUME NEW g, GuideInv(g), ReplayInv(g), NEW k \in 1..Len(g.history)
  PROVE  ReplayInv(Restored(g, g.history[k], SubSeq(g.history, 1, k - 1)))
<1> DEFINE s == g.tokens
           h == g.history
           m == h[k].tokens
           rest == SubSeq(h, 1, k - 1)
           f == Restored(g, h[k], rest)
           n == Len(s)
<1>1. /\ s \in Seq(Id) /\ n \in Nat /\ h \in Seq(HistoryEntry) /\ Len(h) \in Nat
      /\ MaxCommittedTokens \in Nat
  BY GuideFields, GuideAssumption
<1>2. ASSUME NEW i \in 1..Len(h)
      PROVE  h[i].tokens \in Nat /\ h[i].tokens = n - Len(h) + i - 1 /\ h[i].tokens < n
  <2>1. /\ h[i].tokens = n - Len(h) + i - 1 /\ Len(h) <= n
    BY DEF GuideInv, HistoryInv, EntryInv
  <2> DEFINE l == Len(h)
             j == h[i].tokens
  <2>2. j = n - l + i - 1 /\ l <= n /\ i \in 1..l /\ l \in Nat
    BY <1>1, <2>1
  <2> HIDE DEF n, l, j
  <2>3. j \in Nat /\ j < n
    BY <1>1, <2>2
  <2> QED BY <2>1, <2>3 DEF j
<1>3. f.rec.scans = h[k].rec.scans /\ f.history = rest /\ f.tokens = SubSeq(s, 1, m)
  <2>1. f.rec.scans = h[k].rec.scans
    BY RollbackKeepsInv
  <2> QED BY <2>1 DEF Restored
<1>4. /\ n <= MaxCommittedTokens
      /\ \A i \in 0..n - 1 : TakenAt(TextOf(s, i), s[i + 1])
      /\ \A i \in 1..Len(h) : h[i].rec.scans = TextOf(s, h[i].tokens)
  BY DEF ReplayInv
<1>5. m \in 0..n /\ m \in Nat /\ m < n
  <2> HIDE DEF n, m
  <2>1. m \in Nat /\ m < n
    BY <1>2 DEF m
  <2> QED BY <1>1, <2>1
<1> HIDE DEF f, m
<1>6. /\ Len(f.tokens) = m
      /\ \A i \in 0..m : TextOf(f.tokens, i) = TextOf(s, i)
      /\ \A i \in 1..m : f.tokens[i] = s[i]
  BY <1>1, <1>3, <1>5, TextOfFront
<1>7. Len(f.tokens) <= MaxCommittedTokens
  <2> HIDE DEF n
  <2> QED BY <1>1, <1>4, <1>5, <1>6
<1>8. f.rec.scans = TextOf(f.tokens, Len(f.tokens))
  <2>1. h[k].rec.scans = TextOf(s, m)
    BY <1>4 DEF m
  <2>2. m \in 0..m
    BY <1>5
  <2> QED BY <1>3, <1>6, <2>1, <2>2
<1>9. ASSUME NEW i \in 0..Len(f.tokens) - 1
      PROVE  TakenAt(TextOf(f.tokens, i), f.tokens[i + 1])
  <2>1. i \in 0..m /\ i + 1 \in 1..m /\ i \in 0..n - 1
    <3> HIDE DEF n
    <3> QED BY <1>1, <1>5, <1>6, <1>9
  <2> QED BY <1>4, <1>6, <2>1
<1>10. ASSUME NEW i \in 1..Len(f.history)
       PROVE  f.history[i].rec.scans = TextOf(f.tokens, f.history[i].tokens)
  <2>1. k - 1 \in 0..Len(h)
    BY <1>1
  <2>2. Len(rest) = k - 1 /\ \A j \in 1..k - 1 : rest[j] = h[j]
    BY <1>1, <2>1
  <2>3. i \in 1..k - 1 /\ i \in 1..Len(h) /\ f.history[i] = h[i]
    <3> HIDE DEF rest
    <3>1. i \in 1..k - 1
      BY <1>3, <1>10, <2>2
    <3>2. i \in 1..Len(h)
      BY <1>1, <2>1, <3>1
    <3> QED BY <1>3, <2>2, <3>1, <3>2
  <2>4. h[i].tokens \in 0..m
    <3> DEFINE l == Len(h)
               j == h[i].tokens
    <3>1. j = n - l + i - 1 /\ j \in Nat /\ m = n - l + k - 1 /\ l \in Nat
      BY <1>1, <1>2, <2>3 DEF m
    <3> HIDE DEF n, l, j
    <3>2. j \in 0..m
      BY <1>1, <1>5, <2>3, <3>1
    <3> QED BY <3>2 DEF j
  <2> QED BY <1>4, <1>6, <2>3, <2>4
<1> QED BY <1>7, <1>8, <1>9, <1>10 DEF ReplayInv, f

\* What replaying the first k tokens makes of a new guide.
ReplayedTo(g, k) ==
  LET a == Tried(NewGuide, SubSeq(g.tokens, 1, k))
  IN /\ a.ok = TRUE /\ GuideInv(a.g) /\ ReplayInv(a.g)
     /\ a.g.tokens = SubSeq(g.tokens, 1, k)
     /\ a.g.finished = (k = Len(g.tokens) /\ g.finished)
     /\ Len(a.g.history) = IF k <= MaxRollback THEN k ELSE MaxRollback

\* A new guide can be replayed.
LEMMA NewGuideReplay == ReplayInv(NewGuide)
<1>1. /\ Len(<< >>) = 0 /\ << >> \in Seq(CallerId) /\ << >> \in Seq(Byte) /\ SubSeq(<< >>, 1, 0) = << >>
      /\ 0..0 - 1 = {} /\ 1..0 = {}
  OBVIOUS
<1>2. TextOf(<< >>, 0) = << >>
  BY <1>1, SpellingGrows, Zenon DEF TextOf
<1>3. /\ NewGuide.rec.scans = << >> /\ NewGuide.tokens = << >> /\ NewGuide.history = << >>
  BY DEF NewGuide, Fresh
<1>4. 0 <= MaxCommittedTokens
  BY GuideAssumption
<1> QED BY <1>1, <1>2, <1>3, <1>4 DEF ReplayInv

\* One more token is taken as it was the first time.
LEMMA ReplayGoesOn ==
  ASSUME NEW g, GuideInv(g), ReplayInv(g), NEW k \in 0..Len(g.tokens) - 1, ReplayedTo(g, k)
  PROVE  ReplayedTo(g, k + 1)
<1> DEFINE s == g.tokens
           n == Len(s)
           u == SubSeq(s, 1, k)
           t == s[k + 1]
           a == Tried(NewGuide, u)
           b == Tried(NewGuide, SubSeq(s, 1, k + 1))
<1>1. s \in Seq(Id) /\ n \in Nat /\ MaxCommittedTokens \in Nat /\ MaxRollback \in Nat
      /\ g.finished \in BOOLEAN
  BY GuideFields, GuideAssumption
<1>2. /\ k \in Nat /\ k \in 0..n /\ k < n /\ k + 1 \in 1..n /\ k + 1 <= n /\ k # n
  <2> HIDE DEF n
  <2>1. k \in 0..n - 1
    BY DEF n
  <2> QED BY <1>1, <2>1
<1>3. /\ u \in Seq(Id) /\ Len(u) = k /\ t \in Id /\ SubSeq(s, 1, k + 1) = Append(u, t)
  <2> HIDE DEF s
  <2>1. k \in 0..Len(s) /\ k + 1 \in 1..Len(s) /\ k \in Nat
    BY <1>2
  <2>2. u \in Seq(Id) /\ Len(u) = k
    BY <1>1, <2>1
  <2>3. t \in Id
    BY <1>1, <2>1
  <2>4. SubSeq(s, 1, k + 1) = Append(u, t)
    BY <1>1, <2>1
  <2> QED BY <2>2, <2>3, <2>4
<1>4. u \in Seq(CallerId) /\ t \in CallerId
  BY <1>3 DEF CallerId
<1>5. /\ a.ok = TRUE /\ GuideInv(a.g) /\ ReplayInv(a.g) /\ a.g.tokens = u
      /\ a.g.finished = (k = n /\ g.finished)
      /\ Len(a.g.history) = IF k <= MaxRollback THEN k ELSE MaxRollback
  BY DEF ReplayedTo
<1>6. b = TrialStep(a, t)
  <2>1. Tried(NewGuide, Append(u, t)) = TrialStep(Tried(NewGuide, u), t)
    <3> HIDE DEF u, t
    <3> QED BY <1>4, NewGuideInv, TriedGrows
  <2> QED BY <1>3, <2>1
<1> HIDE DEF a, b
<1>7. AdvanceOutcome(a.g, t) = "ok"
  <2>1. a.g.rec.scans = TextOf(s, k)
    <3>1. a.g.rec.scans = TextOf(u, k)
      BY <1>3, <1>5 DEF ReplayInv
    <3>2. TextOf(u, k) = TextOf(s, k)
      <4>1. k \in 0..k
        BY <1>2
      <4> QED BY <1>1, <1>2, <4>1, TextOfFront
    <3> QED BY <3>1, <3>2
  <2>2. TakenAt(a.g.rec.scans, t)
    BY <2>1 DEF ReplayInv
  <2>3. Len(a.g.tokens) + 1 <= MaxCommittedTokens
    <3>1. n <= MaxCommittedTokens
      BY DEF ReplayInv
    <3> HIDE DEF n, u
    <3> QED BY <1>1, <1>2, <1>3, <1>5, <3>1
  <2>4. ~a.g.finished
    BY <1>2, <1>5
  <2> HIDE DEF t
  <2> QED BY <1>4, <1>5, <2>2, <2>3, <2>4, OutcomeIsOk
<1> DEFINE f == Committed(a.g, t)
<1>8. /\ b.ok = TRUE /\ b.g = f
  BY <1>5, <1>6, <1>7 DEF TrialStep, Advanced
<1>9. /\ GuideInv(f) /\ ReplayInv(f)
      /\ Len(f.history) = IF MaxRollback = 0 THEN Len(a.g.history)
                          ELSE Len(a.g.history) + 1 - Dropped(a.g.history)
  <2> HIDE DEF t
  <2> QED BY <1>4, <1>5, <1>7, CommitKeepsInv, CommitKeepsReplay
<1>10. f.tokens = SubSeq(s, 1, k + 1) /\ f.finished = (t = EOS)
  BY <1>3, <1>5 DEF Committed
<1>11. (t = EOS) = (k + 1 = n /\ g.finished)
  <2>1. t = EOS <=> g.finished /\ k + 1 = n
    BY <1>2 DEF GuideInv, ViableInv
  <2> HIDE DEF t, n
  <2> QED BY <1>1, <2>1
<1>12. Len(f.history) = IF k + 1 <= MaxRollback THEN k + 1 ELSE MaxRollback
  <2> DEFINE l == Len(a.g.history)
  <2>1. /\ l = IF k <= MaxRollback THEN k ELSE MaxRollback
        /\ Len(f.history) = IF MaxRollback = 0 THEN l
                            ELSE l + 1 - (IF l < MaxRollback THEN 0 ELSE 1)
    BY <1>5, <1>9 DEF Dropped
  <2> HIDE DEF l, f
  <2> QED BY <1>1, <1>2, <2>1
<1> HIDE DEF f
<1> QED BY <1>8, <1>9, <1>10, <1>11, <1>12 DEF ReplayedTo, b

\* A replay makes a guide that decodes as this one.
LEMMA ReplayIsExact ==
  ASSUME NEW g, GuideInv(g), ReplayInv(g)
  PROVE  LET a == Replayed(g.tokens)
         IN /\ a.ok /\ GuideInv(a.g) /\ ReplayInv(a.g)
            /\ a.g.tokens = g.tokens /\ a.g.rec = g.rec /\ a.g.bytes = g.bytes
            /\ a.g.finished = g.finished
            /\ Len(a.g.history) = IF Len(g.tokens) <= MaxRollback THEN Len(g.tokens) ELSE MaxRollback
<1> DEFINE s == g.tokens
           n == Len(s)
           S == {k \in Nat : k <= n => ReplayedTo(g, k)}
           a == Replayed(s)
<1>1. s \in Seq(Id) /\ n \in Nat /\ g.finished \in BOOLEAN /\ MaxRollback \in Nat
  BY GuideFields, GuideAssumption
<1>2. 0 \in S
  <2>1. SubSeq(s, 1, 0) = << >> /\ << >> \in Seq(CallerId)
    OBVIOUS
  <2>2. Tried(NewGuide, << >>) = [ok |-> TRUE, g |-> NewGuide]
    BY <2>1, NewGuideInv, TriedGrows
  <2>3. /\ NewGuide.tokens = << >> /\ NewGuide.finished = FALSE /\ NewGuide.history = << >>
    BY DEF NewGuide
  <2>4. ~(0 = n /\ g.finished)
    <3>1. 0 = n => s = << >>
      BY <1>1, EmptySeq
    <3>2. g.finished => s # << >>
      BY DEF GuideInv, ViableInv
    <3> QED BY <3>1, <3>2
  <2>5. Len(<< >>) = 0 /\ 0 <= MaxRollback
    BY <1>1
  <2> HIDE DEF s, n
  <2> PICK b : b = [ok |-> TRUE, g |-> NewGuide]
    OBVIOUS
  <2>6. b.ok = TRUE /\ b.g = NewGuide /\ b = Tried(NewGuide, SubSeq(g.tokens, 1, 0))
    BY <2>1, <2>2, Zenon DEF s
  <2>7. /\ b.ok = TRUE /\ GuideInv(b.g) /\ ReplayInv(b.g)
        /\ b.g.tokens = SubSeq(g.tokens, 1, 0)
    BY <2>1, <2>3, <2>6, NewGuideInv, NewGuideReplay, Zenon DEF s
  <2>8. b.g.finished = (0 = Len(g.tokens) /\ g.finished)
    <3>1. b.g.finished = FALSE
      BY <2>3, <2>6, Zenon
    <3> QED BY <2>4, <3>1, Zenon DEF n, s
  <2>9. Len(b.g.history) = IF 0 <= MaxRollback THEN 0 ELSE MaxRollback
    BY <2>3, <2>5, <2>6
  <2>10. ReplayedTo(g, 0)
    BY <2>6, <2>7, <2>8, <2>9, Zenon DEF ReplayedTo
  <2> QED BY <2>10
<1>3. ASSUME NEW k \in 0..n - 1, k \in S
      PROVE  k + 1 \in S
  <2>1. k <= n /\ k + 1 \in Nat
    <3> HIDE DEF n
    <3> QED BY <1>1, <1>3
  <2>2. ReplayedTo(g, k)
    BY <1>3, <2>1
  <2>3. ReplayedTo(g, k + 1)
    BY <2>2, ReplayGoesOn
  <2> QED BY <2>1, <2>3
<1>4. ReplayedTo(g, n)
  <2>1. \A k \in 0..n : k \in S
    <3> HIDE DEF S, n
    <3> QED BY <1>1, <1>2, <1>3, UpTo
  <2>2. n \in 0..n /\ n <= n
    <3> HIDE DEF n
    <3> QED BY <1>1
  <2> QED BY <2>1, <2>2
<1>5. SubSeq(s, 1, n) = s /\ Replayed(s) = Tried(NewGuide, s)
  BY <1>1 DEF Replayed
<1>6. /\ a.ok /\ GuideInv(a.g) /\ ReplayInv(a.g) /\ a.g.tokens = s
      /\ a.g.finished = g.finished
      /\ Len(a.g.history) = IF n <= MaxRollback THEN n ELSE MaxRollback
  <2> HIDE DEF s, n
  <2>1. a = Tried(NewGuide, SubSeq(s, 1, n))
    BY <1>5
  <2> HIDE DEF a
  <2>2. /\ a.ok = TRUE /\ GuideInv(a.g) /\ ReplayInv(a.g)
        /\ a.g.tokens = SubSeq(s, 1, n)
        /\ a.g.finished = (n = n /\ g.finished)
        /\ Len(a.g.history) = IF n <= MaxRollback THEN n ELSE MaxRollback
    BY <1>4, <2>1 DEF ReplayedTo, s, n
  <2> QED BY <1>1, <1>5, <2>2
<1> HIDE DEF a
<1>7. a.g.rec = g.rec /\ a.g.bytes = g.bytes
  <2>1. a.g.rec.scans = TextOf(s, n) /\ g.rec.scans = TextOf(s, n)
    BY <1>6 DEF ReplayInv
  <2> QED BY <1>6, <2>1, GuideFields
<1> QED BY <1>6, <1>7 DEF a

\* The inductive invariant of the Python guide.
PyInv == Inv /\ ReplayInv(guide)

\* Computing the mask leaves what is replayed alone.
LEMMA FillKeepsReplay ==
  ASSUME NEW g, GuideInv(g), ReplayInv(g)
  PROVE  ReplayInv(Filled(g))
<1> DEFINE f == Filled(g)
<1>1. f.rec = g.rec /\ f.tokens = g.tokens /\ f.history = g.history
  BY DEF Filled, GuideInv, GuideType
<1> HIDE DEF f
<1>2. ReplayInv(f)
  BY <1>1 DEF ReplayInv
<1> QED BY <1>2 DEF f

\* advance keeps the tokens replayable.
LEMMA AdvanceKeepsReplay ==
  ASSUME PyInv, NEW t \in CallerId, Advance(t)
  PROVE  PyInv'
<1>1. Inv'
  BY AdvanceStep DEF PyInv
<1>2. GuideInv(guide) /\ ReplayInv(guide)
  BY DEF PyInv, Inv
<1>3. CASE AdvanceOutcome(guide, t) = "ok"
  <2>1. guide' = Committed(guide, t)
    BY <1>3 DEF Advance, Advanced
  <2>2. ReplayInv(Committed(guide, t))
    BY <1>2, <1>3, CommitKeepsReplay
  <2> QED BY <1>1, <2>1, <2>2 DEF PyInv
<1>4. CASE AdvanceOutcome(guide, t) # "ok"
  <2>1. guide' = guide
    BY <1>2, <1>4, RefuseChangesNothing DEF Advance
  <2> QED BY <1>1, <1>2, <2>1 DEF PyInv
<1> QED BY <1>3, <1>4

\* advance(return_tokens=True) is advance, or a commit and the mask of what it gives.
LEMMA ReturningStep ==
  ASSUME PyInv, NEW t \in CallerId, AdvanceReturningTokens(t), AdvanceOutcome(guide, t) = "ok"
  PROVE  LET g == Committed(guide, t)
         IN /\ PyInv' /\ GuideInv(g)
            /\ guide' = Filled(g) /\ reply'.mask = UNION Filled(g).cached
<1> DEFINE g == Committed(guide, t)
<1>1. GuideInv(guide) /\ ReplayInv(guide)
  BY DEF PyInv, Inv
<1>2. GuideInv(g) /\ ReplayInv(g)
  BY <1>1, CommitKeepsInv, CommitKeepsReplay
<1>3. /\ guide' = Filled(g)
      /\ reply' = [call |-> <<"advance", t>>, out |-> FillOutcome(g), mask |-> UNION Filled(g).cached]
  BY DEF AdvanceReturningTokens, Advanced
<1> HIDE DEF g
<1>4. GuideInv(Filled(g)) /\ ReplayInv(Filled(g)) /\ UNION Filled(g).cached \subseteq Id
  BY <1>2, FillKeepsInv, FillKeepsReplay
<1>5. FillOutcome(g) \in Outcomes
  BY DEF FillOutcome, Outcomes
<1>6. PyInv'
  BY <1>3, <1>4, <1>5 DEF PyInv, Inv, ReplyInv
<1> QED BY <1>2, <1>3, <1>6 DEF g

\* A pickled guide is taken over by its copy, which is never refused.
LEMMA PickleStep ==
  ASSUME PyInv, Pickle
  PROVE  /\ PyInv'
         /\ reply' = Answer(<<"pickle">>, "ok")
         /\ guide' = Replayed(guide.tokens).g
<1> DEFINE a == Replayed(guide.tokens)
<1>1. GuideInv(guide) /\ ReplayInv(guide)
  BY DEF PyInv, Inv
<1>2. a.ok /\ GuideInv(a.g) /\ ReplayInv(a.g) /\ a.g.finished = guide.finished
  BY <1>1, ReplayIsExact
<1>3. guide' = a.g /\ reply' = Answer(<<"pickle">>, "ok")
  BY <1>2 DEF Pickle
<1> HIDE DEF a
<1>4. PyInv'
  BY <1>2, <1>3 DEF PyInv, Inv, ReplyInv, Answer, Outcomes
<1> QED BY <1>3, <1>4 DEF a

\* Every step keeps the Python guide's invariant.
LEMMA PyStepKeepsInv ==
  ASSUME PyInv, [PyNext]_vars
  PROVE  PyInv'
<1>1. Inv /\ GuideInv(guide) /\ ReplayInv(guide)
  BY DEF PyInv, Inv
<1>2. ASSUME NEW t \in CallerId, Advance(t)
      PROVE  PyInv'
  BY <1>2, AdvanceKeepsReplay
<1>3. ASSUME NEW t \in CallerId, AdvanceReturningTokens(t)
      PROVE  PyInv'
  <2>1. CASE AdvanceOutcome(guide, t) = "ok"
    BY <1>3, <2>1, ReturningStep
  <2>2. CASE AdvanceOutcome(guide, t) # "ok"
    <3>1. Advance(t)
      BY <1>3, <2>2 DEF AdvanceReturningTokens
    <3> QED BY <1>2, <3>1
  <2> QED BY <2>1, <2>2
<1>4. CASE FillMask
  <2>1. Inv' /\ guide' = Filled(guide)
    BY <1>1, <1>4, FillMaskStep DEF FillMask
  <2>2. ReplayInv(Filled(guide))
    BY <1>1, FillKeepsReplay
  <2> QED BY <2>1, <2>2 DEF PyInv
<1>5. ASSUME NEW s \in Trial, AskAcceptsTokens(s)
      PROVE  PyInv'
  <2>1. Inv' /\ guide' = guide
    BY <1>1, <1>5, AskStep
  <2> QED BY <1>1, <2>1 DEF PyInv
<1>6. ASSUME NEW n \in 0..MaxRollback + 1, Rollback(n)
      PROVE  PyInv'
  <2>1. CASE n # 0 /\ n <= Len(guide.history)
    <3> PICK k : k = Len(guide.history) - n + 1
      OBVIOUS
    <3>1. /\ Inv' /\ k \in 1..Len(guide.history)
          /\ guide' = Restored(guide, guide.history[k], SubSeq(guide.history, 1, k - 1))
      BY <1>1, <1>6, <2>1, RollbackStep
    <3>2. ReplayInv(Restored(guide, guide.history[k], SubSeq(guide.history, 1, k - 1)))
      BY <1>1, <3>1, RollbackKeepsReplay
    <3> QED BY <3>1, <3>2 DEF PyInv
  <2>2. CASE ~(n # 0 /\ n <= Len(guide.history))
    <3>1. Inv' /\ guide' = guide
      BY <1>1, <1>6, <2>2, RollbackStep
    <3> QED BY <1>1, <3>1 DEF PyInv
  <2> QED BY <2>1, <2>2
<1>7. CASE Reset
  BY <1>1, <1>7, ResetStep, NewGuideReplay DEF PyInv
<1>8. CASE Pickle
  BY <1>8, PickleStep
<1>9. CASE UNCHANGED vars
  BY <1>9 DEF vars, PyInv, Inv, ReplyInv
<1> QED BY <1>2, <1>3, <1>4, <1>5, <1>6, <1>7, <1>8, <1>9 DEF PyNext

\* The Python guide's invariant holds in every state.
LEMMA PyInvariance == PySpec => []PyInv
<1>1. Init => PyInv
  BY NewGuideInv, NewGuideReplay DEF Init, PyInv, Inv, ReplyInv, Answer, Outcomes
<1>2. PyInv /\ [PyNext]_vars => PyInv'
  BY PyStepKeepsInv
<1> QED BY <1>1, <1>2, PTL DEF PySpec

\* Pickling writes the committed tokens only.  The copy that replays them is never
\* refused, however the original came to its state, and decodes as it does
\* (tests/test_structural_pickle.py:36-42).
THEOREM PicklesKeepDecoding == PySpec => PickleKeepsDecoding
<1>1. ASSUME PyInv, Pickle
      PROVE  /\ reply'.out = "ok"
             /\ guide'.tokens = guide.tokens
             /\ guide'.rec = guide.rec
             /\ guide'.bytes = guide.bytes
             /\ guide'.finished = guide.finished
             /\ Len(guide'.history) = Min({Len(guide.tokens), MaxRollback})
  <2> DEFINE a == Replayed(guide.tokens)
             n == Len(guide.tokens)
  <2>1. GuideInv(guide) /\ ReplayInv(guide) /\ n \in Nat /\ MaxRollback \in Nat
    BY <1>1, GuideFields, GuideAssumption DEF PyInv, Inv
  <2>2. /\ a.g.tokens = guide.tokens /\ a.g.rec = guide.rec /\ a.g.bytes = guide.bytes
        /\ a.g.finished = guide.finished
        /\ Len(a.g.history) = IF n <= MaxRollback THEN n ELSE MaxRollback
    BY <2>1, ReplayIsExact
  <2>3. reply' = Answer(<<"pickle">>, "ok") /\ guide' = a.g
    BY <1>1, PickleStep
  <2>4. Min({n, MaxRollback}) = IF n <= MaxRollback THEN n ELSE MaxRollback
    <3> HIDE DEF n
    <3> DEFINE m == IF n <= MaxRollback THEN n ELSE MaxRollback
               M == Min({n, MaxRollback})
    <3>1. m \in {n, MaxRollback} /\ \A y \in {n, MaxRollback} : m <= y
      BY <2>1
    <3>2. M \in {n, MaxRollback} /\ \A y \in {n, MaxRollback} : M <= y
      BY <3>1 DEF Min
    <3> QED BY <2>1, <3>1, <3>2
  <2> HIDE DEF a
  <2> QED BY <2>2, <2>3, <2>4 DEF Answer
<1>2. ASSUME PyInv, [PyNext]_vars
      PROVE  [Pickle => /\ reply'.out = "ok"
                        /\ guide'.tokens = guide.tokens
                        /\ guide'.rec = guide.rec
                        /\ guide'.bytes = guide.bytes
                        /\ guide'.finished = guide.finished
                        /\ Len(guide'.history) = Min({Len(guide.tokens), MaxRollback})]_vars
  BY <1>1, <1>2
<1> QED BY <1>2, PyInvariance, PTL DEF PySpec, PickleKeepsDecoding

\* What a call that hands out a mask hands out with it.
LEMMA ReturnedMask ==
  ASSUME PyInv, PyNext, reply'.call[1] = "advance", reply'.mask # {}
  PROVE  PyInv' /\ reply'.mask = MaskOf(guide')
<1>1. ASSUME NEW t \in CallerId, Advance(t)
      PROVE  FALSE
  BY <1>1 DEF Advance, Answer
<1>2. ASSUME NEW t \in CallerId, AdvanceReturningTokens(t)
      PROVE  PyInv' /\ reply'.mask = MaskOf(guide')
  <2>1. AdvanceOutcome(guide, t) = "ok"
    BY <1>1, <1>2 DEF AdvanceReturningTokens
  <2> DEFINE g == Committed(guide, t)
  <2>2. /\ PyInv' /\ GuideInv(g)
        /\ guide' = Filled(g) /\ reply'.mask = UNION Filled(g).cached
    BY <1>2, <2>1, ReturningStep
  <2> HIDE DEF g
  <2>3. reply'.mask = UNION guide'.cached /\ MaskInv(guide')
    BY <2>2 DEF PyInv, Inv, GuideInv
  <2> QED BY <2>2, <2>3 DEF MaskInv
<1>3. CASE FillMask
  BY <1>3 DEF FillMask
<1>4. ASSUME NEW s \in Trial, AskAcceptsTokens(s)
      PROVE  FALSE
  BY <1>4 DEF AskAcceptsTokens, Answer
<1>5. ASSUME NEW n \in 0..MaxRollback + 1, Rollback(n)
      PROVE  FALSE
  BY <1>5 DEF Rollback, Answer
<1>6. CASE Reset
  BY <1>6 DEF Reset, Answer
<1>7. CASE Pickle
  BY <1>7 DEF Pickle, Answer
<1> QED BY <1>1, <1>2, <1>3, <1>4, <1>5, <1>6, <1>7 DEF PyNext

\* The list advance() returns is that of the state after the token, not before it:
\* the ids the next advance() takes (python_bindings/mod.rs:476-491).
THEOREM ReturnedTokensAreAlwaysExact == PySpec => ReturnedTokensAreExact
<1>1. ASSUME PyInv, PyNext, reply'.call[1] = "advance", reply'.mask # {},
             NEW t \in Id, Len(guide'.tokens) < MaxCommittedTokens
      PROVE  t \in reply'.mask <=> AdvanceOutcome(guide', t) = "ok"
  <2>1. GuideInv(guide') /\ reply'.mask = MaskOf(guide')
    BY <1>1, ReturnedMask DEF PyInv, Inv
  <2> QED BY <1>1, <2>1, MaskIsExact
<1>2. ASSUME PyInv, [PyNext]_vars
      PROVE  [reply'.call[1] = "advance" /\ reply'.mask # {} =>
                \A t \in Id : Len(guide'.tokens) < MaxCommittedTokens =>
                  (t \in reply'.mask <=> AdvanceOutcome(guide', t) = "ok")]_vars
  BY <1>1, <1>2
<1> QED BY <1>2, PyInvariance, PTL DEF PySpec, ReturnedTokensAreExact
=============================================================================
