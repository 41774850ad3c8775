------------------------------- MODULE Guide --------------------------------
(***************************************************************************)
(* The token-level Guide: it commits token ids to a recognizer (or to the  *)
(* token index of a whole DFA), keeps a bounded history of checkpoints for *)
(* rollback, and caches the mask of the current state.                     *)
(*                                                                         *)
(* The guide stores no copy of the past: a history entry holds a           *)
(* recognizer checkpoint, which for Earley is a column count, and the      *)
(* lengths to truncate the committed tokens and bytes to.                  *)
(*                                                                         *)
(* A guide is a record, as struct Guide is, because accepts_tokens works   *)
(* on a clone and the Python layer rebuilds a guide by replaying one:      *)
(*   rec      : the recognizer, or the state of the token index (runtime)  *)
(*   tokens   : committed_token_ids       bytes  : committed_bytes         *)
(*   finished : EOS was committed                                          *)
(*   cached   : cached_mask, the set of the mask cached or empty           *)
(*   history  : the checkpoints rollback may return to, oldest first       *)
(***************************************************************************)
EXTENDS ByteRecognizer

CONSTANTS
  Token,               \* the ids of the vocabulary that stand for bytes
  BytesOf,             \* the bytes of each
  EOS,                 \* the end-of-sequence id
  Unknown,             \* ids outside the vocabulary a caller may pass
  MaxRollback,         \* max_rollback of this guide
  MaxCommittedTokens,  \* RuntimeLimits.max_committed_tokens
  MaxMaskTrieEdges,    \* RuntimeLimits.max_mask_trie_edges
  Trial                \* the token sequences passed to accepts_tokens

Id == Token \cup {EOS}
CallerId == Id \cup Unknown

ASSUME VocabularyAssumption ==
  /\ IsFiniteSet(Token)
  /\ BytesOf \in [Token -> Seq(Byte) \ {<< >>}]
  /\ EOS \notin Token
  /\ Unknown \cap Id = {}
ASSUME GuideAssumption ==
  /\ MaxRollback \in Nat
  /\ MaxCommittedTokens \in Nat
  /\ MaxMaskTrieEdges \in Nat
  /\ Trial \subseteq Seq(CallerId)

VARIABLES
  guide,   \* the guide
  reply    \* the last call, its outcome and the mask it wrote

vars == <<guide, reply>>

Answer(call, out) == [call |-> call, out |-> out, mask |-> {}]

-----------------------------------------------------------------------------
(* Checkpoints of the guide. *)

\* checkpoint
CheckpointOf(g) ==
  [rec      |-> Checkpoint(g.rec),
   tokens   |-> Len(g.tokens),
   bytes    |-> Len(g.bytes),
   finished |-> g.finished]

\* Mutants of Retained: one checkpoint too many is kept, or the newest is lost.
RetainedOneTooMany(h, c) ==
  IF MaxRollback = 0 THEN h
  ELSE IF Len(h) <= MaxRollback THEN Append(h, c)
  ELSE Append(SubSeq(h, 2, Len(h)), c)

RetainedDropsNewest(h, c) ==
  IF MaxRollback = 0 THEN h
  ELSE IF Len(h) < MaxRollback THEN Append(h, c)
  ELSE Append(SubSeq(h, 1, Len(h) - 1), c)

\* retain_checkpoint: drop from the front until there is room for one more.
Retained(h, c) ==
  IF MaxRollback = 0 THEN h
  ELSE IF Len(h) < MaxRollback THEN Append(h, c)
  ELSE Append(SubSeq(h, Len(h) - MaxRollback + 2, Len(h)), c)

\* Mutants of Restored: the cached mask survives, an undone EOS is not undone,
\* or one token too few is taken back.
RestoredKeepsMask(g, c, h) ==
  [rec |-> Restore(g.rec, c.rec), tokens |-> SubSeq(g.tokens, 1, c.tokens),
   bytes |-> SubSeq(g.bytes, 1, c.bytes), finished |-> c.finished,
   history |-> h, cached |-> g.cached]

RestoredKeepsFinished(g, c, h) ==
  [rec |-> Restore(g.rec, c.rec), tokens |-> SubSeq(g.tokens, 1, c.tokens),
   bytes |-> SubSeq(g.bytes, 1, c.bytes), finished |-> g.finished,
   history |-> h, cached |-> {}]

RestoredKeepsToken(g, c, h) ==
  [rec |-> Restore(g.rec, c.rec),
   tokens |-> SubSeq(g.tokens, 1, IF c.tokens < Len(g.tokens) THEN c.tokens + 1 ELSE c.tokens),
   bytes |-> SubSeq(g.bytes, 1, c.bytes), finished |-> c.finished,
   history |-> h, cached |-> {}]

\* restore_guide, on a guide whose history is to become h.  Every caller drops
\* the cached mask.
Restored(g, c, h) ==
  [rec      |-> Restore(g.rec, c.rec),
   tokens   |-> SubSeq(g.tokens, 1, c.tokens),
   bytes    |-> SubSeq(g.bytes, 1, c.bytes),
   finished |-> c.finished,
   history  |-> h,
   cached   |-> {}]

\* from_compiled, from_index
NewGuide ==
  [rec |-> Fresh, tokens |-> << >>, bytes |-> << >>, finished |-> FALSE,
   history |-> << >>, cached |-> {}]

-----------------------------------------------------------------------------
(* Committing tokens. *)

\* The recognizer after token t, or the token index's transition on it.  The
\* index has neither an input limit nor table limits at run time.
Try(r, t) ==
  IF Backend # "dfa" THEN TryAdvance(r, BytesOf[t])
  ELSE IF Live(r.scans \o BytesOf[t])
       THEN [out |-> "live", rec |-> Fed(r, BytesOf[t])]
       ELSE [out |-> "rejected", rec |-> r]

\* Mutant of AdvanceOutcome: EOS is taken wherever there is room for it.
AdvanceOutcomeTakesEos(g, t) ==
  IF g.finished THEN "finished"
  ELSE IF Len(g.tokens) + 1 > MaxCommittedTokens THEN "limit"
  ELSE IF t = EOS THEN "ok"
  ELSE IF t \notin Token THEN "unknown"
  ELSE IF Try(g.rec, t).out = "limit" THEN "limit"
  ELSE IF Try(g.rec, t).out = "rejected" THEN "not_allowed"
  ELSE "ok"

\* advance: how it ends for id t, in the order of its checks.
AdvanceOutcome(g, t) ==
  IF g.finished THEN "finished"
  ELSE IF Len(g.tokens) + 1 > MaxCommittedTokens THEN "limit"
  ELSE IF t = EOS THEN IF IsAccepting(g.rec) THEN "ok" ELSE "eos_not_accepting"
  ELSE IF t \notin Token THEN IF Backend = "dfa" THEN "not_allowed" ELSE "unknown"
  ELSE IF Try(g.rec, t).out = "limit" THEN "limit"
  ELSE IF Try(g.rec, t).out = "rejected" THEN "not_allowed"
  ELSE "ok"

\* advance, once t is committed.  A guide over a token index has no vocabulary
\* to take the token's bytes from, so its committed_bytes stay empty.
Committed(g, t) ==
  [rec      |-> IF t = EOS THEN g.rec ELSE Try(g.rec, t).rec,
   tokens   |-> Append(g.tokens, t),
   bytes    |-> IF t = EOS \/ Backend = "dfa" THEN g.bytes ELSE g.bytes \o BytesOf[t],
   finished |-> t = EOS,
   history  |-> Retained(g.history, CheckpointOf(g)),
   cached   |-> {}]

\* advance, when it fails: at most the recognizer was tried.
Refused(g, t) ==
  IF ~g.finished /\ Len(g.tokens) < MaxCommittedTokens /\ t \in Token
  THEN [g EXCEPT !.rec = Try(g.rec, t).rec]
  ELSE g

Advanced(g, t) ==
  IF AdvanceOutcome(g, t) = "ok" THEN Committed(g, t) ELSE Refused(g, t)

\* One token of accepts_tokens, committed to its clone of the guide.
TrialStep(a, t) ==
  [ok |-> a.ok /\ AdvanceOutcome(a.g, t) = "ok", g |-> Advanced(a.g, t)]

\* The clone of g after the tokens of s, and whether it took all of them.
Tried(g, s) == FoldLeft(TrialStep, [ok |-> TRUE, g |-> g], s)

\* Mutant of AcceptsTokens: EOS is not excluded.
AcceptsTokensWithEos(g, s) == Tried(g, s).ok

\* accepts_tokens: a clone of the guide commits the tokens one by one.
AcceptsTokens(g, s) == (\A i \in 1..Len(s) : s[i] # EOS) /\ Tried(g, s).ok

-----------------------------------------------------------------------------
(* Masks. *)

\* The paths of the token trie, one for each edge: the prefixes of tokens.
TriePaths ==
  UNION {{SubSeq(BytesOf[t], 1, n) : n \in 1..Len(BytesOf[t])} : t \in Token}

\* How the traversal's advance over the last edge of path p ends.
EdgeOutcome(r, p) == ByteOutcome(Fed(r, Front(p)), Last(p))

\* The edges the traversal tries: those of the root, which it enters whether or
\* not anything is viable, and those below a node that it entered.
TriedEdges(r) == {p \in TriePaths : Len(p) = 1 \/ Live(r.scans \o Front(p))}

\* fill_structural_mask fails as a whole if one edge it tries hits a limit, or
\* if it tries too many.
TraversalFails(r) ==
  \/ Cardinality(TriedEdges(r)) > MaxMaskTrieEdges
  \/ \E p \in TriedEdges(r) : EdgeOutcome(r, p) = "limit"

\* The ids whose bit is set: by the traversal, those of every node entered; by
\* the token index, those with a transition.
EnabledTokens(r) ==
  IF Backend = "dfa" THEN {t \in Token : Live(r.scans \o BytesOf[t])}
  ELSE {t \in Token : \A n \in 1..Len(BytesOf[t]) :
                        EdgeOutcome(r, SubSeq(BytesOf[t], 1, n)) = "live"}

\* Mutant of MaskOf: a finished guide shows what could follow its text.
MaskOfFinished(g) ==
  EnabledTokens(g.rec) \cup (IF IsAccepting(g.rec) THEN {EOS} ELSE {})

MaskOf(g) ==
  IF g.finished THEN {}
  ELSE EnabledTokens(g.rec) \cup (IF IsAccepting(g.rec) THEN {EOS} ELSE {})

\* fill_mask: how it ends, and the guide afterwards.
FillOutcome(g) ==
  IF g.cached = {} /\ ~g.finished /\ Backend # "dfa" /\ TraversalFails(g.rec)
  THEN "limit" ELSE "ok"

Filled(g) ==
  IF FillOutcome(g) = "ok" /\ g.cached = {} THEN [g EXCEPT !.cached = {MaskOf(g)}] ELSE g

-----------------------------------------------------------------------------
(* The operations. *)

Init == guide = NewGuide /\ reply = Answer(<<"new">>, "ok")

Advance(t) ==
  /\ guide' = Advanced(guide, t)
  /\ reply' = Answer(<<"advance", t>>, AdvanceOutcome(guide, t))

\* The mask written is the cached one, or empty on an error.
FillMask ==
  /\ guide' = Filled(guide)
  /\ reply' = [call |-> <<"mask">>, out |-> FillOutcome(guide),
               mask |-> UNION Filled(guide).cached]

AskAcceptsTokens(s) ==
  /\ reply' = Answer(<<"accepts", s>>, IF AcceptsTokens(guide, s) THEN "yes" ELSE "no")
  /\ UNCHANGED guide

\* rollback.  The entries are popped before the recognizer is asked to restore.
Rollback(n) ==
  LET h == guide.history
      rest == SubSeq(h, 1, Len(h) - n)
      target == h[Len(h) - n + 1]
      ends(out) == reply' = Answer(<<"rollback", n>>, out)
  IN IF n = 0 THEN ends("ok") /\ UNCHANGED guide
     ELSE IF n > Len(h) THEN ends("unavailable") /\ UNCHANGED guide
     ELSE IF CanRestore(guide.rec, target.rec)
     THEN ends("ok") /\ guide' = Restored(guide, target, rest)
     ELSE ends("internal") /\ guide' = [guide EXCEPT !.history = rest]

Reset ==
  /\ guide' = Restored(guide, CheckpointOf(NewGuide), << >>)
  /\ reply' = Answer(<<"reset">>, "ok")

Next ==
  \/ \E t \in CallerId : Advance(t)
  \/ FillMask
  \/ \E s \in Trial : AskAcceptsTokens(s)
  \/ \E n \in 0..MaxRollback + 1 : Rollback(n)
  \/ Reset

Spec == Init /\ [][Next]_vars

-----------------------------------------------------------------------------
(* Properties. *)

Outcomes ==
  {"ok", "yes", "no", "finished", "limit", "eos_not_accepting", "unknown",
   "not_allowed", "unavailable", "internal"}

HistoryEntry ==
  [rec : RecognizerCheckpoint, tokens : Nat, bytes : Nat, finished : BOOLEAN]

\* Every field stays in its type; in particular the recognizer of an idle guide
\* always has its scans.
TypeOK ==
  /\ guide \in [rec      : [columns : Seq(Byte), scans : Seq(Byte), position : Nat],
                tokens   : Seq(Id),
                bytes    : Seq(Byte),
                finished : BOOLEAN,
                history  : Seq(HistoryEntry),
                cached   : {{}} \cup {{m} : m \in SUBSET Id}]
  /\ reply.out \in Outcomes
  /\ reply.mask \subseteq Id

\* The tables of the recognizer, its scans and the committed bytes all stand for
\* the same text (engine.rs:1189-1295; earley.rs:577-596: the chart is only
\* truncated, so the restored scans must belong to the columns kept).
TablesMatchText ==
  /\ guide.rec.columns = guide.rec.scans
  /\ guide.rec.position = Len(guide.rec.scans)
  /\ guide.bytes = IF Backend = "dfa" THEN << >> ELSE guide.rec.scans

\* The checkpoints are those of the last commits, each one token and one
\* token's bytes apart, none of a finished guide, and the scans each of them
\* stores belong to the columns it will truncate the chart to.
HistoryIsTheNewestCommits ==
  LET h == guide.history
      n == Len(h)
      textAt(i) == IF i > n THEN guide.rec.scans ELSE h[i].rec.scans
  IN /\ n <= MaxRollback
     /\ n <= Len(guide.tokens)
     /\ \A i \in 1..n :
          LET t == guide.tokens[h[i].tokens + 1]
          IN /\ h[i].tokens = Len(guide.tokens) - n + i - 1
             /\ ~h[i].finished
             /\ textAt(i + 1) = IF t = EOS THEN textAt(i) ELSE textAt(i) \o BytesOf[t]
             /\ h[i].bytes = IF Backend = "dfa" THEN 0 ELSE Len(textAt(i))
             /\ CanRestore(guide.rec, h[i].rec)
             /\ Restore(guide.rec, h[i].rec) =
                  [columns |-> textAt(i), scans |-> textAt(i), position |-> Len(textAt(i))]

\* Committed tokens never spell something the schema cannot complete (a schema
\* that accepts nothing has a guide too, on which nothing commits), and a
\* finished guide has spelled a complete document, ended by its one EOS
\* (README.md: exact constrained decoding).
DecodedTextIsViable ==
  LET ends == {i \in 1..Len(guide.tokens) : guide.tokens[i] = EOS}
  IN /\ guide.tokens # << >> => Live(guide.rec.scans)
     /\ guide.finished => Accepting(guide.rec.scans)
     /\ ends = IF guide.finished THEN {Len(guide.tokens)} ELSE {}

\* A cached mask is the mask of the CURRENT state: an id's bit is set exactly if
\* committing that id would succeed (README.md, "a token bit is exact"), the
\* bound on committed tokens aside, which masks do not show.
CachedMaskIsExact ==
  Len(guide.tokens) < MaxCommittedTokens =>
    \A m \in guide.cached, t \in Id : t \in m <=> AdvanceOutcome(guide, t) = "ok"

\* Text w and the bytes of the tokens of s after it.
Spelling(w, s) == FoldLeft(LAMBDA v, t : IF t \in Token THEN v \o BytesOf[t] ELSE v, w, s)

\* accepts_tokens says yes exactly to the sequences whose bytes the schema can
\* still complete, within the limits of the run.
TrialsAreExact ==
  \A s \in Trial :
    LET bytes == Spelling(guide.rec.scans, s)
        known == \A i \in 1..Len(s) : s[i] \in Token
        room == /\ Len(guide.tokens) + Len(s) <= MaxCommittedTokens
                /\ Backend = "dfa" \/ Len(bytes) <= MaxInputBytes
                /\ \A i \in 1..Len(bytes) : <<SubSeq(bytes, 1, i - 1), bytes[i]>> \notin Overflow
    IN s # << >> /\ room =>
         (AcceptsTokens(guide, s) <=> known /\ ~guide.finished /\ Live(bytes))

\* A call that reports an error has changed nothing, the history included
\* ("rejected tokens leave the state unchanged", README.md:149).
FailureChangesNothing ==
  [][reply'.out # "ok" => UNCHANGED guide]_vars

\* rollback(n) takes back exactly the last n tokens ("rollback counts committed
\* tokens rather than parser bytes", README.md:150), and is refused only when
\* fewer are remembered.
RollbackCountsTokens ==
  [][\A n \in 1..MaxRollback + 1 : Rollback(n) =>
       IF n <= Len(guide.history)
       THEN /\ reply'.out = "ok"
            /\ guide'.tokens = SubSeq(guide.tokens, 1, Len(guide.tokens) - n)
            /\ Len(guide'.history) = Len(guide.history) - n
       ELSE UNCHANGED guide]_vars

\* The guide implements the promise made to a decoding loop.
Promise ==
  INSTANCE GuidePromise WITH
    Id <- CallerId,
    text <- guide.rec.scans,
    done <- guide.finished,
    past <- [i \in 1..Len(guide.history) |->
               [text |-> guide.history[i].rec.scans,
                done |-> guide.history[i].finished]],
    reply <- reply

KeepsPromise == Promise!Spec
============================================================================
