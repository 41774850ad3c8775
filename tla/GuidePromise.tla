---------------------------- MODULE GuidePromise ----------------------------
(***************************************************************************)
(* What a Guide promises a decoding loop, whichever backend drives it:     *)
(* "Mask queries are pure, rejected tokens leave the state unchanged, and  *)
(* rollback counts committed tokens" (README.md:149).  The state is the    *)
(* text decoded so far, and the snapshots that rollback may return to.     *)
(***************************************************************************)
EXTENDS ByteLanguage

CONSTANTS
  Token,        \* the ids of the vocabulary that stand for bytes
  BytesOf,      \* the bytes of each
  EOS,          \* the end-of-sequence id
  Id,           \* the ids a caller may pass
  Trial,        \* the sequences passed to accepts_tokens
  MaxRollback   \* how many tokens may be undone

VARIABLES
  text,    \* the bytes of the tokens committed
  done,    \* whether EOS was committed
  past,    \* the snapshots rollback can return to, oldest first
  reply    \* the last call, its outcome, and the mask it wrote

vars == <<text, done, past, reply>>

Answer(call, out) == [call |-> call, out |-> out, mask |-> {}]

Unchanged == UNCHANGED <<text, done, past>>

\* The ids that may follow.
Legal ==
  IF done THEN {}
  ELSE {t \in Token : Live(text \o BytesOf[t])}
         \cup (IF Accepting(text) THEN {EOS} ELSE {})

Init ==
  /\ text = << >>
  /\ done = FALSE
  /\ past = << >>
  /\ reply = Answer(<<"new">>, "ok")

\* The newest n of a sequence of snapshots.
Newest(s, n) == SubSeq(s, Len(s) - n + 1, Len(s))

\* The snapshots after one more commit: the oldest goes once there are
\* MaxRollback.
Remembered ==
  LET grown == Append(past, [text |-> text, done |-> done])
  IN IF MaxRollback = 0 THEN past
     ELSE IF Len(past) < MaxRollback THEN grown
     ELSE Newest(grown, MaxRollback)

Commit(t) ==
  /\ t \in Legal
  /\ past' = Remembered
  /\ done' = (t = EOS)
  /\ text' = IF t = EOS THEN text ELSE text \o BytesOf[t]
  /\ reply' = Answer(<<"advance", t>>, "ok")

\* An id is refused, as not to the point, only if it is not legal.
Refuse(t) ==
  /\ t \notin Legal
  /\ \E e \in {"finished", "eos_not_accepting", "unknown", "not_allowed"} :
       reply' = Answer(<<"advance", t>>, e)
  /\ Unchanged

\* A mask says exactly which ids Commit would take.
Mask ==
  /\ reply' = [call |-> <<"mask">>, out |-> "ok", mask |-> Legal]
  /\ Unchanged

\* The resources of the run may be exhausted, in an advance or a mask.
OverLimit ==
  /\ \/ \E t \in Id : reply' = Answer(<<"advance", t>>, "limit")
     \/ reply' = Answer(<<"mask">>, "limit")
  /\ Unchanged

\* accepts_tokens answers a question and commits nothing.
Try(s) ==
  /\ \E answer \in {"yes", "no"} : reply' = Answer(<<"accepts", s>>, answer)
  /\ Unchanged

\* n tokens are taken back, or all of them stand because not as many are
\* remembered.
Undo(n) ==
  IF n = 0 THEN reply' = Answer(<<"rollback", n>>, "ok") /\ Unchanged
  ELSE IF n > Len(past)
  THEN reply' = Answer(<<"rollback", n>>, "unavailable") /\ Unchanged
  ELSE /\ text' = past[Len(past) - n + 1].text
       /\ done' = past[Len(past) - n + 1].done
       /\ past' = SubSeq(past, 1, Len(past) - n)
       /\ reply' = Answer(<<"rollback", n>>, "ok")

Restart ==
  /\ text' = << >>
  /\ done' = FALSE
  /\ past' = << >>
  /\ reply' = Answer(<<"reset">>, "ok")

Next ==
  \/ \E t \in Id : Commit(t) \/ Refuse(t)
  \/ Mask
  \/ OverLimit
  \/ \E s \in Trial : Try(s)
  \/ \E n \in 0..MaxRollback + 1 : Undo(n)
  \/ Restart

Spec == Init /\ [][Next]_vars
============================================================================
