------------------------------ MODULE PyGuide -------------------------------
(***************************************************************************)
(* The Python class Guide: a guide, and what it takes to build it again.   *)
(* Two of its methods are more than a call of the Rust guide: advance()    *)
(* goes on to compute the next token set unless told not to, and pickling  *)
(* writes the committed tokens, not the state, so that unpickling replays  *)
(* them on a new guide.                                                    *)
(***************************************************************************)
EXTENDS Guide

\* Mutant of AdvanceReturningTokens: the mask is that of the state before.
AdvanceReturningOldTokens(t) ==
  IF AdvanceOutcome(guide, t) # "ok" THEN Advance(t)
  ELSE /\ guide' = Advanced(guide, t)
       /\ reply' = [call |-> <<"advance", t>>, out |-> FillOutcome(guide),
                    mask |-> UNION Filled(guide).cached]

\* advance(token_id, return_tokens=True): the error of either half is the
\* error of the call.
AdvanceReturningTokens(t) ==
  LET g == Advanced(guide, t)
  IN IF AdvanceOutcome(guide, t) # "ok" THEN Advance(t)
     ELSE /\ guide' = Filled(g)
          /\ reply' = [call |-> <<"advance", t>>, out |-> FillOutcome(g),
                       mask |-> UNION Filled(g).cached]

\* Mutant of Replayed: EOS is not replayed, finished is not restored.
ReplayedWithoutEos(s) ==
  LET step(a, t) == [ok |-> a.ok /\ (t = EOS \/ AdvanceOutcome(a.g, t) = "ok"),
                     g  |-> IF t = EOS THEN a.g ELSE Advanced(a.g, t)]
  IN FoldLeft(step, [ok |-> TRUE, g |-> NewGuide], s)

\* The tokens committed to a new guide, one by one.
Replayed(s) == Tried(NewGuide, s)

\* __reduce__ then from_binary: the copy takes over.  It is refused if a token
\* fails, or if the copy is not finished exactly when the original was.
Pickle ==
  LET copy == Replayed(guide.tokens)
  IN IF copy.ok /\ (copy.g.finished <=> guide.finished)
     THEN guide' = copy.g /\ reply' = Answer(<<"pickle">>, "ok")
     ELSE UNCHANGED guide /\ reply' = Answer(<<"pickle">>, "inconsistent")

PyNext ==
  \/ \E t \in CallerId : Advance(t) \/ AdvanceReturningTokens(t)
  \/ FillMask
  \/ \E s \in Trial : AskAcceptsTokens(s)
  \/ \E n \in 0..MaxRollback + 1 : Rollback(n)
  \/ Reset
  \/ Pickle

PySpec == Init /\ [][PyNext]_vars

-----------------------------------------------------------------------------

\* A guide and its unpickled copy decode alike: same committed tokens, same
\* recognizer, same mask (tests/test_structural_pickle.py:36-42).  Not what they can
\* undo: the copy has the history of a guide that committed the tokens and never
\* rolled back, and can undo more after a rollback from a full history.
PickleKeepsDecoding ==
  [][Pickle => /\ reply'.out = "ok"
               /\ guide'.tokens = guide.tokens
               /\ guide'.rec = guide.rec
               /\ guide'.bytes = guide.bytes
               /\ guide'.finished = guide.finished
               /\ Len(guide'.history) = Min({Len(guide.tokens), MaxRollback})]_vars

\* The list advance() returns is the set of ids that the next advance() takes.
ReturnedTokensAreExact ==
  [][reply'.call[1] = "advance" /\ reply'.mask # {} =>
       \A t \in Id : Len(guide'.tokens) < MaxCommittedTokens =>
         (t \in reply'.mask <=> AdvanceOutcome(guide', t) = "ok")]_vars

\* "Transactions: restores the previous state after rejection or a
\* runtime-limit error" (README.md:45), of the calls a Python caller makes.
FailedCallChangesNothing ==
  [][reply'.out \in {"limit", "not_allowed"} => UNCHANGED guide]_vars
============================================================================
