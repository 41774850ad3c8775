---------------------------- MODULE MCDocuments -----------------------------
(***************************************************************************)
(* The instance the recognizer and guide runs share: the recursive schema  *)
(* of tests/test_structural_checkpoints.py in miniature.  "n" is a         *)
(* complete value, "o" opens a level and "c" closes it.  "n" may be        *)
(* followed by a "c", so that EOS and a byte are legal at once.            *)
(***************************************************************************)
EXTENDS Sequences

MCLanguage ==
  {<<"n">>, <<"n", "c">>, <<"o", "n", "c">>, <<"o", "o", "n", "c", "c">>}

\* One table limit, met in the middle of a document.
MCOverflow == {<< <<"o", "o">>, "n">>}
MCNoOverflow == {}

\* Chunks that end on a boundary, fail on their first byte, and fail half-way.
MCChunk == {<<"n">>, <<"o">>, <<"c">>, <<"o", "o", "n">>, <<"n", "c", "n">>}

\* A token that spans a level, two ids with the same bytes, and a token that no
\* document contains.
MCToken == {"n", "o", "on", "n2", "c", "nn"}

MCBytesOf ==
  [t \in MCToken |->
     CASE t = "n" -> <<"n">>
       [] t = "n2" -> <<"n">>
       [] t = "o" -> <<"o">>
       [] t = "on" -> <<"o", "n">>
       [] t = "c" -> <<"c">>
       [] t = "nn" -> <<"n", "n">>]

MCTrial ==
  {<< >>, <<"on", "c">>, <<"o", "n", "c">>, <<"n", "eos">>, <<"c">>, <<"n", "nn">>}
============================================================================
