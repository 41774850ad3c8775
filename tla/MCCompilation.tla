---------------------------- MODULE MCCompilation ----------------------------
(***************************************************************************)
(* Compilation of every grammar of three nonterminals with one of a few    *)
(* lists of alternatives for each: linear either way, both ways or neither *)
(* way, nullable, without a word, with a nonterminal twice in a rule, and  *)
(* in cycles over two and three nonterminals.                              *)
(***************************************************************************)
EXTENDS Compilation

\* a, b, and a pattern whose reversal is not known.
MCWords == << {<<"a">>}, {<<"b">>}, {<<"a", "b">>} >>
MCReversible == {1, 2}

a == Terminal(1)
b == Terminal(2)
ab == Terminal(3)
S == Nonterminal(1)
T == Nonterminal(2)
U == Nonterminal(3)

AlternativesOfS ==
  { << <<T>> >>, << <<a, T, b>>, <<U>> >>, << <<T, U>> >>, << <<a, S, b>>, <<T>> >>,
    << <<S, a>>, <<U>> >>, << <<T, T>>, <<b, U, S>> >> }

AlternativesOfT ==
  { << <<a, T>>, <<b>> >>, << <<T, ab>>, <<a>> >>, << <<U, b>>, << >> >>, << <<T, T>>, <<a>> >>,
    << <<T, a>> >>, << << >>, <<a, U>> >>, << <<T, a>>, <<ab, b>> >>, << <<S, a>>, <<b>> >> }

AlternativesOfU ==
  { << <<a>> >>, << << >> >>, << <<U>> >>, << <<T, b>>, <<a>> >>, << <<a, U, b>>, << >> >>,
    << <<S>>, <<a>> >>, << <<b, T>> >> }

RulesFor(A, alternatives) ==
  [i \in DOMAIN alternatives |-> [lhs |-> A, rhs |-> alternatives[i]]]

MCGrammars ==
  {[start |-> 1, nonterminals |-> 1..3,
    rules |-> RulesFor(1, s) \o RulesFor(2, t) \o RulesFor(3, u)] :
   s \in AlternativesOfS, t \in AlternativesOfT, u \in AlternativesOfU}
=============================================================================
