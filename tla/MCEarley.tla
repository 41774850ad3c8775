------------------------------ MODULE MCEarley ------------------------------
(***************************************************************************)
(* Earley over small grammars: every reduced grammar with one nonterminal  *)
(* and at most three rules from a pool, and the grammars with two that the *)
(* code has to be careful about.                                           *)
(***************************************************************************)
EXTENDS Earley

\* Three literals, and a DFA for a and aa.
MCTerminals == <<"ta", "tab", "taa", "tb">>

MCWords ==
  [t \in ToSet(MCTerminals) |->
     CASE t = "ta" -> {<<"a">>}
       [] t = "tab" -> {<<"a", "b">>}
       [] t = "taa" -> {<<"a">>, <<"a", "a">>}
       [] t = "tb" -> {<<"b">>}]

Pool == << << >>, <<"ta">>, <<"tab">>, <<"taa">>, <<"S", "S">>, <<"S", "ta">>, <<"ta", "S">>,
           <<"ta", "S", "tb">> >>

\* The grammars with the right-hand sides of Pool numbered by a set, in order.
OfPool(chosen) ==
  LET numbers == SetToSortSeq(chosen, <)
  IN [start |-> "S",
      rules |-> [i \in 1..Len(numbers) |-> [lhs |-> "S", rhs |-> Pool[numbers[i]]]]]

MCOneNonterminal ==
  {OfPool(chosen) : chosen \in {c \in SUBSET (1..Len(Pool)) :
                                  Cardinality(c) \in 1..3 /\ c \cap 1..4 # {}}}

Rule(A, rhs) == [lhs |-> A, rhs |-> rhs]
From(rules) == [start |-> "S", rules |-> rules]

\* A nullable chain and a nullable cycle; an empty completion before its waiter
\* (twice the same nullable); hidden left recursion; Leo chains through two
\* nonterminals, through a unit rule, and broken by a nullable tail; a middle
\* recursion whose completions come back to column 0.
MCTwoNonterminals ==
  {From(<<Rule("S", <<"T", "ta">>), Rule("T", <<"S">>), Rule("T", << >>)>>),
   From(<<Rule("S", <<"T", "tb">>), Rule("T", <<"T">>), Rule("T", <<"T", "T">>), Rule("T", << >>)>>),
   From(<<Rule("S", <<"T", "T", "ta">>), Rule("T", << >>), Rule("T", <<"taa">>)>>),
   From(<<Rule("S", <<"T", "S", "tb">>), Rule("S", <<"ta">>), Rule("T", << >>), Rule("T", <<"ta">>)>>),
   From(<<Rule("S", <<"ta", "T">>), Rule("T", <<"tb", "S">>), Rule("T", << >>), Rule("S", <<"taa">>)>>),
   From(<<Rule("S", <<"T">>), Rule("T", <<"ta", "S">>), Rule("T", <<"tb">>)>>),
   From(<<Rule("S", <<"ta", "S", "T">>), Rule("S", <<"tb">>), Rule("T", << >>)>>),
   From(<<Rule("S", <<"ta", "T">>), Rule("S", <<"tab", "S">>), Rule("T", <<"S">>), Rule("T", <<"tb">>)>>),
   From(<<Rule("S", <<"ta", "S", "tb">>), Rule("S", <<"T">>), Rule("T", <<"T", "ta">>), Rule("T", <<"tb">>)>>)}

MCGrammars == MCOneNonterminal \cup MCTwoNonterminals

\* Limits nothing reaches, limits that stop the agenda at many places, and limits
\* that leave no room for the start item.
MCLimits ==
  {[columns |-> 5, columnItems |-> 40, items |-> 100, scans |-> 10, leo |-> 20],
   [columns |-> 4, columnItems |-> 8, items |-> 22, scans |-> 2, leo |-> 2],
   [columns |-> 4, columnItems |-> 8, items |-> 0, scans |-> 2, leo |-> 2]}

MCChunk == {<<"a">>, <<"b">>, <<"a", "b">>}
=============================================================================
