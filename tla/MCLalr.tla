------------------------------- MODULE MCLalr -------------------------------
(***************************************************************************)
(* Lalr over small grammars: every grammar with one nonterminal and at     *)
(* most three rules from a pool, lexically unsafe ones among them, and the *)
(* grammars that tell LALR(1) from what is weaker and stronger.            *)
(***************************************************************************)
EXTENDS Lalr

\* Three letters, a literal that begins like one of them, and the DFAs of ca or
\* cbb, and of a or aa.
MCTerminals == <<"ta", "tb", "tc", "tab", "tcx", "taa">>

MCWords ==
  [t \in ToSet(MCTerminals) |->
     CASE t = "ta" -> {<<"a">>}
       [] t = "tb" -> {<<"b">>}
       [] t = "tc" -> {<<"c">>}
       [] t = "tab" -> {<<"a", "b">>}
       [] t = "tcx" -> {<<"c", "a">>, <<"c", "b", "b">>}
       [] t = "taa" -> {<<"a">>, <<"a", "a">>}]

Pool == << << >>, <<"tb">>, <<"tab">>, <<"tcx">>, <<"taa">>, <<"S", "ta">>, <<"ta", "S">>,
           <<"ta", "S", "tb">>, <<"tab", "S", "S">> >>

\* The grammars with the right-hand sides of Pool numbered by a set, in order.
OfPool(chosen) ==
  LET numbers == SetToSortSeq(chosen, <)
  IN [start |-> "S",
      rules |-> [i \in 1..Len(numbers) |-> [lhs |-> "S", rhs |-> Pool[numbers[i]]]]]

MCOneNonterminal ==
  {OfPool(chosen) : chosen \in {c \in SUBSET (1..Len(Pool)) :
                                  Cardinality(c) \in 1..3 /\ c \cap 1..5 # {}}}

Rule(A, rhs) == [lhs |-> A, rhs |-> rhs]
From(rules) == [start |-> "S", rules |-> rules]

\* LALR(1) but not SLR(1); LR(1) but not LALR(1); a nullable between terminals;
\* nullables one after another; a reduction through a unit rule; a nullable that
\* makes the stack grow at the end of the input; arrays with commas; the same
\* rule twice.
MCSeveral ==
  {From(<<Rule("S", <<"T", "tb">>), Rule("S", <<"ta">>), Rule("T", <<"U", "tc", "T">>),
          Rule("T", <<"U">>), Rule("U", <<"ta", "tb">>)>>),
   From(<<Rule("S", <<"T", "ta">>), Rule("S", <<"ta", "T", "tb">>), Rule("S", <<"tcx", "tb">>),
          Rule("S", <<"ta", "tcx", "ta">>), Rule("T", <<"tcx">>)>>),
   From(<<Rule("S", <<"T", "ta">>), Rule("S", <<"tb", "T", "tc">>), Rule("S", <<"tb", "ta">>),
          Rule("T", <<"tab">>)>>),
   From(<<Rule("S", <<"T", "ta">>), Rule("S", <<"tb", "T", "tc">>), Rule("S", <<"U", "tc">>),
          Rule("S", <<"tb", "U", "ta">>), Rule("T", <<"tcx">>), Rule("U", <<"tcx">>)>>),
   From(<<Rule("S", <<"T", "ta">>), Rule("S", <<"tb", "T", "tb">>), Rule("S", <<"U", "tb">>),
          Rule("S", <<"tb", "U", "ta">>), Rule("T", <<"tcx">>), Rule("U", <<"tcx">>)>>),
   From(<<Rule("S", <<"T", "ta">>), Rule("S", <<"tc", "ta", "T">>), Rule("S", <<"tb">>),
          Rule("T", << >>)>>),
   From(<<Rule("S", <<"ta", "T", "U">>), Rule("T", <<"tb">>), Rule("T", << >>),
          Rule("U", <<"tcx">>), Rule("U", << >>)>>),
   From(<<Rule("S", <<"T">>), Rule("T", <<"ta", "U", "tb">>), Rule("U", << >>), Rule("U", <<"T">>),
          Rule("U", <<"U", "tc", "T">>)>>),
   From(<<Rule("S", <<"ta", "S", "T">>), Rule("S", <<"tb">>), Rule("T", << >>), Rule("T", <<"tcx">>)>>),
   From(<<Rule("S", <<"ta", "T", "tb">>), Rule("T", <<"S", "U">>), Rule("T", << >>),
          Rule("U", <<"tc", "S", "U">>), Rule("U", << >>)>>),
   From(<<Rule("S", <<"ta">>), Rule("S", <<"ta">>)>>)}

MCGrammars == MCOneNonterminal \cup MCSeveral

\* Limits nothing reaches, and limits that stop some constructions, or else the
\* recognizer.
MCLimits ==
  {[states |-> 60, items |-> 400, actions |-> 100, gotos |-> 50, conflicts |-> 30,
    stack |-> 12, scans |-> 6],
   [states |-> 12, items |-> 40, actions |-> 20, gotos |-> 5, conflicts |-> 1,
    stack |-> 4, scans |-> 2]}

MCChunk == {<<"a">>, <<"b">>, <<"c">>, <<"a", "b">>, <<"c", "b">>}
=============================================================================
