------------------------------- MODULE Grammar -------------------------------
(***************************************************************************)
(* The grammar a schema is lowered to, as the compiler passes it along:    *)
(* nonterminals and terminals with numbered ids, and rules.  A terminal is *)
(* a regular language; whether the compiler also knows a pattern for its   *)
(* reversal matters to certification.                                      *)
(*                                                                         *)
(* Passes that drop symbols renumber the others in their order.  Here they *)
(* keep their number.                                                      *)
(***************************************************************************)
EXTENDS BoundedLanguage

CONSTANTS
  Byte,
  Words,       \* the words of each terminal, by its id
  Reversible   \* the terminals with a reverse pattern

ASSUME GrammarAssumption ==
  /\ Words \in Seq(SUBSET (Seq(Byte) \ {<< >>}))
  /\ Reversible \subseteq 1..Len(Words)

Nonterminal(A) == [kind |-> "nonterminal", id |-> A]
Terminal(t) == [kind |-> "terminal", id |-> t]

\* A terminal compiled from the expression of a whole nonterminal.
Region(A) == [kind |-> "region", id |-> A]

NonterminalsIn(rhs) == {X.id : X \in {X \in ToSet(rhs) : X.kind = "nonterminal"}}

Symbol == [kind : {"nonterminal", "terminal", "region"}, id : Nat]

\* A grammar is [start, nonterminals, rules]; a rule is [lhs, rhs].
IsGrammar(g) ==
  /\ g.start \in g.nonterminals
  /\ g.nonterminals \subseteq Nat \ {0} /\ IsFiniteSet(g.nonterminals)
  /\ g.rules \in Seq([lhs : g.nonterminals, rhs : Seq(Symbol)])
  /\ \A i \in 1..Len(g.rules) : NonterminalsIn(g.rules[i].rhs) \subseteq g.nonterminals

\* productions_for
RulesOf(g, A) == {r \in ToSet(g.rules) : r.lhs = A}

-----------------------------------------------------------------------------
(* What a grammar derives, for reference: the strings of at most n bytes,  *)
(* by trees of height 0, 1, 2 and so on.  regions gives the words of the   *)
(* collapsed nonterminals.                                                 *)

StringsOf(X, L, regions) ==
  CASE X.kind = "terminal" -> Words[X.id]
    [] X.kind = "region" -> regions[X.id]
    [] X.kind = "nonterminal" -> L[X.id]

DerivedFrom(rhs, L, regions, n) ==
  FoldLeft(LAMBDA S, X : Concatenated(S, StringsOf(X, L, regions), n), {<< >>}, rhs)

Derivations(g, regions, n) ==
  Stabilised(LAMBDA L : [A \in g.nonterminals |->
                           UNION {DerivedFrom(r.rhs, L, regions, n) : r \in RulesOf(g, A)}],
             [A \in g.nonterminals |-> {}],
             (n + 1) * Cardinality(g.nonterminals))
=============================================================================
