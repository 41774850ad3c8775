----------------------------- MODULE Compilation -----------------------------
(***************************************************************************)
(* From a lowered grammar to a recognizer: reduce, analyze_sccs,           *)
(* certify_regular, and then the choice of a backend under a policy.  A    *)
(* regular language becomes one DFA.  Otherwise the certified nonterminals *)
(* are collapsed into terminals, and an LALR table is built for what is    *)
(* left, or the Earley recognizer takes it.                                *)
(*                                                                         *)
(* Whether an automaton, the residual grammar, a table or the Earley       *)
(* recognizer stays within its limits, and whether a table has conflicts,  *)
(* is left open here; Lalr and Earley have the constructions.              *)
(***************************************************************************)
EXTENDS Certification

VARIABLE backend   \* the answer, under which policy, and the residual grammar

vars == <<given, grammar, reduction, scc, cert, backend>>

\* BackendPolicy
Policies == {"auto", "dfa", "lalr", "earley"}

\* No backend: refused for a limit, unavailable under the policy, or an error
\* the code calls internal.
NoBackend == {"refused", "unavailable", "internal"}

-----------------------------------------------------------------------------
(* build_residual. *)

\* productive_nonterminals_for_empty
Nullable ==
  LET over(found) == {r.lhs : r \in {r \in ToSet(grammar.rules) :
                                       ToSet(r.rhs) \subseteq {Nonterminal(A) : A \in found}}}
  IN FoldLeft(LAMBDA found, k : over(found), {}, [k \in 1..Cardinality(grammar.nonterminals) |-> k])

\* Mutant of RetainedByResidual: a nullable nonterminal is collapsed like another.
RetainedByResidualNotNullable ==
  {A \in grammar.nonterminals : ~IsCertified(A)} \cup {grammar.start}

\* What stays a nonterminal: what has no expression, the start, and of what these
\* mention, in turn, the nullable: a terminal cannot be the empty string.
RetainedByResidual ==
  LET nullable == Nullable
      mentionedBy(kept) ==
        UNION {NonterminalsIn(r.rhs) : r \in {r \in ToSet(grammar.rules) : r.lhs \in kept}}
  IN FoldLeft(LAMBDA kept, k : kept \cup (nullable \cap mentionedBy(kept)),
              {A \in grammar.nonterminals : ~IsCertified(A)} \cup {grammar.start},
              [k \in 1..Cardinality(grammar.nonterminals) |-> k])

\* Rule r with the nonterminals collapsed that are not retained.
Collapsed(r, retained) ==
  [lhs |-> r.lhs,
   rhs |-> [k \in DOMAIN r.rhs |->
              IF r.rhs[k].kind = "nonterminal" /\ r.rhs[k].id \notin retained
              THEN Region(r.rhs[k].id) ELSE r.rhs[k]]]

ResidualRules(retained) ==
  FoldLeft(LAMBDA rules, r : IF r.lhs \in retained THEN Append(rules, Collapsed(r, retained)) ELSE rules,
           << >>, grammar.rules)

Residual ==
  [start        |-> grammar.start,
   nonterminals |-> RetainedByResidual,
   rules        |-> ResidualRules(RetainedByResidual)]

RegionsIn(g) ==
  {X.id : X \in {X \in UNION {ToSet(g.rules[i].rhs) : i \in DOMAIN g.rules} : X.kind = "region"}}

RegionWords == [A \in DOMAIN cert.expressions |-> cert.expressions[A].words]

\* compile_terminal accepts every region.
RegionsCompile(g) ==
  \A A \in RegionsIn(g) : IsCertified(A) /\ << >> \notin cert.expressions[A].words

-----------------------------------------------------------------------------

Begin ==
  /\ Init
  /\ scc = NoScc
  /\ cert = NoCert
  /\ backend = [answer |-> "none"]

Answered(policy, answer, residual) == [policy |-> policy, answer |-> answer, residual |-> residual]

\* The choice in prepare.  A certified language is compiled to a DFA whatever the
\* policy, and a limit met there ends the compilation under every policy.
Selected(policy, certified, residual, dfaFits, residualFits, table, earleyFits) ==
  CASE certified /\ ~dfaFits -> [policy |-> policy, answer |-> "refused"]
    [] ~certified /\ policy = "dfa" -> [policy |-> policy, answer |-> "unavailable"]
    [] certified /\ dfaFits /\ policy \in {"auto", "dfa"} -> [policy |-> policy, answer |-> "dfa"]
    [] OTHER ->
         IF ~residualFits THEN [policy |-> policy, answer |-> "refused"]
         ELSE IF ~RegionsCompile(residual) THEN [policy |-> policy, answer |-> "internal"]
         ELSE CASE policy \in {"auto", "lalr"} /\ table = "usable" -> Answered(policy, "lalr", residual)
                [] policy = "lalr" /\ table = "unusable" -> [policy |-> policy, answer |-> "unavailable"]
                [] policy = "lalr" /\ table = "limit" -> [policy |-> policy, answer |-> "refused"]
                [] OTHER -> IF earleyFits THEN Answered(policy, "earley", residual) ELSE [policy |-> policy, answer |-> "refused"]

SelectBackend ==
  /\ scc.at = "done" /\ DOMAIN cert.outcome = scc.components
  /\ backend.answer = "none"
  /\ LET residual == Residual
     IN \E policy \in Policies, dfaFits, residualFits, earleyFits \in BOOLEAN,
           table \in {"usable", "unusable", "limit"} :
          backend' = Selected(policy, IsCertified(grammar.start), residual,
                              dfaFits, residualFits, table, earleyFits)
  /\ UNCHANGED <<given, grammar, reduction, scc, cert>>

Next ==
  \/ ReduceStep /\ UNCHANGED <<scc, cert, backend>>
  \/ SccStep /\ UNCHANGED <<cert, backend>>
  \/ (\E C \in scc.components : CertifyComponent(C)) /\ UNCHANGED backend
  \/ SelectBackend

Spec == Begin /\ [][Next]_vars

-----------------------------------------------------------------------------

\* For reference: what every nonterminal of the lowered grammars derives.
Derived == [g \in Grammars |-> Derivations(g, << >>, MaxLength)]

LanguageOf(g) == Derivations(g, RegionWords, MaxLength)[g.start]

\* The reduction drops nothing that is needed: no rule kept mentions what was
\* dropped, though reachability is computed over the rules that go as well, and
\* the language is the language given.
ReductionKeepsLanguage ==
  reduction.at = "done" /\ scc.at = "idle" =>
    /\ IsGrammar(grammar)
    /\ LanguageOf(grammar) = Derived[given][given.start]

\* The loop over the components never finds all that are left waiting for each
\* other, an error the code calls internal.
CertificationProceeds ==
  scc.at = "done" /\ DOMAIN cert.outcome # scc.components =>
    \E C \in scc.components \ DOMAIN cert.outcome : External(C) \subseteq DOMAIN cert.outcome

\* Tarjan's components are the classes of mutually reachable nonterminals, the
\* recursive ones are those with a cycle, and certification, which takes one when
\* all that it mentions have an outcome, gets to all of them.
ComponentsAreClasses ==
  scc.at = "done" =>
    /\ UNION scc.components = grammar.nonterminals
    /\ \A A \in grammar.nonterminals :
         ComponentOf(A) = {A} \cup {B \in Reaches(A) : A \in Reaches(B)}
    /\ \A C \in scc.components : IsRecursive(C) <=> \E A \in C : A \in Reaches(A)
    /\ CertificationProceeds

\* An expression found for a nonterminal stands for exactly what it derives.
CertificatesAreExact ==
  \A A \in DOMAIN cert.expressions : cert.expressions[A].words = Derived[given][A]

\* The backend chosen reads the language of the grammar that was lowered: the
\* expression compiled to a DFA, or the residual grammar with its regions.  No
\* choice ends in an error the code calls internal, auto is never told that a
\* backend is unavailable, and a policy that forces a backend gets no other.
BackendKeepsLanguage ==
  LET answer == backend.answer
  IN /\ answer = "dfa" => cert.expressions[grammar.start].words = Derived[given][given.start]
     /\ answer \in {"lalr", "earley"} => LanguageOf(backend.residual) = Derived[given][given.start]
     /\ answer # "internal"
     /\ answer = "unavailable" => backend.policy # "auto"
     /\ answer \notin {"none"} \cup NoBackend => backend.policy \in {"auto", answer}
=============================================================================
