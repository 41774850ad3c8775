---------------------------- MODULE Certification ----------------------------
(***************************************************************************)
(* certify_regular: component by component, dependencies first, a regular  *)
(* expression is found for every nonterminal of a component that is not    *)
(* recursive, or whose rules are all right-linear or all left-linear in    *)
(* the component.  A linear component is solved by eliminating one member  *)
(* after the other; a left-linear one backwards, for which the reversals   *)
(* of its terminals must be known.                                         *)
(*                                                                         *)
(* An expression is the language it stands for, cut to MaxLength, and      *)
(* whether each atom of it has a reverse pattern.  The expression Empty is *)
(* the empty language.                                                     *)
(***************************************************************************)
EXTENDS SccAnalysis

CONSTANT MaxLength   \* bound: the length of the strings compared

ASSUME MaxLengthAssumption == MaxLength \in Nat

VARIABLE cert   \* the outcome of each component done, and the expressions

certVars == <<given, grammar, reduction, scc, cert>>

NoCert == [outcome |-> << >>, expressions |-> << >>]

Failure == {"dependency", "shape", "operation"}

-----------------------------------------------------------------------------
(* Expressions. *)

EmptyExpression == [words |-> {}, reversible |-> TRUE]
Epsilon == [words |-> {<< >>}, reversible |-> TRUE]

Concat(e, f) ==
  IF e.words = {} \/ f.words = {} THEN EmptyExpression
  ELSE [words |-> Concatenated(e.words, f.words, MaxLength),
        reversible |-> e.reversible /\ f.reversible]

Union(e, f) ==
  [words |-> e.words \cup f.words, reversible |-> e.reversible /\ f.reversible]

\* union, of any number of expressions.
UnionOf(S) == [words |-> UNION {e.words : e \in S}, reversible |-> \A e \in S : e.reversible]

Star(e) == [words |-> Iterated(e.words, MaxLength), reversible |-> e.reversible]

\* reversed, where it is possible.
Reversed(e) == [e EXCEPT !.words = Backwards(@)]

\* The expression of a symbol outside the component.
ExpressionOf(X) ==
  IF X.kind = "terminal"
  THEN [words |-> {w \in Words[X.id] : Len(w) <= MaxLength}, reversible |-> X.id \in Reversible]
  ELSE cert.expressions[X.id]

\* rhs_expression.
RhsExpression(rhs, reversed) ==
  FoldLeft(LAMBDA e, X : IF reversed THEN Concat(Reversed(ExpressionOf(X)), e)
                         ELSE Concat(e, ExpressionOf(X)),
           Epsilon, rhs)

-----------------------------------------------------------------------------
(* Components. *)

RecursivePlaces(C, r) == {k \in 1..Len(r.rhs) : r.rhs[k].kind = "nonterminal" /\ r.rhs[k].id \in C}

RulesIn(C) == UNION {RulesOf(grammar, A) : A \in C}

\* Mutant of External: a component waits for itself.
ExternalWithItself(C) == {ComponentOf(B) : B \in UNION {NonterminalsIn(r.rhs) : r \in RulesIn(C)}}

\* external_components
External(C) ==
  {ComponentOf(B) : B \in (UNION {NonterminalsIn(r.rhs) : r \in RulesIn(C)}) \ C}

\* component_orientation.  A rule of one symbol fits both ways.
Orientations(C) ==
  {CASE Len(r.rhs) = 1 -> "neutral"
     [] RecursivePlaces(C, r) = {1} /\ Len(r.rhs) > 1 -> "left"
     [] RecursivePlaces(C, r) = {Len(r.rhs)} /\ Len(r.rhs) > 1 -> "right"
     [] OTHER -> "none" :
   r \in {r \in RulesIn(C) : RecursivePlaces(C, r) # {}}}

Orientation(C) ==
  LET found == Orientations(C) \ {"neutral"}
  IN IF found = {} THEN "right"
     ELSE IF found \in {{"left"}, {"right"}} THEN CHOOSE o \in found : TRUE
     ELSE "none"

\* The final state of the automaton of a component; the others are its members.
Final == 0

\* Where rule r leads, and the symbols on the way.
TargetOf(C, r) ==
  IF RecursivePlaces(C, r) = {} THEN Final ELSE r.rhs[CHOOSE k \in RecursivePlaces(C, r) : TRUE].id

OnTheWay(C, r, reversed) ==
  IF RecursivePlaces(C, r) = {} THEN r.rhs
  ELSE LET k == CHOOSE k \in RecursivePlaces(C, r) : TRUE
       IN IF reversed THEN SubSeq(r.rhs, k + 1, Len(r.rhs)) ELSE SubSeq(r.rhs, 1, k - 1)

FirstEdges(C, reversed) ==
  [e \in (C \cup {Final}) \X (C \cup {Final}) |->
     LET labels == {RhsExpression(OnTheWay(C, r, reversed), reversed) :
                      r \in {r \in RulesIn(C) : r.lhs = e[1] /\ TargetOf(C, r) = e[2]}}
     IN UnionOf(labels)]

\* Mutant of Eliminated: the loops of the member eliminated are forgotten.
EliminatedWithoutLoop(edges, p) ==
  [e \in DOMAIN edges |->
     Union(edges[e], Concat(edges[<<e[1], p>>], edges[<<p, e[2]>>]))]

\* One turn of the elimination: the paths through member p.
Eliminated(edges, p) ==
  [e \in DOMAIN edges |->
     Union(edges[e],
           Concat(Concat(edges[<<e[1], p>>], Star(edges[<<p, p>>])), edges[<<p, e[2]>>]))]

\* The members in the order of their ids.
Ascending(C) ==
  CHOOSE s \in SetToSeqs(C) : \A i, j \in DOMAIN s : i < j => s[i] < s[j]

\* solve_linear_component: an expression for each member.
Solved(C, reversed) ==
  LET edges == FoldLeft(Eliminated, FirstEdges(C, reversed), Ascending(C))
  IN [A \in C |-> IF reversed THEN Reversed(edges[<<A, Final>>]) ELSE edges[<<A, Final>>]]

\* Every symbol of a left-linear component that is turned round has a reversal.
CanReverse(C) ==
  \A r \in RulesIn(C) : \A k \in 1..Len(r.rhs) :
    k \notin RecursivePlaces(C, r) => ExpressionOf(r.rhs[k]).reversible

Alternatives(A) == UnionOf({RhsExpression(r.rhs, FALSE) : r \in RulesOf(grammar, A)})

\* certify_component
OutcomeOf(C) ==
  IF ~IsRecursive(C) THEN "acyclic"
  ELSE CASE Orientation(C) = "none" -> "shape"
         [] Orientation(C) = "right" -> "right"
         [] Orientation(C) = "left" -> IF CanReverse(C) THEN "left" ELSE "operation"

ExpressionsOf(C) ==
  CASE OutcomeOf(C) = "acyclic" -> [A \in C |-> Alternatives(A)]
    [] OutcomeOf(C) = "right" -> Solved(C, FALSE)
    [] OutcomeOf(C) = "left" -> Solved(C, TRUE)
    [] OTHER -> << >>

\* The functions f and g together.
Joined(f, g) == [A \in DOMAIN f \cup DOMAIN g |-> IF A \in DOMAIN f THEN f[A] ELSE g[A]]

\* One component whose dependencies are done.
CertifyComponent(C) ==
  /\ scc.at = "done"
  /\ C \notin DOMAIN cert.outcome
  /\ External(C) \subseteq DOMAIN cert.outcome
  /\ IF \E D \in External(C) : cert.outcome[D] \in Failure
     THEN cert' = [cert EXCEPT !.outcome = With(@, C, "dependency")]
     ELSE cert' = [outcome     |-> With(cert.outcome, C, OutcomeOf(C)),
                   expressions |-> Joined(ExpressionsOf(C), cert.expressions)]
  /\ UNCHANGED <<given, grammar, reduction, scc>>

IsCertified(A) == A \in DOMAIN cert.expressions
=============================================================================
