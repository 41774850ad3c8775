------------------------------ MODULE Reduction ------------------------------
(***************************************************************************)
(* reduce: the nonterminals that derive some string are found bottom up,   *)
(* counting for each rule the nonterminals of its right-hand side not      *)
(* known to; those reachable from the start top down; and what is not both *)
(* is dropped, with the rules that mention it.                             *)
(*                                                                         *)
(* A step takes one nonterminal from the worklist.  The order in which the *)
(* lists are worked off is left open.                                      *)
(***************************************************************************)
EXTENDS Grammar

CONSTANT Grammars   \* the lowered grammars

\* A lowered grammar has the terminals of its table, and no regions.
ASSUME GrammarsAssumption ==
  \A g \in Grammars :
    /\ IsGrammar(g)
    /\ \A r \in ToSet(g.rules) : \A X \in ToSet(r.rhs) :
         X.kind = "nonterminal" \/ (X.kind = "terminal" /\ X.id \in DOMAIN Words)

VARIABLES
  given,      \* history: the grammar that came in
  grammar,    \* the grammar, replaced when the reduction is done
  reduction   \* how far it is: the count of each rule, the sets found, the list

reductionVars == <<given, grammar, reduction>>

\* The places of A in the right-hand side of rule r.
Occurrences(r, A) == {k \in 1..Len(r.rhs) : r.rhs[k] = Nonterminal(A)}

Init ==
  /\ given \in Grammars
  /\ grammar = given
  /\ LET ready == {r.lhs : r \in {r \in ToSet(given.rules) : NonterminalsIn(r.rhs) = {}}}
     IN reduction =
          [at         |-> "productive",
           remaining  |-> [i \in 1..Len(given.rules) |->
                             Cardinality({k \in 1..Len(given.rules[i].rhs) :
                                            given.rules[i].rhs[k].kind = "nonterminal"})],
           productive |-> ready,
           reachable  |-> {},
           list       |-> ready]

\* Mutant of MarkProductive: a rule is counted down once, however often A occurs.
MarkProductiveOnce(A) ==
  /\ reduction.at = "productive" /\ A \in reduction.list
  /\ LET waiting == {i \in 1..Len(grammar.rules) : Occurrences(grammar.rules[i], A) # {}}
         remaining == [i \in 1..Len(grammar.rules) |->
                         reduction.remaining[i] - (IF i \in waiting THEN 1 ELSE 0)]
         found == {grammar.rules[i].lhs : i \in {i \in waiting : remaining[i] = 0}}
                    \ reduction.productive
     IN reduction' = [reduction EXCEPT !.remaining = remaining,
                                       !.productive = @ \cup found,
                                       !.list = (@ \ {A}) \cup found]
  /\ UNCHANGED <<given, grammar>>

\* productive_nonterminals: the rules waiting for A are counted down, once for
\* each occurrence, and those with nothing left to wait for make their own
\* left-hand side productive.
MarkProductive(A) ==
  /\ reduction.at = "productive" /\ A \in reduction.list
  /\ LET waiting == {i \in 1..Len(grammar.rules) : Occurrences(grammar.rules[i], A) # {}}
         remaining == [i \in 1..Len(grammar.rules) |->
                         reduction.remaining[i] - Cardinality(Occurrences(grammar.rules[i], A))]
         found == {grammar.rules[i].lhs : i \in {i \in waiting : remaining[i] = 0}}
                    \ reduction.productive
     IN reduction' = [reduction EXCEPT !.remaining = remaining,
                                       !.productive = @ \cup found,
                                       !.list = (@ \ {A}) \cup found]
  /\ UNCHANGED <<given, grammar>>

\* A start that derives nothing leaves a grammar of nothing but the start.
EndProductive ==
  /\ reduction.at = "productive" /\ reduction.list = {}
  /\ LET start == grammar.start
     IN IF start \notin reduction.productive
        THEN /\ grammar' = [start |-> start, nonterminals |-> {start}, rules |-> << >>]
             /\ reduction' = [reduction EXCEPT !.at = "done"]
        ELSE /\ reduction' = [reduction EXCEPT !.at = "reachable", !.reachable = {start},
                                               !.list = {start}]
             /\ UNCHANGED grammar
  /\ UNCHANGED given

\* Mutant of MarkReachable: what is found is not looked at in turn.
MarkReachableNext(A) ==
  /\ reduction.at = "reachable" /\ A \in reduction.list
  /\ LET found == (UNION {NonterminalsIn(r.rhs) : r \in RulesOf(grammar, A)})
                    \ reduction.reachable
     IN reduction' = [reduction EXCEPT !.reachable = @ \cup found, !.list = @ \ {A}]
  /\ UNCHANGED <<given, grammar>>

\* reachable_nonterminals: over all the rules, those about to go included.
MarkReachable(A) ==
  /\ reduction.at = "reachable" /\ A \in reduction.list
  /\ LET found == (UNION {NonterminalsIn(r.rhs) : r \in RulesOf(grammar, A)})
                    \ reduction.reachable
     IN reduction' = [reduction EXCEPT !.reachable = @ \cup found,
                                       !.list = (@ \ {A}) \cup found]
  /\ UNCHANGED <<given, grammar>>

Retained == reduction.productive \cap reduction.reachable

\* The rules kept are those of kept nonterminals that mention only such.
RetainedRules(rules) ==
  FoldLeft(LAMBDA kept, r : IF {r.lhs} \cup NonterminalsIn(r.rhs) \subseteq Retained
                            THEN Append(kept, r) ELSE kept,
           << >>, rules)

Rebuild ==
  /\ reduction.at = "reachable" /\ reduction.list = {}
  /\ grammar' = [start        |-> grammar.start,
                 nonterminals |-> Retained,
                 rules        |-> RetainedRules(grammar.rules)]
  /\ reduction' = [reduction EXCEPT !.at = "done"]
  /\ UNCHANGED given

ReduceStep ==
  \/ \E A \in reduction.list : MarkProductive(A) \/ MarkReachable(A)
  \/ EndProductive
  \/ Rebuild

-----------------------------------------------------------------------------

\* What is closed under the rules, bottom up and top down.
ProductiveClosed(S) ==
  \A i \in 1..Len(given.rules) :
    NonterminalsIn(given.rules[i].rhs) \subseteq S => given.rules[i].lhs \in S

ReachableClosed(S) ==
  /\ given.start \in S
  /\ \A i \in 1..Len(given.rules) :
       given.rules[i].lhs \in S => NonterminalsIn(given.rules[i].rhs) \subseteq S

\* The nonterminals marked are those that derive some string, and those the
\* start can lead to: they are closed under the rules and no smaller set is
\* (grammar.rs:756, 804), in whatever order the lists were worked off.
MarksAreExact ==
  reduction.at = "done" =>
    /\ ProductiveClosed(reduction.productive)
    /\ \A S \in SUBSET given.nonterminals : ProductiveClosed(S) => reduction.productive \subseteq S
    /\ given.start \in reduction.productive =>
         /\ ReachableClosed(reduction.reachable)
         /\ \A S \in SUBSET given.nonterminals :
              ReachableClosed(S) => reduction.reachable \subseteq S
=============================================================================
