-------------------------- MODULE Compilation_proofs --------------------------
(***************************************************************************)
(* Proofs about the compilation of any set of grammars.                    *)
(*                                                                         *)
(* That the marks of the reduction are exact is not inductive.  What is    *)
(* added: a rule's counter is the number of places in it that wait for a   *)
(* nonterminal not yet taken from the list, which needs every occurrence   *)
(* to be counted down; and what a nonterminal taken from the list leads to *)
(* is marked.                                                              *)
(*                                                                         *)
(* Nor is it of the components.  What is added, of the search as it goes:  *)
(* the numbers ascend on the stack and along the frames; a frame leads to  *)
(* all that is above it; a low link is the number of a node on the stack   *)
(* that the node leads to, and no edge taken goes lower; a node that ended *)
(* and waits reaches lower than itself, and the frame below it knows; and  *)
(* what is closed is closed under the edges.                               *)
(*                                                                         *)
(* Then the languages.  What a grammar derives is the least family of      *)
(* languages closed under its rules.  A reduced grammar has the same, and  *)
(* so has every expression: the equations of a component that refers to    *)
(* itself at one end of its rules are solved by eliminating its members,   *)
(* one after the other.  And so has the residual grammar: its languages,   *)
(* filled in with those of the regions, are closed under the rules, and    *)
(* those of the grammar are closed under its own.                          *)
(***************************************************************************)
EXTENDS Compilation, TLAPS, FiniteSetTheorems, SequenceTheorems, FoldLemmas

\* The places of a right-hand side that wait for a nonterminal outside K.
Waiting(rhs, K) ==
  {k \in 1..Len(rhs) : rhs[k].kind = "nonterminal" /\ rhs[k].id \notin K}

RuleNumbers == 1..Len(given.rules)

\* The nonterminals marked productive whose rules were counted down.
Counted == reduction.productive \ reduction.list

ReductionTypeOK ==
  /\ given \in Grammars
  /\ reduction \in [at         : {"productive", "reachable", "done"},
                    remaining  : [RuleNumbers -> Int],
                    productive : SUBSET given.nonterminals,
                    reachable  : SUBSET given.nonterminals,
                    list       : SUBSET given.nonterminals]
  /\ reduction.at # "done" => grammar = given

CountersAreRight ==
  reduction.at = "productive" =>
    /\ reduction.list \subseteq reduction.productive
    /\ \A i \in RuleNumbers :
         /\ reduction.remaining[i] = Cardinality(Waiting(given.rules[i].rhs, Counted))
         /\ reduction.remaining[i] = 0 => given.rules[i].lhs \in reduction.productive

ProductiveIsLeast ==
  \A S \in SUBSET given.nonterminals : ProductiveClosed(S) => reduction.productive \subseteq S

ProductiveIsClosed == reduction.at # "productive" => ProductiveClosed(reduction.productive)

SearchIsAhead ==
  reduction.at = "reachable" =>
    /\ given.start \in reduction.reachable
    /\ reduction.list \subseteq reduction.reachable
    /\ \A i \in RuleNumbers :
         given.rules[i].lhs \in reduction.reachable \ reduction.list =>
           NonterminalsIn(given.rules[i].rhs) \subseteq reduction.reachable

ReachableIsLeast ==
  \A S \in SUBSET given.nonterminals : ReachableClosed(S) => reduction.reachable \subseteq S

ReachableIsClosed ==
  reduction.at = "done" /\ given.start \in reduction.productive => ReachableClosed(reduction.reachable)

ReductionInv ==
  /\ ReductionTypeOK
  /\ CountersAreRight
  /\ ProductiveIsLeast
  /\ ProductiveIsClosed
  /\ SearchIsAhead
  /\ ReachableIsLeast
  /\ ReachableIsClosed

-----------------------------------------------------------------------------
(* Right-hand sides. *)

\* The rules of a grammar are typed.
LEMMA RulesAreTyped ==
  ASSUME NEW g, IsGrammar(g), NEW i \in 1..Len(g.rules)
  PROVE  /\ g.rules[i].lhs \in g.nonterminals
         /\ g.rules[i].rhs \in Seq(Symbol)
         /\ NonterminalsIn(g.rules[i].rhs) \subseteq g.nonterminals
<1>1. g.rules[i] \in [lhs : g.nonterminals, rhs : Seq(Symbol)]
  BY ElementOfSeq DEF IsGrammar
<1> QED
  BY <1>1 DEF IsGrammar

\* NonterminalsIn by places.
LEMMA NonterminalsByPlace ==
  ASSUME NEW rhs \in Seq(Symbol), NEW A
  PROVE  A \in NonterminalsIn(rhs) <=>
           \E k \in 1..Len(rhs) : rhs[k].kind = "nonterminal" /\ rhs[k].id = A
BY DEF NonterminalsIn, ToSet

\* Nothing is waited for if every nonterminal is known.
LEMMA NothingWaits ==
  ASSUME NEW rhs \in Seq(Symbol), NEW K
  PROVE  /\ IsFiniteSet(Waiting(rhs, K))
         /\ Cardinality(Waiting(rhs, K)) \in Nat
         /\ Cardinality(Waiting(rhs, K)) = 0 <=> NonterminalsIn(rhs) \subseteq K
<1>1. IsFiniteSet(1..Len(rhs))
  BY FS_Interval
<1>2. IsFiniteSet(Waiting(rhs, K))
  BY <1>1, FS_Subset DEF Waiting
<1>3. Waiting(rhs, K) = {} <=> NonterminalsIn(rhs) \subseteq K
  BY NonterminalsByPlace DEF Waiting
<1> QED
  BY <1>2, <1>3, FS_EmptySet, FS_CardinalityType

\* When A becomes known, as many places as it has in the rule stop waiting.
LEMMA CountedDown ==
  ASSUME NEW r, r.rhs \in Seq(Symbol), NEW K, NEW A, A \notin K
  PROVE  Cardinality(Waiting(r.rhs, K \cup {A})) =
           Cardinality(Waiting(r.rhs, K)) - Cardinality(Occurrences(r, A))
<1>1. Occurrences(r, A) = {k \in 1..Len(r.rhs) : r.rhs[k].kind = "nonterminal" /\ r.rhs[k].id = A}
  <2>1. \A k \in 1..Len(r.rhs) : r.rhs[k] \in Symbol
    BY ElementOfSeq
  <2>2. \A X \in Symbol : X = [kind |-> X.kind, id |-> X.id]
    BY DEF Symbol
  <2> QED
    BY <2>1, <2>2 DEF Occurrences, Nonterminal
<1>2. Waiting(r.rhs, K \cup {A}) = Waiting(r.rhs, K) \ Occurrences(r, A)
  BY <1>1 DEF Waiting
<1>3. Waiting(r.rhs, K) \cap Occurrences(r, A) = Occurrences(r, A)
  BY <1>1 DEF Waiting
<1>4. IsFiniteSet(Waiting(r.rhs, K))
  BY NothingWaits, Zenon
<1>5. Cardinality(Waiting(r.rhs, K) \ Occurrences(r, A)) =
        Cardinality(Waiting(r.rhs, K)) - Cardinality(Waiting(r.rhs, K) \cap Occurrences(r, A))
  BY <1>4, FS_Difference, Zenon
<1> QED
  BY <1>2, <1>3, <1>5

-----------------------------------------------------------------------------
(* The invariant. *)

\* Nothing is marked yet, and the counters are whole.
LEMMA ReductionStarts == Init => ReductionInv
<1> SUFFICES ASSUME Init PROVE ReductionInv
  OBVIOUS
<1>1. IsGrammar(given)
  BY GrammarsAssumption DEF Init
<1>2. \A i \in RuleNumbers : /\ given.rules[i].lhs \in given.nonterminals
                             /\ given.rules[i].rhs \in Seq(Symbol)
  BY <1>1, RulesAreTyped DEF RuleNumbers
<1> DEFINE ready == {r.lhs : r \in {r \in ToSet(given.rules) : NonterminalsIn(r.rhs) = {}}}
<1>3. ready = {given.rules[i].lhs : i \in {i \in RuleNumbers : NonterminalsIn(given.rules[i].rhs) = {}}}
  <2>1. DOMAIN given.rules = RuleNumbers
    BY <1>1 DEF IsGrammar, RuleNumbers
  <2>2. \A A : A \in ready <=>
               \E i \in RuleNumbers : NonterminalsIn(given.rules[i].rhs) = {} /\ A = given.rules[i].lhs
    BY <2>1 DEF ToSet
  <2> QED
    BY <2>2
<1>4. /\ reduction.at = "productive"
      /\ reduction.productive = ready /\ reduction.list = ready /\ reduction.reachable = {}
      /\ grammar = given
  BY DEF Init
<1>5. \A i \in RuleNumbers : reduction.remaining[i] = Cardinality(Waiting(given.rules[i].rhs, Counted))
  <2>1. Counted = {}
    BY <1>4 DEF Counted
  <2> SUFFICES ASSUME NEW i \in RuleNumbers
               PROVE  reduction.remaining[i] = Cardinality(Waiting(given.rules[i].rhs, {}))
    BY <2>1
  <2>2. Waiting(given.rules[i].rhs, {}) = {k \in 1..Len(given.rules[i].rhs) : given.rules[i].rhs[k].kind = "nonterminal"}
    BY DEF Waiting
  <2> QED
    BY <2>2 DEF Init, RuleNumbers
<1>6. ReductionTypeOK
  <2>1. reduction.remaining \in [RuleNumbers -> Int]
    <3>1. \A i \in RuleNumbers : reduction.remaining[i] \in Int
      BY <1>2, <1>5, NothingWaits
    <3>2. reduction.remaining = [i \in RuleNumbers |-> reduction.remaining[i]]
      BY DEF Init, RuleNumbers
    <3> QED
      BY <3>1, <3>2
  <2>2. ready \subseteq given.nonterminals
    BY <1>2, <1>3
  <2>3. reduction = [at |-> reduction.at, remaining |-> reduction.remaining,
                     productive |-> reduction.productive, reachable |-> reduction.reachable,
                     list |-> reduction.list]
    BY DEF Init
  <2> QED
    BY <1>4, <2>1, <2>2, <2>3 DEF ReductionTypeOK, Init
<1>7. CountersAreRight
  <2> SUFFICES ASSUME NEW i \in RuleNumbers, reduction.remaining[i] = 0
               PROVE  given.rules[i].lhs \in ready
    BY <1>4, <1>5 DEF CountersAreRight
  <2>1. NonterminalsIn(given.rules[i].rhs) = {}
    <3>1. Counted = {}
      BY <1>4 DEF Counted
    <3>2. Cardinality(Waiting(given.rules[i].rhs, {})) = 0
      BY <1>5, <3>1
    <3>3. given.rules[i].rhs \in Seq(Symbol)
      BY <1>2
    <3> QED
      BY <3>2, <3>3, NothingWaits
  <2> QED
    BY <1>3, <2>1
<1>8. ProductiveIsLeast
  BY <1>3, <1>4 DEF ProductiveIsLeast, ProductiveClosed, RuleNumbers
<1> QED
  BY <1>4, <1>6, <1>7, <1>8
     DEF ReductionInv, ProductiveIsClosed, SearchIsAhead, ReachableIsLeast, ReachableIsClosed

\* Taking one nonterminal from the productive list.
LEMMA MarkProductiveKeeps ==
  ASSUME ReductionInv, NEW A \in reduction.list, MarkProductive(A)
  PROVE  ReductionInv'
<1> DEFINE rule(i) == given.rules[i]
           remaining == [i \in RuleNumbers |-> reduction.remaining[i] - Cardinality(Occurrences(rule(i), A))]
           waits == {i \in RuleNumbers : Occurrences(rule(i), A) # {}}
           found == {rule(i).lhs : i \in {i \in waits : remaining[i] = 0}} \ reduction.productive
<1>1. /\ given' = given /\ grammar' = grammar /\ grammar = given
      /\ reduction.at = "productive"
      /\ reduction' = [reduction EXCEPT !.remaining = remaining,
                                        !.productive = @ \cup found,
                                        !.list = (@ \ {A}) \cup found]
  BY DEF MarkProductive, ReductionInv, ReductionTypeOK, RuleNumbers
<1>2. /\ reduction'.at = "productive" /\ reduction'.reachable = reduction.reachable
      /\ reduction'.remaining = remaining
      /\ reduction'.productive = reduction.productive \cup found
      /\ reduction'.list = (reduction.list \ {A}) \cup found
  BY <1>1 DEF ReductionInv, ReductionTypeOK
<1>3. IsGrammar(given)
  BY GrammarsAssumption DEF ReductionInv, ReductionTypeOK
<1>4. \A i \in RuleNumbers : rule(i).lhs \in given.nonterminals /\ rule(i).rhs \in Seq(Symbol)
  BY <1>3, RulesAreTyped DEF RuleNumbers
<1>5. Counted' = Counted \cup {A} /\ A \notin Counted
  <2>1. A \in reduction.productive
    BY <1>1 DEF ReductionInv, CountersAreRight
  <2> QED
    BY <1>2, <2>1 DEF Counted
<1>6. \A i \in RuleNumbers : remaining[i] = Cardinality(Waiting(rule(i).rhs, Counted'))
  <2> SUFFICES ASSUME NEW i \in RuleNumbers
               PROVE  remaining[i] = Cardinality(Waiting(rule(i).rhs, Counted'))
    OBVIOUS
  <2>1. reduction.remaining[i] = Cardinality(Waiting(rule(i).rhs, Counted))
    BY <1>1 DEF ReductionInv, CountersAreRight
  <2>2. Cardinality(Waiting(rule(i).rhs, Counted \cup {A})) =
          Cardinality(Waiting(rule(i).rhs, Counted)) - Cardinality(Occurrences(rule(i), A))
    BY <1>4, <1>5, CountedDown
  <2> QED
    BY <1>5, <2>1, <2>2
<1>7. found \subseteq given.nonterminals
  BY <1>4
<1>8. ReductionTypeOK'
  <2>1. remaining \in [RuleNumbers -> Int]
    BY <1>4, <1>6, NothingWaits
  <2> QED
    BY <1>1, <1>2, <1>7, <2>1 DEF ReductionInv, ReductionTypeOK, RuleNumbers
<1>9. \A i \in RuleNumbers : remaining[i] = 0 => rule(i).lhs \in reduction.productive \cup found
  <2> SUFFICES ASSUME NEW i \in RuleNumbers, remaining[i] = 0, i \notin waits
               PROVE  rule(i).lhs \in reduction.productive
    OBVIOUS
  <2>1. Cardinality(Occurrences(rule(i), A)) = 0
    BY FS_EmptySet
  <2>2. reduction.remaining[i] \in Int
    BY DEF ReductionInv, ReductionTypeOK
  <2>3. reduction.remaining[i] = 0
    BY <2>1, <2>2
  <2> QED
    BY <1>1, <2>3 DEF ReductionInv, CountersAreRight
<1>10. CountersAreRight'
  <2>1. reduction'.list \subseteq reduction'.productive
    BY <1>1, <1>2 DEF ReductionInv, CountersAreRight
  <2> QED
    BY <1>1, <1>2, <1>6, <1>9, <2>1 DEF CountersAreRight, RuleNumbers
<1>11. ProductiveIsLeast'
  <2> SUFFICES ASSUME NEW S \in SUBSET given.nonterminals, ProductiveClosed(S)
               PROVE  found \subseteq S
    BY <1>1, <1>2 DEF ReductionInv, ProductiveIsLeast, ProductiveClosed
  <2>1. Counted' \subseteq S
    BY <1>1, <1>5 DEF ReductionInv, ProductiveIsLeast, Counted, CountersAreRight
  <2> SUFFICES ASSUME NEW i \in RuleNumbers, remaining[i] = 0
               PROVE  rule(i).lhs \in S
    OBVIOUS
  <2>2. NonterminalsIn(rule(i).rhs) \subseteq Counted'
    BY <1>4, <1>6, NothingWaits
  <2> QED
    BY <2>1, <2>2 DEF ProductiveClosed, RuleNumbers
<1>12. ReachableIsLeast'
  BY <1>1, <1>2 DEF ReductionInv, ReachableIsLeast, ReachableClosed
<1> QED
  BY <1>1, <1>2, <1>8, <1>10, <1>11, <1>12
     DEF ReductionInv, ProductiveIsClosed, SearchIsAhead, ReachableIsClosed

\* The end of the productive list: every rule with nothing to wait for was used.
LEMMA EndProductiveKeeps ==
  ASSUME ReductionInv, EndProductive
  PROVE  ReductionInv'
<1>1. /\ given' = given /\ grammar = given
      /\ reduction.at = "productive" /\ reduction.list = {}
      /\ reduction'.productive = reduction.productive
  BY DEF EndProductive, ReductionInv, ReductionTypeOK
<1>2. IsGrammar(given)
  BY GrammarsAssumption DEF ReductionInv, ReductionTypeOK
<1>3. ProductiveClosed(reduction.productive)
  <2> SUFFICES ASSUME NEW i \in RuleNumbers,
                      NonterminalsIn(given.rules[i].rhs) \subseteq reduction.productive
               PROVE  given.rules[i].lhs \in reduction.productive
    BY DEF ProductiveClosed, RuleNumbers
  <2>1. Counted = reduction.productive
    BY <1>1 DEF Counted
  <2>2. given.rules[i].rhs \in Seq(Symbol)
    BY <1>2, RulesAreTyped DEF RuleNumbers
  <2>3. Cardinality(Waiting(given.rules[i].rhs, Counted)) = 0
    BY <2>1, <2>2, NothingWaits
  <2> QED
    BY <1>1, <2>3 DEF ReductionInv, CountersAreRight
<1>4. ProductiveIsLeast' /\ ProductiveIsClosed' /\ (reduction'.at # "productive")
  <2>1. reduction'.at # "productive"
    BY DEF EndProductive, ReductionInv, ReductionTypeOK
  <2>2. ProductiveIsClosed'
    BY <1>1, <1>3 DEF ProductiveIsClosed, ProductiveClosed
  <2>3. ProductiveIsLeast'
    BY <1>1 DEF ReductionInv, ProductiveIsLeast, ProductiveClosed
  <2> QED
    BY <2>1, <2>2, <2>3
<1>5. CASE given.start \notin reduction.productive
  <2>1. /\ reduction' = [reduction EXCEPT !.at = "done"]
        /\ reduction'.at = "done" /\ reduction'.reachable = reduction.reachable
    BY <1>1, <1>5 DEF EndProductive, ReductionInv, ReductionTypeOK
  <2>2. ReductionTypeOK'
    BY <1>1, <2>1 DEF ReductionInv, ReductionTypeOK, RuleNumbers
  <2>3. ReachableIsLeast'
    BY <1>1, <2>1 DEF ReductionInv, ReachableIsLeast, ReachableClosed
  <2> QED
    BY <1>1, <1>4, <1>5, <2>1, <2>2, <2>3
       DEF ReductionInv, CountersAreRight, SearchIsAhead, ReachableIsClosed
<1>6. CASE given.start \in reduction.productive
  <2>1. /\ reduction' = [reduction EXCEPT !.at = "reachable", !.reachable = {given.start},
                                          !.list = {given.start}]
        /\ grammar' = grammar
    BY <1>1, <1>6 DEF EndProductive
  <2>2. /\ reduction'.at = "reachable" /\ reduction'.reachable = {given.start}
        /\ reduction'.list = {given.start}
    BY <2>1 DEF ReductionInv, ReductionTypeOK
  <2>3. given.start \in given.nonterminals
    BY <1>2 DEF IsGrammar
  <2>4. ReductionTypeOK'
    BY <1>1, <2>1, <2>3 DEF ReductionInv, ReductionTypeOK, RuleNumbers
  <2>5. ReachableIsLeast'
    BY <1>1, <2>2 DEF ReachableIsLeast, ReachableClosed
  <2>6. SearchIsAhead'
    BY <1>1, <2>2 DEF SearchIsAhead
  <2> QED
    BY <1>1, <1>4, <2>2, <2>4, <2>5, <2>6 DEF ReductionInv, CountersAreRight, ReachableIsClosed
<1> QED
  BY <1>5, <1>6

\* Taking one nonterminal from the reachable list.
LEMMA MarkReachableKeeps ==
  ASSUME ReductionInv, NEW A \in reduction.list, MarkReachable(A)
  PROVE  ReductionInv'
<1> DEFINE led == UNION {NonterminalsIn(r.rhs) : r \in RulesOf(given, A)}
           found == led \ reduction.reachable
<1>1. /\ given' = given /\ grammar' = grammar /\ grammar = given
      /\ reduction.at = "reachable"
      /\ reduction' = [reduction EXCEPT !.reachable = @ \cup found,
                                        !.list = (@ \ {A}) \cup found]
  BY DEF MarkReachable, ReductionInv, ReductionTypeOK
<1>2. /\ reduction'.at = "reachable" /\ reduction'.productive = reduction.productive
      /\ reduction'.reachable = reduction.reachable \cup found
      /\ reduction'.list = (reduction.list \ {A}) \cup found
  BY <1>1 DEF ReductionInv, ReductionTypeOK
<1>3. IsGrammar(given)
  BY GrammarsAssumption DEF ReductionInv, ReductionTypeOK
<1>4. \A B : B \in led <=> \E i \in RuleNumbers : /\ given.rules[i].lhs = A
                                                  /\ B \in NonterminalsIn(given.rules[i].rhs)
  <2>1. DOMAIN given.rules = RuleNumbers
    BY <1>3 DEF IsGrammar, RuleNumbers
  <2> QED
    BY <2>1 DEF RulesOf, ToSet
<1>5. led \subseteq given.nonterminals
  BY <1>3, <1>4, RulesAreTyped DEF RuleNumbers
<1>6. ReductionTypeOK'
  BY <1>1, <1>5 DEF ReductionInv, ReductionTypeOK, RuleNumbers
<1>7. ProductiveIsLeast' /\ ProductiveIsClosed'
  BY <1>1, <1>2 DEF ReductionInv, ProductiveIsLeast, ProductiveIsClosed, ProductiveClosed
<1>8. ReachableIsLeast'
  <2> SUFFICES ASSUME NEW S \in SUBSET given.nonterminals, ReachableClosed(S)
               PROVE  led \subseteq S
    BY <1>1, <1>2 DEF ReductionInv, ReachableIsLeast, ReachableClosed
  <2>1. A \in S
    BY <1>1 DEF ReductionInv, ReachableIsLeast, SearchIsAhead
  <2>2. \A i \in RuleNumbers : given.rules[i].lhs = A => NonterminalsIn(given.rules[i].rhs) \subseteq S
    BY <2>1 DEF ReachableClosed, RuleNumbers
  <2> HIDE DEF led
  <2> QED BY <1>4, <2>2
<1>9. SearchIsAhead'
  <2>1. \A i \in RuleNumbers :
          given.rules[i].lhs \in reduction'.reachable \ reduction'.list =>
            NonterminalsIn(given.rules[i].rhs) \subseteq reduction'.reachable
    BY <1>1, <1>2, <1>4 DEF ReductionInv, SearchIsAhead
  <2> QED
    BY <1>1, <1>2, <2>1 DEF ReductionInv, SearchIsAhead, RuleNumbers
<1> QED
  BY <1>1, <1>2, <1>6, <1>7, <1>8, <1>9 DEF ReductionInv, CountersAreRight, ReachableIsClosed

\* The end of the reachable list.
LEMMA RebuildKeeps ==
  ASSUME ReductionInv, Rebuild
  PROVE  ReductionInv'
<1>1. /\ given' = given
      /\ reduction.at = "reachable" /\ reduction.list = {}
      /\ reduction' = [reduction EXCEPT !.at = "done"]
  BY DEF Rebuild
<1>2. /\ reduction'.at = "done" /\ reduction'.productive = reduction.productive
      /\ reduction'.reachable = reduction.reachable
  BY <1>1 DEF ReductionInv, ReductionTypeOK
<1>3. ReductionTypeOK'
  BY <1>1 DEF ReductionInv, ReductionTypeOK, RuleNumbers
<1>4. ReachableIsClosed'
  BY <1>1, <1>2 DEF ReductionInv, SearchIsAhead, ReachableIsClosed, ReachableClosed, RuleNumbers
<1> QED
  BY <1>1, <1>2, <1>3, <1>4
     DEF ReductionInv, CountersAreRight, ProductiveIsLeast, ProductiveIsClosed, ProductiveClosed,
         SearchIsAhead, ReachableIsLeast, ReachableClosed

\* The passes after the reduction leave its marks alone.
LEMMA LaterPassesKeep ==
  ASSUME ReductionInv, UNCHANGED <<given, reduction>>,
         grammar' = grammar \/ reduction.at = "done"
  PROVE  ReductionInv'
BY DEF ReductionInv, ReductionTypeOK, CountersAreRight, Counted, ProductiveIsLeast, ProductiveIsClosed,
       ProductiveClosed, SearchIsAhead, ReachableIsLeast, ReachableIsClosed, ReachableClosed, RuleNumbers

\* What a step does to the reduction.
LEMMA StepsOfReduction ==
  ASSUME [Next]_vars
  PROVE  ReduceStep \/ UNCHANGED reductionVars
<1>1. CASE SccStep
  BY <1>1 DEF SccStep, BeginScc, StartRoot, FollowEdge, EndNode
<1>2. CASE \E C \in scc.components : CertifyComponent(C)
  BY <1>2 DEF CertifyComponent, reductionVars
<1>3. CASE SelectBackend
  BY <1>3 DEF SelectBackend, reductionVars
<1>4. CASE UNCHANGED vars
  BY <1>4 DEF vars, reductionVars
<1> QED
  BY <1>1, <1>2, <1>3, <1>4 DEF Next

\* The invariant of the whole compilation.
LEMMA ReductionInvariant == Spec => []ReductionInv
<1>1. Begin => ReductionInv
  BY ReductionStarts DEF Begin
<1>2. ReductionInv /\ [Next]_vars => ReductionInv'
  <2> SUFFICES ASSUME ReductionInv, [Next]_vars PROVE ReductionInv'
    OBVIOUS
  <2>1. CASE \E A \in reduction.list : MarkProductive(A)
    BY <2>1, MarkProductiveKeeps
  <2>2. CASE \E A \in reduction.list : MarkReachable(A)
    BY <2>2, MarkReachableKeeps
  <2>3. CASE EndProductive
    BY <2>3, EndProductiveKeeps
  <2>4. CASE Rebuild
    BY <2>4, RebuildKeeps
  <2>5. CASE UNCHANGED reductionVars
    BY <2>5, LaterPassesKeep DEF reductionVars
  <2> QED
    BY <2>1, <2>2, <2>3, <2>4, <2>5, StepsOfReduction DEF ReduceStep
<1> QED
  BY <1>1, <1>2, PTL DEF Spec

\* Of any set of grammars, whatever the order of the worklists: the nonterminals
\* marked productive and reachable are the least sets closed under the rules
\* (productive_nonterminals and reachable_nonterminals of grammar.rs).
THEOREM ReductionMarksExactly == Spec => []MarksAreExact
<1>1. ReductionInv => MarksAreExact
  BY DEF ReductionInv, ProductiveIsLeast, ProductiveIsClosed, ReachableIsLeast, ReachableIsClosed,
         MarksAreExact
<1> QED
  BY <1>1, ReductionInvariant, PTL

-----------------------------------------------------------------------------
(***************************************************************************)
(* What leads where.  A graph has the nodes V, and E gives their           *)
(* successors.                                                             *)
(***************************************************************************)

IsGraph(V, E) == V \in SUBSET Nat /\ E \in [V -> SUBSET V]

Closed(E, S) == \A C \in S : E[C] \subseteq S

ReachesIn(V, E, A) == {B \in V : \A S \in SUBSET V : E[A] \subseteq S /\ Closed(E, S) => B \in S}

LeadsIn(V, E, A, B) == A = B \/ B \in ReachesIn(V, E, A)

ClassIn(V, E, A) == {A} \cup {B \in ReachesIn(V, E, A) : A \in ReachesIn(V, E, B)}

\* What A leads to is the least closed set with the successors of A.
LEMMA ReachesResult ==
  ASSUME NEW V, NEW E, IsGraph(V, E), NEW A \in V
  PROVE  /\ ReachesIn(V, E, A) \subseteq V
         /\ E[A] \subseteq ReachesIn(V, E, A)
         /\ Closed(E, ReachesIn(V, E, A))
         /\ \A S \in SUBSET V : E[A] \subseteq S /\ Closed(E, S) => ReachesIn(V, E, A) \subseteq S
<1> DEFINE R == ReachesIn(V, E, A)
<1>1. R \subseteq V
  BY DEF ReachesIn
<1>2. E[A] \subseteq R
  BY DEF ReachesIn, IsGraph
<1>3. ASSUME NEW C \in R, NEW B \in E[C]
      PROVE  B \in R
  <2>1. B \in V
    BY <1>1 DEF IsGraph
  <2>2. ASSUME NEW S \in SUBSET V, E[A] \subseteq S, Closed(E, S)
        PROVE  B \in S
    BY <2>2 DEF ReachesIn, Closed
  <2> QED BY <2>1, <2>2 DEF ReachesIn
<1>4. ASSUME NEW S \in SUBSET V, E[A] \subseteq S, Closed(E, S)
      PROVE  R \subseteq S
  BY <1>4 DEF ReachesIn
<1> QED BY <1>1, <1>2, <1>3, <1>4 DEF Closed

\* A closed set has what its nodes lead to.
LEMMA ClosedReaches ==
  ASSUME NEW V, NEW E, IsGraph(V, E), NEW S \in SUBSET V, Closed(E, S), NEW A \in S
  PROVE  ReachesIn(V, E, A) \subseteq S
<1>1. E[A] \subseteq S /\ A \in V
  BY DEF Closed
<1> QED BY <1>1, ReachesResult

\* One way after another.
LEMMA LeadsOn ==
  ASSUME NEW V, NEW E, IsGraph(V, E), NEW A \in V, NEW B \in V, NEW C \in V
  PROVE  /\ C \in E[B] /\ LeadsIn(V, E, A, B) => C \in ReachesIn(V, E, A)
         /\ LeadsIn(V, E, A, B) /\ LeadsIn(V, E, B, C) => LeadsIn(V, E, A, C)
         /\ LeadsIn(V, E, A, B) /\ C \in ReachesIn(V, E, B) => C \in ReachesIn(V, E, A)
<1>1. ASSUME C \in E[B], LeadsIn(V, E, A, B)
      PROVE  C \in ReachesIn(V, E, A)
  BY <1>1, ReachesResult DEF LeadsIn, Closed
<1>2. ASSUME B \in ReachesIn(V, E, A)
      PROVE  ReachesIn(V, E, B) \subseteq ReachesIn(V, E, A)
  <2> DEFINE R == ReachesIn(V, E, A)
  <2>1. R \in SUBSET V /\ Closed(E, R)
    BY ReachesResult
  <2>2. B \in R
    BY <1>2
  <2> HIDE DEF R
  <2>3. ReachesIn(V, E, B) \subseteq R
    BY <2>1, <2>2, ClosedReaches
  <2> QED BY <2>3 DEF R
<1> QED BY <1>1, <1>2 DEF LeadsIn

\* A node that leads to itself has a successor that leads to it.
LEMMA CycleBegins ==
  ASSUME NEW V, NEW E, IsGraph(V, E), NEW A \in V, A \in ReachesIn(V, E, A)
  PROVE  \E B \in E[A] : LeadsIn(V, E, B, A)
<1> DEFINE S == {C \in V : \E B \in E[A] : LeadsIn(V, E, B, C)}
<1>1. E[A] \subseteq S
  BY DEF IsGraph, LeadsIn
<1>2. Closed(E, S)
  <2> SUFFICES ASSUME NEW C \in S, NEW D \in E[C]
               PROVE  D \in S
    BY DEF Closed
  <2>1. PICK B \in E[A] : LeadsIn(V, E, B, C)
    OBVIOUS
  <2>2. B \in V /\ D \in V
    BY DEF IsGraph
  <2>3. D \in ReachesIn(V, E, B)
    BY <2>1, <2>2, LeadsOn
  <2> QED BY <2>2, <2>3 DEF LeadsIn
<1>3. ReachesIn(V, E, A) \subseteq S
  <2>1. S \in SUBSET V
    OBVIOUS
  <2> HIDE DEF S
  <2> QED BY <1>1, <1>2, <2>1, ReachesResult
<1> QED BY <1>3

-----------------------------------------------------------------------------
(***************************************************************************)
(* Tarjan's algorithm.  s is how far the search of the graph is: a node on *)
(* the stack has a frame, or is ended and waits for its component.         *)
(***************************************************************************)

OnStack(s) == ToSet(s.stack)

HasFrame(s, A) == \E i \in 1..Len(s.frames) : s.frames[i].node = A

\* The search has followed the edge from A to B.
Taken(s, A, B) == \A i \in 1..Len(s.frames) : s.frames[i].node = A => B \notin s.frames[i].left

SearchTyped(V, E, s) ==
  /\ s.next \in Nat
  /\ s.stack \in Seq(V)
  /\ s.frames \in Seq([node : V, left : SUBSET V])
  /\ \A i \in 1..Len(s.frames) : s.frames[i].left \subseteq E[s.frames[i].node]
  /\ DOMAIN s.index \subseteq V
  /\ s.index \in [DOMAIN s.index -> Nat] /\ s.low \in [DOMAIN s.index -> Nat]
  /\ s.components \in SUBSET SUBSET V

\* Every node discovered has a number of its own, and is on the stack or in a component.
NumberedOnce(s) ==
  /\ \A A \in DOMAIN s.index : s.index[A] < s.next
  /\ \A A \in DOMAIN s.index : \A B \in DOMAIN s.index : s.index[A] = s.index[B] => A = B
  /\ DOMAIN s.index = OnStack(s) \cup UNION s.components
  /\ OnStack(s) \cap UNION s.components = {}

StackAscends(s) ==
  \A j \in 1..Len(s.stack) : \A i \in 1..j - 1 : s.index[s.stack[i]] < s.index[s.stack[j]]

\* The frames are a path upwards, from the bottom of the stack.
FramesAscend(s) ==
  /\ \A i \in 1..Len(s.frames) : s.frames[i].node \in OnStack(s)
  /\ \A j \in 1..Len(s.frames) : \A i \in 1..j - 1 : s.index[s.frames[i].node] < s.index[s.frames[j].node]
  /\ \A A \in OnStack(s) : Len(s.frames) >= 1 /\ s.index[s.frames[1].node] <= s.index[A]

TakenIsFound(E, s) ==
  \A A \in DOMAIN s.index : \A B \in E[A] : Taken(s, A, B) => B \in DOMAIN s.index

\* How low a node reaches: to a node on the stack to which it leads, and at least as low
\* as its own edges go.
LowIsReached(V, E, s) ==
  \A A \in OnStack(s) :
    /\ s.low[A] <= s.index[A]
    /\ \E B \in OnStack(s) : s.low[A] = s.index[B] /\ LeadsIn(V, E, A, B)

LowIsLow(E, s) ==
  \A A \in OnStack(s) : \A B \in E[A] : B \in OnStack(s) /\ Taken(s, A, B) => s.low[A] <= s.index[B]

\* A frame leads to all that is above it.
FramesLead(V, E, s) ==
  \A i \in 1..Len(s.frames) : \A B \in OnStack(s) :
    s.index[s.frames[i].node] <= s.index[B] => LeadsIn(V, E, s.frames[i].node, B)

\* An ended node is still on the stack because it reaches lower than itself, and the
\* last frame below it knows.
EndedReachLower(s) ==
  \A A \in OnStack(s) : ~HasFrame(s, A) => s.low[A] < s.index[A]

FramesKnow(s) ==
  \A A \in OnStack(s) : ~HasFrame(s, A) =>
    \A i \in 1..Len(s.frames) :
      /\ s.index[s.frames[i].node] < s.index[A]
      /\ i < Len(s.frames) => s.index[A] < s.index[s.frames[i + 1].node]
      => s.low[s.frames[i].node] <= s.low[A]

ComponentsAreWhole(V, E, s) ==
  /\ \A C \in s.components : \A A \in C : C = ClassIn(V, E, A)
  /\ Closed(E, UNION s.components)

SearchOK(V, E, s) ==
  /\ SearchTyped(V, E, s) /\ NumberedOnce(s) /\ StackAscends(s) /\ FramesAscend(s)
  /\ TakenIsFound(E, s) /\ LowIsReached(V, E, s) /\ LowIsLow(E, s) /\ FramesLead(V, E, s)
  /\ EndedReachLower(s) /\ FramesKnow(s) /\ ComponentsAreWhole(V, E, s)

\* The dependencies of the grammar.
Graph == [A \in grammar.nonterminals |-> Successors(A)]

\* The parts of a search.
IsSearch(s) ==
  s = [at |-> s.at, next |-> s.next, index |-> s.index, low |-> s.low, stack |-> s.stack,
       frames |-> s.frames, components |-> s.components]

\* What holds of the search in the compilation: it begins with the reduced grammar,
\* and ends with every nonterminal discovered.
SccInv ==
  /\ scc.at \in {"idle", "search", "done"} /\ IsSearch(scc)
  /\ scc.at = "idle" => scc = NoScc
  /\ scc.at # "idle" => reduction.at = "done" /\ SearchOK(grammar.nonterminals, Graph, scc)
  /\ scc.at = "done" => scc.frames = << >> /\ DOMAIN scc.index = grammar.nonterminals
  /\ \A C \in scc.components : IsFiniteSet(C)

\* What the parts of the invariant say of frames and nodes on the stack.
LEMMA SearchFacts ==
  ASSUME NEW V, NEW E, IsGraph(V, E), NEW s, SearchOK(V, E, s)
  PROVE  /\ Len(s.frames) \in Nat /\ Len(s.stack) \in Nat
         /\ \A i \in 1..Len(s.frames) :
              /\ s.frames[i] \in [node : V, left : SUBSET V]
              /\ s.frames[i].node \in OnStack(s) /\ s.frames[i].left \subseteq E[s.frames[i].node]
         /\ OnStack(s) \subseteq DOMAIN s.index /\ OnStack(s) = {s.stack[i] : i \in 1..Len(s.stack)}
         /\ \A A \in DOMAIN s.index : A \in V /\ s.index[A] \in Nat /\ s.low[A] \in Nat
         /\ \A i \in 1..Len(s.frames) : \A j \in 1..Len(s.frames) :
              s.frames[i].node = s.frames[j].node => i = j
<1>1. Len(s.frames) \in Nat /\ Len(s.stack) \in Nat
  BY DEF SearchOK, SearchTyped
<1>2. ASSUME NEW i \in 1..Len(s.frames)
      PROVE  /\ s.frames[i] \in [node : V, left : SUBSET V]
             /\ s.frames[i].node \in OnStack(s) /\ s.frames[i].left \subseteq E[s.frames[i].node]
  <2> DEFINE F == [node : V, left : SUBSET V]
  <2>1. s.frames \in Seq(F)
    BY DEF SearchOK, SearchTyped
  <2> HIDE DEF F
  <2>2. s.frames[i] \in F
    BY <2>1
  <2> QED BY <2>2 DEF F, SearchOK, SearchTyped, FramesAscend
<1>3. OnStack(s) \subseteq DOMAIN s.index /\ OnStack(s) = {s.stack[i] : i \in 1..Len(s.stack)}
  <2>1. DOMAIN s.stack = 1..Len(s.stack)
    BY DEF SearchOK, SearchTyped
  <2> QED BY <2>1 DEF SearchOK, NumberedOnce, OnStack, ToSet
<1>4. \A A \in DOMAIN s.index : A \in V /\ s.index[A] \in Nat /\ s.low[A] \in Nat
  BY DEF SearchOK, SearchTyped
<1>5. ASSUME NEW i \in 1..Len(s.frames), NEW j \in 1..Len(s.frames), s.frames[i].node = s.frames[j].node
      PROVE  i = j
  <2> DEFINE f(k) == s.index[s.frames[k].node]
  <2>1. f(i) \in Nat /\ f(j) \in Nat /\ f(i) = f(j)
    BY <1>2, <1>3, <1>4, <1>5
  <2>2. (i \in 1..j - 1 => f(i) < f(j)) /\ (j \in 1..i - 1 => f(j) < f(i))
    BY DEF SearchOK, FramesAscend
  <2> HIDE DEF f
  <2>3. ~(i \in 1..j - 1) /\ ~(j \in 1..i - 1)
    BY <2>1, <2>2
  <2> QED BY <1>1, <2>3
<1> QED BY <1>1, <1>2, <1>3, <1>4, <1>5

\* Node B is discovered, from the last frame or as a root.
Opens(V, E, s, q, B) ==
  LET m == Len(s.frames)
  IN /\ B \in V \ DOMAIN s.index
     /\ q.next = s.next + 1 /\ q.index = With(s.index, B, s.next) /\ q.low = With(s.low, B, s.next)
     /\ q.stack = Append(s.stack, B) /\ q.components = s.components
     /\ q.frames \in Seq([node : V, left : SUBSET V]) /\ Len(q.frames) = m + 1
     /\ \A i \in 1..m : q.frames[i].node = s.frames[i].node
     /\ \A i \in 1..m - 1 : q.frames[i].left = s.frames[i].left
     /\ m >= 1 => B \in s.frames[m].left /\ q.frames[m].left = s.frames[m].left \ {B}
     /\ q.frames[m + 1].node = B /\ q.frames[m + 1].left = E[B]

\* What is discovered has the highest number and the last frame.
LEMMA OpensResult ==
  ASSUME NEW V, NEW E, IsGraph(V, E), NEW s, SearchOK(V, E, s), NEW q, NEW B, Opens(V, E, s, q, B)
  PROVE  /\ DOMAIN q.index = DOMAIN s.index \cup {B} /\ DOMAIN q.low = DOMAIN s.index \cup {B}
         /\ OnStack(q) = OnStack(s) \cup {B} /\ B \in V /\ B \notin DOMAIN s.index
         /\ \A A \in DOMAIN s.index : q.index[A] = s.index[A] /\ q.low[A] = s.low[A] /\ A # B
         /\ q.index[B] = s.next /\ q.low[B] = s.next /\ s.next \in Nat
         /\ \A A \in OnStack(s) : HasFrame(q, A) <=> HasFrame(s, A)
         /\ HasFrame(q, B)
         /\ \A A \in DOMAIN s.index : \A C :
              Taken(q, A, C) => Taken(s, A, C) \/ C = B
         /\ \A C \in E[B] : ~Taken(q, B, C)
<1> DEFINE m == Len(s.frames)
<1>1. /\ s.next \in Nat /\ s.stack \in Seq(V) /\ DOMAIN s.low = DOMAIN s.index /\ m \in Nat
      /\ B \in V /\ B \notin DOMAIN s.index
  BY SearchFacts DEF SearchOK, SearchTyped, Opens
<1>2. /\ DOMAIN q.index = DOMAIN s.index \cup {B} /\ DOMAIN q.low = DOMAIN s.index \cup {B}
      /\ \A A \in DOMAIN s.index : q.index[A] = s.index[A] /\ q.low[A] = s.low[A] /\ A # B
      /\ q.index[B] = s.next /\ q.low[B] = s.next
  BY <1>1 DEF Opens, With
<1>3. OnStack(q) = OnStack(s) \cup {B}
  <2> DEFINE t == s.stack
  <2>1. t \in Seq(V)
    BY <1>1
  <2> HIDE DEF t
  <2>2. ToSet(Append(t, B)) = ToSet(t) \cup {B}
    <3>1. /\ Len(Append(t, B)) = Len(t) + 1 /\ DOMAIN Append(t, B) = 1..Len(t) + 1 /\ DOMAIN t = 1..Len(t)
          /\ \A i \in 1..Len(t) : Append(t, B)[i] = t[i]
          /\ Append(t, B)[Len(t) + 1] = B /\ Len(t) \in Nat
      BY <1>1, <2>1
    <3>2. 1..Len(t) + 1 = (1..Len(t)) \cup {Len(t) + 1}
      BY <3>1
    <3> QED BY <3>1, <3>2 DEF ToSet
  <2> QED BY <2>2 DEF OnStack, Opens, t
<1>4. /\ Len(q.frames) = m + 1 /\ q.frames[m + 1].node = B /\ q.frames[m + 1].left = E[B]
      /\ \A i \in 1..m : q.frames[i].node = s.frames[i].node
      /\ \A i \in 1..m - 1 : q.frames[i].left = s.frames[i].left
      /\ m >= 1 => q.frames[m].left = s.frames[m].left \ {B}
  BY DEF Opens
<1>5. \A A \in OnStack(s) : A \in DOMAIN s.index
  BY SearchFacts
<1>6. \A i : i \in 1..m + 1 <=> i \in 1..m \/ i = m + 1
  BY <1>1
<1>7. ASSUME NEW A \in OnStack(s)
      PROVE  HasFrame(q, A) <=> HasFrame(s, A)
  <2> HIDE DEF m
  <2> QED BY <1>2, <1>4, <1>5, <1>6 DEF HasFrame, m
<1>8. HasFrame(q, B)
  BY <1>1, <1>4 DEF HasFrame
<1>9. ASSUME NEW A \in DOMAIN s.index, NEW C, Taken(q, A, C), C # B
      PROVE  Taken(s, A, C)
  <2> SUFFICES ASSUME NEW i \in 1..m, s.frames[i].node = A, C \in s.frames[i].left
               PROVE  FALSE
    BY DEF Taken
  <2>1. i \in 1..m + 1 /\ (i \in 1..m - 1 \/ (i = m /\ m >= 1))
    BY <1>1
  <2>2. C \in q.frames[i].left
    BY <1>4, <1>9, <2>1
  <2> QED BY <1>4, <1>9, <2>1, <2>2 DEF Taken
<1>10. \A C \in E[B] : ~Taken(q, B, C)
  BY <1>1, <1>4 DEF Taken
<1> QED BY <1>1, <1>2, <1>3, <1>7, <1>8, <1>9, <1>10

LEMMA OpensKeeps ==
  ASSUME NEW V, NEW E, IsGraph(V, E), NEW s, SearchOK(V, E, s), NEW q, NEW B, Opens(V, E, s, q, B)
  PROVE  SearchOK(V, E, q)
<1> DEFINE m == Len(s.frames)
           K == OnStack(s)
           D == DOMAIN s.index
<1>1. /\ DOMAIN q.index = D \cup {B} /\ DOMAIN q.low = D \cup {B}
      /\ OnStack(q) = K \cup {B} /\ B \in V /\ B \notin D
      /\ \A A \in D : q.index[A] = s.index[A] /\ q.low[A] = s.low[A] /\ A # B
      /\ q.index[B] = s.next /\ q.low[B] = s.next /\ s.next \in Nat
      /\ \A A \in K : HasFrame(q, A) <=> HasFrame(s, A)
      /\ HasFrame(q, B)
      /\ \A A \in D : \A C : Taken(q, A, C) => Taken(s, A, C) \/ C = B
      /\ \A C \in E[B] : ~Taken(q, B, C)
  BY OpensResult
<1>2. /\ m \in Nat /\ Len(s.stack) \in Nat /\ K \subseteq D /\ D \subseteq V
      /\ \A i \in 1..m : s.frames[i].node \in K /\ s.frames[i].left \subseteq E[s.frames[i].node]
      /\ \A A \in D : A \in V /\ s.index[A] \in Nat /\ s.low[A] \in Nat /\ s.index[A] < s.next
      /\ \A i \in 1..Len(s.stack) : s.stack[i] \in K
  <2>1. \A A \in D : s.index[A] < s.next
    BY DEF SearchOK, NumberedOnce
  <2> QED BY <2>1, SearchFacts
<1>3. /\ Len(q.frames) = m + 1 /\ q.frames[m + 1].node = B /\ q.frames[m + 1].left = E[B]
      /\ \A i \in 1..m : q.frames[i].node = s.frames[i].node
      /\ \A i \in 1..m - 1 : q.frames[i].left = s.frames[i].left
      /\ m >= 1 => B \in s.frames[m].left /\ q.frames[m].left = s.frames[m].left \ {B}
      /\ q.frames \in Seq([node : V, left : SUBSET V])
      /\ q.stack = Append(s.stack, B) /\ q.next = s.next + 1 /\ q.components = s.components
  BY DEF Opens
<1>4. \A i \in 1..m + 1 : i \in 1..m \/ i = m + 1
  BY <1>2
<1>5. SearchTyped(V, E, q)
  <2>1. q.next \in Nat /\ q.components \in SUBSET SUBSET V
    BY <1>1, <1>3 DEF SearchOK, SearchTyped
  <2>2. q.stack \in Seq(V)
    BY <1>1, <1>3 DEF SearchOK, SearchTyped
  <2>3. DOMAIN q.index \subseteq V
    BY <1>1, <1>2
  <2>4. q.index \in [DOMAIN q.index -> Nat] /\ q.low \in [DOMAIN q.index -> Nat]
    <3>1. \A A \in D \cup {B} : q.index[A] \in Nat /\ q.low[A] \in Nat
      BY <1>1, <1>2
    <3>2. q.index = [A \in D \cup {B} |-> q.index[A]] /\ q.low = [A \in D \cup {B} |-> q.low[A]]
      BY <1>1 DEF Opens, With, SearchOK, SearchTyped
    <3> QED BY <1>1, <3>1, <3>2
  <2>5. \A i \in 1..m + 1 : q.frames[i].left \subseteq E[q.frames[i].node]
    <3> SUFFICES ASSUME NEW i \in 1..m + 1
                 PROVE  q.frames[i].left \subseteq E[q.frames[i].node]
      OBVIOUS
    <3>1. (i \in 1..m - 1 /\ i \in 1..m) \/ (i = m /\ m >= 1 /\ i \in 1..m) \/ i = m + 1
      BY <1>2
    <3>c1. CASE i \in 1..m - 1 /\ i \in 1..m
      <4>1. q.frames[i].left = s.frames[i].left /\ q.frames[i].node = s.frames[i].node
        BY <1>3, <3>c1
      <4> QED BY <1>2, <3>c1, <4>1
    <3>c2. CASE i = m /\ m >= 1 /\ i \in 1..m
      <4>1. q.frames[i].left \subseteq s.frames[i].left /\ q.frames[i].node = s.frames[i].node
        BY <1>3, <3>c2
      <4> QED BY <1>2, <3>c2, <4>1
    <3>c3. CASE i = m + 1
      BY <1>3, <3>c3
    <3> QED BY <3>1, <3>c1, <3>c2, <3>c3
  <2> QED BY <1>3, <2>1, <2>2, <2>3, <2>4, <2>5 DEF SearchTyped
<1>6. NumberedOnce(q)
  <2>1. \A A \in D \cup {B} : q.index[A] < s.next + 1
    BY <1>1, <1>2
  <2>2. \A A \in D \cup {B} : \A C \in D \cup {B} : q.index[A] = q.index[C] => A = C
    <3>1. \A A \in D : \A C \in D : s.index[A] = s.index[C] => A = C
      BY DEF SearchOK, NumberedOnce
    <3>2. \A A \in D : q.index[A] # s.next
      BY <1>1, <1>2
    <3> QED BY <1>1, <3>1, <3>2
  <2>3. D = K \cup UNION s.components /\ K \cap UNION s.components = {}
    BY DEF SearchOK, NumberedOnce
  <2> QED BY <1>1, <1>3, <2>1, <2>2, <2>3 DEF NumberedOnce
<1>7. StackAscends(q)
  <2> DEFINE t == s.stack
             n == Len(t)
             u == Append(t, B)
  <2>1. t \in Seq(V) /\ n \in Nat /\ q.stack = u
    BY <1>2, <1>3 DEF SearchOK, SearchTyped
  <2>2. \A i \in 1..n : t[i] \in D /\ q.index[t[i]] = s.index[t[i]] /\ q.index[t[i]] < s.next
    BY <1>1, <1>2
  <2>3. \A j \in 1..n : \A i \in 1..j - 1 : s.index[t[i]] < s.index[t[j]]
    BY DEF SearchOK, StackAscends
  <2> HIDE DEF t
  <2>4. Len(u) = n + 1 /\ u[n + 1] = B /\ \A i \in 1..n : u[i] = t[i]
    BY <1>1, <2>1
  <2> HIDE DEF u, n
  <2> SUFFICES ASSUME NEW j \in 1..n + 1, NEW i \in 1..j - 1
               PROVE  q.index[u[i]] < q.index[u[j]]
    BY <2>1, <2>4 DEF StackAscends
  <2>5. i \in 1..n /\ (j \in 1..n \/ j = n + 1)
    BY <2>1
  <2> QED BY <1>1, <2>2, <2>3, <2>4, <2>5
<1>8. FramesAscend(q)
  <2> DEFINE p(i) == s.frames[i].node
             r(i) == q.frames[i].node
  <2>1. \A i \in 1..m + 1 : r(i) \in K \cup {B}
    BY <1>2, <1>3, <1>4
  <2>2. ASSUME NEW j \in 1..m + 1, NEW i \in 1..j - 1
        PROVE  q.index[r(i)] < q.index[r(j)]
    <3>1. i \in 1..m /\ (j \in 1..m \/ j = m + 1)
      BY <1>2
    <3>2. r(i) = p(i) /\ p(i) \in D
      BY <1>2, <1>3, <3>1
    <3>c1. CASE j \in 1..m
      <4>1. r(j) = p(j) /\ p(j) \in D /\ s.index[p(i)] < s.index[p(j)]
        BY <1>2, <1>3, <3>c1 DEF SearchOK, FramesAscend
      <4> QED BY <1>1, <3>2, <4>1
    <3>c2. CASE j = m + 1
      BY <1>1, <1>2, <1>3, <3>2, <3>c2
    <3> QED BY <3>1, <3>c1, <3>c2
  <2>3. ASSUME NEW A \in K \cup {B}
        PROVE  m + 1 >= 1 /\ q.index[r(1)] <= q.index[A]
    <3>c1. CASE A \in K
      <4>1. m >= 1 /\ s.index[p(1)] <= s.index[A]
        BY <3>c1 DEF SearchOK, FramesAscend
      <4>2. r(1) = p(1) /\ p(1) \in D /\ A \in D
        BY <1>2, <1>3, <3>c1, <4>1
      <4> QED BY <1>1, <1>2, <4>1, <4>2
    <3>c2. CASE A = B
      <4>1. r(1) \in K \cup {B}
        BY <1>2, <2>1
      <4> QED BY <1>1, <1>2, <3>c2, <4>1
    <3> QED BY <3>c1, <3>c2
  <2> QED BY <1>1, <1>3, <2>1, <2>2, <2>3 DEF FramesAscend
<1>9. TakenIsFound(E, q)
  <2> SUFFICES ASSUME NEW A \in D \cup {B}, NEW C \in E[A], Taken(q, A, C)
               PROVE  C \in D \cup {B}
    BY <1>1 DEF TakenIsFound
  <2>1. A \in D /\ (Taken(s, A, C) \/ C = B)
    BY <1>1
  <2> QED BY <2>1 DEF SearchOK, TakenIsFound
<1>10. LowIsReached(V, E, q)
  <2> SUFFICES ASSUME NEW A \in K \cup {B}
               PROVE  /\ q.low[A] <= q.index[A]
                      /\ \E C \in K \cup {B} : q.low[A] = q.index[C] /\ LeadsIn(V, E, A, C)
    BY <1>1 DEF LowIsReached
  <2>c1. CASE A \in K
    <3>1. /\ s.low[A] <= s.index[A]
          /\ \E C \in K : s.low[A] = s.index[C] /\ LeadsIn(V, E, A, C)
      BY <2>c1 DEF SearchOK, LowIsReached
    <3> QED BY <1>1, <1>2, <2>c1, <3>1
  <2>c2. CASE A = B
    BY <1>1, <2>c2 DEF LeadsIn
  <2> QED BY <2>c1, <2>c2
<1>11. LowIsLow(E, q)
  <2> SUFFICES ASSUME NEW A \in K \cup {B}, NEW C \in E[A], C \in K \cup {B}, Taken(q, A, C)
               PROVE  q.low[A] <= q.index[C]
    BY <1>1 DEF LowIsLow
  <2>1. A \in K /\ A \in D /\ (Taken(s, A, C) \/ C = B)
    BY <1>1, <1>2
  <2>c1. CASE C = B
    <3>1. s.low[A] <= s.index[A] /\ s.index[A] < s.next /\ s.low[A] \in Nat /\ s.index[A] \in Nat
      BY <1>2, <2>1 DEF SearchOK, LowIsReached
    <3> QED BY <1>1, <2>1, <2>c1, <3>1
  <2>c2. CASE C # B
    <3>1. s.low[A] <= s.index[C]
      BY <2>1, <2>c2 DEF SearchOK, LowIsLow
    <3> QED BY <1>1, <1>2, <2>1, <2>c2, <3>1
  <2> QED BY <2>c1, <2>c2
<1>12. FramesLead(V, E, q)
  <2> SUFFICES ASSUME NEW i \in 1..m + 1, NEW A \in K \cup {B},
                      q.index[q.frames[i].node] <= q.index[A]
               PROVE  LeadsIn(V, E, q.frames[i].node, A)
    BY <1>1, <1>3 DEF FramesLead
  <2> DEFINE n == q.frames[i].node
  <2>c1. CASE i = m + 1
    <3>1. n = B /\ ~(A \in K)
      BY <1>1, <1>2, <1>3, <2>c1
    <3> QED BY <3>1 DEF LeadsIn
  <2>c2. CASE i \in 1..m
    <3>1. n = s.frames[i].node /\ n \in K /\ n \in D
      BY <1>2, <1>3, <2>c2
    <3>c1. CASE A \in K
      <4>1. s.index[n] <= s.index[A]
        BY <1>1, <1>2, <3>1, <3>c1
      <4> QED BY <2>c2, <3>1, <3>c1, <4>1 DEF SearchOK, FramesLead
    <3>c2. CASE A = B
      <4> DEFINE k == s.frames[m].node
      <4>1. m >= 1 /\ m \in 1..m /\ k \in K /\ k \in V /\ B \in E[k]
        <5>1. m >= 1 /\ m \in 1..m
          BY <1>2, <2>c2
        <5> QED BY <1>2, <1>3, <5>1
      <4>2. s.index[n] <= s.index[k]
        <5>1. i = m \/ i \in 1..m - 1
          BY <1>2, <2>c2
        <5>2. i \in 1..m - 1 => s.index[n] < s.index[k]
          BY <3>1, <4>1 DEF SearchOK, FramesAscend
        <5> QED BY <1>2, <3>1, <4>1, <5>1, <5>2
      <4>3. LeadsIn(V, E, n, k)
        BY <2>c2, <3>1, <4>1, <4>2 DEF SearchOK, FramesLead
      <4>4. n \in V
        BY <1>2, <3>1
      <4> HIDE DEF k, n
      <4>5. B \in ReachesIn(V, E, n)
        BY <1>1, <4>1, <4>3, <4>4, LeadsOn
      <4> QED BY <3>c2, <4>5 DEF LeadsIn, n
    <3> QED BY <3>c1, <3>c2
  <2> QED BY <1>4, <2>c1, <2>c2
<1>13. EndedReachLower(q)
  <2> SUFFICES ASSUME NEW A \in K \cup {B}, ~HasFrame(q, A)
               PROVE  q.low[A] < q.index[A]
    BY <1>1 DEF EndedReachLower
  <2>1. A \in K /\ ~HasFrame(s, A)
    BY <1>1
  <2>2. s.low[A] < s.index[A]
    BY <2>1 DEF SearchOK, EndedReachLower
  <2> QED BY <1>1, <1>2, <2>1, <2>2
<1>14. FramesKnow(q)
  <2> SUFFICES ASSUME NEW A \in K \cup {B}, ~HasFrame(q, A), NEW i \in 1..m + 1,
                      q.index[q.frames[i].node] < q.index[A],
                      i < m + 1 => q.index[A] < q.index[q.frames[i + 1].node]
               PROVE  q.low[q.frames[i].node] <= q.low[A]
    BY <1>1, <1>3 DEF FramesKnow
  <2> DEFINE n == q.frames[i].node
             k == s.frames[i + 1].node
  <2>1. A \in K /\ A \in D /\ ~HasFrame(s, A) /\ s.index[A] < s.next
    BY <1>1, <1>2
  <2>2. i \in 1..m
    <3>1. i # m + 1
      BY <1>1, <1>2, <1>3, <2>1
    <3> QED BY <1>4, <3>1
  <2>3. n = s.frames[i].node /\ n \in K /\ n \in D /\ s.index[n] < s.index[A]
    BY <1>1, <1>2, <1>3, <2>1, <2>2
  <2>4. ASSUME i < m
        PROVE  s.index[A] < s.index[k]
    <3>1. i + 1 \in 1..m /\ i < m + 1
      BY <1>2, <2>2, <2>4
    <3>2. q.frames[i + 1].node = k /\ k \in D
      BY <1>2, <1>3, <3>1
    <3> QED BY <1>1, <2>1, <3>1, <3>2
  <2>5. s.low[n] <= s.low[A]
    <3> HIDE DEF k
    <3> QED BY <2>1, <2>2, <2>3, <2>4 DEF SearchOK, FramesKnow, k
  <2> QED BY <1>1, <2>1, <2>3, <2>5
<1>15. ComponentsAreWhole(V, E, q)
  BY <1>3 DEF SearchOK, ComponentsAreWhole
<1> QED BY <1>5, <1>6, <1>7, <1>8, <1>9, <1>10, <1>11, <1>12, <1>13, <1>14, <1>15 DEF SearchOK

\* The last frame follows an edge to B, which is discovered already.
Looks(V, s, q, B) ==
  LET m == Len(s.frames)
      A == s.frames[m].node
  IN /\ m >= 1 /\ B \in s.frames[m].left /\ B \in DOMAIN s.index
     /\ q.next = s.next /\ q.index = s.index /\ q.stack = s.stack /\ q.components = s.components
     /\ q.low = (IF B \in OnStack(s) /\ s.index[B] < s.low[A]
                 THEN [s.low EXCEPT ![A] = s.index[B]] ELSE s.low)
     /\ q.frames \in Seq([node : V, left : SUBSET V]) /\ Len(q.frames) = m
     /\ \A i \in 1..m : q.frames[i].node = s.frames[i].node
     /\ \A i \in 1..m - 1 : q.frames[i].left = s.frames[i].left
     /\ q.frames[m].left = s.frames[m].left \ {B}

LEMMA LooksKeeps ==
  ASSUME NEW V, NEW E, IsGraph(V, E), NEW s, SearchOK(V, E, s), NEW q, NEW B, Looks(V, s, q, B)
  PROVE  SearchOK(V, E, q)
<1> DEFINE m == Len(s.frames)
           K == OnStack(s)
           D == DOMAIN s.index
           A == s.frames[m].node
<1>1. /\ m \in Nat /\ m >= 1 /\ m \in 1..m /\ B \in D /\ K \subseteq D /\ D \subseteq V
      /\ \A i \in 1..m : s.frames[i].node \in K /\ s.frames[i].left \subseteq E[s.frames[i].node]
      /\ \A C \in D : C \in V /\ s.index[C] \in Nat /\ s.low[C] \in Nat
      /\ A \in K /\ A \in D /\ B \in E[A]
  <2>1. m \in Nat /\ m >= 1 /\ B \in s.frames[m].left /\ B \in D
    BY SearchFacts DEF Looks
  <2>2. m \in 1..m
    BY <2>1
  <2> HIDE DEF m
  <2> QED BY <2>1, <2>2, SearchFacts DEF m
<1>2. /\ Len(q.frames) = m
      /\ \A i \in 1..m : q.frames[i].node = s.frames[i].node
      /\ \A i \in 1..m - 1 : q.frames[i].left = s.frames[i].left
      /\ q.frames[m].left = s.frames[m].left \ {B}
      /\ q.frames \in Seq([node : V, left : SUBSET V])
      /\ q.next = s.next /\ q.index = s.index /\ q.stack = s.stack /\ q.components = s.components
  BY DEF Looks
<1>3. /\ DOMAIN q.low = D /\ q.low \in [D -> Nat]
      /\ \A C \in D : q.low[C] \in Nat /\ q.low[C] <= s.low[C] /\ (C # A => q.low[C] = s.low[C])
      /\ B \in K => q.low[A] <= s.index[B]
      /\ q.low[A] = s.low[A] \/ (B \in K /\ q.low[A] = s.index[B])
  <2>1. s.low \in [D -> Nat]
    BY DEF SearchOK, SearchTyped
  <2>2. q.low = (IF B \in K /\ s.index[B] < s.low[A] THEN [s.low EXCEPT ![A] = s.index[B]] ELSE s.low)
    BY DEF Looks
  <2> HIDE DEF D, K, A
  <2> QED BY <1>1, <2>1, <2>2
<1>4. OnStack(q) = K /\ DOMAIN q.index = D
  BY <1>2 DEF OnStack
<1>5. \A C : HasFrame(q, C) <=> HasFrame(s, C)
  BY <1>2 DEF HasFrame
<1>6. ASSUME NEW C, NEW Z, Taken(q, C, Z), ~(C = A /\ Z = B)
      PROVE  Taken(s, C, Z)
  <2> SUFFICES ASSUME NEW i \in 1..m, s.frames[i].node = C, Z \in s.frames[i].left
               PROVE  FALSE
    BY DEF Taken
  <2>1. i \in 1..m - 1 \/ i = m
    BY <1>1
  <2>2. Z \in q.frames[i].left
    BY <1>2, <1>6, <2>1
  <2> QED BY <1>2, <1>6, <2>2 DEF Taken
<1>7. SearchTyped(V, E, q)
  <2>1. ASSUME NEW i \in 1..m
        PROVE  q.frames[i].left \subseteq E[q.frames[i].node]
    <3>1. i \in 1..m - 1 \/ i = m
      BY <1>1
    <3>2. q.frames[i].left \subseteq s.frames[i].left
      BY <1>2, <3>1
    <3> QED BY <1>1, <1>2, <3>2
  <2> QED BY <1>2, <1>3, <2>1 DEF SearchOK, SearchTyped
<1>8. NumberedOnce(q) /\ StackAscends(q)
  BY <1>2, <1>4 DEF SearchOK, NumberedOnce, StackAscends
<1>9. FramesAscend(q)
  <2> DEFINE p(i) == s.frames[i].node
             r(i) == q.frames[i].node
  <2>1. \A i \in 1..m : r(i) = p(i) /\ p(i) \in K
    BY <1>1, <1>2
  <2>2. ASSUME NEW j \in 1..m, NEW i \in 1..j - 1
        PROVE  q.index[r(i)] < q.index[r(j)]
    <3>1. s.index[p(i)] < s.index[p(j)] /\ i \in 1..m
      BY <1>1 DEF SearchOK, FramesAscend
    <3> QED BY <1>2, <2>1, <3>1
  <2>3. ASSUME NEW C \in K
        PROVE  m >= 1 /\ q.index[r(1)] <= q.index[C]
    <3>1. s.index[p(1)] <= s.index[C] /\ 1 \in 1..m
      BY <1>1 DEF SearchOK, FramesAscend
    <3> QED BY <1>1, <1>2, <2>1, <3>1
  <2> QED BY <1>2, <1>4, <2>1, <2>2, <2>3 DEF FramesAscend
<1>10. TakenIsFound(E, q)
  <2> SUFFICES ASSUME NEW C \in D, NEW Z \in E[C], Taken(q, C, Z)
               PROVE  Z \in D
    BY <1>4 DEF TakenIsFound
  <2>1. Taken(s, C, Z) \/ Z = B
    BY <1>6
  <2> QED BY <1>1, <2>1 DEF SearchOK, TakenIsFound
<1>11. LowIsReached(V, E, q)
  <2> SUFFICES ASSUME NEW C \in K
               PROVE  /\ q.low[C] <= s.index[C]
                      /\ \E Z \in K : q.low[C] = s.index[Z] /\ LeadsIn(V, E, C, Z)
    BY <1>2, <1>4 DEF LowIsReached
  <2>1. /\ s.low[C] <= s.index[C]
        /\ \E Z \in K : s.low[C] = s.index[Z] /\ LeadsIn(V, E, C, Z)
    BY DEF SearchOK, LowIsReached
  <2>2. q.low[C] <= s.index[C]
    BY <1>1, <1>3, <2>1
  <2>c1. CASE q.low[C] = s.low[C]
    BY <2>1, <2>2, <2>c1
  <2>c2. CASE q.low[C] # s.low[C]
    <3>1. C = A /\ B \in K /\ q.low[A] = s.index[B]
      BY <1>1, <1>3, <2>c2
    <3>2. LeadsIn(V, E, A, B)
      <4>1. A \in V /\ B \in V /\ B \in E[A] /\ LeadsIn(V, E, A, A)
        BY <1>1 DEF LeadsIn
      <4> HIDE DEF A
      <4> QED BY <4>1, LeadsOn DEF LeadsIn
    <3> QED BY <2>2, <3>1, <3>2
  <2> QED BY <2>c1, <2>c2
<1>12. LowIsLow(E, q)
  <2> SUFFICES ASSUME NEW C \in K, NEW Z \in E[C], Z \in K, Taken(q, C, Z)
               PROVE  q.low[C] <= s.index[Z]
    BY <1>2, <1>4 DEF LowIsLow
  <2>c1. CASE C = A /\ Z = B
    BY <1>3, <2>c1
  <2>c2. CASE ~(C = A /\ Z = B)
    <3>1. s.low[C] <= s.index[Z]
      BY <1>6, <2>c2 DEF SearchOK, LowIsLow
    <3> QED BY <1>1, <1>3, <3>1
  <2> QED BY <2>c1, <2>c2
<1>13. FramesLead(V, E, q)
  BY <1>2, <1>4 DEF SearchOK, FramesLead
<1>14. \A C \in K : ~HasFrame(s, C) => q.low[C] = s.low[C]
  BY <1>1, <1>3 DEF HasFrame
<1>15. EndedReachLower(q)
  BY <1>2, <1>4, <1>5, <1>14 DEF SearchOK, EndedReachLower
<1>16. FramesKnow(q)
  <2> SUFFICES ASSUME NEW C \in K, ~HasFrame(s, C), NEW i \in 1..m,
                      s.index[q.frames[i].node] < s.index[C],
                      i < m => s.index[C] < s.index[q.frames[i + 1].node]
               PROVE  q.low[q.frames[i].node] <= q.low[C]
    BY <1>2, <1>4, <1>5 DEF FramesKnow
  <2> DEFINE n == s.frames[i].node
             k == s.frames[i + 1].node
  <2>1. q.frames[i].node = n /\ n \in D /\ C \in D
    BY <1>1, <1>2
  <2>2. i < m => s.index[C] < s.index[k]
    <3>1. i < m => i + 1 \in 1..m
      BY <1>1
    <3> QED BY <1>2, <3>1
  <2>3. s.low[n] <= s.low[C]
    <3> HIDE DEF k
    <3> QED BY <2>1, <2>2 DEF SearchOK, FramesKnow, k
  <2>4. q.low[C] = s.low[C]
    BY <1>14
  <2>5. q.low[n] <= s.low[n] /\ q.low[n] \in Nat /\ s.low[n] \in Nat /\ s.low[C] \in Nat
    BY <1>1, <1>3, <2>1
  <2>6. q.low[q.frames[i].node] = q.low[n]
    BY <2>1
  <2> HIDE DEF n, m
  <2> QED BY <2>3, <2>4, <2>5, <2>6
<1>17. ComponentsAreWhole(V, E, q)
  BY <1>2 DEF SearchOK, ComponentsAreWhole
<1> QED BY <1>7, <1>8, <1>9, <1>10, <1>11, <1>12, <1>13, <1>15, <1>16, <1>17 DEF SearchOK

\* What the parent of the last frame learns of it.
ToldLow(s) ==
  LET m == Len(s.frames)
      A == s.frames[m].node
      P == s.frames[m - 1].node
  IN IF m = 1 THEN s.low
     ELSE IF s.low[A] < s.low[P] THEN [s.low EXCEPT ![P] = s.low[A]] ELSE s.low

\* The last frame has no edge left, and goes.
Pops(V, s, q) ==
  LET m == Len(s.frames)
  IN /\ m >= 1 /\ s.frames[m].left = {}
     /\ q.next = s.next /\ q.index = s.index
     /\ q.low = ToldLow(s)
     /\ q.frames \in Seq([node : V, left : SUBSET V]) /\ Len(q.frames) = m - 1
     /\ \A i \in 1..m - 1 : q.frames[i] = s.frames[i]

\* It is not the lowest of its component, which waits.
Ends(V, s, q) ==
  /\ Pops(V, s, q)
  /\ s.low[s.frames[Len(s.frames)].node] # s.index[s.frames[Len(s.frames)].node]
  /\ q.stack = s.stack /\ q.components = s.components

\* It is: what is on the stack from it on is a component.
Closes(V, s, q) ==
  LET A == s.frames[Len(s.frames)].node
  IN /\ Pops(V, s, q)
     /\ s.low[A] = s.index[A]
     /\ \E from \in 1..Len(s.stack) :
          /\ s.stack[from] = A
          /\ q.stack = SubSeq(s.stack, 1, from - 1)
          /\ q.components = s.components \cup {ToSet(SubSeq(s.stack, from, Len(s.stack)))}

\* The frame that goes is the highest, and had nothing left to say of edges.
LEMMA PopsResult ==
  ASSUME NEW V, NEW E, IsGraph(V, E), NEW s, SearchOK(V, E, s), NEW q, Pops(V, s, q)
  PROVE  LET m == Len(s.frames)
             A == s.frames[m].node
             P == s.frames[m - 1].node
         IN /\ m \in Nat /\ m >= 1 /\ m \in 1..m /\ A \in OnStack(s) /\ A \in DOMAIN s.index
            /\ m >= 2 => m - 1 \in 1..m /\ P \in OnStack(s) /\ P \in DOMAIN s.index /\ P # A
                         /\ s.index[P] < s.index[A]
            /\ \A i \in 1..m : s.frames[i].node \in OnStack(s) /\ s.index[s.frames[i].node] <= s.index[A]
            /\ \A i \in 1..m - 1 : s.index[s.frames[i].node] < s.index[A]
            /\ \A C : HasFrame(q, C) <=> HasFrame(s, C) /\ C # A
            /\ HasFrame(s, A)
            /\ \A C : \A Z : Taken(q, C, Z) <=> Taken(s, C, Z)
            /\ OnStack(s) \subseteq DOMAIN s.index
            /\ \A C \in DOMAIN s.index : C \in V /\ s.index[C] \in Nat /\ s.low[C] \in Nat
            /\ \A C \in OnStack(s) : ~HasFrame(s, C) /\ s.index[A] < s.index[C] => s.low[A] <= s.low[C]
<1> DEFINE m == Len(s.frames)
           A == s.frames[m].node
           P == s.frames[m - 1].node
           K == OnStack(s)
           D == DOMAIN s.index
           node(i) == s.frames[i].node
<1>1. m \in Nat /\ m >= 1 /\ m \in 1..m
  <2>1. m \in Nat /\ m >= 1
    BY SearchFacts DEF Pops
  <2> HIDE DEF m
  <2> QED BY <2>1
<1>2. /\ K \subseteq D /\ D \subseteq V
      /\ \A C \in D : C \in V /\ s.index[C] \in Nat /\ s.low[C] \in Nat
      /\ \A i \in 1..m : node(i) \in K
      /\ \A i \in 1..m : \A j \in 1..m : node(i) = node(j) => i = j
  BY SearchFacts
<1>3. \A j \in 1..m : \A i \in 1..j - 1 : s.index[node(i)] < s.index[node(j)]
  BY DEF SearchOK, FramesAscend
<1>4. \A i \in 1..m : i \in 1..m - 1 \/ i = m
  BY <1>1
<1>5. A \in K /\ A \in D /\ A = node(m)
  BY <1>1, <1>2
<1>6. \A i \in 1..m - 1 : s.index[node(i)] < s.index[A]
  BY <1>1, <1>3
<1>7. \A i \in 1..m : node(i) \in K /\ s.index[node(i)] <= s.index[A]
  <2> SUFFICES ASSUME NEW i \in 1..m
               PROVE  s.index[node(i)] <= s.index[A]
    BY <1>2
  <2>1. s.index[node(i)] \in Nat /\ s.index[A] \in Nat
    BY <1>2, <1>5
  <2> QED BY <1>4, <1>6, <2>1
<1>8. ASSUME m >= 2
      PROVE  m - 1 \in 1..m /\ P \in K /\ P \in D /\ P # A /\ s.index[P] < s.index[A]
  <2>1. m - 1 \in 1..m /\ m - 1 \in 1..m - 1 /\ m - 1 # m
    BY <1>1, <1>8
  <2>2. P \in K /\ P \in D /\ s.index[P] < s.index[A] /\ P = node(m - 1)
    BY <1>2, <1>6, <2>1
  <2>3. P # A
    BY <1>1, <1>2, <1>5, <2>1, <2>2
  <2> QED BY <2>1, <2>2, <2>3
<1>9. /\ Len(q.frames) = m - 1 /\ \A i \in 1..m - 1 : q.frames[i] = s.frames[i]
      /\ s.frames[m].left = {}
  BY DEF Pops
<1>10. \A i \in 1..m - 1 : i \in 1..m /\ i # m
  BY <1>1
<1>11. ASSUME NEW C
       PROVE  HasFrame(q, C) <=> HasFrame(s, C) /\ C # A
  BY <1>1, <1>2, <1>4, <1>5, <1>9, <1>10 DEF HasFrame
<1>12. HasFrame(s, A)
  BY <1>1, <1>5 DEF HasFrame
<1>13. ASSUME NEW C, NEW Z
       PROVE  Taken(q, C, Z) <=> Taken(s, C, Z)
  <2> HIDE DEF m
  <2> QED BY <1>4, <1>9, <1>10 DEF Taken, m
<1>14. ASSUME NEW C \in K, ~HasFrame(s, C), s.index[A] < s.index[C]
       PROVE  s.low[A] <= s.low[C]
  <2>1. ~(m < m)
    BY <1>1
  <2> QED BY <1>1, <1>5, <1>14, <2>1 DEF SearchOK, FramesKnow
<1> QED BY <1>1, <1>2, <1>5, <1>6, <1>7, <1>8, <1>11, <1>12, <1>13, <1>14

\* What is common to the ends of all frames.
LEMMA PopsKeeps ==
  ASSUME NEW V, NEW E, IsGraph(V, E), NEW s, SearchOK(V, E, s), NEW q, Pops(V, s, q),
         q.stack \in Seq(V), q.components \in SUBSET SUBSET V
  PROVE  SearchTyped(V, E, q) /\ TakenIsFound(E, q)
<1> DEFINE m == Len(s.frames)
           A == s.frames[m].node
           P == s.frames[m - 1].node
           D == DOMAIN s.index
<1>1. /\ m \in Nat /\ m >= 1 /\ A \in D /\ (m >= 2 => P \in D)
      /\ \A C : \A Z : Taken(q, C, Z) <=> Taken(s, C, Z)
      /\ s.low \in [D -> Nat]
  BY PopsResult DEF SearchOK, SearchTyped
<1>2. q.low \in [D -> Nat]
  <2>1. q.low = ToldLow(s)
    BY DEF Pops
  <2>2. m = 1 \/ m >= 2
    <3>1. m \in Nat /\ m >= 1
      BY <1>1
    <3> HIDE DEF m
    <3> QED BY <3>1
  <2> HIDE DEF D
  <2> QED BY <1>1, <2>1, <2>2 DEF ToldLow
<1>3. \A i \in 1..m - 1 : i \in 1..m
  BY <1>1
<1>4. /\ Len(q.frames) = m - 1 /\ \A i \in 1..m - 1 : q.frames[i] = s.frames[i]
      /\ q.index = s.index /\ q.next = s.next /\ q.frames \in Seq([node : V, left : SUBSET V])
  BY DEF Pops
<1>5. \A i \in 1..m : s.frames[i].left \subseteq E[s.frames[i].node]
  BY DEF SearchOK, SearchTyped
<1>6. SearchTyped(V, E, q)
  BY <1>2, <1>3, <1>4, <1>5 DEF SearchTyped, SearchOK
<1>7. TakenIsFound(E, q)
  BY <1>1, <1>4 DEF SearchOK, TakenIsFound
<1> QED BY <1>6, <1>7

LEMMA EndsKeeps ==
  ASSUME NEW V, NEW E, IsGraph(V, E), NEW s, SearchOK(V, E, s), NEW q, Ends(V, s, q)
  PROVE  SearchOK(V, E, q)
<1> DEFINE m == Len(s.frames)
           A == s.frames[m].node
           P == s.frames[m - 1].node
           K == OnStack(s)
           D == DOMAIN s.index
           node(i) == s.frames[i].node
<1>0. Pops(V, s, q) /\ s.low[A] # s.index[A] /\ q.stack = s.stack /\ q.components = s.components
  BY DEF Ends
<1>1. /\ m \in Nat /\ m >= 1 /\ m \in 1..m /\ A \in K /\ A \in D
      /\ m >= 2 => m - 1 \in 1..m /\ P \in K /\ P \in D /\ P # A /\ s.index[P] < s.index[A]
      /\ \A i \in 1..m : node(i) \in K
      /\ \A i \in 1..m - 1 : s.index[node(i)] < s.index[A]
      /\ \A C : HasFrame(q, C) <=> HasFrame(s, C) /\ C # A
      /\ HasFrame(s, A)
      /\ \A C : \A Z : Taken(q, C, Z) <=> Taken(s, C, Z)
      /\ K \subseteq D
      /\ \A C \in D : C \in V /\ s.index[C] \in Nat /\ s.low[C] \in Nat
      /\ \A C \in K : ~HasFrame(s, C) /\ s.index[A] < s.index[C] => s.low[A] <= s.low[C]
  BY <1>0, PopsResult
<1>2. /\ Len(q.frames) = m - 1 /\ \A i \in 1..m - 1 : q.frames[i] = s.frames[i]
      /\ q.index = s.index /\ q.low = ToldLow(s) /\ OnStack(q) = K
  BY <1>0 DEF Pops, OnStack
<1>3. SearchTyped(V, E, q) /\ TakenIsFound(E, q)
  <2>1. q.stack \in Seq(V) /\ q.components \in SUBSET SUBSET V
    BY <1>0 DEF SearchOK, SearchTyped
  <2> QED BY <1>0, <2>1, PopsKeeps
<1>4. s.low[A] < s.index[A] /\ \E B \in K : s.low[A] = s.index[B] /\ LeadsIn(V, E, A, B)
  <2>1. s.low[A] <= s.index[A] /\ \E B \in K : s.low[A] = s.index[B] /\ LeadsIn(V, E, A, B)
    BY <1>1 DEF SearchOK, LowIsReached
  <2> QED BY <1>0, <1>1, <2>1
<1>5. m >= 2
  <2> SUFFICES ASSUME m = 1
               PROVE  FALSE
    <3>1. m \in Nat /\ m >= 1
      BY <1>1
    <3> HIDE DEF m
    <3> QED BY <3>1
  <2>1. PICK B \in K : s.low[A] = s.index[B]
    BY <1>4
  <2>2. s.index[node(1)] <= s.index[B]
    BY DEF SearchOK, FramesAscend
  <2>3. A = node(1)
    OBVIOUS
  <2> QED BY <1>1, <1>4, <2>1, <2>2, <2>3
<1>6. P = node(m - 1) /\ m - 1 \in 1..m - 1 /\ P \in K /\ P \in D /\ P # A /\ s.index[P] < s.index[A]
  BY <1>1, <1>5
<1>7. /\ \A C \in D : q.low[C] \in Nat /\ q.low[C] <= s.low[C] /\ (C # P => q.low[C] = s.low[C])
      /\ q.low[P] <= s.low[A]
      /\ q.low[P] = s.low[P] \/ q.low[P] = s.low[A]
  <2>1. s.low \in [D -> Nat]
    BY DEF SearchOK, SearchTyped
  <2>2. q.low = (IF s.low[A] < s.low[P] THEN [s.low EXCEPT ![P] = s.low[A]] ELSE s.low)
    <3>1. m # 1
      <4> HIDE DEF m
      <4> QED BY <1>1, <1>5
    <3> QED BY <1>2, <3>1 DEF ToldLow
  <2>3. s.low[A] \in Nat /\ s.low[P] \in Nat /\ \A C \in D : s.low[C] \in Nat
    BY <1>1, <1>6
  <2> HIDE DEF D, A, P
  <2>4. CASE s.low[A] < s.low[P]
    <3>1. q.low = [s.low EXCEPT ![P] = s.low[A]]
      BY <2>2, <2>4
    <3>2. q.low[P] = s.low[A] /\ \A C \in D : C # P => q.low[C] = s.low[C]
      BY <1>6, <2>1, <3>1
    <3> QED BY <2>3, <2>4, <3>2
  <2>5. CASE ~(s.low[A] < s.low[P])
    <3>1. q.low = s.low
      BY <2>2, <2>5
    <3> QED BY <1>6, <2>3, <2>5, <3>1
  <2> QED BY <2>4, <2>5
<1>8. NumberedOnce(q) /\ StackAscends(q) /\ ComponentsAreWhole(V, E, q)
  BY <1>0, <1>2 DEF SearchOK, NumberedOnce, StackAscends, Pops, ComponentsAreWhole
<1>9. \A i \in 1..m - 1 : i \in 1..m /\ q.frames[i].node = node(i) /\ node(i) \in K
  <2>1. \A i \in 1..m - 1 : i \in 1..m
    <3> HIDE DEF m
    <3> QED BY <1>1
  <2>2. \A i \in 1..m - 1 : q.frames[i].node = node(i)
    BY <1>2
  <2>3. \A i \in 1..m - 1 : node(i) \in K
    BY <1>1, <2>1
  <2> QED BY <2>1, <2>2, <2>3
<1>10. FramesAscend(q)
  <2>1. ASSUME NEW j \in 1..m - 1, NEW i \in 1..j - 1
        PROVE  s.index[q.frames[i].node] < s.index[q.frames[j].node]
    <3>1. i \in 1..m - 1
      BY <1>1
    <3>2. s.index[node(i)] < s.index[node(j)]
      BY <1>9 DEF SearchOK, FramesAscend
    <3> QED BY <1>9, <3>1, <3>2
  <2>2. ASSUME NEW C \in K
        PROVE  m - 1 >= 1 /\ s.index[q.frames[1].node] <= s.index[C]
    <3>1. 1 \in 1..m - 1
      BY <1>1, <1>5
    <3>2. s.index[node(1)] <= s.index[C]
      BY DEF SearchOK, FramesAscend
    <3> QED BY <1>1, <1>5, <1>9, <3>1, <3>2
  <2> QED BY <1>2, <1>9, <2>1, <2>2 DEF FramesAscend
<1>11. LowIsReached(V, E, q)
  <2> SUFFICES ASSUME NEW C \in K
               PROVE  /\ q.low[C] <= s.index[C]
                      /\ \E B \in K : q.low[C] = s.index[B] /\ LeadsIn(V, E, C, B)
    BY <1>2 DEF LowIsReached
  <2>1. /\ s.low[C] <= s.index[C]
        /\ \E B \in K : s.low[C] = s.index[B] /\ LeadsIn(V, E, C, B)
    BY DEF SearchOK, LowIsReached
  <2>2. q.low[C] <= s.index[C]
    <3>1. C \in D /\ q.low[C] \in Nat /\ q.low[C] <= s.low[C]
      BY <1>1, <1>7
    <3>2. s.low[C] \in Nat /\ s.index[C] \in Nat
      BY <1>1, <3>1
    <3> QED BY <2>1, <3>1, <3>2
  <2>c1. CASE q.low[C] = s.low[C]
    BY <2>1, <2>2, <2>c1
  <2>c2. CASE q.low[C] # s.low[C]
    <3>1. C = P /\ q.low[P] = s.low[A]
      BY <1>1, <1>7, <2>c2
    <3>2. PICK B \in K : s.low[A] = s.index[B] /\ LeadsIn(V, E, A, B)
      BY <1>4
    <3>3. LeadsIn(V, E, P, A)
      <4>1. m - 1 \in 1..m /\ s.index[P] <= s.index[A]
        BY <1>1, <1>6, <1>9
      <4> QED BY <1>1, <1>6, <4>1 DEF SearchOK, FramesLead
    <3>4. LeadsIn(V, E, P, B)
      <4>1. A \in V /\ P \in V /\ B \in V
        BY <1>1, <1>6
      <4> HIDE DEF A, P
      <4> QED BY <3>2, <3>3, <4>1, LeadsOn
    <3> QED BY <2>2, <3>1, <3>2, <3>4
  <2> QED BY <2>c1, <2>c2
<1>12. LowIsLow(E, q)
  <2> SUFFICES ASSUME NEW C \in K, NEW Z \in E[C], Z \in K, Taken(q, C, Z)
               PROVE  q.low[C] <= s.index[Z]
    BY <1>2 DEF LowIsLow
  <2>1. s.low[C] <= s.index[Z]
    BY <1>1 DEF SearchOK, LowIsLow
  <2>2. C \in D /\ Z \in D /\ q.low[C] <= s.low[C] /\ q.low[C] \in Nat
    BY <1>1, <1>7
  <2>3. s.low[C] \in Nat /\ s.index[Z] \in Nat
    BY <1>1, <2>2
  <2> QED BY <2>1, <2>2, <2>3
<1>13. FramesLead(V, E, q)
  BY <1>2, <1>9 DEF SearchOK, FramesLead
<1>14. P \in K /\ HasFrame(q, P)
  BY <1>2, <1>6, <1>9 DEF HasFrame
<1>15. \A C \in K : ~HasFrame(q, C) => q.low[C] = s.low[C] /\ (~HasFrame(s, C) \/ C = A)
  BY <1>1, <1>7, <1>14
<1>16. EndedReachLower(q)
  <2> SUFFICES ASSUME NEW C \in K, ~HasFrame(q, C)
               PROVE  q.low[C] < s.index[C]
    BY <1>2 DEF EndedReachLower
  <2>1. ~HasFrame(s, C) => s.low[C] < s.index[C]
    BY DEF SearchOK, EndedReachLower
  <2> QED BY <1>4, <1>15, <2>1
<1>17. FramesKnow(q)
  <2> SUFFICES ASSUME NEW C \in K, ~HasFrame(q, C), NEW i \in 1..m - 1,
                      s.index[q.frames[i].node] < s.index[C],
                      i < m - 1 => s.index[C] < s.index[q.frames[i + 1].node]
               PROVE  q.low[q.frames[i].node] <= q.low[C]
    BY <1>2 DEF FramesKnow
  <2> DEFINE n == node(i)
             k == node(i + 1)
  <2>1. /\ q.frames[i].node = n /\ n \in K /\ n \in D /\ C \in D /\ s.index[n] < s.index[C]
        /\ q.low[C] = s.low[C] /\ (~HasFrame(s, C) \/ C = A)
        /\ q.low[n] <= s.low[n] /\ q.low[n] \in Nat
    BY <1>1, <1>7, <1>9, <1>15
  <2>2. ASSUME i < m - 1
        PROVE  s.index[C] < s.index[k] /\ k \in D /\ s.index[k] < s.index[A] /\ C # A
    <3>1. i + 1 \in 1..m - 1
      BY <1>1, <2>2
    <3>2. q.frames[i + 1].node = k /\ k \in D /\ s.index[k] < s.index[A]
      BY <1>1, <1>9, <3>1
    <3>3. s.index[C] < s.index[k]
      BY <2>2, <3>2
    <3>4. s.index[C] \in Nat /\ s.index[k] \in Nat /\ s.index[A] \in Nat
      BY <1>1, <2>1, <3>2
    <3>5. ASSUME C = A
          PROVE  FALSE
      <4>1. s.index[A] < s.index[k]
        BY <3>3, <3>5
      <4> HIDE DEF k, A
      <4> QED BY <3>2, <3>4, <4>1
    <3> QED BY <3>2, <3>3, <3>5
  <2>3. ASSUME ~HasFrame(s, C), s.index[C] < s.index[k]
        PROVE  q.low[n] <= q.low[C]
    <3>1. i \in 1..m
      BY <1>9
    <3>2. s.low[n] <= s.low[C]
      <4> HIDE DEF k
      <4> QED BY <2>1, <2>3, <3>1 DEF SearchOK, FramesKnow, k
    <3>3. s.low[n] \in Nat /\ s.low[C] \in Nat /\ q.low[n] <= s.low[n] /\ q.low[n] \in Nat
      BY <1>1, <2>1
    <3> HIDE DEF n
    <3> QED BY <2>1, <3>2, <3>3
  <2>c1. CASE i < m - 1
    BY <2>1, <2>2, <2>3, <2>c1
  <2>c2. CASE i = m - 1
    <3>1. n = P /\ k = A
      BY <1>1, <2>c2
    <3>c1. CASE C = A
      BY <1>7, <2>1, <3>1, <3>c1
    <3>c2. CASE C # A
      <4>1. s.index[C] # s.index[A]
        BY <1>1, <2>1, <3>c2 DEF SearchOK, NumberedOnce
      <4>c1. CASE s.index[C] < s.index[A]
        BY <2>1, <2>3, <3>1, <3>c2, <4>c1
      <4>c2. CASE s.index[A] < s.index[C]
        <5>1. s.low[A] <= s.low[C]
          BY <1>1, <2>1, <3>c2, <4>c2
        <5>2. s.low[A] \in Nat /\ s.low[C] \in Nat /\ q.low[P] \in Nat /\ q.low[P] <= s.low[A]
          BY <1>1, <1>6, <1>7, <2>1
        <5>3. q.low[P] <= s.low[C]
          <6> HIDE DEF A, P
          <6> QED BY <5>1, <5>2
        <5> QED BY <2>1, <3>1, <5>3
      <4>2. s.index[C] < s.index[A] \/ s.index[A] < s.index[C]
        <5>1. s.index[C] \in Nat /\ s.index[A] \in Nat
          BY <1>1, <2>1
        <5> HIDE DEF A
        <5> QED BY <4>1, <5>1
      <4> QED BY <4>2, <4>c1, <4>c2
    <3> QED BY <3>c1, <3>c2
  <2> QED BY <1>1, <2>c1, <2>c2
<1> QED BY <1>3, <1>8, <1>10, <1>11, <1>12, <1>13, <1>16, <1>17 DEF SearchOK

\* The nodes of the stack from A on, and those before it.
From(s, A) == {B \in OnStack(s) : s.index[A] <= s.index[B]}

Before(s, A) == {B \in OnStack(s) : s.index[B] < s.index[A]}

LEMMA StackSplits ==
  ASSUME NEW V, NEW E, IsGraph(V, E), NEW s, SearchOK(V, E, s),
         NEW from \in 1..Len(s.stack)
  PROVE  LET A == s.stack[from]
             u == SubSeq(s.stack, 1, from - 1)
             v == SubSeq(s.stack, from, Len(s.stack))
         IN /\ ToSet(u) = Before(s, A) /\ ToSet(v) = From(s, A)
            /\ u \in Seq(V) /\ Len(u) = from - 1 /\ \A i \in 1..from - 1 : u[i] = s.stack[i]
            /\ IsFiniteSet(ToSet(v))
<1> DEFINE t == s.stack
           n == Len(t)
           A == t[from]
           u == SubSeq(t, 1, from - 1)
           v == SubSeq(t, from, n)
           x(i) == s.index[t[i]]
<1>1. t \in Seq(V) /\ n \in Nat /\ from \in 1..n /\ OnStack(s) = {t[i] : i \in 1..n}
  BY SearchFacts DEF SearchOK, SearchTyped
<1>2. \A i \in 1..n : x(i) \in Nat
  BY <1>1, SearchFacts
<1>3. \A j \in 1..n : \A i \in 1..j - 1 : x(i) < x(j)
  BY DEF SearchOK, StackAscends
<1>4. /\ u \in Seq(V) /\ Len(u) = from - 1 /\ \A i \in 1..from - 1 : u[i] = t[i]
      /\ v \in Seq(V) /\ Len(v) = n - from + 1 /\ \A i \in 1..n - from + 1 : v[i] = t[from + i - 1]
  <2> HIDE DEF t
  <2> QED BY <1>1 DEF n
<1>5. /\ \A i \in 1..from - 1 : i \in 1..n /\ x(i) < x(from)
      /\ \A i \in 1..n : from <= i => x(from) <= x(i)
  <2> HIDE DEF x, n
  <2>1. \A i \in 1..from - 1 : i \in 1..n
    BY <1>1
  <2>2. ASSUME NEW i \in 1..n, from <= i
        PROVE  x(from) <= x(i)
    <3>1. from = i \/ from \in 1..i - 1
      BY <1>1, <2>2
    <3> QED BY <1>1, <1>2, <1>3, <3>1
  <2> QED BY <1>1, <1>3, <2>1, <2>2
<1>6. ToSet(u) = Before(s, A)
  <2>1. ToSet(u) = {t[i] : i \in 1..from - 1}
    <3>1. DOMAIN u = 1..from - 1
      BY <1>1, <1>4
    <3> HIDE DEF u
    <3> QED BY <1>4, <3>1 DEF ToSet
  <2>2. ASSUME NEW B \in Before(s, A)
        PROVE  B \in {t[i] : i \in 1..from - 1}
    <3>1. PICK i \in 1..n : B = t[i]
      BY <1>1 DEF Before
    <3>2. x(i) < x(from)
      BY <3>1 DEF Before
    <3>3. ~(from <= i)
      BY <1>1, <1>2, <1>5, <3>2
    <3>4. i \in 1..from - 1
      <4> HIDE DEF n
      <4> QED BY <1>1, <3>3
    <3> QED BY <3>1, <3>4
  <2>3. ASSUME NEW i \in 1..from - 1
        PROVE  t[i] \in Before(s, A)
    BY <1>1, <1>5 DEF Before
  <2> QED BY <2>1, <2>2, <2>3
<1>7. ToSet(v) = From(s, A)
  <2>1. ToSet(v) = {v[i] : i \in 1..n - from + 1}
    <3>1. DOMAIN v = 1..n - from + 1
      BY <1>1, <1>4
    <3> HIDE DEF v
    <3> QED BY <3>1 DEF ToSet
  <2>2. ASSUME NEW B \in From(s, A)
        PROVE  B \in {v[i] : i \in 1..n - from + 1}
    <3>1. PICK i \in 1..n : B = t[i]
      BY <1>1 DEF From
    <3>2. x(from) <= x(i)
      BY <3>1 DEF From
    <3>3. ~(i \in 1..from - 1)
      BY <1>1, <1>2, <1>5, <3>2
    <3>4. i - from + 1 \in 1..n - from + 1 /\ from + (i - from + 1) - 1 = i
      <4> HIDE DEF n
      <4> QED BY <1>1, <3>3
    <3> HIDE DEF v, n
    <3>5. v[i - from + 1] = t[i]
      BY <1>4, <3>4
    <3> QED BY <3>1, <3>4, <3>5
  <2>3. ASSUME NEW i \in 1..n - from + 1
        PROVE  v[i] \in From(s, A)
    <3>1. from + i - 1 \in 1..n /\ from <= from + i - 1
      <4> HIDE DEF n
      <4> QED BY <1>1
    <3>2. v[i] = t[from + i - 1]
      BY <1>4
    <3> QED BY <1>1, <1>5, <3>1, <3>2 DEF From
  <2> QED BY <2>1, <2>2, <2>3
<1>8. IsFiniteSet(ToSet(v))
  <2>1. IsFiniteSet(1..Len(v))
    <3>1. Len(v) \in Nat
      BY <1>4
    <3> HIDE DEF v
    <3> QED BY <3>1, FS_Interval
  <2>2. DOMAIN v = 1..Len(v)
    BY <1>4
  <2> HIDE DEF v
  <2>3. v \in Surjection(1..Len(v), ToSet(v))
    BY <1>4, <2>2 DEF ToSet, Surjection
  <2> QED BY <2>1, <2>3, FS_Surjection
<1> QED BY <1>4, <1>6, <1>7, <1>8

\* What is on the stack from the lowest of a component on is the component: all of it leads
\* to that node and back, and with the components before it, it is closed.
LEMMA ComponentCloses ==
  ASSUME NEW V, NEW E, IsGraph(V, E), NEW s, SearchOK(V, E, s), NEW q, Pops(V, s, q),
         s.low[s.frames[Len(s.frames)].node] = s.index[s.frames[Len(s.frames)].node]
  PROVE  LET C == From(s, s.frames[Len(s.frames)].node)
         IN /\ Closed(E, C \cup UNION s.components)
            /\ \A B \in C : C = ClassIn(V, E, B)
<1> DEFINE m == Len(s.frames)
           A == s.frames[m].node
           C == From(s, A)
           K == OnStack(s)
           D == DOMAIN s.index
           R(x) == ReachesIn(V, E, x)
           done == UNION s.components
<1>1. /\ m \in 1..m /\ m \in Nat /\ A \in K /\ A \in D
      /\ \A i \in 1..m - 1 : s.index[s.frames[i].node] < s.index[A]
      /\ HasFrame(s, A) /\ K \subseteq D
      /\ \A B \in D : B \in V /\ s.index[B] \in Nat /\ s.low[B] \in Nat
      /\ \A B \in K : ~HasFrame(s, B) /\ s.index[A] < s.index[B] => s.low[A] <= s.low[B]
      /\ s.frames[m].left = {} /\ s.low[A] = s.index[A]
  <2>1. s.frames[m].left = {} /\ s.low[A] = s.index[A]
    BY DEF Pops
  <2>2. /\ m \in 1..m /\ m \in Nat /\ A \in K /\ A \in D
        /\ \A i \in 1..m - 1 : s.index[s.frames[i].node] < s.index[A]
        /\ HasFrame(s, A) /\ K \subseteq D
        /\ \A B \in D : B \in V /\ s.index[B] \in Nat /\ s.low[B] \in Nat
        /\ \A B \in K : ~HasFrame(s, B) /\ s.index[A] < s.index[B] => s.low[A] <= s.low[B]
    BY PopsResult
  <2> QED BY <2>1, <2>2
<1>2. A \in C /\ C \subseteq K
  <2>1. C = {B \in K : s.index[A] <= s.index[B]}
    BY DEF From
  <2>2. s.index[A] \in Nat
    BY <1>1
  <2> HIDE DEF A, C, K
  <2>3. s.index[A] <= s.index[A]
    BY <2>2
  <2> QED BY <1>1, <2>1, <2>3
<1>3. \A B \in C : B \in K /\ B \in D /\ B \in V /\ s.index[A] <= s.index[B]
  BY <1>1, <1>2 DEF From
<1>4. D = K \cup done /\ K \cap done = {} /\ done \subseteq V
  BY <1>1 DEF SearchOK, NumberedOnce
<1>5. ASSUME NEW i \in 1..m, s.frames[i].node \in C
      PROVE  i = m
  <2>1. i \in 1..m - 1 \/ i = m
    BY <1>1
  <2>2. i \in 1..m - 1 => s.index[s.frames[i].node] < s.index[A] /\ s.index[A] <= s.index[s.frames[i].node]
    BY <1>1, <1>3, <1>5
  <2>3. s.index[A] \in Nat /\ s.index[s.frames[i].node] \in Nat
    BY <1>1, <1>3, <1>5
  <2> HIDE DEF A, m
  <2> QED BY <2>1, <2>2, <2>3
<1>6. \A B \in C : B = A \/ ~HasFrame(s, B)
  BY <1>5 DEF HasFrame
<1>7. \A B \in C : s.index[A] <= s.low[B]
  <2> SUFFICES ASSUME NEW B \in C, B # A
               PROVE  s.index[A] <= s.low[B]
    BY <1>1
  <2>1. s.index[A] # s.index[B]
    BY <1>1, <1>3 DEF SearchOK, NumberedOnce
  <2>2. s.index[A] \in Nat /\ s.index[B] \in Nat /\ s.index[A] <= s.index[B]
    BY <1>1, <1>3
  <2>3. s.index[A] < s.index[B]
    <3> HIDE DEF A
    <3> QED BY <2>1, <2>2
  <2> QED BY <1>1, <1>3, <1>6, <2>3
<1>8. Closed(E, C \cup done)
  <2> SUFFICES ASSUME NEW B \in C \cup done, NEW Z \in E[B]
               PROVE  Z \in C \cup done
    BY DEF Closed
  <2>c1. CASE B \in done
    BY <2>c1 DEF SearchOK, ComponentsAreWhole, Closed
  <2>c2. CASE B \in C
    <3>1. Taken(s, B, Z)
      BY <1>1, <1>5, <2>c2 DEF Taken
    <3>2. Z \in D /\ B \in K
      BY <1>3, <2>c2, <3>1 DEF SearchOK, TakenIsFound
    <3>c1. CASE Z \in K
      <4>1. s.low[B] <= s.index[Z] /\ s.index[A] <= s.low[B]
        BY <1>7, <2>c2, <3>1, <3>2, <3>c1 DEF SearchOK, LowIsLow
      <4>2. s.low[B] \in Nat /\ s.index[Z] \in Nat /\ s.index[A] \in Nat
        BY <1>1, <3>2
      <4>3. s.index[A] <= s.index[Z]
        <5> HIDE DEF A
        <5> QED BY <4>1, <4>2
      <4> QED BY <3>c1, <4>3 DEF From
    <3> QED BY <1>4, <3>2, <3>c1
  <2> QED BY <2>c1, <2>c2
<1>9. \A B \in C : LeadsIn(V, E, A, B)
  BY <1>1, <1>3 DEF SearchOK, FramesLead
<1>10. \A B \in C : LeadsIn(V, E, B, A)
  <2> DEFINE bad == {B \in C : ~LeadsIn(V, E, B, A)}
             numbers == {s.index[B] : B \in bad}
  <2> SUFFICES ASSUME bad # {}
               PROVE  FALSE
    OBVIOUS
  <2>1. numbers \in SUBSET Nat /\ numbers # {}
    BY <1>1, <1>3
  <2> HIDE DEF numbers
  <2>2. PICK n \in numbers : \A k \in numbers : n <= k
    BY <2>1, LeastExists
  <2>3. PICK B \in bad : s.index[B] = n
    BY <2>2 DEF numbers
  <2>4. B \in C /\ B # A /\ ~HasFrame(s, B) /\ B \in K /\ B \in D /\ B \in V
    BY <1>3, <1>6 DEF LeadsIn
  <2>5. s.low[B] < s.index[B]
    BY <2>4 DEF SearchOK, EndedReachLower
  <2>6. PICK Z \in K : s.low[B] = s.index[Z] /\ LeadsIn(V, E, B, Z)
    BY <2>4 DEF SearchOK, LowIsReached
  <2>7. Z \in C /\ Z \in V
    BY <1>1, <1>7, <2>4, <2>6 DEF From
  <2>8. LeadsIn(V, E, Z, A)
    <3> SUFFICES ASSUME Z \in bad
                 PROVE  FALSE
      BY <2>7
    <3>1. s.index[Z] \in numbers
      BY DEF numbers
    <3>2. n <= s.index[Z] /\ s.index[Z] < n /\ n \in Nat /\ s.index[Z] \in Nat
      BY <1>1, <1>3, <2>1, <2>2, <2>3, <2>5, <2>6, <2>7, <3>1
    <3> QED BY <3>2
  <2>9. LeadsIn(V, E, B, A)
    <3>1. A \in V
      BY <1>1
    <3> HIDE DEF A
    <3> QED BY <2>4, <2>6, <2>7, <2>8, <3>1, LeadsOn
  <2> QED BY <2>9
<1>11. ASSUME NEW B \in C
       PROVE  C = ClassIn(V, E, B)
  <2>0. A \in V /\ B \in V /\ B \in C
    BY <1>1, <1>3
  <2>1. ASSUME NEW Z \in C
        PROVE  Z \in ClassIn(V, E, B)
    <3>1. LeadsIn(V, E, B, Z) /\ LeadsIn(V, E, Z, B)
      <4>1. /\ Z \in V /\ LeadsIn(V, E, B, A) /\ LeadsIn(V, E, A, Z)
            /\ LeadsIn(V, E, Z, A) /\ LeadsIn(V, E, A, B)
        BY <1>3, <1>9, <1>10
      <4> HIDE DEF A, C
      <4> QED BY <2>0, <4>1, LeadsOn
    <3> QED BY <3>1 DEF LeadsIn, ClassIn
  <2>2. ASSUME NEW Z \in ClassIn(V, E, B)
        PROVE  Z \in C
    <3> SUFFICES ASSUME Z \in R(B), B \in R(Z)
                 PROVE  Z \in C
      BY <2>2 DEF ClassIn
    <3>1. R(B) \subseteq C \cup done
      <4> DEFINE all == C \cup done
      <4>1. all \in SUBSET V /\ B \in all /\ Closed(E, all)
        BY <1>3, <1>4, <1>8
      <4> HIDE DEF all
      <4>2. R(B) \subseteq all
        BY <4>1, ClosedReaches
      <4> QED BY <4>2 DEF all
    <3>2. Z \notin done
      <4> SUFFICES ASSUME Z \in done
                   PROVE  FALSE
        OBVIOUS
      <4>1. Closed(E, done)
        BY DEF SearchOK, ComponentsAreWhole
      <4>2. R(Z) \subseteq done
        <5> HIDE DEF done
        <5> QED BY <1>4, <4>1, ClosedReaches
      <4> QED BY <1>3, <1>4, <4>2
    <3> QED BY <3>1, <3>2
  <2> QED BY <2>1, <2>2
<1> QED BY <1>8, <1>11

LEMMA ClosesKeeps ==
  ASSUME NEW V, NEW E, IsGraph(V, E), NEW s, SearchOK(V, E, s), NEW q, Closes(V, s, q)
  PROVE  SearchOK(V, E, q)
<1> DEFINE m == Len(s.frames)
           A == s.frames[m].node
           P == s.frames[m - 1].node
           K == OnStack(s)
           D == DOMAIN s.index
           C == From(s, A)
           L == Before(s, A)
           node(i) == s.frames[i].node
<1>1. PICK from \in 1..Len(s.stack) :
        /\ s.stack[from] = A
        /\ q.stack = SubSeq(s.stack, 1, from - 1)
        /\ q.components = s.components \cup {ToSet(SubSeq(s.stack, from, Len(s.stack)))}
  BY DEF Closes
<1>2. Pops(V, s, q) /\ s.low[A] = s.index[A]
  BY DEF Closes
<1>3. /\ m \in Nat /\ m >= 1 /\ m \in 1..m /\ A \in K /\ A \in D
      /\ m >= 2 => m - 1 \in 1..m /\ P \in K /\ P \in D /\ P # A /\ s.index[P] < s.index[A]
      /\ \A i \in 1..m : node(i) \in K
      /\ \A i \in 1..m - 1 : s.index[node(i)] < s.index[A]
      /\ \A B : HasFrame(q, B) <=> HasFrame(s, B) /\ B # A
      /\ \A B : \A Z : Taken(q, B, Z) <=> Taken(s, B, Z)
      /\ K \subseteq D
      /\ \A B \in D : B \in V /\ s.index[B] \in Nat /\ s.low[B] \in Nat
  BY <1>2, PopsResult
<1>4. /\ OnStack(q) = L /\ q.components = s.components \cup {C}
      /\ q.stack \in Seq(V) /\ Len(q.stack) = from - 1
      /\ \A i \in 1..from - 1 : q.stack[i] = s.stack[i]
  <2>1. /\ ToSet(SubSeq(s.stack, 1, from - 1)) = Before(s, s.stack[from])
        /\ ToSet(SubSeq(s.stack, from, Len(s.stack))) = From(s, s.stack[from])
        /\ SubSeq(s.stack, 1, from - 1) \in Seq(V) /\ Len(SubSeq(s.stack, 1, from - 1)) = from - 1
        /\ \A i \in 1..from - 1 : SubSeq(s.stack, 1, from - 1)[i] = s.stack[i]
    BY StackSplits
  <2> HIDE DEF A
  <2> QED BY <1>1, <2>1 DEF OnStack
<1>5. /\ Len(q.frames) = m - 1 /\ \A i \in 1..m - 1 : q.frames[i] = s.frames[i]
      /\ q.index = s.index /\ q.next = s.next
  BY <1>2 DEF Pops
<1>6. q.low = s.low
  <2>1. q.low = ToldLow(s)
    BY <1>2 DEF Pops
  <2>2. ASSUME m # 1
        PROVE  ~(s.low[A] < s.low[P])
    <3>1. m >= 2
      <4>1. m \in Nat /\ m >= 1
        BY <1>3
      <4> HIDE DEF m
      <4> QED BY <2>2, <4>1
    <3>2. P \in K /\ P \in D /\ s.index[P] < s.index[A] /\ s.low[P] <= s.index[P]
      BY <1>3, <3>1 DEF SearchOK, LowIsReached
    <3>3. s.index[P] \in Nat /\ s.low[P] \in Nat /\ s.index[A] \in Nat /\ s.low[A] = s.index[A]
      BY <1>2, <1>3, <3>2
    <3> HIDE DEF A, P
    <3> QED BY <3>2, <3>3
  <2> QED BY <2>1, <2>2 DEF ToldLow
<1>7. ASSUME NEW i \in 1..m - 1
      PROVE  i \in 1..m /\ q.frames[i].node = node(i) /\ node(i) \in L
  <2>1. i \in 1..m
    <3>1. m \in Nat
      BY <1>3
    <3> HIDE DEF m
    <3> QED BY <3>1
  <2>2. node(i) \in K /\ s.index[node(i)] < s.index[A]
    BY <1>3, <2>1
  <2> QED BY <1>5, <2>1, <2>2 DEF Before
<1>8. \A B \in L : B \in K /\ B \in D /\ s.index[B] < s.index[A] /\ B # A
  BY <1>3 DEF Before
<1>9. K = L \cup C /\ L \cap C = {}
  BY <1>3 DEF From, Before
<1>10. C \in SUBSET V
  BY <1>3 DEF From
<1>11. SearchTyped(V, E, q) /\ TakenIsFound(E, q)
  <2>1. q.components \in SUBSET SUBSET V
    BY <1>4, <1>10 DEF SearchOK, SearchTyped
  <2> QED BY <1>2, <1>4, <2>1, PopsKeeps
<1>12. NumberedOnce(q)
  <2> DEFINE done == UNION s.components
  <2>1. D = K \cup done /\ K \cap done = {}
    BY DEF SearchOK, NumberedOnce
  <2>2. UNION q.components = done \cup C
    BY <1>4
  <2>3. D = L \cup UNION q.components /\ L \cap UNION q.components = {}
    BY <1>9, <2>1, <2>2
  <2> QED BY <1>4, <1>5, <2>3 DEF SearchOK, NumberedOnce
<1>13. StackAscends(q)
  <2> SUFFICES ASSUME NEW j \in 1..from - 1, NEW i \in 1..j - 1
               PROVE  s.index[q.stack[i]] < s.index[q.stack[j]]
    BY <1>4, <1>5 DEF StackAscends
  <2>1. from \in Nat /\ Len(s.stack) \in Nat
    BY SearchFacts
  <2>2. i \in 1..from - 1 /\ j \in 1..Len(s.stack)
    BY <2>1
  <2>3. s.index[s.stack[i]] < s.index[s.stack[j]]
    BY <2>2 DEF SearchOK, StackAscends
  <2> QED BY <1>4, <2>2, <2>3
<1>14. FramesAscend(q)
  <2>1. ASSUME NEW j \in 1..m - 1, NEW i \in 1..j - 1
        PROVE  s.index[q.frames[i].node] < s.index[q.frames[j].node]
    <3>1. i \in 1..m - 1
      BY <1>3
    <3>2. s.index[node(i)] < s.index[node(j)]
      BY <1>7 DEF SearchOK, FramesAscend
    <3> QED BY <1>7, <3>1, <3>2
  <2>2. ASSUME NEW B \in L
        PROVE  m - 1 >= 1 /\ s.index[q.frames[1].node] <= s.index[B]
    <3>1. s.index[node(1)] <= s.index[B]
      BY <1>8 DEF SearchOK, FramesAscend
    <3>2. s.index[B] < s.index[A]
      BY <1>8
    <3>3. m # 1
      <4> SUFFICES ASSUME m = 1
                   PROVE  FALSE
        OBVIOUS
      <4>1. node(1) = A
        OBVIOUS
      <4>2. s.index[A] <= s.index[B] /\ s.index[A] \in Nat /\ s.index[B] \in Nat
        BY <1>3, <1>8, <3>1, <4>1
      <4> HIDE DEF A
      <4> QED BY <3>2, <4>2
    <3>4. m - 1 >= 1 /\ 1 \in 1..m - 1
      <4>1. m \in Nat /\ m >= 1
        BY <1>3
      <4> HIDE DEF m
      <4> QED BY <3>3, <4>1
    <3> QED BY <1>7, <3>1, <3>4
  <2>3. \A i \in 1..m - 1 : q.frames[i].node \in L
    BY <1>7
  <2> HIDE DEF L
  <2> QED BY <1>4, <1>5, <2>1, <2>2, <2>3 DEF FramesAscend
<1>15. LowIsReached(V, E, q)
  <2> SUFFICES ASSUME NEW B \in L
               PROVE  /\ s.low[B] <= s.index[B]
                      /\ \E Z \in L : s.low[B] = s.index[Z] /\ LeadsIn(V, E, B, Z)
    BY <1>4, <1>5, <1>6 DEF LowIsReached
  <2>1. s.low[B] <= s.index[B] /\ B \in K /\ s.index[B] < s.index[A]
    BY <1>8 DEF SearchOK, LowIsReached
  <2>2. PICK Z \in K : s.low[B] = s.index[Z] /\ LeadsIn(V, E, B, Z)
    BY <2>1 DEF SearchOK, LowIsReached
  <2>3. s.index[Z] \in Nat /\ s.index[B] \in Nat /\ s.index[A] \in Nat
    BY <1>3, <2>1
  <2>4. s.index[Z] < s.index[A]
    <3> HIDE DEF A
    <3> QED BY <2>1, <2>2, <2>3
  <2>5. Z \in L
    BY <2>4 DEF Before
  <2> QED BY <2>1, <2>2, <2>5
<1>16. LowIsLow(E, q)
  BY <1>3, <1>4, <1>5, <1>6, <1>8 DEF SearchOK, LowIsLow
<1>17. FramesLead(V, E, q)
  BY <1>4, <1>5, <1>7, <1>8 DEF SearchOK, FramesLead
<1>18. \A B \in L : ~HasFrame(q, B) => ~HasFrame(s, B) /\ B \in K
  BY <1>3, <1>8
<1>19. EndedReachLower(q)
  BY <1>4, <1>5, <1>6, <1>18 DEF SearchOK, EndedReachLower
<1>20. FramesKnow(q)
  <2> SUFFICES ASSUME NEW B \in L, ~HasFrame(q, B), NEW i \in 1..m - 1,
                      s.index[q.frames[i].node] < s.index[B],
                      i < m - 1 => s.index[B] < s.index[q.frames[i + 1].node]
               PROVE  s.low[q.frames[i].node] <= s.low[B]
    BY <1>4, <1>5, <1>6 DEF FramesKnow
  <2> DEFINE k == node(i + 1)
  <2>1. i \in 1..m /\ q.frames[i].node = node(i) /\ B \in K /\ ~HasFrame(s, B) /\ s.index[B] < s.index[A]
    BY <1>7, <1>8, <1>18
  <2>2. s.index[B] < s.index[k]
    <3>1. (i < m - 1 /\ i + 1 \in 1..m - 1) \/ i + 1 = m
      <4>1. m \in Nat
        BY <1>3
      <4> HIDE DEF m
      <4> QED BY <4>1
    <3>c1. CASE i < m - 1 /\ i + 1 \in 1..m - 1
      <4>1. q.frames[i + 1].node = k
        BY <1>7, <3>c1
      <4> QED BY <3>c1, <4>1
    <3>c2. CASE i + 1 = m
      <4>1. k = A
        BY <3>c2
      <4> QED BY <2>1, <4>1
    <3> QED BY <3>1, <3>c1, <3>c2
  <2> HIDE DEF k
  <2> QED BY <2>1, <2>2 DEF SearchOK, FramesKnow, k
<1>21. ComponentsAreWhole(V, E, q)
  <2>1. Closed(E, C \cup UNION s.components) /\ \A B \in C : C = ClassIn(V, E, B)
    <3> HIDE DEF C
    <3> QED BY <1>2, ComponentCloses DEF C
  <2>2. UNION q.components = C \cup UNION s.components
    BY <1>4
  <2>3. \A X \in s.components : \A B \in X : X = ClassIn(V, E, B)
    BY DEF SearchOK, ComponentsAreWhole
  <2>4. q.components = s.components \cup {C}
    BY <1>4
  <2> HIDE DEF C
  <2>5. \A X \in q.components : \A B \in X : X = ClassIn(V, E, B)
    BY <2>1, <2>3, <2>4
  <2>6. Closed(E, UNION q.components)
    BY <2>1, <2>2
  <2> QED BY <2>5, <2>6 DEF ComponentsAreWhole
<1> QED BY <1>11, <1>12, <1>13, <1>14, <1>15, <1>16, <1>17, <1>19, <1>20, <1>21 DEF SearchOK

-----------------------------------------------------------------------------
(* The grammar stays one. *)

Keeps(r) == {r.lhs} \cup NonterminalsIn(r.rhs) \subseteq Retained

\* The rules retained, with the right-hand sides they had.
LEMMA RetainedRulesResult ==
  ASSUME NEW B, NEW s \in Seq(B)
  PROVE  /\ RetainedRules(s) \in Seq(B)
         /\ ToSet(RetainedRules(s)) = {r \in ToSet(s) : Keeps(r)}
<1> DEFINE A == Seq(B)
           a == << >>
           G == [r \in B |-> IF Keeps(r) THEN <<r>> ELSE << >>]
           F == Collects(B, B, G)
           Equation(g) ==
             g = [T \in SUBSET DOMAIN s |->
                    IF T = {} THEN a
                    ELSE LET x == Max(T)
                         IN IF Keeps(s[x]) THEN Append(g[T \ {x}], s[x]) ELSE g[T \ {x}]]
           iter == CHOOSE g : Equation(g)
           p == Partial(F, a, s)
<1>0. a \in A
  OBVIOUS
<1>g. G \in [B -> Seq(B)]
  OBVIOUS
<1>1. IsStep(F, A, B)
  <2> HIDE DEF G
  <2> QED BY <1>0, <1>g, FoldedCollects
<1>2. \A w \in A, r \in B : F[<<w, r>>] = IF Keeps(r) THEN Append(w, r) ELSE w
  <2> SUFFICES ASSUME NEW w \in A, NEW r \in B
               PROVE  F[<<w, r>>] = IF Keeps(r) THEN Append(w, r) ELSE w
    OBVIOUS
  <2>1. F[<<w, r>>] = w \o G[r]
    <3> HIDE DEF G
    <3> QED BY DEF Collects
  <2>2. w \o << >> = w /\ w \o <<r>> = Append(w, r)
    OBVIOUS
  <2> QED BY <2>1, <2>2
<1>4. DOMAIN s = 1..Len(s)
  BY <1>0
<1>5. RetainedRules(s) = iter[DOMAIN s]
  BY Zenon DEF RetainedRules, Keeps, FoldLeft, MapThenFoldSet
<1>10. Folded(F, a, s) \in Seq(B) /\ Gathers(Folded(F, a, s), G, s)
  <2> HIDE DEF G
  <2> QED BY <1>0, <1>g, FoldedCollects
<1>11. ASSUME NEW x
       PROVE  (\E i \in 1..Len(s) : x \in ToSet(G[s[i]])) <=> x \in ToSet(s) /\ Keeps(x)
  <2>1. \A r \in B : ToSet(G[r]) = IF Keeps(r) THEN {r} ELSE {}
    <3>1. ToSet(<< >>) = {} /\ \A r : ToSet(<<r>>) = {r}
      BY DEF ToSet
    <3> QED BY <3>1
  <2>2. \A i \in 1..Len(s) : s[i] \in B
    BY <1>0
  <2> HIDE DEF G
  <2> QED BY <1>4, <2>1, <2>2 DEF ToSet
<1> HIDE DEF A, F, a, G
<1>3. StepsAs(p, A, B, F, a, s)
  BY <1>0, <1>1, PartialSteps, Zenon
<1> HIDE DEF p
<1>6. Equation(p)
  BY <1>2, <1>3 DEF StepsAs
<1>7. Equation(iter)
  <2> HIDE DEF Equation
  <2> QED BY <1>6
<1> HIDE DEF iter
<1>8. StepAlike(iter, p, Len(s))
  <2>1. iter[{}] = a /\ p[{}] = a
    BY <1>4, <1>6, <1>7
  <2>2. ASSUME NEW T \in SUBSET (1..Len(s)), T # {}, iter[T \ {Max(T)}] = p[T \ {Max(T)}]
        PROVE  iter[T] = p[T]
    <3>1. iter[T] = IF Keeps(s[Max(T)]) THEN Append(iter[T \ {Max(T)}], s[Max(T)])
                    ELSE iter[T \ {Max(T)}]
      BY <1>4, <1>7, <2>2
    <3>2. p[T] = IF Keeps(s[Max(T)]) THEN Append(p[T \ {Max(T)}], s[Max(T)])
                 ELSE p[T \ {Max(T)}]
      BY <1>4, <1>6, <2>2
    <3> QED BY <2>2, <3>1, <3>2
  <2> QED BY <2>1, <2>2 DEF StepAlike
<1>9. FoldsTo(iter, F, a, s)
  BY <1>0, <1>1, <1>8, FoldsAlike, Zenon DEF p
<1>12. RetainedRules(s) = Folded(F, a, s)
  BY <1>4, <1>5, <1>9, Zenon DEF FoldsTo
<1>13. ToSet(Folded(F, a, s)) = {r \in ToSet(s) : Keeps(r)}
  BY <1>10, <1>11 DEF Gathers
<1> QED BY <1>10, <1>12, <1>13

\* What compiles is a grammar, whatever was dropped.
GrammarStands ==
  /\ IsGrammar(grammar)
  /\ reduction.at = "reachable" => given.start \in reduction.productive

\* No rule kept mentions a nonterminal that was dropped.
LEMMA RebuildStands ==
  ASSUME ReductionInv, GrammarStands, Rebuild
  PROVE  GrammarStands'
<1> DEFINE RuleOf(V) == [lhs : V, rhs : Seq(Symbol)]
           V == grammar.nonterminals
           kept == RetainedRules(grammar.rules)
<1>1. /\ grammar = given /\ given.start \in Retained
      /\ Retained \subseteq given.nonterminals
  BY DEF Rebuild, ReductionInv, ReductionTypeOK, SearchIsAhead, GrammarStands, Retained
<1>2. /\ grammar'.start = given.start /\ grammar'.nonterminals = Retained /\ grammar'.rules = kept
  BY <1>1 DEF Rebuild
<1>3. V \subseteq Nat \ {0} /\ grammar.rules \in Seq(RuleOf(V))
  BY DEF GrammarStands, IsGrammar
<1>4. kept \in Seq(RuleOf(V)) /\ ToSet(kept) = {r \in ToSet(grammar.rules) : Keeps(r)}
  <2> DEFINE B == RuleOf(V)
             s == grammar.rules
  <2>1. s \in Seq(B)
    BY <1>3
  <2> HIDE DEF B, s
  <2>2. RetainedRules(s) \in Seq(B) /\ ToSet(RetainedRules(s)) = {r \in ToSet(s) : Keeps(r)}
    BY <2>1, RetainedRulesResult
  <2> QED BY <2>2 DEF B, s
<1> DEFINE n == Len(kept)
<1>5. n \in Nat /\ DOMAIN kept = 1..n
  BY <1>4
<1>6. ASSUME NEW i \in 1..n
      PROVE  kept[i] \in RuleOf(Retained) /\ NonterminalsIn(kept[i].rhs) \subseteq Retained
  <2>1. kept[i] \in RuleOf(V)
    <3> DEFINE B == RuleOf(V)
    <3>1. kept \in Seq(B) /\ i \in 1..Len(kept)
      BY <1>4
    <3> HIDE DEF B, kept
    <3>2. kept[i] \in B
      BY <3>1
    <3> QED BY <3>2 DEF B
  <2>2. kept[i] \in ToSet(kept)
    <3> HIDE DEF kept
    <3> QED BY <1>5 DEF ToSet
  <2>3. Keeps(kept[i])
    BY <1>4, <2>2
  <2> HIDE DEF kept
  <2> QED BY <2>1, <2>3 DEF Keeps
<1>7. kept \in Seq(RuleOf(Retained))
  <2> DEFINE B == RuleOf(Retained)
             C == RuleOf(V)
  <2>1. \A i \in 1..n : kept[i] \in B
    BY <1>6
  <2>2. kept \in Seq(C)
    BY <1>4
  <2> HIDE DEF B, C, kept
  <2>3. kept = [i \in 1..n |-> kept[i]] /\ n \in Nat
    BY <2>2
  <2>4. kept \in [1..n -> B]
    BY <2>1, <2>3
  <2>5. kept \in Seq(B)
    BY <2>3, <2>4
  <2> QED BY <2>5 DEF B
<1>8. reduction'.at = "done"
  BY DEF Rebuild, ReductionInv, ReductionTypeOK
<1> HIDE DEF kept
<1>9. IsGrammar(grammar')
  <2>1. IsFiniteSet(Retained)
    BY <1>1, FS_Subset DEF GrammarStands, IsGrammar
  <2> QED BY <1>1, <1>2, <1>3, <1>6, <1>7, <2>1 DEF IsGrammar
<1> QED BY <1>8, <1>9 DEF GrammarStands

LEMMA GrammarStandsOn ==
  ASSUME ReductionInv, GrammarStands, [Next]_vars
  PROVE  GrammarStands'
<1>1. CASE \E A \in reduction.list : MarkProductive(A) \/ MarkReachable(A)
  <2>1. PICK A \in reduction.list : MarkProductive(A) \/ MarkReachable(A)
    BY <1>1
  <2>c1. CASE MarkProductive(A)
    <3>1. grammar' = grammar /\ reduction'.at = "productive"
      BY <2>c1 DEF MarkProductive, ReductionInv, ReductionTypeOK
    <3> QED BY <3>1 DEF GrammarStands
  <2>c2. CASE MarkReachable(A)
    <3>1. /\ grammar' = grammar /\ given' = given /\ reduction'.at = reduction.at
          /\ reduction'.productive = reduction.productive
      BY <2>c2 DEF MarkReachable, ReductionInv, ReductionTypeOK
    <3> QED BY <3>1 DEF GrammarStands
  <2> QED BY <2>1, <2>c1, <2>c2
<1>2. CASE EndProductive
  <2>1. /\ grammar = given /\ given' = given
        /\ reduction.at = "productive" /\ grammar.start \in grammar.nonterminals
        /\ grammar.nonterminals \subseteq Nat \ {0}
    BY <1>2 DEF EndProductive, ReductionInv, ReductionTypeOK, GrammarStands, IsGrammar
  <2>c1. CASE given.start \notin reduction.productive
    <3>1. /\ grammar' = [start |-> given.start, nonterminals |-> {given.start}, rules |-> << >>]
          /\ reduction'.at = "done"
      BY <1>2, <2>1, <2>c1 DEF EndProductive, ReductionInv, ReductionTypeOK
    <3>2. /\ grammar'.start = given.start /\ grammar'.nonterminals = {given.start}
          /\ grammar'.rules = << >>
      BY <3>1
    <3>3. Len(<< >>) = 0 /\ \A B : << >> \in Seq(B)
      OBVIOUS
    <3>4. IsGrammar(grammar')
      <4>1. IsFiniteSet({given.start})
        BY FS_Singleton
      <4> QED BY <2>1, <3>2, <3>3, <4>1 DEF IsGrammar
    <3> QED BY <3>1, <3>4 DEF GrammarStands
  <2>c2. CASE given.start \in reduction.productive
    <3>1. grammar' = grammar /\ reduction'.productive = reduction.productive
      BY <1>2, <2>1, <2>c2 DEF EndProductive, ReductionInv, ReductionTypeOK
    <3> QED BY <2>1, <2>c2, <3>1 DEF GrammarStands
  <2> QED BY <2>c1, <2>c2
<1>3. CASE Rebuild
  BY <1>3, RebuildStands
<1>4. CASE UNCHANGED reductionVars
  BY <1>4 DEF GrammarStands, reductionVars
<1> QED BY <1>1, <1>2, <1>3, <1>4, StepsOfReduction DEF ReduceStep

-----------------------------------------------------------------------------
(* The steps of the search. *)

LEMMA GraphStands ==
  ASSUME GrammarStands
  PROVE  /\ IsGraph(grammar.nonterminals, Graph)
         /\ \A A \in grammar.nonterminals : Graph[A] = Successors(A)
<1> DEFINE V == grammar.nonterminals
<1>1. ASSUME NEW A \in V
      PROVE  Successors(A) \subseteq V
  <2> SUFFICES ASSUME NEW r \in RulesOf(grammar, A)
               PROVE  NonterminalsIn(r.rhs) \subseteq V
    BY DEF Successors
  <2>1. DOMAIN grammar.rules = 1..Len(grammar.rules)
    BY DEF GrammarStands, IsGrammar
  <2>2. PICK i \in 1..Len(grammar.rules) : r = grammar.rules[i]
    BY <2>1 DEF RulesOf, ToSet
  <2> QED BY <2>2 DEF GrammarStands, IsGrammar
<1>2. V \subseteq Nat
  BY DEF GrammarStands, IsGrammar
<1> QED BY <1>1, <1>2 DEF IsGraph, Graph

\* Nothing is discovered at first.
LEMMA SearchStarts ==
  ASSUME NEW V, NEW E, IsGraph(V, E), NEW s, s = [NoScc EXCEPT !.at = "search"]
  PROVE  SearchOK(V, E, s) /\ IsSearch(s) /\ s.components = {} /\ s.at = "search"
<1>1. /\ s.next = 0 /\ s.index = << >> /\ s.low = << >> /\ s.stack = << >> /\ s.frames = << >>
      /\ s.components = {} /\ s.at = "search" /\ IsSearch(s)
  BY DEF NoScc, IsSearch
<1>2. /\ Len(<< >>) = 0 /\ 1..0 = {} /\ DOMAIN << >> = {} /\ << >> \in [{} -> Nat]
      /\ \A S : << >> \in Seq(S)
  OBVIOUS
<1>3. OnStack(s) = {}
  BY <1>1, <1>2 DEF OnStack, ToSet
<1>4. SearchTyped(V, E, s)
  <2> DEFINE F == [node : V, left : SUBSET V]
  <2>1. s.frames \in Seq(F)
    <3> HIDE DEF F
    <3> QED BY <1>1, <1>2
  <2>2. \A i \in 1..Len(s.frames) : s.frames[i].left \subseteq E[s.frames[i].node]
    BY <1>1, <1>2
  <2>3. s.stack \in Seq(V) /\ s.next \in Nat /\ s.components \in SUBSET SUBSET V
    <3>1. s.stack \in Seq(V)
      BY <1>1, <1>2
    <3>2. s.next \in Nat
      BY <1>1
    <3>3. s.components \in SUBSET SUBSET V
      BY <1>1
    <3> QED BY <3>1, <3>2, <3>3
  <2>4. /\ DOMAIN s.index \subseteq V
        /\ s.index \in [DOMAIN s.index -> Nat] /\ s.low \in [DOMAIN s.index -> Nat]
    BY <1>1, <1>2
  <2> QED BY <2>1, <2>2, <2>3, <2>4 DEF SearchTyped
<1>5. DOMAIN s.index = {} /\ UNION s.components = {} /\ 1..Len(s.stack) = {} /\ 1..Len(s.frames) = {}
  BY <1>1, <1>2
<1>6. NumberedOnce(s) /\ StackAscends(s) /\ TakenIsFound(E, s)
  BY <1>3, <1>5 DEF NumberedOnce, StackAscends, TakenIsFound
<1>7. FramesAscend(s) /\ FramesLead(V, E, s)
  BY <1>3, <1>5 DEF FramesAscend, FramesLead
<1>8. LowIsReached(V, E, s) /\ LowIsLow(E, s) /\ EndedReachLower(s) /\ FramesKnow(s)
  BY <1>3 DEF LowIsReached, LowIsLow, EndedReachLower, FramesKnow
<1>9. ComponentsAreWhole(V, E, s)
  BY <1>1, <1>5 DEF ComponentsAreWhole, Closed
<1> QED BY <1>1, <1>4, <1>6, <1>7, <1>8, <1>9 DEF SearchOK

\* A root is discovered.
LEMMA RootOpens ==
  ASSUME NEW V, NEW E, IsGraph(V, E), NEW s, SearchOK(V, E, s), IsSearch(s),
         s.frames = << >>, NEW B \in V \ DOMAIN s.index, E[B] = Successors(B),
         NEW q, q = Discover(s, B)
  PROVE  /\ Opens(V, E, s, q, B)
         /\ IsSearch(q) /\ q.components = s.components /\ q.at = s.at
<1> DEFINE F == [node : V, left : SUBSET V]
           f == [node |-> B, left |-> E[B]]
<1>1. /\ q.next = s.next + 1 /\ q.index = With(s.index, B, s.next) /\ q.low = With(s.low, B, s.next)
      /\ q.stack = Append(s.stack, B) /\ q.components = s.components
      /\ q.frames = Append(s.frames, f) /\ q.at = s.at /\ IsSearch(q)
  BY DEF IsSearch, Discover
<1>2. f \in F
  BY DEF IsGraph
<1>3. /\ q.frames \in Seq(F) /\ Len(q.frames) = 1 /\ Len(s.frames) = 0
      /\ q.frames[1] = f
  <2> HIDE DEF F, f
  <2> QED BY <1>1, <1>2
<1>4. q.frames[1].node = B /\ q.frames[1].left = E[B]
  BY <1>3
<1>5. q.frames \in Seq([node : V, left : SUBSET V])
  BY <1>3
<1> HIDE DEF F, f
<1> QED BY <1>1, <1>3, <1>4, <1>5 DEF Opens

\* The search with that edge taken.
AfterEdge(s, B) == [s EXCEPT !.frames[Len(s.frames)].left = @ \ {B}]

\* The last frame takes the edge to B.
TakesEdge(V, s, B, t) ==
  LET m == Len(s.frames)
  IN /\ t = [s EXCEPT !.frames = t.frames]
     /\ m \in Nat /\ m >= 1 /\ m \in 1..m
     /\ t.frames \in Seq([node : V, left : SUBSET V]) /\ Len(t.frames) = m
     /\ \A i \in 1..m : t.frames[i].node = s.frames[i].node
     /\ \A i \in 1..m - 1 : t.frames[i].left = s.frames[i].left
     /\ B \in s.frames[m].left /\ t.frames[m].left = s.frames[m].left \ {B}
     /\ Last(s.frames) = s.frames[m] /\ B \in V

\* The frames when the last takes an edge.
LEMMA EdgeTaken ==
  ASSUME NEW V, NEW E, IsGraph(V, E), NEW s, SearchOK(V, E, s), IsSearch(s),
         s.frames # << >>, NEW B \in Last(s.frames).left,
         NEW t, t = AfterEdge(s, B)
  PROVE  TakesEdge(V, s, B, t)
<1> DEFINE F == [node : V, left : SUBSET V]
           w == s.frames
           m == Len(w)
           f == [w[m] EXCEPT !.left = @ \ {B}]
<1>1. w \in Seq(F) /\ m \in Nat
  BY SearchFacts DEF SearchOK, SearchTyped
<1>2. m >= 1 /\ m \in 1..m /\ Last(w) = w[m]
  <2> HIDE DEF F, w
  <2> QED BY <1>1 DEF Last, w
<1>3. w[m] \in F
  <2> HIDE DEF F, w, m
  <2> QED BY <1>1, <1>2 DEF m
<1>4. f \in F /\ f.node = w[m].node /\ f.left = w[m].left \ {B}
  BY <1>3
<1>5. t.frames = [w EXCEPT ![m] = f] /\ t = [s EXCEPT !.frames = t.frames]
  BY DEF IsSearch, AfterEdge
<1>6. /\ t.frames \in Seq(F) /\ Len(t.frames) = m
      /\ t.frames[m] = f /\ \A i \in 1..m - 1 : i \in 1..m /\ t.frames[i] = w[i]
  <2>1. \A i \in 1..m - 1 : i \in 1..m /\ i # m
    BY <1>1
  <2> DEFINE u == [w EXCEPT ![m] = f]
  <2>2. u \in Seq(F) /\ Len(u) = m /\ u[m] = f /\ \A i \in 1..m - 1 : u[i] = w[i]
    <3>1. f \in F
      BY <1>4
    <3> HIDE DEF F, w, f
    <3>2. u \in Seq(F) /\ Len(u) = m
      BY <1>1, <1>2, <3>1
    <3>3. u[m] = f /\ \A i \in 1..m : i # m => u[i] = w[i]
      BY <1>1, <1>2
    <3> HIDE DEF m, u
    <3> QED BY <2>1, <3>2, <3>3
  <2>3. t.frames = u
    BY <1>5
  <2> HIDE DEF F, w, f, u, m
  <2> QED BY <2>1, <2>2, <2>3
<1>7. \A i \in 1..m : i = m \/ i \in 1..m - 1
  BY <1>1
<1>8. B \in w[m].left /\ B \in V
  BY <1>2, <1>3
<1> HIDE DEF f, F
<1>9. \A i \in 1..m : t.frames[i].node = w[i].node
  <2> HIDE DEF w, m
  <2> QED BY <1>4, <1>6, <1>7
<1>10. \A i \in 1..m - 1 : t.frames[i].left = w[i].left
  BY <1>6
<1>11. t.frames \in Seq([node : V, left : SUBSET V])
  BY <1>6 DEF F
<1> QED BY <1>1, <1>2, <1>4, <1>5, <1>6, <1>8, <1>9, <1>10, <1>11 DEF TakesEdge

\* An edge to a node that is new.
LEMMA EdgeOpens ==
  ASSUME NEW V, NEW E, IsGraph(V, E), NEW s, SearchOK(V, E, s), IsSearch(s),
         s.frames # << >>, NEW B \in Last(s.frames).left, B \notin DOMAIN s.index,
         B \in V => E[B] = Successors(B),
         NEW t, t = AfterEdge(s, B),
         NEW q, q = Discover(t, B)
  PROVE  /\ Opens(V, E, s, q, B)
         /\ IsSearch(q) /\ q.components = s.components /\ q.at = s.at
<1> DEFINE F == [node : V, left : SUBSET V]
           f == [node |-> B, left |-> E[B]]
           m == Len(s.frames)
           u == t.frames
<1>1. /\ t = [s EXCEPT !.frames = u]
      /\ m \in Nat /\ m >= 1 /\ m \in 1..m
      /\ u \in Seq(F) /\ Len(u) = m
      /\ \A i \in 1..m : u[i].node = s.frames[i].node
      /\ \A i \in 1..m - 1 : u[i].left = s.frames[i].left
      /\ B \in s.frames[m].left /\ u[m].left = s.frames[m].left \ {B}
      /\ B \in V
  <2>1. TakesEdge(V, s, B, t)
    BY EdgeTaken
  <2> QED BY <2>1 DEF TakesEdge
<1>2. /\ t.next = s.next /\ t.index = s.index /\ t.low = s.low /\ t.stack = s.stack
      /\ t.components = s.components /\ t.at = s.at /\ IsSearch(t)
  <2> HIDE DEF u, F, m
  <2> QED BY <1>1 DEF IsSearch
<1>3. /\ q.next = s.next + 1 /\ q.index = With(s.index, B, s.next) /\ q.low = With(s.low, B, s.next)
      /\ q.stack = Append(s.stack, B) /\ q.components = s.components
      /\ q.frames = Append(u, f) /\ q.at = s.at /\ IsSearch(q)
  <2> HIDE DEF m, F
  <2> QED BY <1>1, <1>2 DEF IsSearch, Discover
<1>4. f \in F
  BY <1>1 DEF IsGraph
<1>5. /\ q.frames \in Seq(F) /\ Len(q.frames) = m + 1 /\ q.frames[m + 1] = f
      /\ \A i \in 1..m : q.frames[i] = u[i]
  <2>1. q.frames = Append(u, f) /\ u \in Seq(F) /\ Len(u) = m /\ m \in Nat
    BY <1>1, <1>3
  <2>2. f \in F
    BY <1>4
  <2> HIDE DEF F, f, u, m
  <2>3. Append(u, f) \in Seq(F) /\ Len(Append(u, f)) = m + 1
    BY <2>1, <2>2
  <2>4. Append(u, f)[m + 1] = f /\ \A i \in 1..m : Append(u, f)[i] = u[i]
    BY <2>1
  <2> QED BY <2>1, <2>3, <2>4
<1>6. q.frames[m + 1].node = B /\ q.frames[m + 1].left = E[B]
  BY <1>5
<1>7. m \in 1..m /\ \A i \in 1..m - 1 : i \in 1..m
  BY <1>1
<1> HIDE DEF f, u
<1>8. /\ \A i \in 1..m : q.frames[i].node = s.frames[i].node
      /\ \A i \in 1..m - 1 : q.frames[i].left = s.frames[i].left
      /\ q.frames[m].left = s.frames[m].left \ {B}
  BY <1>1, <1>5, <1>7
<1>9. q.frames \in Seq([node : V, left : SUBSET V])
  BY <1>5
<1>10. B \in V \ DOMAIN s.index /\ B \in s.frames[m].left
  BY <1>1
<1> HIDE DEF F
<1> QED BY <1>3, <1>5, <1>6, <1>8, <1>9, <1>10 DEF Opens

\* An edge to a node found before.
LEMMA EdgeLooks ==
  ASSUME NEW V, NEW E, IsGraph(V, E), NEW s, SearchOK(V, E, s), IsSearch(s),
         s.frames # << >>, NEW B \in Last(s.frames).left, B \in DOMAIN s.index,
         NEW t, t = AfterEdge(s, B),
         NEW q, q = IF B \in ToSet(t.stack) THEN LowerTo(t, Last(s.frames).node, t.index[B]) ELSE t
  PROVE  /\ Looks(V, s, q, B)
         /\ IsSearch(q) /\ q.components = s.components /\ q.at = s.at
<1> DEFINE F == [node : V, left : SUBSET V]
           m == Len(s.frames)
           u == t.frames
           A == s.frames[m].node
<1>1. /\ t = [s EXCEPT !.frames = u]
      /\ m \in Nat /\ m >= 1 /\ m \in 1..m
      /\ u \in Seq(F) /\ Len(u) = m
      /\ \A i \in 1..m : u[i].node = s.frames[i].node
      /\ \A i \in 1..m - 1 : u[i].left = s.frames[i].left
      /\ B \in s.frames[m].left /\ u[m].left = s.frames[m].left \ {B}
      /\ Last(s.frames) = s.frames[m]
  <2>1. TakesEdge(V, s, B, t)
    BY EdgeTaken
  <2> QED BY <2>1 DEF TakesEdge
<1>2. /\ t.next = s.next /\ t.index = s.index /\ t.low = s.low /\ t.stack = s.stack
      /\ t.components = s.components /\ t.at = s.at /\ IsSearch(t)
  <2> HIDE DEF u, F, m
  <2> QED BY <1>1 DEF IsSearch
<1>3. q = IF B \in OnStack(s) THEN LowerTo(t, A, s.index[B]) ELSE t
  BY <1>1, <1>2 DEF OnStack
<1>4. /\ q.next = s.next /\ q.index = s.index /\ q.stack = s.stack
      /\ q.components = s.components /\ q.frames = u /\ q.at = s.at /\ IsSearch(q)
      /\ q.low = IF B \in OnStack(s) /\ s.index[B] < s.low[A]
                 THEN [s.low EXCEPT ![A] = s.index[B]] ELSE s.low
  <2> HIDE DEF A, m, F
  <2> QED BY <1>2, <1>3 DEF IsSearch, LowerTo
<1>5. q.frames \in Seq([node : V, left : SUBSET V])
  BY <1>1, <1>4
<1> HIDE DEF F, u
<1> QED BY <1>1, <1>4, <1>5 DEF Looks

\* The search without its last frame, and with a component taken from the stack.
AfterFrame(s) ==
  LET p == [s EXCEPT !.frames = Front(@)]
  IN IF p.frames = << >> THEN p ELSE LowerTo(p, Last(p.frames).node, s.low[Last(s.frames).node])

AfterComponent(s, t, from) ==
  [t EXCEPT !.stack = SubSeq(@, 1, from - 1),
            !.components = @ \cup {ToSet(SubSeq(s.stack, from, Len(s.stack)))}]

PlaceOf(s, A) == CHOOSE k \in 1..Len(s.stack) : s.stack[k] = A

\* The last frame goes, and the one before it is told.
FrameGoes(V, s, t) ==
  LET m == Len(s.frames)
  IN /\ Pops(V, s, t) /\ IsSearch(t)
     /\ t.stack = s.stack /\ t.components = s.components /\ t.at = s.at
     /\ m \in 1..m /\ Last(s.frames) = s.frames[m]

LEMMA FrameEnds ==
  ASSUME NEW V, NEW E, IsGraph(V, E), NEW s, SearchOK(V, E, s), IsSearch(s),
         s.frames # << >>, Last(s.frames).left = {},
         NEW t, t = AfterFrame(s)
  PROVE  FrameGoes(V, s, t)
<1> DEFINE F == [node : V, left : SUBSET V]
           w == s.frames
           m == Len(w)
           u == Front(w)
           A == w[m].node
           P == w[m - 1].node
           p == [s EXCEPT !.frames = Front(@)]
<1>1. w \in Seq(F) /\ m \in Nat
  BY SearchFacts DEF SearchOK, SearchTyped
<1>2. m >= 1 /\ m \in 1..m /\ Last(w) = w[m]
  <2> HIDE DEF F, w
  <2> QED BY <1>1 DEF Last, w
<1>3. u \in Seq(F) /\ Len(u) = m - 1 /\ \A i \in 1..m - 1 : u[i] = w[i]
  <2> HIDE DEF F, w
  <2>1. u = SubSeq(w, 1, m - 1)
    BY DEF Front
  <2>2. m - 1 \in 0..m
    <3> HIDE DEF m
    <3> QED BY <1>1, <1>2
  <2>3. \A k \in 0..m : SubSeq(w, 1, k) \in Seq(F) /\ Len(SubSeq(w, 1, k)) = k
                        /\ \A i \in 1..k : SubSeq(w, 1, k)[i] = w[i]
    BY <1>1
  <2> HIDE DEF u, m
  <2> QED BY <2>1, <2>2, <2>3
<1>4. /\ p.frames = u /\ p.next = s.next /\ p.index = s.index /\ p.low = s.low /\ p.stack = s.stack
      /\ p.components = s.components /\ p.at = s.at /\ IsSearch(p)
  BY DEF IsSearch
<1>5. u = << >> <=> m = 1
  <2> HIDE DEF F, w, u
  <2>1. u = << >> <=> Len(u) = 0
    BY <1>3
  <2> HIDE DEF m
  <2> QED BY <1>1, <1>2, <1>3, <2>1
<1>6. m # 1 => Last(u) = w[m - 1]
  <2> SUFFICES ASSUME m # 1
               PROVE  Last(u) = w[m - 1]
    OBVIOUS
  <2>1. Last(u) = u[Len(u)]
    BY DEF Last
  <2>2. m - 1 \in 1..m - 1
    <3> HIDE DEF m
    <3> QED BY <1>1, <1>2
  <2> HIDE DEF u, w, m
  <2> QED BY <1>3, <2>1, <2>2
<1>7. t = IF m = 1 THEN p ELSE LowerTo(p, P, s.low[A])
  BY <1>2, <1>4, <1>5, <1>6 DEF AfterFrame
<1>8. /\ t.next = s.next /\ t.index = s.index /\ t.stack = s.stack
      /\ t.components = s.components /\ t.frames = u /\ t.at = s.at /\ IsSearch(t)
      /\ t.low = IF m = 1 THEN s.low
                 ELSE IF s.low[A] < s.low[P] THEN [s.low EXCEPT ![P] = s.low[A]] ELSE s.low
  <2> HIDE DEF A, P, m, u
  <2> QED BY <1>4, <1>7 DEF IsSearch, LowerTo
<1>9. t.low = ToldLow(s)
  BY <1>8 DEF ToldLow
<1>10. w[m].left = {}
  BY <1>2
<1>11. /\ t.frames \in Seq([node : V, left : SUBSET V]) /\ Len(t.frames) = m - 1
       /\ \A i \in 1..m - 1 : t.frames[i] = s.frames[i]
  <2> HIDE DEF u
  <2> QED BY <1>3, <1>8
<1> HIDE DEF u
<1>12. Pops(V, s, t)
  BY <1>2, <1>8, <1>9, <1>10, <1>11 DEF Pops
<1> QED BY <1>2, <1>8, <1>12 DEF FrameGoes

\* What the last frame of a search was for is on the stack.
LEMMA LastOnStack ==
  ASSUME NEW V, NEW E, IsGraph(V, E), NEW s, SearchOK(V, E, s), NEW t, FrameGoes(V, s, t),
         NEW from, from = PlaceOf(s, Last(s.frames).node)
  PROVE  from \in 1..Len(s.stack) /\ s.stack[from] = Last(s.frames).node
<1>1. Last(s.frames).node \in OnStack(s)
  BY SearchFacts DEF FrameGoes
<1>2. \E k \in 1..Len(s.stack) : s.stack[k] = Last(s.frames).node
  BY <1>1, SearchFacts
<1> QED BY <1>2 DEF PlaceOf

\* The frame that goes does not end a component.
LEMMA FrameOnly ==
  ASSUME NEW V, NEW E, IsGraph(V, E), NEW s, SearchOK(V, E, s), NEW t, FrameGoes(V, s, t),
         s.low[Last(s.frames).node] # s.index[Last(s.frames).node]
  PROVE  Ends(V, s, t)
BY DEF FrameGoes, Ends

\* The frame that goes ends a component.
LEMMA FrameCloses ==
  ASSUME NEW V, NEW E, IsGraph(V, E), NEW s, SearchOK(V, E, s), NEW t, FrameGoes(V, s, t),
         s.low[Last(s.frames).node] = s.index[Last(s.frames).node],
         NEW from, from = PlaceOf(s, Last(s.frames).node),
         NEW q, q = AfterComponent(s, t, from)
  PROVE  /\ Closes(V, s, q)
         /\ IsSearch(q) /\ q.at = s.at
         /\ \A C \in q.components : C \in s.components \/ IsFiniteSet(C)
<1> DEFINE A == Last(s.frames).node
           C == ToSet(SubSeq(s.stack, from, Len(s.stack)))
<1>1. from \in 1..Len(s.stack) /\ s.stack[from] = A
  BY LastOnStack
<1>2. Last(s.frames) = s.frames[Len(s.frames)] /\ Pops(V, s, t) /\ IsSearch(t)
  BY DEF FrameGoes
<1>3. /\ q.stack = SubSeq(s.stack, 1, from - 1) /\ q.components = s.components \cup {C}
      /\ q.at = s.at /\ IsSearch(q)
      /\ q.next = t.next /\ q.index = t.index /\ q.low = t.low /\ q.frames = t.frames
  <2> HIDE DEF C
  <2> QED BY DEF FrameGoes, IsSearch, AfterComponent, C
<1>4. Pops(V, s, q)
  BY <1>2, <1>3 DEF Pops
<1>5. Closes(V, s, q)
  <2> HIDE DEF C
  <2> QED BY <1>1, <1>2, <1>3, <1>4 DEF Closes, C
<1>6. IsFiniteSet(C)
  BY <1>1, StackSplits
<1> QED BY <1>3, <1>5, <1>6

\* A search in progress, of the grammar as it is.
Searching(s) ==
  /\ s.at = "search" /\ IsSearch(s)
  /\ SearchOK(grammar.nonterminals, Graph, s)
  /\ \A C \in s.components : IsFiniteSet(C)

\* Only the parts of a search matter, not how far it is.
LEMMA SameSearch ==
  ASSUME NEW V, NEW E, NEW s, SearchOK(V, E, s), NEW q,
         q.next = s.next, q.index = s.index, q.low = s.low, q.stack = s.stack,
         q.frames = s.frames, q.components = s.components
  PROVE  SearchOK(V, E, q)
<1>1. OnStack(q) = OnStack(s) /\ \A A : HasFrame(q, A) <=> HasFrame(s, A)
  BY DEF OnStack, HasFrame
<1>2. \A A, B : Taken(q, A, B) <=> Taken(s, A, B)
  BY DEF Taken
<1>3. SearchTyped(V, E, q)
  BY DEF SearchOK, SearchTyped
<1>4. NumberedOnce(q) /\ StackAscends(q)
  BY <1>1 DEF SearchOK, NumberedOnce, StackAscends
<1>5. FramesAscend(q) /\ FramesLead(V, E, q)
  BY <1>1 DEF SearchOK, FramesAscend, FramesLead
<1>6. TakenIsFound(E, q) /\ LowIsLow(E, q)
  BY <1>1, <1>2 DEF SearchOK, TakenIsFound, LowIsLow
<1>7. LowIsReached(V, E, q) /\ EndedReachLower(q) /\ FramesKnow(q)
  BY <1>1 DEF SearchOK, LowIsReached, EndedReachLower, FramesKnow
<1>8. ComponentsAreWhole(V, E, q)
  BY DEF SearchOK, ComponentsAreWhole
<1> QED BY <1>3, <1>4, <1>5, <1>6, <1>7, <1>8 DEF SearchOK

\* One more root, or the end: all is discovered and nothing is on the stack.
LEMMA StartRootKeeps ==
  ASSUME GrammarStands, Searching(scc), StartRoot
  PROVE  Searching(scc') \/ (/\ scc' = [scc EXCEPT !.at = "done"] /\ scc.frames = << >>
                             /\ DOMAIN scc.index = grammar.nonterminals)
<1> DEFINE V == grammar.nonterminals
           missing == V \ DOMAIN scc.index
           B == Min(missing)
<1>1. IsGraph(V, Graph) /\ \A A \in V : Graph[A] = Successors(A)
  BY GraphStands
<1>2. scc.frames = << >> /\ scc' = IF missing = {} THEN [scc EXCEPT !.at = "done"] ELSE Discover(scc, B)
  BY DEF StartRoot, Discovered
<1>c1. CASE missing = {}
  <2>1. DOMAIN scc.index \subseteq V
    BY DEF Searching, SearchOK, SearchTyped
  <2> QED BY <1>2, <1>c1, <2>1
<1>c2. CASE missing # {}
  <2>1. missing \in SUBSET Nat
    BY <1>1 DEF IsGraph
  <2>2. B \in missing
    <3> HIDE DEF missing
    <3> QED BY <1>c2, <2>1, LeastExists DEF Min
  <2> DEFINE q == scc'
  <2>3. q = Discover(scc, B)
    BY <1>2, <1>c2
  <2>4. B \in V \ DOMAIN scc.index /\ Graph[B] = Successors(B)
    BY <1>1, <2>2
  <2> HIDE DEF B, q
  <2>5. Opens(V, Graph, scc, q, B) /\ IsSearch(q) /\ q.components = scc.components /\ q.at = scc.at
    BY <1>1, <1>2, <2>3, <2>4, RootOpens DEF Searching
  <2>6. SearchOK(V, Graph, q)
    BY <1>1, <2>5, OpensKeeps DEF Searching
  <2> QED BY <2>5, <2>6 DEF Searching, q
<1> QED BY <1>c1, <1>c2

\* An edge of the last frame.
LEMMA FollowEdgeKeeps ==
  ASSUME GrammarStands, Searching(scc), FollowEdge
  PROVE  Searching(scc')
<1> DEFINE V == grammar.nonterminals
           B == Min(Top.left)
           t == AfterEdge(scc, B)
           q == scc'
<1>1. IsGraph(V, Graph) /\ \A A \in V : Graph[A] = Successors(A)
  BY GraphStands
<1>2. /\ scc.frames # << >> /\ Top = Last(scc.frames) /\ Top.left # {}
      /\ q = IF B \notin DOMAIN t.index THEN Discover(t, B)
             ELSE IF B \in ToSet(t.stack) THEN LowerTo(t, Top.node, t.index[B]) ELSE t
  BY DEF FollowEdge, Discovered, Top, AfterEdge
<1>3. SearchOK(V, Graph, scc) /\ IsSearch(scc)
  BY DEF Searching
<1>4. Top.left \in SUBSET Nat
  <2> DEFINE F == [node : V, left : SUBSET V]
             w == scc.frames
  <2>1. w \in Seq(F)
    BY <1>3 DEF SearchOK, SearchTyped
  <2>2. w # << >> /\ Top = w[Len(w)]
    BY <1>2 DEF Last
  <2> HIDE DEF F, w
  <2>3. Top \in F
    BY <2>1, <2>2
  <2> QED BY <1>1, <2>3 DEF F, IsGraph
<1>5. B \in Last(scc.frames).left
  <2> DEFINE left == Top.left
  <2>1. left \in SUBSET Nat /\ left # {} /\ left = Last(scc.frames).left
    BY <1>2, <1>4
  <2> HIDE DEF left
  <2>2. Min(left) \in left
    BY <2>1, LeastExists DEF Min
  <2> QED BY <2>1, <2>2 DEF left
<1>6. t.index = scc.index
  BY <1>3 DEF IsSearch, AfterEdge
<1>7. B \in V => Graph[B] = Successors(B)
  BY <1>1
<1>c1. CASE B \notin DOMAIN scc.index
  <2>1. q = Discover(t, B) /\ t = AfterEdge(scc, B)
    BY <1>2, <1>6, <1>c1
  <2> HIDE DEF B, t, q
  <2>2. Opens(V, Graph, scc, q, B) /\ IsSearch(q) /\ q.components = scc.components /\ q.at = scc.at
    BY <1>1, <1>2, <1>3, <1>5, <1>7, <1>c1, <2>1, EdgeOpens
  <2>3. SearchOK(V, Graph, q)
    BY <1>1, <1>3, <2>2, OpensKeeps
  <2> QED BY <2>2, <2>3 DEF Searching, q
<1>c2. CASE B \in DOMAIN scc.index
  <2>1. /\ q = IF B \in ToSet(t.stack) THEN LowerTo(t, Last(scc.frames).node, t.index[B]) ELSE t
        /\ t = AfterEdge(scc, B)
    BY <1>2, <1>6, <1>c2
  <2> HIDE DEF B, t, q
  <2>2. Looks(V, scc, q, B) /\ IsSearch(q) /\ q.components = scc.components /\ q.at = scc.at
    BY <1>1, <1>2, <1>3, <1>5, <1>c2, <2>1, EdgeLooks
  <2>3. SearchOK(V, Graph, q)
    BY <1>1, <1>3, <2>2, LooksKeeps
  <2> QED BY <2>2, <2>3 DEF Searching, q
<1> QED BY <1>c1, <1>c2

\* The last frame ends, and its component with it if it is the lowest.
LEMMA EndNodeKeeps ==
  ASSUME GrammarStands, Searching(scc), EndNode
  PROVE  Searching(scc')
<1> DEFINE V == grammar.nonterminals
           A == Last(scc.frames).node
           t == AfterFrame(scc)
           from == PlaceOf(scc, A)
           q == scc'
<1>1. IsGraph(V, Graph)
  BY GraphStands
<1>2. /\ scc.frames # << >> /\ Last(scc.frames).left = {}
      /\ q = IF scc.low[A] # scc.index[A] THEN t
             ELSE AfterComponent(scc, t, from)
  BY DEF EndNode, Top, AfterFrame, AfterComponent, PlaceOf
<1>3. SearchOK(V, Graph, scc) /\ IsSearch(scc) /\ scc.at = "search"
  BY DEF Searching
<1>4. FrameGoes(V, scc, t)
  <2>1. t = AfterFrame(scc)
    OBVIOUS
  <2> HIDE DEF t, q
  <2> QED BY <1>1, <1>2, <1>3, <2>1, FrameEnds
<1> HIDE DEF t
<1>c1. CASE scc.low[A] # scc.index[A]
  <2>1. Ends(V, scc, q) /\ q = t
    BY <1>1, <1>2, <1>3, <1>4, <1>c1, FrameOnly
  <2> HIDE DEF q
  <2>2. SearchOK(V, Graph, q)
    BY <1>1, <1>3, <2>1, EndsKeeps
  <2>3. IsSearch(q) /\ q.components = scc.components /\ q.at = "search"
    BY <1>3, <1>4, <2>1 DEF FrameGoes
  <2> QED BY <2>2, <2>3 DEF Searching, q
<1>c2. CASE scc.low[A] = scc.index[A]
  <2>1. from = PlaceOf(scc, Last(scc.frames).node) /\ q = AfterComponent(scc, t, from)
    BY <1>2, <1>c2
  <2>2. scc.low[Last(scc.frames).node] = scc.index[Last(scc.frames).node]
    BY <1>c2
  <2> HIDE DEF from, q
  <2>3. /\ Closes(V, scc, q) /\ IsSearch(q) /\ q.at = scc.at
        /\ \A C \in q.components : C \in scc.components \/ IsFiniteSet(C)
    BY <1>1, <1>3, <1>4, <2>1, <2>2, FrameCloses
  <2>4. SearchOK(V, Graph, q)
    BY <1>1, <1>3, <2>3, ClosesKeeps
  <2> QED BY <1>3, <2>3, <2>4 DEF Searching, q
<1> QED BY <1>c1, <1>c2

\* A step of the search, or of anything else.
LEMMA SccInvKeeps ==
  ASSUME ReductionInv, GrammarStands, SccInv, [Next]_vars
  PROVE  SccInv'
<1> DEFINE V == grammar.nonterminals
<1>1. CASE UNCHANGED <<grammar, reduction, scc>>
  <2>1. grammar' = grammar /\ scc' = scc /\ reduction' = reduction
    BY <1>1
  <2>2. Graph' = Graph
    BY <2>1 DEF Graph, Successors
  <2> QED BY <2>1, <2>2 DEF SccInv
<1>2. CASE ReduceStep /\ UNCHANGED scc
  <2>1. reduction.at # "done"
    BY <1>2 DEF ReduceStep, MarkProductive, MarkReachable, EndProductive, Rebuild
  <2>2. scc.at = "idle" /\ scc = NoScc /\ scc' = NoScc
    BY <1>2, <2>1 DEF SccInv
  <2>3. NoScc.at = "idle" /\ NoScc.components = {} /\ IsSearch(NoScc)
    BY DEF NoScc, IsSearch
  <2> QED BY <2>2, <2>3 DEF SccInv
<1>3. ASSUME SccStep
      PROVE  SccInv'
  <2>1. UNCHANGED reductionVars
    BY <1>3 DEF SccStep, BeginScc, StartRoot, FollowEdge, EndNode
  <2>2. grammar' = grammar /\ reduction' = reduction
    BY <2>1 DEF reductionVars
  <2>3. Graph' = Graph
    BY <2>2 DEF Graph, Successors
  <2>4. ASSUME Searching(scc'), reduction.at = "done"
        PROVE  SccInv'
    BY <2>2, <2>3, <2>4 DEF Searching, SccInv
  <2>c1. CASE BeginScc
    <3>1. reduction.at = "done" /\ scc = NoScc /\ scc' = [NoScc EXCEPT !.at = "search"]
      BY <2>c1 DEF BeginScc, SccInv
    <3>2. IsGraph(V, Graph)
      BY GraphStands
    <3> DEFINE q == scc'
    <3>3. q = [NoScc EXCEPT !.at = "search"]
      BY <3>1
    <3> HIDE DEF q
    <3>4. SearchOK(V, Graph, q) /\ IsSearch(q) /\ q.components = {} /\ q.at = "search"
      BY <3>2, <3>3, SearchStarts
    <3>5. Searching(scc')
      BY <3>4 DEF Searching, q
    <3> QED BY <2>4, <3>1, <3>5
  <2>5. ASSUME scc.at = "search"
        PROVE  Searching(scc) /\ reduction.at = "done"
    BY <2>5 DEF SccInv, Searching
  <2>c2. CASE StartRoot
    <3>1. scc.at = "search"
      BY <2>c2 DEF StartRoot
    <3>2. Searching(scc) /\ reduction.at = "done"
      BY <2>5, <3>1
    <3>c1. CASE Searching(scc')
      BY <2>4, <3>2, <3>c1
    <3>c2. CASE /\ scc' = [scc EXCEPT !.at = "done"] /\ scc.frames = << >>
                /\ DOMAIN scc.index = grammar.nonterminals
      <4> DEFINE q == scc'
      <4>1. q = [scc EXCEPT !.at = "done"]
        BY <3>c2
      <4> HIDE DEF q
      <4>2. /\ q.next = scc.next /\ q.index = scc.index /\ q.low = scc.low /\ q.stack = scc.stack
            /\ q.frames = scc.frames /\ q.components = scc.components
            /\ q.at = "done" /\ IsSearch(q)
        BY <3>2, <4>1 DEF IsSearch, Searching
      <4>3. SearchOK(V, Graph, q)
        BY <3>2, <4>2, SameSearch DEF Searching
      <4>4. \A C \in q.components : IsFiniteSet(C)
        BY <3>2, <4>2 DEF Searching
      <4> QED BY <2>2, <2>3, <3>2, <3>c2, <4>2, <4>3, <4>4 DEF SccInv, q
    <3> QED BY <2>c2, <3>2, <3>c1, <3>c2, StartRootKeeps
  <2>6. ASSUME scc.frames # << >>
        PROVE  Searching(scc) /\ reduction.at = "done"
    <3>1. NoScc.frames = << >>
      BY DEF NoScc
    <3> QED BY <2>5, <2>6, <3>1 DEF SccInv
  <2>c3. CASE FollowEdge
    <3>1. scc.frames # << >>
      BY <2>c3 DEF FollowEdge
    <3> QED BY <2>4, <2>6, <2>c3, <3>1, FollowEdgeKeeps
  <2>c4. CASE EndNode
    <3>1. scc.frames # << >>
      BY <2>c4 DEF EndNode
    <3> QED BY <2>4, <2>6, <2>c4, <3>1, EndNodeKeeps
  <2> QED BY <1>3, <2>c1, <2>c2, <2>c3, <2>c4 DEF SccStep
<1>4. CASE \E C \in scc.components : CertifyComponent(C)
  BY <1>1, <1>4 DEF CertifyComponent
<1>5. CASE SelectBackend
  BY <1>1, <1>5 DEF SelectBackend
<1>6. CASE UNCHANGED vars
  BY <1>1, <1>6 DEF vars
<1> QED BY <1>2, <1>3, <1>4, <1>5, <1>6 DEF Next

\* At the end the components are all there is.
LEMMA NothingWaitsAtEnd ==
  ASSUME NEW V, NEW E, IsGraph(V, E), NEW s, SearchOK(V, E, s), s.frames = << >>, DOMAIN s.index = V
  PROVE  UNION s.components = V
<1>1. Len(s.frames) = 0
  OBVIOUS
<1>2. OnStack(s) = {}
  BY <1>1 DEF SearchOK, FramesAscend
<1> QED BY <1>2 DEF SearchOK, NumberedOnce

\* A class has more than one member, or one with an edge to itself, exactly when it has
\* a member on a cycle.
LEMMA CyclesShow ==
  ASSUME NEW V, NEW E, IsGraph(V, E), NEW C, C \in SUBSET V, IsFiniteSet(C),
         \A A \in C : C = ClassIn(V, E, A)
  PROVE  Cardinality(C) > 1 \/ (\E A \in C : A \in E[A]) <=> \E A \in C : A \in ReachesIn(V, E, A)
<1>1. Cardinality(C) \in Nat
  BY FS_CardinalityType
<1>2. ASSUME Cardinality(C) > 1
      PROVE  \E A \in C : A \in ReachesIn(V, E, A)
  <2>1. C # {}
    BY <1>2, FS_EmptySet
  <2>2. PICK A \in C : TRUE
    BY <2>1
  <2>3. C # {A}
    BY <1>2, FS_Singleton
  <2>4. PICK B \in C : B # A
    BY <2>2, <2>3
  <2>5. B \in ReachesIn(V, E, A) /\ A \in ReachesIn(V, E, B)
    BY <2>4 DEF ClassIn
  <2>6. A \in ReachesIn(V, E, A)
    BY <2>5, LeadsOn DEF LeadsIn
  <2> QED BY <2>6
<1>3. ASSUME NEW A \in C, A \in E[A]
      PROVE  A \in ReachesIn(V, E, A)
  BY <1>3, ReachesResult
<1>4. ASSUME NEW A \in C, A \in ReachesIn(V, E, A), ~(Cardinality(C) > 1)
      PROVE  A \in E[A]
  <2>1. C = {A}
    <3>1. Cardinality({A}) = 1 /\ {A} \subseteq C
      BY FS_Singleton
    <3>2. Cardinality({A}) = Cardinality(C)
      <4>1. Cardinality({A}) <= Cardinality(C)
        BY <3>1, FS_Subset
      <4> QED BY <1>1, <1>4, <3>1, <4>1
    <3> QED BY <3>1, <3>2, FS_Subset
  <2>2. PICK B \in E[A] : LeadsIn(V, E, B, A)
    BY <1>4, CycleBegins
  <2>3. (B \in ReachesIn(V, E, A) /\ A \in ReachesIn(V, E, B)) \/ B = A
    BY <2>2, ReachesResult DEF LeadsIn
  <2>4. B \in C
    BY <2>3, ReachesResult DEF ClassIn
  <2> QED BY <2>1, <2>2, <2>4
<1> QED BY <1>2, <1>3, <1>4

\* Of the components of a grammar.
LEMMA ClassesAtEnd ==
  ASSUME GrammarStands, SccInv, CertificationProceeds
  PROVE  ComponentsAreClasses
<1> DEFINE V == grammar.nonterminals
           R(A) == ReachesIn(V, Graph, A)
<1> SUFFICES ASSUME scc.at = "done"
             PROVE  ComponentsAreClasses
  BY DEF ComponentsAreClasses
<1>1. IsGraph(V, Graph) /\ \A A \in V : Graph[A] = Successors(A)
  BY GraphStands
<1>2. SearchOK(V, Graph, scc) /\ \A C \in scc.components : IsFiniteSet(C)
  BY DEF SccInv
<1>3. UNION scc.components = V
  BY <1>1, <1>2, NothingWaitsAtEnd DEF SccInv
<1>4. \A C \in scc.components : \A A \in C : C = ClassIn(V, Graph, A)
  BY <1>2 DEF SearchOK, ComponentsAreWhole
<1>5. ASSUME NEW A \in V
      PROVE  Reaches(A) = R(A)
  <2>1. ASSUME NEW S \in SUBSET V
        PROVE  (\A C \in S : Successors(C) \subseteq S) <=> Closed(Graph, S)
    BY <1>1 DEF Closed
  <2> QED BY <1>1, <2>1 DEF Reaches, ReachesIn
<1>6. ASSUME NEW A \in V
      PROVE  ComponentOf(A) = {A} \cup {B \in Reaches(A) : A \in Reaches(B)}
  <2>1. PICK C \in scc.components : A \in C
    BY <1>3
  <2>2. ComponentOf(A) \in scc.components /\ A \in ComponentOf(A)
    BY <2>1 DEF ComponentOf
  <2>3. ComponentOf(A) = ClassIn(V, Graph, A)
    BY <1>4, <2>2
  <2>4. \A B \in R(A) : B \in V
    BY DEF ReachesIn
  <2> QED BY <1>5, <2>3, <2>4 DEF ClassIn
<1>7. ASSUME NEW C \in scc.components
      PROVE  IsRecursive(C) <=> \E A \in C : A \in Reaches(A)
  <2>1. C \in SUBSET V /\ IsFiniteSet(C) /\ \A A \in C : C = ClassIn(V, Graph, A)
    BY <1>2, <1>3, <1>4
  <2>2. Cardinality(C) > 1 \/ (\E A \in C : A \in Graph[A]) <=> \E A \in C : A \in R(A)
    BY <1>1, <2>1, CyclesShow
  <2>3. \A A \in C : Graph[A] = Successors(A) /\ Reaches(A) = R(A)
    BY <1>1, <1>5, <2>1
  <2> QED BY <2>2, <2>3 DEF IsRecursive
<1> QED BY <1>3, <1>6, <1>7 DEF ComponentsAreClasses

-----------------------------------------------------------------------------
(***************************************************************************)
(* Certification.  What a component leads to is more than what a           *)
(* component it waits for leads to; the component left that leads to the   *)
(* least waits for none.                                                   *)
(***************************************************************************)

\* No component has an outcome before all are known.
CertInv ==
  /\ scc.at # "done" => cert = NoCert
  /\ DOMAIN cert.outcome \subseteq scc.components

LedTo(V, E, C) == {B \in V : \E A \in C : LeadsIn(V, E, A, B)}

\* What has a number of its own below another is finite.
LEMMA NodesAreFinite ==
  ASSUME NEW V, NEW E, IsGraph(V, E), NEW s, SearchOK(V, E, s), DOMAIN s.index = V
  PROVE  IsFiniteSet(V)
<1> DEFINE N == 0..s.next - 1
           f == s.index
<1>1. s.next \in Nat /\ f \in [V -> Nat]
  BY DEF SearchOK, SearchTyped
<1>2. \A A \in V : f[A] < s.next
  BY DEF SearchOK, NumberedOnce
<1>3. \A A \in V : \A B \in V : f[A] = f[B] => A = B
  BY DEF SearchOK, NumberedOnce
<1>4. IsFiniteSet(N)
  BY <1>1, FS_Interval
<1>5. f \in [V -> N]
  <2>1. \A A \in V : f[A] \in N
    BY <1>1, <1>2
  <2> HIDE DEF N
  <2> QED BY <1>1, <2>1
<1> HIDE DEF N, f
<1>6. f \in Injection(V, N)
  BY <1>3, <1>5 DEF Injection, IsInjective
<1> QED BY <1>4, <1>6, FS_Injection

\* Of two different components, one with an edge to the other leads to more.
LEMMA WaitsForLess ==
  ASSUME NEW V, NEW E, IsGraph(V, E), IsFiniteSet(V), NEW C \in SUBSET V, NEW D \in SUBSET V,
         \A A \in C : C = ClassIn(V, E, A), \A A \in D : D = ClassIn(V, E, A),
         NEW A \in C, NEW B \in D, B \in E[A], B \notin C
  PROVE  /\ Cardinality(LedTo(V, E, D)) < Cardinality(LedTo(V, E, C))
         /\ Cardinality(LedTo(V, E, D)) \in Nat /\ Cardinality(LedTo(V, E, C)) \in Nat
<1> DEFINE K(S) == LedTo(V, E, S)
<1>1. A \in V /\ B \in V /\ B \in ReachesIn(V, E, A)
  BY ReachesResult
<1>2. ASSUME NEW Z \in K(D)
      PROVE  Z \in K(C)
  <2>1. PICK Y \in D : LeadsIn(V, E, Y, Z)
    BY DEF LedTo
  <2>2. LeadsIn(V, E, B, Y) /\ LeadsIn(V, E, A, B) /\ Y \in V /\ Z \in V
    BY <1>1 DEF LeadsIn, ClassIn, LedTo
  <2>3. LeadsIn(V, E, A, Z)
    BY <1>1, <2>1, <2>2, LeadsOn
  <2> QED BY <2>2, <2>3 DEF LedTo
<1>3. A \in K(C)
  BY <1>1 DEF LedTo, LeadsIn
<1>4. A \notin K(D)
  <2> SUFFICES ASSUME A \in K(D)
               PROVE  FALSE
    OBVIOUS
  <2>1. PICK Y \in D : LeadsIn(V, E, Y, A)
    BY DEF LedTo
  <2>2. LeadsIn(V, E, B, Y) /\ Y \in V
    BY DEF LeadsIn, ClassIn
  <2>3. LeadsIn(V, E, B, A)
    BY <1>1, <2>1, <2>2, LeadsOn
  <2>4. A # B
    OBVIOUS
  <2>5. B \in ClassIn(V, E, A)
    BY <1>1, <2>3, <2>4 DEF LeadsIn, ClassIn
  <2> QED BY <2>5
<1>5. IsFiniteSet(K(C)) /\ IsFiniteSet(K(D))
  BY FS_Subset DEF LedTo
<1>6. K(D) \subseteq K(C) /\ K(D) # K(C)
  BY <1>2, <1>3, <1>4
<1> HIDE DEF K
<1>7. Cardinality(K(D)) <= Cardinality(K(C)) /\ Cardinality(K(D)) # Cardinality(K(C))
  BY <1>5, <1>6, FS_Subset
<1>8. Cardinality(K(D)) \in Nat /\ Cardinality(K(C)) \in Nat
  BY <1>5, FS_CardinalityType
<1> QED BY <1>7, <1>8 DEF K

\* So not all that are left wait.
LEMMA OneIsReady ==
  ASSUME GrammarStands, SccInv, CertInv
  PROVE  CertificationProceeds
<1> DEFINE V == grammar.nonterminals
           left == scc.components \ DOMAIN cert.outcome
           numbers == {Cardinality(LedTo(V, Graph, C)) : C \in left}
<1> SUFFICES ASSUME scc.at = "done", DOMAIN cert.outcome # scc.components
             PROVE  \E C \in left : External(C) \subseteq DOMAIN cert.outcome
  BY DEF CertificationProceeds
<1>1. IsGraph(V, Graph) /\ \A A \in V : Graph[A] = Successors(A)
  BY GraphStands
<1>2. SearchOK(V, Graph, scc) /\ DOMAIN scc.index = V /\ scc.frames = << >>
  BY DEF SccInv
<1>3. IsFiniteSet(V) /\ UNION scc.components = V
  BY <1>1, <1>2, NodesAreFinite, NothingWaitsAtEnd
<1>4. \A C \in scc.components : C \in SUBSET V /\ \A A \in C : C = ClassIn(V, Graph, A)
  BY <1>2, <1>3 DEF SearchOK, ComponentsAreWhole
<1>5. left # {}
  BY DEF CertInv
<1>6. numbers \in SUBSET Nat /\ numbers # {}
  <2>1. ASSUME NEW C
        PROVE  Cardinality(LedTo(V, Graph, C)) \in Nat
    BY <1>3, FS_Subset, FS_CardinalityType DEF LedTo
  <2> QED BY <1>5, <2>1
<1> HIDE DEF numbers
<1>7. PICK n \in numbers : \A k \in numbers : n <= k
  BY <1>6, LeastExists
<1>8. PICK C \in left : Cardinality(LedTo(V, Graph, C)) = n
  BY <1>7 DEF numbers
<1>9. ASSUME NEW D \in External(C), D \notin DOMAIN cert.outcome
      PROVE  FALSE
  <2>1. PICK A \in C, B \in V : B \in Graph[A] /\ B \notin C /\ D = ComponentOf(B)
    <3>1. PICK B \in (UNION {NonterminalsIn(r.rhs) : r \in RulesIn(C)}) \ C : D = ComponentOf(B)
      BY DEF External
    <3>2. PICK A \in C : \E r \in RulesOf(grammar, A) : B \in NonterminalsIn(r.rhs)
      BY <3>1 DEF RulesIn
    <3>3. B \in Successors(A)
      BY <3>2 DEF Successors
    <3>4. A \in V /\ Graph[A] \subseteq V
      BY <1>1, <1>4, <1>8 DEF IsGraph
    <3> QED BY <1>1, <3>1, <3>3, <3>4
  <2>2. D \in scc.components /\ B \in D
    <3>1. \E X \in scc.components : B \in X
      BY <1>3
    <3> QED BY <2>1, <3>1 DEF ComponentOf
  <2>3. C \in scc.components /\ D \in left
    BY <1>8, <1>9, <2>2
  <2>4. /\ C \in SUBSET V /\ D \in SUBSET V
        /\ \A X \in C : C = ClassIn(V, Graph, X)
        /\ \A X \in D : D = ClassIn(V, Graph, X)
    BY <1>4, <2>2, <2>3
  <2> DEFINE size(X) == Cardinality(LedTo(V, Graph, X))
  <2>5. size(D) < size(C) /\ size(D) \in Nat /\ size(C) \in Nat
    BY <1>1, <1>3, <2>1, <2>2, <2>4, WaitsForLess
  <2>6. size(D) \in numbers /\ size(C) = n
    BY <1>8, <2>3 DEF numbers
  <2> HIDE DEF size
  <2>7. size(C) <= size(D)
    BY <1>7, <2>6
  <2> QED BY <2>5, <2>7
<1> QED BY <1>9

\* Outcomes are of components, and come when the components are known.
LEMMA CertInvKeeps ==
  ASSUME SccInv, CertInv, [Next]_vars
  PROVE  CertInv'
<1>1. CASE UNCHANGED <<scc, cert>>
  BY <1>1 DEF CertInv
<1>2. CASE ReduceStep /\ UNCHANGED <<scc, cert, backend>>
  BY <1>1, <1>2
<1>3. CASE SccStep /\ UNCHANGED <<cert, backend>>
  <2>1. scc.at # "done"
    <3>1. CASE scc.frames # << >>
      BY <3>1 DEF SccInv
    <3>2. CASE scc.at \in {"idle", "search"}
      BY <3>2
    <3> QED BY <1>3, <3>1, <3>2 DEF SccStep, BeginScc, StartRoot, FollowEdge, EndNode
  <2>2. cert' = NoCert
    BY <1>3, <2>1 DEF CertInv
  <2>3. DOMAIN NoCert.outcome = {}
    BY DEF NoCert
  <2> QED BY <2>2, <2>3 DEF CertInv
<1>4. CASE \E C \in scc.components : CertifyComponent(C)
  <2>1. PICK C \in scc.components : CertifyComponent(C)
    BY <1>4
  <2>2. scc' = scc /\ scc.at = "done"
    BY <2>1 DEF CertifyComponent
  <2>3. \A x : DOMAIN With(cert.outcome, C, x) = {C} \cup DOMAIN cert.outcome
    BY DEF With
  <2>4. DOMAIN cert'.outcome \subseteq {C} \cup DOMAIN cert.outcome
    <3>c1. CASE \E D \in External(C) : cert.outcome[D] \in Failure
      <4> DEFINE o == With(cert.outcome, C, "dependency")
      <4>1. cert' = [cert EXCEPT !.outcome = o]
        BY <2>1, <3>c1 DEF CertifyComponent
      <4>2. DOMAIN o = {C} \cup DOMAIN cert.outcome
        BY <2>3
      <4> HIDE DEF o
      <4>3. cert'.outcome = o \/ cert' = cert
        BY <4>1
      <4> QED BY <4>2, <4>3
    <3>c2. CASE ~\E D \in External(C) : cert.outcome[D] \in Failure
      <4>1. cert'.outcome = With(cert.outcome, C, OutcomeOf(C))
        BY <2>1, <3>c2 DEF CertifyComponent
      <4> QED BY <2>3, <4>1
    <3> QED BY <3>c1, <3>c2
  <2> QED BY <2>1, <2>2, <2>4 DEF CertInv
<1>5. CASE SelectBackend
  BY <1>1, <1>5 DEF SelectBackend
<1>6. CASE UNCHANGED vars
  BY <1>1, <1>6 DEF vars
<1> QED BY <1>2, <1>3, <1>4, <1>5, <1>6 DEF Next

-----------------------------------------------------------------------------
(***************************************************************************)
(* Languages cut to n bytes: what concatenation, products of any number of *)
(* languages and iteration give.                                           *)
(***************************************************************************)

Language == SUBSET Seq(Byte)

Cut(S, n) == {w \in S : Len(w) <= n}

IsConcatenation(L, S, T, n) ==
  \A w : w \in L <=> \E u \in S, v \in T : w = u \o v /\ Len(u) + Len(v) <= n

\* Concatenation is associative.
LEMMA Associates ==
  ASSUME NEW x \in Seq(Byte), NEW y \in Seq(Byte), NEW z \in Seq(Byte)
  PROVE  /\ (x \o y) \o z = x \o (y \o z)
         /\ x \o y \in Seq(Byte)
         /\ Len(x \o y) = Len(x) + Len(y) /\ Len(x) \in Nat /\ Len(y) \in Nat
  OBVIOUS

Reassociates(x, y, z) == (x \o y) \o z = x \o (y \o z)

\* The first of these, named.
LEMMA Reassociated ==
  ASSUME NEW x \in Seq(Byte), NEW y \in Seq(Byte), NEW z \in Seq(Byte)
  PROVE  Reassociates(x, y, z)
<1>1. (x \o y) \o z = x \o (y \o z)
  OBVIOUS
<1> QED BY <1>1, Zenon DEF Reassociates

\* Concatenations of at most n bytes.
LEMMA ConcatenatedResult ==
  ASSUME NEW S \in Language, NEW T \in Language, NEW n \in Nat
  PROVE  /\ Concatenated(S, T, n) \in Language
         /\ IsConcatenation(Concatenated(S, T, n), S, T, n)
         /\ \A w \in Concatenated(S, T, n) : Len(w) <= n
<1> DEFINE After(u) == {u \o v : v \in {v \in T : Len(u) + Len(v) <= n}}
<1>1. Concatenated(S, T, n) = UNION {After(u) : u \in S}
  BY DEF Concatenated
<1>2. ASSUME NEW u \in S, NEW w
      PROVE  w \in After(u) <=> \E v \in T : w = u \o v /\ Len(u) + Len(v) <= n
  OBVIOUS
<1>3. \A u \in S, v \in T : u \o v \in Seq(Byte) /\ Len(u \o v) = Len(u) + Len(v)
  BY DEF Language
<1> HIDE DEF After
<1>4. ASSUME NEW w
      PROVE  w \in Concatenated(S, T, n) <=>
               \E u \in S, v \in T : w = u \o v /\ Len(u) + Len(v) <= n
  <2>1. w \in Concatenated(S, T, n) <=> \E u \in S : w \in After(u)
    BY <1>1
  <2> QED BY <1>2, <2>1, Zenon
<1>5. ASSUME NEW w \in Concatenated(S, T, n)
      PROVE  w \in Seq(Byte) /\ Len(w) <= n
  <2>1. PICK u \in S, v \in T : w = u \o v /\ Len(u) + Len(v) <= n
    BY <1>4, Zenon
  <2> QED BY <1>3, <2>1
<1>6. Concatenated(S, T, n) \in Language
  BY <1>5 DEF Language
<1> QED BY <1>4, <1>5, <1>6 DEF IsConcatenation

LEMMA ConcatenatedAssociates ==
  ASSUME NEW S \in Language, NEW T \in Language, NEW U \in Language, NEW n \in Nat
  PROVE  Concatenated(Concatenated(S, T, n), U, n) = Concatenated(S, Concatenated(T, U, n), n)
<1> DEFINE ST == Concatenated(S, T, n)
           TU == Concatenated(T, U, n)
<1>1. /\ ST \in Language /\ TU \in Language
      /\ IsConcatenation(ST, S, T, n) /\ IsConcatenation(TU, T, U, n)
  BY ConcatenatedResult
<1> HIDE DEF ST, TU
<1>2. /\ IsConcatenation(Concatenated(ST, U, n), ST, U, n)
      /\ IsConcatenation(Concatenated(S, TU, n), S, TU, n)
  BY <1>1, ConcatenatedResult
<1>3. ASSUME NEW x \in S, NEW y \in T, NEW z \in U
      PROVE  /\ (x \o y) \o z = x \o (y \o z)
             /\ Len(x \o y) = Len(x) + Len(y) /\ Len(y \o z) = Len(y) + Len(z)
             /\ Len(x) \in Nat /\ Len(y) \in Nat /\ Len(z) \in Nat
  <2>1. x \in Seq(Byte) /\ y \in Seq(Byte) /\ z \in Seq(Byte)
    BY DEF Language
  <2> QED BY <2>1
<1>4. ASSUME NEW w \in Concatenated(ST, U, n)
      PROVE  w \in Concatenated(S, TU, n)
  <2>1. PICK u \in ST, z \in U : w = u \o z /\ Len(u) + Len(z) <= n
    BY <1>2, Zenon DEF IsConcatenation
  <2>2. PICK x \in S, y \in T : u = x \o y /\ Len(x) + Len(y) <= n
    BY <1>1, <2>1, Zenon DEF IsConcatenation
  <2> HIDE DEF Language
  <2>3. /\ w = x \o (y \o z) /\ Len(x) + Len(y \o z) <= n
        /\ Len(y) + Len(z) <= n
    <3>1. Len(u) = Len(x) + Len(y)
      BY <1>3, <2>2
    <3>2. (Len(x) + Len(y)) + Len(z) <= n
      BY <2>1, <3>1
    <3>3. u \o z = x \o (y \o z)
      BY <1>3, <2>2
    <3>4. /\ Len(x) \in Nat /\ Len(y) \in Nat /\ Len(z) \in Nat /\ Len(y \o z) = Len(y) + Len(z)
      BY <1>3
    <3>5. Len(y) + Len(z) <= n /\ Len(x) + (Len(y) + Len(z)) <= n
      BY <3>2, <3>4
    <3> QED BY <2>1, <3>3, <3>4, <3>5
  <2>4. y \o z \in TU
    BY <1>1, <2>3, Zenon DEF IsConcatenation
  <2> QED BY <1>2, <2>3, <2>4, Zenon DEF IsConcatenation
<1>5. ASSUME NEW w \in Concatenated(S, TU, n)
      PROVE  w \in Concatenated(ST, U, n)
  <2>1. PICK x \in S, v \in TU : w = x \o v /\ Len(x) + Len(v) <= n
    BY <1>2, Zenon DEF IsConcatenation
  <2>2. PICK y \in T, z \in U : v = y \o z /\ Len(y) + Len(z) <= n
    BY <1>1, <2>1, Zenon DEF IsConcatenation
  <2> HIDE DEF Language
  <2>3. /\ w = (x \o y) \o z /\ Len(x \o y) + Len(z) <= n
        /\ Len(x) + Len(y) <= n
    <3>1. Len(v) = Len(y) + Len(z)
      BY <1>3, <2>2
    <3>2. Len(x) + (Len(y) + Len(z)) <= n
      BY <2>1, <3>1
    <3>3. (x \o y) \o z = x \o v
      BY <1>3, <2>2
    <3>4. /\ Len(x) \in Nat /\ Len(y) \in Nat /\ Len(z) \in Nat /\ Len(x \o y) = Len(x) + Len(y)
      BY <1>3
    <3>5. Len(x) + Len(y) <= n /\ (Len(x) + Len(y)) + Len(z) <= n
      BY <3>2, <3>4
    <3> QED BY <2>1, <3>3, <3>4, <3>5
  <2>4. x \o y \in ST
    BY <1>1, <2>3, Zenon DEF IsConcatenation
  <2> QED BY <1>2, <2>3, <2>4, Zenon DEF IsConcatenation
<1>6. Concatenated(ST, U, n) = Concatenated(S, TU, n)
  BY <1>4, <1>5, Zenon
<1> QED BY <1>6 DEF ST, TU

LEMMA ConcatenatedGrows ==
  ASSUME NEW S \in Language, NEW T \in Language, NEW U \in Language, NEW V \in Language,
         S \subseteq U, T \subseteq V, NEW n \in Nat
  PROVE  Concatenated(S, T, n) \subseteq Concatenated(U, V, n)
<1>1. IsConcatenation(Concatenated(S, T, n), S, T, n) /\ IsConcatenation(Concatenated(U, V, n), U, V, n)
  BY ConcatenatedResult
<1> QED BY <1>1, Zenon DEF IsConcatenation

\* The empty string, and the cut of one side.
LEMMA ConcatenatedUnit ==
  ASSUME NEW S \in Language, NEW n \in Nat
  PROVE  /\ Concatenated({<< >>}, S, n) = Cut(S, n)
         /\ Concatenated(S, {<< >>}, n) = Cut(S, n)
         /\ {<< >>} \in Language /\ Cut(S, n) \in Language
<1>0. {<< >>} \in Language /\ Cut(S, n) \in Language
  BY DEF Language, Cut
<1>1. ASSUME NEW w \in S
      PROVE  << >> \o w = w /\ w \o << >> = w /\ Len(<< >>) + Len(w) = Len(w) /\ Len(w) + Len(<< >>) = Len(w)
  <2>1. w \in Seq(Byte)
    BY DEF Language
  <2> QED BY <2>1
<1>2. ASSUME NEW w
      PROVE  w \in Concatenated({<< >>}, S, n) <=> w \in Cut(S, n)
  <2>1. IsConcatenation(Concatenated({<< >>}, S, n), {<< >>}, S, n)
    BY <1>0, ConcatenatedResult
  <2> QED BY <1>1, <2>1 DEF Cut, IsConcatenation
<1>3. ASSUME NEW w
      PROVE  w \in Concatenated(S, {<< >>}, n) <=> w \in Cut(S, n)
  <2>1. IsConcatenation(Concatenated(S, {<< >>}, n), S, {<< >>}, n)
    BY <1>0, ConcatenatedResult
  <2> QED BY <1>1, <2>1 DEF Cut, IsConcatenation
<1> QED BY <1>0, <1>2, <1>3

LEMMA ConcatenatedCut ==
  ASSUME NEW S \in Language, NEW T \in Language, NEW n \in Nat
  PROVE  /\ Concatenated(S, Cut(T, n), n) = Concatenated(S, T, n)
         /\ Concatenated(Cut(S, n), T, n) = Concatenated(S, T, n)
<1>1. Cut(T, n) \in Language /\ Cut(S, n) \in Language
  BY DEF Cut, Language
<1>2. \A u \in S, v \in T : Len(u) \in Nat /\ Len(v) \in Nat
  BY DEF Language
<1>3. ASSUME NEW w
      PROVE  /\ w \in Concatenated(S, Cut(T, n), n) <=> w \in Concatenated(S, T, n)
             /\ w \in Concatenated(Cut(S, n), T, n) <=> w \in Concatenated(S, T, n)
  <2>1. IsConcatenation(Concatenated(S, Cut(T, n), n), S, Cut(T, n), n)
    BY <1>1, ConcatenatedResult
  <2>2. IsConcatenation(Concatenated(S, T, n), S, T, n)
    BY ConcatenatedResult
  <2>3. IsConcatenation(Concatenated(Cut(S, n), T, n), Cut(S, n), T, n)
    BY <1>1, ConcatenatedResult
  <2>4. \A u \in S, v \in T : Len(u) + Len(v) <= n => u \in Cut(S, n) /\ v \in Cut(T, n)
    BY <1>2 DEF Cut
  <2>5. \A x : (x \in Cut(S, n) => x \in S) /\ (x \in Cut(T, n) => x \in T)
    BY DEF Cut
  <2> QED BY <2>1, <2>2, <2>3, <2>4, <2>5, Zenon DEF IsConcatenation
<1> QED BY <1>3

\* The product of a list of languages.
ProductStep(n) == [p \in Language \X Language |-> Concatenated(p[1], p[2], n)]
Product(v, n) == Folded(ProductStep(n), {<< >>}, v)

LEMMA ProductFolds ==
  ASSUME NEW n \in Nat
  PROVE  /\ IsStep(ProductStep(n), Language, Language)
         /\ {<< >>} \in Language
         /\ \A S \in Language, T \in Language : ProductStep(n)[<<S, T>>] = Concatenated(S, T, n)
<1>1. \A S \in Language, T \in Language : Concatenated(S, T, n) \in Language
  BY ConcatenatedResult
<1>2. \A p \in Language \X Language : Concatenated(p[1], p[2], n) \in Language
  BY <1>1
<1>3. {<< >>} \in Language
  BY DEF Language
<1> HIDE DEF Language
<1> QED BY <1>2, <1>3 DEF IsStep, ProductStep

LEMMA ProductEmpty ==
  ASSUME NEW n \in Nat
  PROVE  Product(<< >>, n) = {<< >>}
BY ProductFolds, FoldedEmpty, Zenon DEF Product

LEMMA ProductMore ==
  ASSUME NEW n \in Nat, NEW v \in Seq(Language), NEW S \in Language
  PROVE  /\ Product(v, n) \in Language
         /\ Product(Append(v, S), n) = Concatenated(Product(v, n), S, n)
<1> DEFINE F == ProductStep(n)
           a == {<< >>}
<1>1. IsStep(F, Language, Language) /\ a \in Language
      /\ \A X \in Language, T \in Language : F[<<X, T>>] = Concatenated(X, T, n)
  BY ProductFolds
<1> HIDE DEF F, a
<1>2. Folded(F, a, v) \in Language
  BY <1>1, FoldedType, Zenon
<1>3. Folded(F, a, Append(v, S)) = F[<<Folded(F, a, v), S>>]
  <2>1. \A s \in Seq(Language), x \in Language : Folded(F, a, Append(s, x)) = F[<<Folded(F, a, s), x>>]
    BY <1>1, FoldedLast
  <2> QED BY <2>1, Zenon
<1>4. Folded(F, a, Append(v, S)) = Concatenated(Folded(F, a, v), S, n)
  BY <1>1, <1>2, <1>3
<1> QED BY <1>2, <1>4 DEF F, a, Product


\* Induction over sequences: what has the empty one, and with every sequence those
\* that are longer by one, has all.
LEMMA SequenceInduction ==
  ASSUME NEW B, NEW P, << >> \in P,
         \A u \in Seq(B), x \in B : u \in P => Append(u, x) \in P
  PROVE  \A v \in Seq(B) : v \in P
<1> SUFFICES ASSUME NEW v \in Seq(B)
             PROVE  v \in P
  OBVIOUS
<1> DEFINE n == Len(v)
           S == {k \in Nat : k <= n => SubSeq(v, 1, k) \in P}
<1>0. n \in Nat
  OBVIOUS
<1>1. 0 \in S
  <2>1. SubSeq(v, 1, 0) = << >>
    OBVIOUS
  <2> QED BY <2>1
<1>2. ASSUME NEW k \in 0..n - 1, k \in S
      PROVE  k + 1 \in S
  <2>1. k \in Nat /\ k + 1 \in Nat /\ k <= n /\ k + 1 \in 1..n
    <3> HIDE DEF n
    <3> QED BY <1>0
  <2>2. SubSeq(v, 1, k) \in Seq(B) /\ v[k + 1] \in B /\ SubSeq(v, 1, k + 1) = Append(SubSeq(v, 1, k), v[k + 1])
    <3>1. k \in 0..Len(v) /\ k + 1 \in 1..Len(v)
      BY <2>1
    <3> QED BY <3>1
  <2>3. SubSeq(v, 1, k) \in P
    BY <1>2, <2>1
  <2>4. Append(SubSeq(v, 1, k), v[k + 1]) \in P
    BY <2>2, <2>3
  <2> HIDE DEF n
  <2> QED BY <2>1, <2>2, <2>4
<1>3. \A k \in 0..n : k \in S
  <2> HIDE DEF S, n
  <2> QED BY <1>0, <1>1, <1>2, UpTo
<1>4. n \in S /\ n <= n
  <2>1. n \in 0..n /\ n <= n
    <3> HIDE DEF n
    <3> QED BY <1>0
  <2> HIDE DEF S, n
  <2> QED BY <1>3, <2>1
<1>5. SubSeq(v, 1, n) = v
  OBVIOUS
<1> HIDE DEF n
<1> QED BY <1>4, <1>5

\* The strings of a product have at most n bytes.
LEMMA ProductResult ==
  ASSUME NEW n \in Nat, NEW v \in Seq(Language)
  PROVE  Product(v, n) \in Language /\ \A w \in Product(v, n) : Len(w) <= n
<1> DEFINE P == {u \in Seq(Language) : \A w \in Product(u, n) : Len(w) <= n}
<1>0. \A u \in Seq(Language) : Product(u, n) \in Language
  <2>1. {} \in Language
    BY DEF Language
  <2> QED BY <2>1, ProductMore
<1>1. << >> \in P
  <2>1. << >> \in Seq(Language) /\ Len(<< >>) = 0
    OBVIOUS
  <2> QED BY <2>1, ProductEmpty
<1>2. ASSUME NEW u \in Seq(Language), NEW S \in Language
      PROVE  Append(u, S) \in P
  <2>1. Append(u, S) \in Seq(Language)
    <3> HIDE DEF Language
    <3> QED OBVIOUS
  <2>2. Product(Append(u, S), n) = Concatenated(Product(u, n), S, n)
    BY ProductMore
  <2> DEFINE T == Product(u, n)
  <2>3. T \in Language
    BY <1>0
  <2> HIDE DEF T
  <2>4. \A w \in Concatenated(T, S, n) : Len(w) <= n
    BY <2>3, ConcatenatedResult
  <2> QED BY <2>1, <2>2, <2>4 DEF T
<1>3. v \in P
  <2> HIDE DEF P, Language
  <2> QED BY <1>1, <1>2, SequenceInduction
<1> QED BY <1>0, <1>3

\* A string of a longer product is one of the product before and one of the last.
LEMMA ProductLast ==
  ASSUME NEW n \in Nat, NEW v \in Seq(Language), NEW S \in Language
  PROVE  IsConcatenation(Product(Append(v, S), n), Product(v, n), S, n)
<1> DEFINE T == Product(v, n)
<1>1. T \in Language /\ Product(Append(v, S), n) = Concatenated(T, S, n)
  BY ProductMore
<1> HIDE DEF T
<1>2. IsConcatenation(Concatenated(T, S, n), T, S, n)
  BY <1>1, ConcatenatedResult
<1> QED BY <1>1, <1>2 DEF T

\* The product of two lists is that of their products.
LEMMA ProductOfBoth ==
  ASSUME NEW n \in Nat, NEW u \in Seq(Language), NEW v \in Seq(Language)
  PROVE  Product(u \o v, n) = Concatenated(Product(u, n), Product(v, n), n)
<1> DEFINE P == {x \in Seq(Language) :
                   Product(u \o x, n) = Concatenated(Product(u, n), Product(x, n), n)}
<1>0. \A x \in Seq(Language) : Product(x, n) \in Language /\ \A w \in Product(x, n) : Len(w) <= n
  BY ProductResult
<1>1. << >> \in P
  <2>1. << >> \in Seq(Language) /\ u \o << >> = u
    OBVIOUS
  <2> DEFINE T == Product(u, n)
  <2>2. T \in Language /\ \A w \in T : Len(w) <= n
    BY <1>0
  <2> HIDE DEF T
  <2>3. Concatenated(T, {<< >>}, n) = Cut(T, n) /\ Cut(T, n) = T
    BY <2>2, ConcatenatedUnit DEF Cut
  <2>4. Product(<< >>, n) = {<< >>}
    BY ProductEmpty
  <2> QED BY <2>1, <2>3, <2>4 DEF T
<1>2. ASSUME NEW x \in Seq(Language), NEW S \in Language, x \in P
      PROVE  Append(x, S) \in P
  <2>1. /\ Append(x, S) \in Seq(Language) /\ u \o x \in Seq(Language)
        /\ u \o Append(x, S) = Append(u \o x, S)
    <3> HIDE DEF Language
    <3> QED OBVIOUS
  <2>2. /\ Product(Append(x, S), n) = Concatenated(Product(x, n), S, n)
        /\ Product(Append(u \o x, S), n) = Concatenated(Product(u \o x, n), S, n)
    BY <2>1, ProductMore
  <2>3. Product(u \o x, n) = Concatenated(Product(u, n), Product(x, n), n)
    BY <1>2
  <2> DEFINE A == Product(u, n)
             B == Product(x, n)
  <2>4. A \in Language /\ B \in Language
    BY <1>0
  <2> HIDE DEF A, B, P
  <2>5. Concatenated(Concatenated(A, B, n), S, n) = Concatenated(A, Concatenated(B, S, n), n)
    BY <2>4, ConcatenatedAssociates
  <2>6. Product(u \o Append(x, S), n) = Concatenated(Product(u, n), Product(Append(x, S), n), n)
    BY <2>1, <2>2, <2>3, <2>5 DEF A, B
  <2> QED BY <2>1, <2>6 DEF P
<1>3. v \in P
  <2> HIDE DEF P, Language
  <2> QED BY <1>1, <1>2, SequenceInduction
<1> QED BY <1>3

LEMMA ProductOfOne ==
  ASSUME NEW n \in Nat, NEW S \in Language
  PROVE  Product(<<S>>, n) = Cut(S, n)
<1>1. << >> \in Seq(Language) /\ Append(<< >>, S) = <<S>>
  OBVIOUS
<1>2. Product(Append(<< >>, S), n) = Concatenated(Product(<< >>, n), S, n)
  BY <1>1, ProductMore
<1> QED BY <1>1, <1>2, ProductEmpty, ConcatenatedUnit

\* A product with the empty language is empty, and has the empty string only if
\* every language in it does.
LEMMA ProductNeedsAll ==
  ASSUME NEW n \in Nat, NEW v \in Seq(Language)
  PROVE  \A k \in 1..Len(v) : /\ v[k] = {} => Product(v, n) = {}
                              /\ << >> \in Product(v, n) => << >> \in v[k]
<1> DEFINE P == {x \in Seq(Language) :
                   \A k \in 1..Len(x) : /\ x[k] = {} => Product(x, n) = {}
                                        /\ << >> \in Product(x, n) => << >> \in x[k]}
<1>1. << >> \in P
  OBVIOUS
<1>2. ASSUME NEW x \in Seq(Language), NEW S \in Language, x \in P
      PROVE  Append(x, S) \in P
  <2> DEFINE y == Append(x, S)
  <2>1. /\ y \in Seq(Language)
        /\ \A k \in 1..Len(y) : \/ k \in 1..Len(x) /\ y[k] = x[k]
                                \/ y[k] = S
    <3> HIDE DEF Language
    <3> QED OBVIOUS
  <2>2. IsConcatenation(Product(y, n), Product(x, n), S, n)
    BY ProductLast
  <2>3. Product(x, n) \in Language
    BY ProductResult
  <2> HIDE DEF y
  <2>4. ASSUME NEW k \in 1..Len(y), y[k] = {}
        PROVE  Product(y, n) = {}
    <3>1. Product(x, n) = {} \/ S = {}
      BY <1>2, <2>1, <2>4
    <3> QED BY <2>2, <3>1 DEF IsConcatenation
  <2>5. ASSUME NEW k \in 1..Len(y), << >> \in Product(y, n)
        PROVE  << >> \in y[k]
    <3>1. PICK a \in Product(x, n), b \in S : << >> = a \o b
      BY <2>2, <2>5, Zenon DEF IsConcatenation
    <3>2. a \in Seq(Byte) /\ b \in Seq(Byte)
      BY <2>3 DEF Language
    <3>3. a = << >> /\ b = << >>
      <4>1. Len(a \o b) = Len(a) + Len(b) /\ Len(a) \in Nat /\ Len(b) \in Nat /\ Len(<< >>) = 0
        BY <3>2
      <4>2. Len(a) = 0 /\ Len(b) = 0
        <5>1. Len(a) + Len(b) = 0
          BY <3>1, <4>1, Zenon
        <5> QED BY <4>1, <5>1
      <4> QED BY <3>2, <4>2, EmptySeq
    <3> QED BY <1>2, <2>1, <3>1, <3>3
  <2> QED BY <2>1, <2>4, <2>5 DEF y
<1>3. v \in P
  <2> HIDE DEF P, Language
  <2> QED BY <1>1, <1>2, SequenceInduction
<1> QED BY <1>3


IsPiece(v, w) == v \in Seq(Byte) /\ \E x, y \in Seq(Byte) : w = (x \o v) \o y

\* Larger languages have the larger product, and a string that is new in it has a
\* piece that is new in one of them.
Outgrows(v, u, n) ==
  /\ Product(u, n) \subseteq Product(v, n)
  /\ \A w \in Product(v, n) \ Product(u, n) :
       \E k \in 1..Len(v) : \E x \in v[k] \ u[k] : IsPiece(x, w)

LEMMA ProductGrows ==
  ASSUME NEW n \in Nat, NEW u \in Seq(Language), NEW v \in Seq(Language), Len(u) = Len(v),
         \A k \in 1..Len(v) : u[k] \subseteq v[k]
  PROVE  Outgrows(v, u, n)
<1> DEFINE m == Len(v)
           S == {k \in Nat : k <= m => Outgrows(SubSeq(v, 1, k), SubSeq(u, 1, k), n)}
<1>0. m \in Nat
  OBVIOUS
<1>1. 0 \in S
  <2>1. SubSeq(v, 1, 0) = << >> /\ SubSeq(u, 1, 0) = << >>
    OBVIOUS
  <2>2. Outgrows(<< >>, << >>, n)
    BY DEF Outgrows
  <2> QED BY <2>1, <2>2
<1>2. ASSUME NEW k \in 0..m - 1, k \in S
      PROVE  k + 1 \in S
  <2> DEFINE a == SubSeq(v, 1, k)
             b == SubSeq(u, 1, k)
             X == v[k + 1]
             Y == u[k + 1]
             c == SubSeq(v, 1, k + 1)
             d == SubSeq(u, 1, k + 1)
  <2>1. k \in Nat /\ k <= m /\ k + 1 \in Nat /\ k + 1 \in 1..m
    <3> HIDE DEF m
    <3> QED BY <1>0
  <2>2. /\ a \in Seq(Language) /\ b \in Seq(Language) /\ X \in Language /\ Y \in Language
        /\ c = Append(a, X) /\ d = Append(b, Y) /\ Y \subseteq X
        /\ Len(c) = k + 1 /\ Len(a) = k
        /\ c[k + 1] = X /\ d[k + 1] = Y
        /\ \A i \in 1..k : c[i] = a[i] /\ d[i] = b[i]
    <3> HIDE DEF Language
    <3>1. k \in 0..Len(v) /\ k + 1 \in 1..Len(v) /\ k \in 0..Len(u) /\ k + 1 \in 1..Len(u)
      BY <2>1
    <3> QED BY <3>1
  <2>3. Outgrows(a, b, n)
    BY <1>2, <2>1
  <2> HIDE DEF m, a, b, c, d, X, Y
  <2>4. /\ IsConcatenation(Product(c, n), Product(a, n), X, n)
        /\ IsConcatenation(Product(d, n), Product(b, n), Y, n)
        /\ Product(a, n) \in Language /\ Product(b, n) \in Language
    BY <2>2, ProductLast, ProductResult
  <2>5. Product(d, n) \subseteq Product(c, n)
    BY <2>2, <2>3, <2>4, Zenon DEF IsConcatenation, Outgrows
  <2>6. ASSUME NEW w \in Product(c, n), w \notin Product(d, n)
        PROVE  \E i \in 1..Len(c) : \E x \in c[i] \ d[i] : IsPiece(x, w)
    <3>1. PICK x \in Product(a, n), y \in X : w = x \o y /\ Len(x) + Len(y) <= n
      BY <2>4, <2>6, Zenon DEF IsConcatenation
    <3>2. x \in Seq(Byte) /\ y \in Seq(Byte)
      BY <2>2, <2>4 DEF Language
    <3>c1. CASE x \notin Product(b, n)
      <4>1. PICK i \in 1..Len(a) : \E z \in a[i] \ b[i] : IsPiece(z, x)
        BY <2>3, <3>c1 DEF Outgrows
      <4>2. PICK z \in a[i] \ b[i] : IsPiece(z, x)
        BY <4>1
      <4>3. IsPiece(z, w)
        <5>1. PICK p \in Seq(Byte), q \in Seq(Byte) : z \in Seq(Byte) /\ x = (p \o z) \o q
          BY <4>2 DEF IsPiece
        <5> DEFINE e == p \o z
        <5>2. e \in Seq(Byte)
          BY <5>1
        <5> HIDE DEF e
        <5>b. q \in Seq(Byte) /\ y \in Seq(Byte)
          BY <3>2, <5>1
        <5>3. (e \o q) \o y = e \o (q \o y) /\ q \o y \in Seq(Byte)
          <6>1. Reassociates(e, q, y)
            BY <5>b, <5>2, Reassociated, Zenon
          <6>2. q \o y \in Seq(Byte)
            BY <5>b, Associates, Zenon
          <6> QED BY <6>1, <6>2 DEF Reassociates
        <5> QED BY <3>1, <5>1, <5>3 DEF e, IsPiece
      <4>4. i \in 1..Len(c) /\ c[i] = a[i] /\ d[i] = b[i]
        <5>1. i \in 1..k /\ Len(c) = k + 1
          BY <2>2
        <5>2. i \in 1..k + 1
          BY <2>1, <5>1
        <5> QED BY <2>2, <5>1, <5>2
      <4> QED BY <4>2, <4>3, <4>4
    <3>c2. CASE x \in Product(b, n) /\ y \notin Y
      <4>1. w = (x \o y) \o << >> /\ << >> \in Seq(Byte)
        BY <3>1, <3>2
      <4>2. IsPiece(y, w)
        BY <3>2, <4>1 DEF IsPiece
      <4>3. k + 1 \in 1..Len(c)
        BY <2>1, <2>2
      <4> QED BY <2>2, <3>c2, <4>2, <4>3
    <3>c3. CASE x \in Product(b, n) /\ y \in Y
      <4>1. w \in Product(d, n)
        BY <2>4, <3>1, <3>c3, Zenon DEF IsConcatenation
      <4> QED BY <2>6, <4>1
    <3> QED BY <3>c1, <3>c2, <3>c3
  <2>7. Outgrows(c, d, n)
    BY <2>5, <2>6 DEF Outgrows
  <2> QED BY <2>1, <2>7 DEF c, d
<1>3. \A k \in 0..m : k \in S
  <2> HIDE DEF S, m
  <2> QED BY <1>0, <1>1, <1>2, UpTo
<1>4. m \in S /\ m <= m
  <2>1. m \in 0..m /\ m <= m
    <3> HIDE DEF m
    <3> QED BY <1>0
  <2> HIDE DEF S, m
  <2> QED BY <1>3, <2>1
<1>5. SubSeq(v, 1, m) = v /\ SubSeq(u, 1, m) = u
  OBVIOUS
<1> HIDE DEF m
<1> QED BY <1>4, <1>5

-----------------------------------------------------------------------------
(***************************************************************************)
(* Derivations iterates a bounded number of times and is meant to be the   *)
(* least fixpoint.  It is: a string that a round still adds has a piece    *)
(* that the round before added, so after k rounds it has k + 1 that differ *)
(* in nonterminal or length, and there are only so many of these.          *)
(***************************************************************************)

\* A language for each of the nonterminals V.
Reading(V) == [V -> Language]

Within(K, L) == \A A \in DOMAIN K : K[A] \subseteq L[A]

Nothing(V) == [A \in V |-> {}]

\* A piece of a piece is a piece, and one of full length is the whole.
LEMMA PieceOfPiece ==
  ASSUME NEW w \in Seq(Byte), NEW v, NEW u, IsPiece(v, w), IsPiece(u, v)
  PROVE  IsPiece(u, w) /\ (Len(u) = Len(w) => u = w)
<1>1. PICK x \in Seq(Byte), y \in Seq(Byte) : v \in Seq(Byte) /\ w = (x \o v) \o y
  BY DEF IsPiece
<1>2. PICK a \in Seq(Byte), b \in Seq(Byte) : u \in Seq(Byte) /\ v = (a \o u) \o b
  BY DEF IsPiece
<1> DEFINE c == x \o a
           d == b \o y
           e == a \o u
<1>3. c \in Seq(Byte) /\ d \in Seq(Byte) /\ e \in Seq(Byte)
  BY <1>1, <1>2, Associates
<1>4. w = (c \o u) \o d
  <2>1. x \o v = (x \o e) \o b
    <3> HIDE DEF e
    <3>0. x \in Seq(Byte) /\ e \in Seq(Byte) /\ b \in Seq(Byte)
      BY <1>1, <1>2, <1>3
    <3>1. x \o (e \o b) = (x \o e) \o b
      <4>1. Reassociates(x, e, b)
        BY <3>0, Reassociated, Zenon
      <4> QED BY <4>1 DEF Reassociates
    <3>2. v = e \o b
      BY <1>2 DEF e
    <3> QED BY <3>1, <3>2, Zenon
  <2>2. x \o e = c \o u
    <3>0. x \in Seq(Byte) /\ a \in Seq(Byte) /\ u \in Seq(Byte)
      BY <1>1, <1>2
    <3>1. (x \o a) \o u = x \o (a \o u)
      <4>1. Reassociates(x, a, u)
        BY <3>0, Reassociated, Zenon
      <4> QED BY <4>1 DEF Reassociates
    <3> QED BY <3>1
  <2>3. c \o u \in Seq(Byte)
    BY <1>2, <1>3, Associates
  <2> HIDE DEF c
  <2>4. ((c \o u) \o b) \o y = (c \o u) \o (b \o y)
    <3> DEFINE f == c \o u
    <3>1. f \in Seq(Byte) /\ b \in Seq(Byte) /\ y \in Seq(Byte)
      BY <1>1, <1>2, <2>3
    <3> HIDE DEF f
    <3>2. (f \o b) \o y = f \o (b \o y)
      <4>1. Reassociates(f, b, y)
        BY <3>1, Reassociated, Zenon
      <4> QED BY <4>1 DEF Reassociates
    <3> QED BY <3>2 DEF f
  <2> QED BY <1>1, <2>1, <2>2, <2>4
<1> HIDE DEF c, d
<1>5. ASSUME Len(u) = Len(w)
      PROVE  u = w
  <2>1. Len(w) = Len(c) + Len(u) + Len(d) /\ Len(c) \in Nat /\ Len(d) \in Nat /\ Len(u) \in Nat
    BY <1>2, <1>3, <1>4
  <2>2. Len(c) = 0 /\ Len(d) = 0
    BY <1>5, <2>1
  <2>3. c = << >> /\ d = << >>
    BY <1>3, <2>2, EmptySeq
  <2> QED BY <1>2, <1>4, <2>3
<1> QED BY <1>2, <1>3, <1>4, <1>5 DEF IsPiece

LEMMA PieceOfItself ==
  ASSUME NEW w \in Seq(Byte)
  PROVE  IsPiece(w, w)
<1>1. << >> \in Seq(Byte) /\ w = (<< >> \o w) \o << >>
  OBVIOUS
<1> QED BY <1>1 DEF IsPiece

\* What is found so far leads to F, of strings of at most n bytes: more leads to more,
\* and what is new has a piece that was.
IsGradual(V, F, n) ==
  /\ F \in [Reading(V) -> Reading(V)]
  /\ \A L \in Reading(V) : \A A \in V : \A w \in F[L][A] : Len(w) <= n
  /\ \A K, L \in Reading(V) : Within(K, L) =>
       \A A \in V : /\ F[K][A] \subseteq F[L][A]
                    /\ \A w \in F[L][A] \ F[K][A] : \E B \in V : \E x \in L[B] \ K[B] : IsPiece(x, w)

\* S lists k pieces of w, of L, each of them by its nonterminal and its length; w is
\* one, of A.
Listed(V, n, L, k, A, w, S) ==
  /\ S \in SUBSET (V \X (0..n))
  /\ Cardinality(S) = k
  /\ <<A, Len(w)>> \in S
  /\ \A e \in S : \E x \in L[e[1]] : Len(x) = e[2] /\ IsPiece(x, w)

\* After k rounds of F found L: a string that the next round adds has in it one that
\* each of the rounds added.
Deep(V, F, n, k, L) ==
  /\ Within(L, F[L])
  /\ \A A \in V : \A w \in F[L][A] \ L[A] : \E S : Listed(V, n, F[L], k + 1, A, w, S)

Height(V, n) == (n + 1) * Cardinality(V)

LEMMA CandidatesAreFinite ==
  ASSUME NEW V, IsFiniteSet(V), NEW n \in Nat
  PROVE  /\ IsFiniteSet(V \X (0..n))
         /\ Cardinality(V \X (0..n)) = Height(V, n)
         /\ Height(V, n) \in Nat
<1>1. IsFiniteSet(V) /\ IsFiniteSet(0..n) /\ Cardinality(0..n) = n + 1
  BY FS_Interval
<1>2. Cardinality(V) \in Nat
  BY <1>1, FS_CardinalityType
<1>3. /\ IsFiniteSet(V \X (0..n))
      /\ Cardinality(V \X (0..n)) = Cardinality(V) * Cardinality(0..n)
  BY <1>1, FS_Product
<1> DEFINE c == Cardinality(V)
<1>4. c \in Nat /\ c * (n + 1) = (n + 1) * c /\ (n + 1) * c \in Nat
  <2>1. c \in Nat
    BY <1>2
  <2> HIDE DEF c
  <2> QED BY <2>1
<1> QED BY <1>1, <1>3, <1>4 DEF Height

\* The strings of a reading.
LEMMA ReadingTypes ==
  ASSUME NEW V, NEW L \in Reading(V), NEW A \in V
  PROVE  L[A] \in Language /\ \A w \in L[A] : w \in Seq(Byte) /\ Len(w) \in Nat
BY DEF Reading, Language

LEMMA DeepBegins ==
  ASSUME NEW V, NEW n \in Nat, NEW F, IsGradual(V, F, n)
  PROVE  Nothing(V) \in Reading(V) /\ Deep(V, F, n, 0, Nothing(V))
<1> DEFINE L == Nothing(V)
           M == F[L]
<1>1. L \in Reading(V)
  BY DEF Reading, Nothing, Language
<1>2. M \in Reading(V) /\ \A A \in V : \A w \in M[A] : Len(w) <= n
  BY <1>1 DEF IsGradual
<1>3. Within(L, M)
  BY DEF Within, Nothing
<1> HIDE DEF M
<1>4. ASSUME NEW A \in V, NEW w \in M[A]
      PROVE  \E S : Listed(V, n, M, 0 + 1, A, w, S)
  <2> DEFINE e == <<A, Len(w)>>
             l == Len(w)
  <2>1. w \in Seq(Byte) /\ l \in Nat /\ l <= n
    BY <1>2, ReadingTypes
  <2>2. l \in 0..n
    <3> HIDE DEF l
    <3> QED BY <2>1
  <2>3. e \in V \X (0..n) /\ e[1] = A /\ e[2] = Len(w)
    BY <2>2
  <2>4. IsPiece(w, w)
    BY <2>1, PieceOfItself
  <2> HIDE DEF e
  <2>5. Cardinality({e}) = 1
    BY FS_Singleton
  <2>6. Listed(V, n, M, 1, A, w, {e})
    BY <2>3, <2>4, <2>5 DEF Listed, e
  <2>7. 0 + 1 = 1
    OBVIOUS
  <2> QED BY <2>6, <2>7, Zenon
<1> QED BY <1>1, <1>3, <1>4 DEF Deep, M

LEMMA DeepGoesOn ==
  ASSUME NEW V, IsFiniteSet(V), NEW n \in Nat, NEW F, IsGradual(V, F, n), NEW k \in Nat,
         NEW L \in Reading(V), Deep(V, F, n, k, L)
  PROVE  F[L] \in Reading(V) /\ Deep(V, F, n, k + 1, F[L])
<1> DEFINE M == F[L]
           N == F[M]
<1>1. M \in Reading(V) /\ N \in Reading(V)
  BY DEF IsGradual
<1>2. Within(L, M) /\ \A A \in V : \A w \in M[A] \ L[A] : \E S : Listed(V, n, M, k + 1, A, w, S)
  BY DEF Deep
<1>m. M = F[L] /\ N = F[M]
  OBVIOUS
<1> HIDE DEF M, N
<1>3. \A A \in V : /\ M[A] \subseteq N[A]
                   /\ \A w \in N[A] \ M[A] : \E B \in V : \E x \in M[B] \ L[B] : IsPiece(x, w)
  BY <1>1, <1>2, <1>m DEF IsGradual
<1>n. \A A \in V : \A w \in N[A] : Len(w) <= n
  BY <1>1, <1>m DEF IsGradual
<1>4. ASSUME NEW A \in V, NEW p \in N[A], p \notin M[A]
      PROVE  \E S : Listed(V, n, N, (k + 1) + 1, A, p, S)
  <2>1. PICK B \in V : \E x \in M[B] \ L[B] : IsPiece(x, p)
    BY <1>3, <1>4
  <2>1a. PICK q \in M[B] \ L[B] : IsPiece(q, p)
    BY <2>1
  <2>2. PICK S : Listed(V, n, M, k + 1, B, q, S)
    BY <1>2, <2>1a
  <2>3. p \in Seq(Byte) /\ Len(p) <= n /\ Len(p) \in Nat
    BY <1>1, <1>4, <1>n, ReadingTypes
  <2> DEFINE e == <<A, Len(p)>>
             T == S \cup {e}
  <2>4. e \in V \X (0..n) /\ e[1] = A /\ e[2] = Len(p)
    <3> DEFINE l == Len(p)
    <3>1. l \in Nat /\ l <= n
      BY <2>3
    <3> HIDE DEF l
    <3>2. l \in 0..n
      BY <3>1
    <3> QED BY <3>2 DEF l
  <2>s. S \in SUBSET (V \X (0..n)) /\ Cardinality(S) = k + 1
    BY <2>2 DEF Listed
  <2>5. ASSUME NEW f \in S
        PROVE  \E r \in M[f[1]] : Len(r) = f[2] /\ IsPiece(r, p) /\ (Len(r) = Len(p) => r = p)
    <3>1. PICK r \in M[f[1]] : Len(r) = f[2] /\ IsPiece(r, q)
      BY <2>2 DEF Listed
    <3>2. IsPiece(r, p) /\ (Len(r) = Len(p) => r = p)
      BY <2>1a, <2>3, <3>1, PieceOfPiece
    <3> QED BY <3>1, <3>2
  <2>6. e \notin S
    BY <1>4, <2>4, <2>5
  <2>7. Cardinality(T) = (k + 1) + 1 /\ T \in SUBSET (V \X (0..n))
    <3>2. IsFiniteSet(S)
      BY <2>s, CandidatesAreFinite, FS_Subset
    <3> HIDE DEF e
    <3>3. Cardinality(S \cup {e}) = Cardinality(S) + 1
      BY <2>6, <3>2, FS_AddElement
    <3> QED BY <2>4, <2>s, <3>3
  <2>8. \A f \in T : \E r \in N[f[1]] : Len(r) = f[2] /\ IsPiece(r, p)
    <3>1. IsPiece(p, p)
      BY <2>3, PieceOfItself
    <3>2. \A f \in S : \E r \in N[f[1]] : Len(r) = f[2] /\ IsPiece(r, p)
      <4> SUFFICES ASSUME NEW f \in S
                   PROVE  \E r \in N[f[1]] : Len(r) = f[2] /\ IsPiece(r, p)
        OBVIOUS
      <4>1. f[1] \in V
        BY <2>s
      <4> QED BY <1>3, <2>5, <4>1
    <3>3. \E r \in N[e[1]] : Len(r) = e[2] /\ IsPiece(r, p)
      BY <1>4, <2>4, <3>1
    <3> HIDE DEF e
    <3> QED BY <3>2, <3>3
  <2>9. e \in T
    OBVIOUS
  <2> HIDE DEF T
  <2> QED BY <2>7, <2>8, <2>9 DEF Listed
<1>5. Within(M, N)
  BY <1>1, <1>3 DEF Within, Reading
<1> QED BY <1>1, <1>4, <1>5, <1>m DEF Deep

\* After as many rounds as there are nonterminals and lengths, nothing is left to add.
LEMMA DeepEnds ==
  ASSUME NEW V, IsFiniteSet(V), NEW F, NEW n \in Nat, NEW L, Deep(V, F, n, Height(V, n), L)
  PROVE  \A A \in V : F[L][A] \subseteq L[A]
<1> SUFFICES ASSUME NEW A \in V, NEW p \in F[L][A], p \notin L[A]
             PROVE  FALSE
  OBVIOUS
<1> DEFINE h == Height(V, n)
           C == V \X (0..n)
<1>1. PICK S : Listed(V, n, F[L], h + 1, A, p, S)
  BY DEF Deep
<1>2. S \in SUBSET C /\ Cardinality(S) = h + 1
  BY <1>1 DEF Listed
<1>3. IsFiniteSet(C) /\ Cardinality(C) = h /\ h \in Nat
  BY CandidatesAreFinite
<1> HIDE DEF h, C
<1>4. Cardinality(S) <= h
  BY <1>2, <1>3, FS_Subset
<1> QED BY <1>2, <1>3, <1>4


\* The rounds of F.
Rounds(V, F, k) == Repeated(Reading(V), F, Nothing(V), k)

LEMMA RoundsGoOn ==
  ASSUME NEW V, NEW n \in Nat, NEW F, IsGradual(V, F, n), NEW k \in Nat
  PROVE  /\ Rounds(V, F, 0) = Nothing(V)
         /\ Rounds(V, F, k) \in Reading(V)
         /\ Rounds(V, F, k + 1) = F[Rounds(V, F, k)]
<1>1. Nothing(V) \in Reading(V) /\ F \in [Reading(V) -> Reading(V)]
  BY DeepBegins DEF IsGradual
<1> QED BY <1>1, RepeatedGoesOn DEF Rounds

\* They find the least reading that F does not lead out of.
Least(V, F, L) ==
  /\ L \in Reading(V)
  /\ Within(F[L], L)
  /\ \A M \in Reading(V) : Within(F[M], M) => Within(L, M)

LEMMA RoundsResult ==
  ASSUME NEW V, IsFiniteSet(V), NEW n \in Nat, NEW F, IsGradual(V, F, n)
  PROVE  Least(V, F, Rounds(V, F, Height(V, n)))
<1> DEFINE R(k) == Rounds(V, F, k)
           m == Height(V, n)
           S == {k \in Nat : Deep(V, F, n, k, R(k))}
           T(M) == {k \in Nat : Within(R(k), M)}
<1>1. R(0) = Nothing(V) /\ \A k \in Nat : R(k) \in Reading(V) /\ R(k + 1) = F[R(k)]
  BY RoundsGoOn
<1>2. m \in Nat
  BY CandidatesAreFinite
<1> HIDE DEF R, m
<1>3. 0 \in S
  BY <1>1, DeepBegins
<1>4. ASSUME NEW k \in 0..m - 1, k \in S
      PROVE  k + 1 \in S
  <2>1. k \in Nat /\ k + 1 \in Nat
    OBVIOUS
  <2>2. Deep(V, F, n, k + 1, F[R(k)])
    BY <1>1, <1>4, <2>1, DeepGoesOn
  <2> QED BY <1>1, <2>1, <2>2
<1>5. m \in S
  <2>1. \A k \in 0..m : k \in S
    <3> HIDE DEF S
    <3> QED BY <1>2, <1>3, <1>4, UpTo
  <2> HIDE DEF S
  <2> QED BY <1>2, <2>1
<1>6. \A A \in V : F[R(m)][A] \subseteq R(m)[A]
  BY <1>5, DeepEnds DEF m
<1>7. F[R(m)] \in Reading(V)
  BY <1>1, <1>2
<1>8. Within(F[R(m)], R(m))
  BY <1>6, <1>7 DEF Within, Reading
<1>9. ASSUME NEW M \in Reading(V), Within(F[M], M)
      PROVE  Within(R(m), M)
  <2>1. 0 \in T(M)
    BY <1>1 DEF Within, Nothing
  <2>2. ASSUME NEW k \in 0..m - 1, k \in T(M)
        PROVE  k + 1 \in T(M)
    <3>1. k \in Nat /\ k + 1 \in Nat
      OBVIOUS
    <3>2. \A A \in V : F[R(k)][A] \subseteq F[M][A]
      BY <1>1, <2>2, <3>1 DEF IsGradual
    <3>3. F[R(k)] \in Reading(V) /\ F[M] \in Reading(V)
      BY <1>1, <3>1 DEF IsGradual
    <3>4. Within(F[R(k)], M)
      BY <1>9, <3>2, <3>3 DEF Within, Reading
    <3> QED BY <1>1, <3>1, <3>4
  <2>3. \A k \in 0..m : k \in T(M)
    <3> HIDE DEF T
    <3> QED BY <1>2, <2>1, <2>2, UpTo
  <2>4. m \in T(M)
    <3> HIDE DEF T
    <3> QED BY <1>2, <2>3
  <2> QED BY <2>4
<1> QED BY <1>1, <1>2, <1>8, <1>9 DEF Least, R, m

-----------------------------------------------------------------------------
(* What a grammar derives. *)

\* The symbols that can be read with languages for the nonterminals V and the regions.
Known(V, regions) ==
  {X \in Symbol : \/ X.kind = "nonterminal" /\ X.id \in V
                  \/ X.kind = "terminal" /\ X.id \in DOMAIN Words
                  \/ X.kind = "region" /\ X.id \in DOMAIN regions}

AreRegions(regions) == \A A \in DOMAIN regions : regions[A] \in Language

\* A grammar all of whose symbols are known.
IsReadable(g, regions) ==
  /\ IsFiniteSet(g.nonterminals)
  /\ AreRegions(regions)
  /\ \A r \in ToSet(g.rules) : r.lhs \in g.nonterminals /\ r.rhs \in Seq(Known(g.nonterminals, regions))

\* The languages of the symbols of a right-hand side.
Values(rhs, L, regions) == [k \in 1..Len(rhs) |-> StringsOf(rhs[k], L, regions)]

LEMMA ValuesResult ==
  ASSUME NEW V, NEW regions, AreRegions(regions), NEW L \in Reading(V),
         NEW rhs \in Seq(Known(V, regions))
  PROVE  /\ Values(rhs, L, regions) \in Seq(Language)
         /\ Len(Values(rhs, L, regions)) = Len(rhs)
         /\ \A k \in 1..Len(rhs) : /\ Values(rhs, L, regions)[k] = StringsOf(rhs[k], L, regions)
                                   /\ rhs[k] \in Known(V, regions)
<1>1. ASSUME NEW X \in Known(V, regions)
      PROVE  StringsOf(X, L, regions) \in Language
  <2>1. CASE X.kind = "nonterminal"
    BY <2>1 DEF Known, StringsOf, Reading
  <2>2. CASE X.kind = "terminal"
    <3>1. Words \in Seq(SUBSET (Seq(Byte) \ {<< >>})) /\ X.id \in DOMAIN Words
      BY <2>2, GrammarAssumption DEF Known
    <3>2. Words[X.id] \in SUBSET (Seq(Byte) \ {<< >>})
      BY <3>1
    <3> QED BY <2>2, <3>2 DEF StringsOf, Language
  <2>3. CASE X.kind = "region"
    BY <2>3 DEF Known, StringsOf, AreRegions
  <2> QED BY <2>1, <2>2, <2>3 DEF Known
<1>2. \A k \in 1..Len(rhs) : rhs[k] \in Known(V, regions)
  <2> HIDE DEF Known
  <2> QED OBVIOUS
<1>3. Len(rhs) \in Nat
  OBVIOUS
<1>4. \A k \in 1..Len(rhs) : StringsOf(rhs[k], L, regions) \in Language
  BY <1>1, <1>2
<1> DEFINE v == Values(rhs, L, regions)
           n == Len(rhs)
<1>5. v = [k \in 1..n |-> v[k]] /\ \A k \in 1..n : v[k] \in Language /\ v[k] = StringsOf(rhs[k], L, regions)
  BY <1>4 DEF Values
<1> HIDE DEF v, n
<1>6. v \in Seq(Language) /\ Len(v) = n
  <2> HIDE DEF Language
  <2>1. n \in Nat
    BY <1>3 DEF n
  <2> QED BY <1>5, <2>1
<1> QED BY <1>2, <1>5, <1>6 DEF v, n

\* What a right-hand side derives is the product of what its symbols derive.
LEMMA DerivedIsProduct ==
  ASSUME NEW V, NEW regions, AreRegions(regions), NEW L \in Reading(V), NEW n \in Nat,
         NEW rhs \in Seq(Known(V, regions))
  PROVE  DerivedFrom(rhs, L, regions, n) = Product(Values(rhs, L, regions), n)
<1> DEFINE A == Language
           a == {<< >>}
           v == Values(rhs, L, regions)
           F == ProductStep(n)
           Equation(g) ==
             g = [T \in SUBSET DOMAIN rhs |->
                    IF T = {} THEN a
                    ELSE LET x == Max(T) IN Concatenated(g[T \ {x}], StringsOf(rhs[x], L, regions), n)]
           iter == CHOOSE g : Equation(g)
           p == Partial(F, a, v)
<1>1. IsStep(F, A, A) /\ a \in A /\ \A S \in A, T \in A : F[<<S, T>>] = Concatenated(S, T, n)
  BY ProductFolds
<1>2. v \in Seq(A) /\ Len(v) = Len(rhs) /\ \A k \in 1..Len(rhs) : v[k] = StringsOf(rhs[k], L, regions)
  BY ValuesResult
<1>4. DOMAIN v = 1..Len(v) /\ DOMAIN rhs = 1..Len(rhs) /\ Len(v) \in Nat
  <2>1. DOMAIN rhs = 1..Len(rhs) /\ Len(rhs) \in Nat
    <3> HIDE DEF Known
    <3> QED OBVIOUS
  <2> HIDE DEF v, A
  <2> QED BY <1>2, <2>1
<1>5. DerivedFrom(rhs, L, regions, n) = iter[DOMAIN rhs]
  BY Zenon DEF DerivedFrom, FoldLeft, MapThenFoldSet
<1> HIDE DEF A, F, a, v
<1>3. StepsAs(p, A, A, F, a, v)
  BY <1>1, <1>2, PartialSteps, Zenon
<1> HIDE DEF p
<1>6. Equation(p)
  <2>1. ASSUME NEW T \in SUBSET DOMAIN rhs, T # {}
        PROVE  p[T] = Concatenated(p[T \ {Max(T)}], StringsOf(rhs[Max(T)], L, regions), n)
    <3>1. Max(T) \in 1..Len(rhs)
      BY <1>2, <1>4, <2>1, MaxIndex
    <3>2. v[Max(T)] = StringsOf(rhs[Max(T)], L, regions)
      BY <1>2, <3>1
    <3>3. /\ p[T \ {Max(T)}] \in A /\ v[Max(T)] \in A
          /\ p[T] = F[<<p[T \ {Max(T)}], v[Max(T)]>>]
      BY <1>2, <1>3, <1>4, <2>1 DEF StepsAs
    <3> QED BY <1>1, <3>2, <3>3
  <2> QED BY <1>2, <1>3, <1>4, <2>1 DEF StepsAs
<1>7. Equation(iter)
  <2> HIDE DEF Equation
  <2> QED BY <1>6
<1> HIDE DEF iter
<1>8. StepAlike(iter, p, Len(v))
  BY <1>2, <1>4, <1>6, <1>7 DEF StepAlike
<1>9. FoldsTo(iter, F, a, v)
  BY <1>1, <1>2, <1>8, FoldsAlike, Zenon DEF p
<1>10. DerivedFrom(rhs, L, regions, n) = Folded(F, a, v)
  BY <1>2, <1>4, <1>5, <1>9, Zenon DEF FoldsTo
<1> QED BY <1>10 DEF F, a, v, Product


\* The strings of trees one level higher.
Round(g, regions, n, L) ==
  [A \in g.nonterminals |-> UNION {DerivedFrom(r.rhs, L, regions, n) : r \in RulesOf(g, A)}]

RoundOf(g, regions, n) == [L \in Reading(g.nonterminals) |-> Round(g, regions, n, L)]

\* N gives each nonterminal what the rules make of the strings of L.
ByRules(N, g, regions, n, L) ==
  \A A \in g.nonterminals : \A w : w \in N[A] <=>
    \E r \in ToSet(g.rules) : r.lhs = A /\ w \in Product(Values(r.rhs, L, regions), n)

\* What each nonterminal derives in a round, rule by rule.
LEMMA RoundResult ==
  ASSUME NEW g, NEW regions, IsReadable(g, regions), NEW n \in Nat, NEW L \in Reading(g.nonterminals)
  PROVE  /\ Round(g, regions, n, L) \in Reading(g.nonterminals)
         /\ \A A \in g.nonterminals : \A w \in Round(g, regions, n, L)[A] : Len(w) <= n
         /\ ByRules(Round(g, regions, n, L), g, regions, n, L)
<1> DEFINE V == g.nonterminals
<1>1. \A r \in ToSet(g.rules) : r.rhs \in Seq(Known(V, regions)) /\ AreRegions(regions)
  BY DEF IsReadable
<1>2. ASSUME NEW r \in ToSet(g.rules)
      PROVE  /\ DerivedFrom(r.rhs, L, regions, n) = Product(Values(r.rhs, L, regions), n)
             /\ DerivedFrom(r.rhs, L, regions, n) \in Language
             /\ \A w \in DerivedFrom(r.rhs, L, regions, n) : Len(w) <= n
  <2>1. DerivedFrom(r.rhs, L, regions, n) = Product(Values(r.rhs, L, regions), n)
    BY <1>1, DerivedIsProduct
  <2>2. Values(r.rhs, L, regions) \in Seq(Language)
    BY <1>1, ValuesResult
  <2> QED BY <2>1, <2>2, ProductResult
<1>3. ASSUME NEW A \in V
      PROVE  Round(g, regions, n, L)[A] = UNION {DerivedFrom(r.rhs, L, regions, n) : r \in RulesOf(g, A)}
  BY DEF Round
<1>4. ASSUME NEW A \in V, NEW w
      PROVE  w \in Round(g, regions, n, L)[A] <=>
              \E r \in ToSet(g.rules) : r.lhs = A /\ w \in DerivedFrom(r.rhs, L, regions, n)
  BY <1>3 DEF RulesOf
<1>5. ASSUME NEW A \in V, NEW w \in Round(g, regions, n, L)[A]
      PROVE  w \in Seq(Byte) /\ Len(w) <= n
  <2>1. PICK r \in ToSet(g.rules) : r.lhs = A /\ w \in DerivedFrom(r.rhs, L, regions, n)
    BY <1>4
  <2> QED BY <1>2, <2>1 DEF Language
<1>6. Round(g, regions, n, L) \in Reading(V)
  <2>1. \A A \in V : Round(g, regions, n, L)[A] \in Language
    BY <1>5 DEF Language
  <2> DEFINE R == Round(g, regions, n, L)
  <2>2. R = [A \in V |-> R[A]]
    BY DEF Round
  <2> HIDE DEF R
  <2> QED BY <2>1, <2>2 DEF Reading, R
<1>7. ByRules(Round(g, regions, n, L), g, regions, n, L)
  <2> HIDE DEF V
  <2>1. \A A \in V : \A w : w \in Round(g, regions, n, L)[A] <=>
              \E r \in ToSet(g.rules) : r.lhs = A /\ w \in Product(Values(r.rhs, L, regions), n)
    BY <1>2, <1>4
  <2> QED BY <2>1 DEF ByRules, V
<1> QED BY <1>5, <1>6, <1>7

\* More strings lead to more, and what is new has a piece that was.
LEMMA RoundIsGradual ==
  ASSUME NEW g, NEW regions, IsReadable(g, regions), NEW n \in Nat
  PROVE  /\ IsGradual(g.nonterminals, RoundOf(g, regions, n), n)
         /\ \A L \in Reading(g.nonterminals) : RoundOf(g, regions, n)[L] = Round(g, regions, n, L)
<1> DEFINE V == g.nonterminals
           F == RoundOf(g, regions, n)
<1>1. \A L \in Reading(V) : F[L] = Round(g, regions, n, L)
  BY DEF RoundOf
<1>2. F \in [Reading(V) -> Reading(V)]
  <2>1. \A L \in Reading(V) : Round(g, regions, n, L) \in Reading(V)
    BY RoundResult
  <2> HIDE DEF V
  <2> QED BY <2>1 DEF RoundOf, V
<1>3. \A L \in Reading(V) : \A A \in V : \A w \in F[L][A] : Len(w) <= n
  BY <1>1, RoundResult
<1>4. ASSUME NEW K \in Reading(V), NEW L \in Reading(V), Within(K, L), NEW A \in V
      PROVE  /\ Round(g, regions, n, K)[A] \subseteq Round(g, regions, n, L)[A]
             /\ \A w \in Round(g, regions, n, L)[A] \ Round(g, regions, n, K)[A] :
                  \E B \in V : \E x \in L[B] \ K[B] : IsPiece(x, w)
  <2>1. ASSUME NEW r \in ToSet(g.rules)
        PROVE  /\ Product(Values(r.rhs, K, regions), n) \subseteq Product(Values(r.rhs, L, regions), n)
               /\ \A w \in Product(Values(r.rhs, L, regions), n) \ Product(Values(r.rhs, K, regions), n) :
                    \E B \in V : \E x \in L[B] \ K[B] : IsPiece(x, w)
    <3> DEFINE rhs == r.rhs
               u == Values(rhs, K, regions)
               v == Values(rhs, L, regions)
    <3>1. rhs \in Seq(Known(V, regions)) /\ AreRegions(regions)
      BY DEF IsReadable
    <3> HIDE DEF rhs
    <3>2. /\ u \in Seq(Language) /\ v \in Seq(Language) /\ Len(u) = Len(rhs) /\ Len(v) = Len(rhs)
          /\ \A k \in 1..Len(rhs) : /\ u[k] = StringsOf(rhs[k], K, regions)
                                    /\ v[k] = StringsOf(rhs[k], L, regions)
                                    /\ rhs[k] \in Known(V, regions)
      BY <3>1, ValuesResult
    <3> HIDE DEF u, v
    <3>3. ASSUME NEW k \in 1..Len(rhs)
          PROVE  /\ u[k] \subseteq v[k]
                 /\ \A x \in v[k] \ u[k] : \E B \in V : x \in L[B] \ K[B]
      <4>1. u[k] = StringsOf(rhs[k], K, regions) /\ v[k] = StringsOf(rhs[k], L, regions)
            /\ rhs[k] \in Known(V, regions)
        BY <3>2
      <4>2. CASE rhs[k].kind = "nonterminal"
        <5>1. rhs[k].id \in V /\ K[rhs[k].id] \subseteq L[rhs[k].id]
          BY <1>4, <4>1, <4>2 DEF Known, Within, Reading
        <5>2. u[k] = K[rhs[k].id] /\ v[k] = L[rhs[k].id]
          BY <4>1, <4>2 DEF StringsOf
        <5> QED BY <5>1, <5>2
      <4>3. CASE rhs[k].kind # "nonterminal"
        <5>1. rhs[k].kind \in {"terminal", "region"}
          BY <4>1, <4>3 DEF Known
        <5>2. u[k] = v[k]
          BY <4>1, <5>1 DEF StringsOf
        <5> QED BY <5>2
      <4> QED BY <4>2, <4>3
    <3>4. Outgrows(v, u, n)
      BY <3>2, <3>3, ProductGrows
    <3>5. /\ Product(u, n) \subseteq Product(v, n)
          /\ \A w \in Product(v, n) \ Product(u, n) : \E B \in V : \E x \in L[B] \ K[B] : IsPiece(x, w)
      BY <3>2, <3>3, <3>4 DEF Outgrows
    <3> QED BY <3>5 DEF u, v, rhs
  <2>2. /\ \A w : w \in Round(g, regions, n, K)[A] <=>
              \E r \in ToSet(g.rules) : r.lhs = A /\ w \in Product(Values(r.rhs, K, regions), n)
        /\ \A w : w \in Round(g, regions, n, L)[A] <=>
              \E r \in ToSet(g.rules) : r.lhs = A /\ w \in Product(Values(r.rhs, L, regions), n)
    BY RoundResult DEF ByRules
  <2> QED BY <2>1, <2>2
<1> QED BY <1>1, <1>2, <1>3, <1>4 DEF IsGradual

\* Derivations goes these rounds.  Where it stops early, nothing changes any more.
LEMMA DerivationsAreRounds ==
  ASSUME NEW g, NEW regions, IsReadable(g, regions), NEW n \in Nat
  PROVE  Derivations(g, regions, n) =
           Rounds(g.nonterminals, RoundOf(g, regions, n), Height(g.nonterminals, n))
<1> DEFINE V == g.nonterminals
           F == RoundOf(g, regions, n)
           m == Height(V, n)
           R(k) == Rounds(V, F, k)
           x == Nothing(V)
           Equation(f) ==
             f = [k \in 0..m |->
                    IF k = 0 THEN [value |-> x, stable |-> FALSE]
                    ELSE LET s == f[k - 1]
                             next == Round(g, regions, n, s.value)
                         IN IF s.stable THEN s ELSE [value |-> next, stable |-> next = s.value]]
           after == CHOOSE f : Equation(f)
           c == [k \in 0..m |-> [value |-> R(k), stable |-> k # 0 /\ R(k) = R(k - 1)]]
<1>1. /\ R(0) = x
      /\ \A k \in Nat : R(k) \in Reading(V) /\ R(k + 1) = Round(g, regions, n, R(k))
  BY RoundIsGradual, RoundsGoOn
<1>2. m \in Nat /\ m = (n + 1) * Cardinality(V)
  BY CandidatesAreFinite DEF IsReadable, Height
<1>3. Derivations(g, regions, n) = after[m].value
  BY <1>2, Zenon DEF Derivations, Stabilised, Round, Nothing
<1> HIDE DEF m, R
<1>4. \A k \in 0..m : c[k] = [value |-> R(k), stable |-> k # 0 /\ R(k) = R(k - 1)]
  OBVIOUS
<1>5. ASSUME NEW k \in 0..m, k # 0
      PROVE  c[k] = IF c[k - 1].stable THEN c[k - 1]
                    ELSE [value |-> Round(g, regions, n, c[k - 1].value),
                          stable |-> Round(g, regions, n, c[k - 1].value) = c[k - 1].value]
  <2>1. k - 1 \in 0..m /\ k - 1 \in Nat /\ (k - 1) + 1 = k
    BY <1>2, <1>5
  <2>2. R(k) = Round(g, regions, n, R(k - 1))
    BY <1>1, <2>1
  <2>3. c[k - 1] = [value |-> R(k - 1), stable |-> k - 1 # 0 /\ R(k - 1) = R((k - 1) - 1)]
    BY <1>4, <2>1
  <2>4. c[k] = [value |-> R(k), stable |-> R(k) = R(k - 1)]
    BY <1>4, <1>5
  <2> HIDE DEF c
  <2>5. c[k - 1].value = R(k - 1) /\ (c[k - 1].stable <=> (k - 1 # 0 /\ R(k - 1) = R((k - 1) - 1)))
    <3> DEFINE still == k - 1 # 0 /\ R(k - 1) = R((k - 1) - 1)
    <3>1. c[k - 1] = [value |-> R(k - 1), stable |-> still]
      BY <2>3
    <3>2. still \in BOOLEAN
      OBVIOUS
    <3> HIDE DEF still
    <3>3. c[k - 1].value = R(k - 1) /\ c[k - 1].stable = still
      BY <3>1
    <3>4. c[k - 1].stable <=> still
      BY <3>2, <3>3
    <3> QED BY <3>3, <3>4 DEF still
  <2>6. CASE c[k - 1].stable
    <3>1. k - 1 # 0 /\ R(k - 1) = R((k - 1) - 1)
      BY <2>5, <2>6
    <3>2. (k - 1) - 1 \in Nat /\ ((k - 1) - 1) + 1 = k - 1
      BY <2>1, <3>1
    <3>3. R(k - 1) = Round(g, regions, n, R((k - 1) - 1))
      BY <1>1, <3>2
    <3>4. R(k) = R(k - 1)
      BY <2>2, <3>1, <3>3
    <3>5. c[k] = [value |-> R(k - 1), stable |-> TRUE] /\ c[k - 1] = [value |-> R(k - 1), stable |-> TRUE]
      BY <2>3, <2>4, <3>1, <3>4
    <3> QED BY <2>6, <3>5
  <2>7. CASE ~c[k - 1].stable
    BY <2>2, <2>4, <2>5, <2>7
  <2> QED BY <2>6, <2>7
<1>6. Equation(c)
  <2>1. c = [k \in 0..m |-> c[k]]
    OBVIOUS
  <2>2. 0 \in 0..m => c[0] = [value |-> x, stable |-> FALSE]
    BY <1>1, <1>4
  <2> HIDE DEF c, x
  <2>3. \A k \in 0..m : c[k] =
           IF k = 0 THEN [value |-> x, stable |-> FALSE]
           ELSE IF c[k - 1].stable THEN c[k - 1]
                ELSE [value |-> Round(g, regions, n, c[k - 1].value),
                      stable |-> Round(g, regions, n, c[k - 1].value) = c[k - 1].value]
    BY <1>5, <2>2
  <2> QED BY <2>1, <2>3
<1>7. Equation(after)
  <2> HIDE DEF Equation, c
  <2> QED BY <1>6
<1> HIDE DEF after
<1> DEFINE T == {k \in Nat : k <= m => after[k] = c[k]}
<1>8. 0 \in T
  <2> HIDE DEF c, x
  <2>1. 0 \in 0..m
    BY <1>2
  <2>2. after[0] = [value |-> x, stable |-> FALSE]
    BY <1>7, <2>1
  <2>3. c[0] = [value |-> x, stable |-> FALSE]
    BY <1>6, <2>1
  <2> QED BY <2>2, <2>3
<1>9. ASSUME NEW k \in 0..m - 1, k \in T
      PROVE  k + 1 \in T
  <2>1. k \in Nat /\ k + 1 \in Nat /\ k + 1 \in 0..m /\ k + 1 # 0 /\ (k + 1) - 1 = k /\ k <= m
    BY <1>2
  <2>2. after[k] = c[k]
    BY <1>9, <2>1
  <2> HIDE DEF c, x
  <2>3. after[k + 1] = IF after[k].stable THEN after[k]
                       ELSE [value |-> Round(g, regions, n, after[k].value),
                             stable |-> Round(g, regions, n, after[k].value) = after[k].value]
    BY <1>7, <2>1
  <2>4. c[k + 1] = IF c[k].stable THEN c[k]
                       ELSE [value |-> Round(g, regions, n, c[k].value),
                             stable |-> Round(g, regions, n, c[k].value) = c[k].value]
    BY <1>6, <2>1
  <2>5. after[k + 1] = c[k + 1]
    BY <2>2, <2>3, <2>4
  <2> QED BY <2>1, <2>5
<1>10. after[m] = c[m]
  <2>1. \A k \in 0..m : k \in T
    <3> HIDE DEF T
    <3> QED BY <1>2, <1>8, <1>9, UpTo
  <2>2. m \in T
    <3> HIDE DEF T
    <3> QED BY <1>2, <2>1
  <2> QED BY <1>2, <2>2
<1>11. after[m].value = R(m)
  BY <1>2, <1>4, <1>10
<1> QED BY <1>3, <1>11 DEF R, m

\* The languages of the reference are the least closed under the rules.
RulesHold(g, regions, n, M) ==
  \A r \in ToSet(g.rules) : Product(Values(r.rhs, M, regions), n) \subseteq M[r.lhs]

IsLeastClosed(g, regions, n, L) ==
  /\ L \in Reading(g.nonterminals)
  /\ RulesHold(g, regions, n, L)
  /\ \A M \in Reading(g.nonterminals) : RulesHold(g, regions, n, M) => Within(L, M)
  /\ \A A \in g.nonterminals : \A w \in L[A] :
       Len(w) <= n /\ \E r \in ToSet(g.rules) : r.lhs = A /\ w \in Product(Values(r.rhs, L, regions), n)

LEMMA DerivationsResult ==
  ASSUME NEW g, NEW regions, IsReadable(g, regions), NEW n \in Nat
  PROVE  IsLeastClosed(g, regions, n, Derivations(g, regions, n))
<1> DEFINE V == g.nonterminals
           F == RoundOf(g, regions, n)
           D == Derivations(g, regions, n)
<1>1. IsGradual(V, F, n) /\ \A L \in Reading(V) : F[L] = Round(g, regions, n, L)
  BY RoundIsGradual
<1>2. Least(V, F, D)
  BY <1>1, RoundsResult, DerivationsAreRounds DEF IsReadable
<1> HIDE DEF F, D
<1>3. ASSUME NEW M \in Reading(V)
      PROVE  Within(F[M], M) <=> RulesHold(g, regions, n, M)
  <2>1. F[M] \in Reading(V) /\ F[M] = Round(g, regions, n, M)
    BY <1>1 DEF IsGradual
  <2>2. \A A \in V : \A w : w \in F[M][A] <=>
              \E r \in ToSet(g.rules) : r.lhs = A /\ w \in Product(Values(r.rhs, M, regions), n)
    <3>1. ByRules(F[M], g, regions, n, M)
      BY <2>1, RoundResult
    <3> QED BY <3>1 DEF ByRules
  <2>3. \A r \in ToSet(g.rules) : r.lhs \in V
    BY DEF IsReadable
  <2>4. DOMAIN F[M] = V
    BY <2>1 DEF Reading
  <2> QED BY <2>2, <2>3, <2>4 DEF Within, RulesHold
<1>4. D \in Reading(V) /\ RulesHold(g, regions, n, D)
  BY <1>2, <1>3 DEF Least
<1>5. \A M \in Reading(V) : RulesHold(g, regions, n, M) => Within(D, M)
  BY <1>2, <1>3 DEF Least
<1>6. Within(D, F[D])
  <2>1. F[D] \in Reading(V)
    BY <1>1, <1>4 DEF IsGradual
  <2>2. Within(F[F[D]], F[D])
    <3>1. Within(F[D], D)
      BY <1>2 DEF Least
    <3>2. \A A \in V : F[F[D]][A] \subseteq F[D][A]
      BY <1>1, <1>4, <2>1, <3>1 DEF IsGradual
    <3>3. F[F[D]] \in Reading(V)
      BY <1>1, <2>1 DEF IsGradual
    <3> QED BY <3>2, <3>3 DEF Within, Reading
  <2> QED BY <1>2, <2>1, <2>2 DEF Least
<1>7. ASSUME NEW A \in V, NEW w \in D[A]
      PROVE  Len(w) <= n /\ \E r \in ToSet(g.rules) : r.lhs = A /\ w \in Product(Values(r.rhs, D, regions), n)
  <2>1. w \in F[D][A]
    BY <1>4, <1>6 DEF Within, Reading
  <2>2. w \in Round(g, regions, n, D)[A]
    BY <1>1, <1>4, <2>1
  <2>3. /\ ByRules(Round(g, regions, n, D), g, regions, n, D)
        /\ \A B \in V : \A x \in Round(g, regions, n, D)[B] : Len(x) <= n
    BY <1>4, RoundResult
  <2> QED BY <2>2, <2>3 DEF ByRules
<1> QED BY <1>4, <1>5, <1>7 DEF IsLeastClosed, D

-----------------------------------------------------------------------------
(* The reduction and the languages. *)

\* A right-hand side is read by what its own nonterminals stand for.
LEMMA SameValues ==
  ASSUME NEW V, NEW regions, NEW rhs \in Seq(Known(V, regions)), NEW K, NEW L,
         \A A \in NonterminalsIn(rhs) : K[A] = L[A]
  PROVE  Values(rhs, K, regions) = Values(rhs, L, regions)
<1>1. ASSUME NEW k \in 1..Len(rhs)
      PROVE  StringsOf(rhs[k], K, regions) = StringsOf(rhs[k], L, regions)
  <2>1. rhs[k] \in Known(V, regions)
    <3> HIDE DEF Known
    <3> QED OBVIOUS
  <2>2. rhs[k].kind = "nonterminal" => rhs[k].id \in NonterminalsIn(rhs)
    BY DEF NonterminalsIn, ToSet
  <2> QED BY <2>1, <2>2 DEF Known, StringsOf
<1> QED BY <1>1 DEF Values

\* P is closed bottom up, and R top down.
ClosedUp(g, P) == \A r \in ToSet(g.rules) : NonterminalsIn(r.rhs) \subseteq P => r.lhs \in P

ClosedDown(g, R) == \A r \in ToSet(g.rules) : r.lhs \in R => NonterminalsIn(r.rhs) \subseteq R

\* g restricted to V: the rules of V that mention only nonterminals of V.
IsRestricted(h, g, V) ==
  /\ h.nonterminals = V /\ V \subseteq g.nonterminals
  /\ ToSet(h.rules) = {r \in ToSet(g.rules) : {r.lhs} \cup NonterminalsIn(r.rhs) \subseteq V}

\* The nonterminals mentioned are known.
LEMMA MentionsKnown ==
  ASSUME NEW V, NEW regions, NEW rhs \in Seq(Known(V, regions))
  PROVE  NonterminalsIn(rhs) \subseteq V
<1>1. ASSUME NEW k \in 1..Len(rhs)
      PROVE  rhs[k] \in Known(V, regions)
  <2> HIDE DEF Known
  <2> QED OBVIOUS
<1> QED BY <1>1 DEF NonterminalsIn, ToSet, Known

\* What has no nonterminal outside V is known with the nonterminals of V.
LEMMA KnownWithin ==
  ASSUME NEW V, NEW W, NEW regions, NEW rhs \in Seq(Known(V, regions)), NonterminalsIn(rhs) \subseteq W
  PROVE  rhs \in Seq(Known(W, regions))
<1>1. ASSUME NEW k \in 1..Len(rhs)
      PROVE  rhs[k] \in Known(W, regions)
  <2>1. rhs[k] \in Known(V, regions)
    <3> HIDE DEF Known
    <3> QED OBVIOUS
  <2>2. rhs[k].kind = "nonterminal" => rhs[k].id \in NonterminalsIn(rhs)
    BY DEF NonterminalsIn, ToSet
  <2> QED BY <2>1, <2>2 DEF Known
<1> HIDE DEF Known
<1> QED BY <1>1

LEMMA RestrictedIsReadable ==
  ASSUME NEW g, NEW regions, IsReadable(g, regions), NEW h, NEW V, IsRestricted(h, g, V)
  PROVE  IsReadable(h, regions)
<1>1. IsFiniteSet(h.nonterminals)
  BY FS_Subset DEF IsReadable, IsRestricted
<1>2. ASSUME NEW r \in ToSet(h.rules)
      PROVE  r.lhs \in h.nonterminals /\ r.rhs \in Seq(Known(h.nonterminals, regions))
  <2>1. /\ r \in ToSet(g.rules) /\ r.lhs \in V /\ NonterminalsIn(r.rhs) \subseteq V
        /\ h.nonterminals = V
    BY DEF IsRestricted
  <2>2. r.rhs \in Seq(Known(g.nonterminals, regions))
    BY <2>1 DEF IsReadable
  <2> QED BY <2>1, <2>2, KnownWithin
<1> QED BY <1>1, <1>2 DEF IsReadable

\* Dropping what derives nothing, and what is not led to, changes no language.
LEMMA RestrictedDerives ==
  ASSUME NEW g, NEW regions, IsReadable(g, regions), NEW n \in Nat, NEW h,
         NEW P, NEW R, ClosedUp(g, P), ClosedDown(g, R), IsRestricted(h, g, P \cap R),
         NEW L, IsLeastClosed(g, regions, n, L), NEW M, IsLeastClosed(h, regions, n, M)
  PROVE  \A A \in h.nonterminals : M[A] = L[A]
<1> DEFINE V == P \cap R
           N == g.nonterminals
           K1 == [A \in V |-> L[A]]
           K2 == [A \in N |-> IF A \notin R THEN Seq(Byte) ELSE IF A \in P THEN M[A] ELSE {}]
<1>1. h.nonterminals = V /\ V \subseteq N /\ L \in [N -> Language] /\ M \in [V -> Language]
  BY DEF IsLeastClosed, IsRestricted, Reading
<1>2. IsReadable(h, regions)
  BY RestrictedIsReadable
<1>3. ASSUME NEW r \in ToSet(g.rules)
      PROVE  /\ r.lhs \in N /\ r.rhs \in Seq(Known(N, regions)) /\ NonterminalsIn(r.rhs) \subseteq N
             /\ r \in ToSet(h.rules) <=> r.lhs \in V /\ NonterminalsIn(r.rhs) \subseteq V
  <2>1. r.lhs \in N /\ r.rhs \in Seq(Known(N, regions))
    BY DEF IsReadable
  <2> QED BY <2>1, MentionsKnown DEF IsRestricted
<1>4. \A r \in ToSet(h.rules) : r \in ToSet(g.rules)
  BY DEF IsRestricted
<1>5. K1 \in Reading(V) /\ K2 \in Reading(N)
  <2>1. \A A \in V : K1[A] \in Language
    BY <1>1
  <2>2. \A A \in N : K2[A] \in Language
    BY <1>1 DEF Language
  <2>3. K1 = [A \in V |-> K1[A]] /\ K2 = [A \in N |-> K2[A]]
    OBVIOUS
  <2> HIDE DEF K1, K2
  <2> QED BY <2>1, <2>2, <2>3 DEF Reading
<1>6. RulesHold(h, regions, n, K1)
  <2>1. ASSUME NEW r \in ToSet(h.rules)
        PROVE  Product(Values(r.rhs, K1, regions), n) \subseteq K1[r.lhs]
    <3>1. r \in ToSet(g.rules) /\ r.lhs \in V /\ NonterminalsIn(r.rhs) \subseteq V /\ r.rhs \in Seq(Known(N, regions))
      BY <1>3, <1>4
    <3>2. \A A \in NonterminalsIn(r.rhs) : K1[A] = L[A]
      BY <3>1
    <3>3. Values(r.rhs, K1, regions) = Values(r.rhs, L, regions)
      <4> HIDE DEF K1
      <4> QED BY <3>1, <3>2, SameValues
    <3>4. Product(Values(r.rhs, L, regions), n) \subseteq L[r.lhs]
      BY <3>1 DEF IsLeastClosed, RulesHold
    <3> QED BY <3>1, <3>3, <3>4
  <2> QED BY <2>1 DEF RulesHold
<1>7. RulesHold(g, regions, n, K2)
  <2>1. ASSUME NEW r \in ToSet(g.rules)
        PROVE  Product(Values(r.rhs, K2, regions), n) \subseteq K2[r.lhs]
    <3> DEFINE v == Values(r.rhs, K2, regions)
    <3>1. /\ r.lhs \in N /\ r.rhs \in Seq(Known(N, regions)) /\ NonterminalsIn(r.rhs) \subseteq N
          /\ r \in ToSet(h.rules) <=> r.lhs \in V /\ NonterminalsIn(r.rhs) \subseteq V
      BY <1>3
    <3>2. /\ v \in Seq(Language) /\ Len(v) = Len(r.rhs)
          /\ \A k \in 1..Len(r.rhs) : v[k] = StringsOf(r.rhs[k], K2, regions)
      <4> HIDE DEF K2
      <4> QED BY <1>5, <3>1, ValuesResult DEF IsReadable
    <3>3. CASE r.lhs \notin R
      <4>1. K2[r.lhs] = Seq(Byte)
        BY <3>1, <3>3
      <4> HIDE DEF v
      <4> QED BY <3>2, <4>1, ProductResult DEF Language, v
    <3>4. CASE r.lhs \in R /\ NonterminalsIn(r.rhs) \subseteq P
      <4>1. r.lhs \in P /\ NonterminalsIn(r.rhs) \subseteq V /\ r \in ToSet(h.rules)
        BY <3>1, <3>4 DEF ClosedUp, ClosedDown
      <4>2. \A A \in NonterminalsIn(r.rhs) : K2[A] = M[A]
        BY <3>1, <4>1
      <4>3. v = Values(r.rhs, M, regions)
        <5> HIDE DEF K2
        <5> QED BY <3>1, <4>2, SameValues
      <4>4. Product(Values(r.rhs, M, regions), n) \subseteq M[r.lhs]
        BY <4>1 DEF IsLeastClosed, RulesHold
      <4> QED BY <3>1, <3>4, <4>1, <4>3, <4>4
    <3>5. CASE r.lhs \in R /\ ~(NonterminalsIn(r.rhs) \subseteq P)
      <4>1. PICK A \in NonterminalsIn(r.rhs) : A \notin P
        BY <3>5
      <4>2. A \in R /\ A \in N
        BY <3>1, <3>5 DEF ClosedDown
      <4>3. PICK k \in 1..Len(r.rhs) : r.rhs[k].kind = "nonterminal" /\ r.rhs[k].id = A
        <5> HIDE DEF N, V
        <5> QED BY <3>1 DEF NonterminalsIn, ToSet
      <4>4. v[k] = {}
        BY <3>2, <4>1, <4>2, <4>3 DEF StringsOf
      <4> HIDE DEF v
      <4>5. Product(v, n) = {}
        BY <3>2, <4>3, <4>4, ProductNeedsAll
      <4> QED BY <4>5 DEF v
    <3> QED BY <3>3, <3>4, <3>5
  <2> QED BY <2>1 DEF RulesHold
<1>8. Within(M, K1)
  <2> HIDE DEF K1
  <2> QED BY <1>1, <1>5, <1>6 DEF IsLeastClosed
<1>9. Within(L, K2)
  <2> HIDE DEF K2
  <2> QED BY <1>5, <1>7 DEF IsLeastClosed
<1>10. ASSUME NEW A \in V
       PROVE  M[A] \subseteq L[A] /\ L[A] \subseteq M[A]
  <2>1. K1[A] = L[A] /\ K2[A] = M[A] /\ A \in DOMAIN M /\ A \in DOMAIN L
    BY <1>1
  <2> HIDE DEF K1, K2
  <2> QED BY <1>8, <1>9, <2>1 DEF Within
<1> QED BY <1>1, <1>10

\* What is in no set closed bottom up derives nothing.
LEMMA UnproductiveDerives ==
  ASSUME NEW g, NEW regions, IsReadable(g, regions), NEW n \in Nat, NEW P, ClosedUp(g, P),
         NEW L, IsLeastClosed(g, regions, n, L), NEW A \in g.nonterminals, A \notin P
  PROVE  L[A] = {}
<1> DEFINE N == g.nonterminals
           K == [B \in N |-> IF B \in P THEN Seq(Byte) ELSE {}]
<1>1. K \in Reading(N)
  <2>1. \A B \in N : K[B] \in Language
    BY DEF Language
  <2>2. K = [B \in N |-> K[B]]
    OBVIOUS
  <2> HIDE DEF K
  <2> QED BY <2>1, <2>2 DEF Reading
<1>2. ASSUME NEW r \in ToSet(g.rules)
      PROVE  Product(Values(r.rhs, K, regions), n) \subseteq K[r.lhs]
  <2> DEFINE v == Values(r.rhs, K, regions)
  <2>1. /\ r.lhs \in N /\ r.rhs \in Seq(Known(N, regions)) /\ NonterminalsIn(r.rhs) \subseteq N
    BY MentionsKnown DEF IsReadable
  <2>2. /\ v \in Seq(Language) /\ Len(v) = Len(r.rhs)
        /\ \A k \in 1..Len(r.rhs) : v[k] = StringsOf(r.rhs[k], K, regions)
    <3> HIDE DEF K
    <3> QED BY <1>1, <2>1, ValuesResult DEF IsReadable
  <2>3. CASE NonterminalsIn(r.rhs) \subseteq P
    <3>1. K[r.lhs] = Seq(Byte)
      BY <2>1, <2>3 DEF ClosedUp
    <3> HIDE DEF v
    <3> QED BY <2>2, <3>1, ProductResult DEF Language, v
  <2>4. CASE ~(NonterminalsIn(r.rhs) \subseteq P)
    <3>1. PICK B \in NonterminalsIn(r.rhs) : B \notin P
      BY <2>4
    <3>2. PICK k \in 1..Len(r.rhs) : r.rhs[k].kind = "nonterminal" /\ r.rhs[k].id = B
      <4> HIDE DEF N
      <4> QED BY <2>1 DEF NonterminalsIn, ToSet
    <3>3. v[k] = {}
      BY <2>1, <2>2, <3>1, <3>2 DEF StringsOf
    <3> HIDE DEF v
    <3>4. Product(v, n) = {}
      BY <2>2, <3>2, <3>3, ProductNeedsAll
    <3> QED BY <3>4 DEF v
  <2> QED BY <2>3, <2>4
<1>3. K[A] = {} /\ A \in N
  OBVIOUS
<1> HIDE DEF K
<1>4. Within(L, K)
  BY <1>1, <1>2 DEF IsLeastClosed, RulesHold
<1>5. DOMAIN L = N
  BY DEF IsLeastClosed, Reading
<1> QED BY <1>3, <1>4, <1>5 DEF Within

\* What is left of the grammar.
Reduced ==
  reduction.at = "done" =>
    /\ grammar.start = given.start
    /\ given.start \in reduction.productive => IsRestricted(grammar, given, Retained)
    /\ given.start \notin reduction.productive => grammar.nonterminals = {given.start} /\ grammar.rules = << >>

LEMMA RebuildReduces ==
  ASSUME ReductionInv, GrammarStands, Rebuild
  PROVE  Reduced'
<1> DEFINE RuleOf(V) == [lhs : V, rhs : Seq(Symbol)]
           V == grammar.nonterminals
           kept == RetainedRules(grammar.rules)
<1>1. /\ grammar = given /\ given' = given /\ given.start \in reduction.productive
      /\ Retained \subseteq given.nonterminals
  BY DEF Rebuild, ReductionInv, ReductionTypeOK, SearchIsAhead, GrammarStands, Retained
<1>2. /\ grammar'.start = given.start /\ grammar'.nonterminals = Retained /\ grammar'.rules = kept
  BY <1>1 DEF Rebuild
<1>3. ToSet(kept) = {r \in ToSet(grammar.rules) : Keeps(r)}
  <2> DEFINE B == RuleOf(V)
             s == grammar.rules
  <2>1. s \in Seq(B)
    BY DEF GrammarStands, IsGrammar
  <2> HIDE DEF B, s
  <2>2. RetainedRules(s) \in Seq(B) /\ ToSet(RetainedRules(s)) = {r \in ToSet(s) : Keeps(r)}
    BY <2>1, RetainedRulesResult
  <2> QED BY <2>2 DEF s
<1>4. /\ reduction'.productive = reduction.productive /\ reduction'.reachable = reduction.reachable
  BY DEF Rebuild, ReductionInv, ReductionTypeOK
<1> HIDE DEF kept
<1>5. Retained' = Retained
  BY <1>4 DEF Retained
<1>6. IsRestricted(grammar', given, Retained)
  BY <1>1, <1>2, <1>3 DEF IsRestricted, Keeps
<1> QED BY <1>1, <1>2, <1>4, <1>5, <1>6 DEF Reduced

LEMMA ReducedKeeps ==
  ASSUME ReductionInv, GrammarStands, Reduced, [Next]_vars
  PROVE  Reduced'
<1>1. CASE \E A \in reduction.list : MarkProductive(A) \/ MarkReachable(A)
  <2>1. PICK A \in reduction.list : MarkProductive(A) \/ MarkReachable(A)
    BY <1>1
  <2>2. reduction'.at # "done"
    BY <2>1 DEF MarkProductive, MarkReachable, ReductionInv, ReductionTypeOK
  <2> QED BY <2>2 DEF Reduced
<1>2. CASE EndProductive
  <2>1. grammar = given /\ given' = given /\ reduction.at = "productive"
    BY <1>2 DEF EndProductive, ReductionInv, ReductionTypeOK
  <2>c1. CASE given.start \notin reduction.productive
    <3>1. /\ grammar' = [start |-> given.start, nonterminals |-> {given.start}, rules |-> << >>]
          /\ reduction'.productive = reduction.productive
      BY <1>2, <2>1, <2>c1 DEF EndProductive, ReductionInv, ReductionTypeOK
    <3>2. /\ grammar'.start = given.start /\ grammar'.nonterminals = {given.start}
          /\ grammar'.rules = << >>
      BY <3>1
    <3> QED BY <2>1, <2>c1, <3>1, <3>2 DEF Reduced
  <2>c2. CASE given.start \in reduction.productive
    <3>1. reduction'.at = "reachable"
      BY <1>2, <2>1, <2>c2 DEF EndProductive, ReductionInv, ReductionTypeOK
    <3> QED BY <3>1 DEF Reduced
  <2> QED BY <2>c1, <2>c2
<1>3. CASE Rebuild
  BY <1>3, RebuildReduces
<1>4. CASE UNCHANGED reductionVars
  BY <1>4 DEF Reduced, reductionVars, Retained
<1> QED BY <1>1, <1>2, <1>3, <1>4, StepsOfReduction DEF ReduceStep

\* Every grammar lowered can be read, and its rules are known by their places.
LEMMA GivenIsReadable ==
  ASSUME ReductionInv, NEW regions, AreRegions(regions)
  PROVE  IsReadable(given, regions) /\ given \in Grammars
<1>1. given \in Grammars /\ IsGrammar(given)
  BY GrammarsAssumption DEF ReductionInv, ReductionTypeOK
<1>2. ASSUME NEW r \in ToSet(given.rules)
      PROVE  r.lhs \in given.nonterminals /\ r.rhs \in Seq(Known(given.nonterminals, regions))
  <2> DEFINE B == [lhs : given.nonterminals, rhs : Seq(Symbol)]
  <2>1. PICK i \in 1..Len(given.rules) : r = given.rules[i]
    <3>1. given.rules \in Seq(B)
      BY <1>1 DEF IsGrammar
    <3> HIDE DEF B
    <3> QED BY <3>1 DEF ToSet
  <2>2. r \in B
    <3>1. given.rules \in Seq(B)
      BY <1>1 DEF IsGrammar
    <3> HIDE DEF B
    <3> QED BY <2>1, <3>1
  <2>3. r.lhs \in given.nonterminals /\ r.rhs \in Seq(Symbol)
    BY <2>2
  <2>4. NonterminalsIn(r.rhs) \subseteq given.nonterminals
    BY <1>1, <2>1 DEF IsGrammar
  <2>5. ASSUME NEW k \in 1..Len(r.rhs)
        PROVE  r.rhs[k] \in Known(given.nonterminals, regions)
    <3>1. r.rhs[k] \in ToSet(r.rhs) /\ r.rhs[k] \in Symbol
      <4> HIDE DEF B
      <4> QED BY <2>3 DEF ToSet
    <3>2. r.rhs[k].kind = "nonterminal" \/ (r.rhs[k].kind = "terminal" /\ r.rhs[k].id \in DOMAIN Words)
      BY <1>1, <3>1, GrammarsAssumption
    <3>3. r.rhs[k].kind = "nonterminal" => r.rhs[k].id \in given.nonterminals
      BY <2>4, <3>1 DEF NonterminalsIn
    <3> QED BY <3>1, <3>2, <3>3 DEF Known
  <2> HIDE DEF B
  <2>6. r.rhs \in Seq(Known(given.nonterminals, regions))
    <3> HIDE DEF Known
    <3> QED BY <2>3, <2>5
  <2> QED BY <2>3, <2>6
<1>3. IsFiniteSet(given.nonterminals)
  BY <1>1 DEF IsGrammar
<1> QED BY <1>1, <1>2, <1>3 DEF IsReadable

\* By the place of a rule or by the rule.
LEMMA RulesByPlace ==
  ASSUME NEW g, IsGrammar(g)
  PROVE  /\ \A i \in 1..Len(g.rules) : g.rules[i] \in ToSet(g.rules)
         /\ \A r \in ToSet(g.rules) : \E i \in 1..Len(g.rules) : r = g.rules[i]
<1> DEFINE B == [lhs : g.nonterminals, rhs : Seq(Symbol)]
<1>1. g.rules \in Seq(B)
  BY DEF IsGrammar
<1> HIDE DEF B
<1> QED BY <1>1 DEF ToSet

\* What is left derives what it derived.
LEMMA ReducedDerives ==
  ASSUME ReductionInv, GrammarStands, Reduced, reduction.at = "done",
         NEW regions, AreRegions(regions), NEW n \in Nat,
         NEW L, IsLeastClosed(given, regions, n, L), NEW M, IsLeastClosed(grammar, regions, n, M)
  PROVE  /\ grammar.start = given.start /\ grammar.nonterminals \subseteq given.nonterminals
         /\ IsReadable(grammar, regions)
         /\ \A A \in grammar.nonterminals : M[A] = L[A]
<1>1. IsReadable(given, regions) /\ IsGrammar(given)
  BY GivenIsReadable, GrammarsAssumption
<1>2. ClosedUp(given, reduction.productive)
  <2>1. ProductiveClosed(reduction.productive)
    BY DEF ReductionInv, ProductiveIsClosed
  <2> QED BY <1>1, <2>1, RulesByPlace DEF ClosedUp, ProductiveClosed
<1>3. CASE given.start \in reduction.productive
  <2>1. ReachableClosed(reduction.reachable)
    BY <1>3 DEF ReductionInv, ReachableIsClosed
  <2>2. ClosedDown(given, reduction.reachable)
    BY <1>1, <2>1, RulesByPlace DEF ClosedDown, ReachableClosed
  <2>3. IsRestricted(grammar, given, reduction.productive \cap reduction.reachable)
    BY <1>3 DEF Reduced, Retained
  <2>4. \A A \in grammar.nonterminals : M[A] = L[A]
    BY <1>1, <1>2, <2>2, <2>3, RestrictedDerives
  <2>5. IsReadable(grammar, regions)
    BY <1>1, <2>3, RestrictedIsReadable
  <2> QED BY <2>3, <2>4, <2>5 DEF Reduced, IsRestricted
<1>4. CASE given.start \notin reduction.productive
  <2>1. grammar.start = given.start /\ grammar.nonterminals = {given.start} /\ grammar.rules = << >>
    BY <1>4 DEF Reduced
  <2>2. given.start \in given.nonterminals
    BY <1>1 DEF IsGrammar
  <2>3. L[given.start] = {}
    BY <1>1, <1>2, <1>4, <2>2, UnproductiveDerives
  <2>4. ToSet(grammar.rules) = {}
    BY <2>1 DEF ToSet
  <2>5. M[given.start] = {}
    BY <2>1, <2>4 DEF IsLeastClosed
  <2>6. IsReadable(grammar, regions)
    <3>1. IsFiniteSet({given.start})
      BY FS_Singleton
    <3> QED BY <2>1, <2>4, <3>1 DEF IsReadable
  <2> QED BY <2>1, <2>2, <2>3, <2>5, <2>6
<1> QED BY <1>3, <1>4

\* The languages of the grammar given are the least closed ones, and those of the
\* grammar reduced the same.
LEMMA DerivedResult ==
  ASSUME ReductionInv, GrammarStands, Reduced, reduction.at = "done"
  PROVE  /\ grammar.start = given.start /\ IsReadable(grammar, << >>)
         /\ \A A \in grammar.nonterminals : Derivations(grammar, << >>, MaxLength)[A] = Derived[given][A]
         /\ IsLeastClosed(grammar, << >>, MaxLength, Derivations(grammar, << >>, MaxLength))
<1> DEFINE none == << >>
           n == MaxLength
<1>1. AreRegions(none) /\ n \in Nat
  BY MaxLengthAssumption DEF AreRegions
<1> HIDE DEF none, n
<1>2. IsReadable(given, none) /\ given \in Grammars
  BY <1>1, GivenIsReadable
<1>3. IsLeastClosed(given, none, n, Derivations(given, none, n))
  BY <1>1, <1>2, DerivationsResult
<1>4. IsReadable(grammar, none)
  <2>1. CASE given.start \in reduction.productive
    BY <1>2, <2>1, RestrictedIsReadable DEF Reduced
  <2>2. CASE given.start \notin reduction.productive
    <3>1. grammar.nonterminals = {given.start} /\ ToSet(grammar.rules) = {}
      BY <2>2 DEF Reduced, ToSet
    <3>2. IsFiniteSet({given.start})
      BY FS_Singleton
    <3> QED BY <1>1, <3>1, <3>2 DEF IsReadable
  <2> QED BY <2>1, <2>2
<1>5. IsLeastClosed(grammar, none, n, Derivations(grammar, none, n))
  BY <1>1, <1>4, DerivationsResult
<1>6. grammar.start = given.start /\ \A A \in grammar.nonterminals : Derivations(grammar, none, n)[A] = Derivations(given, none, n)[A]
  BY <1>1, <1>3, <1>5, ReducedDerives
<1>7. Derived[given] = Derivations(given, none, n)
  BY <1>2 DEF Derived, none, n
<1> QED BY <1>4, <1>5, <1>6, <1>7 DEF none, n

LEMMA LanguageKept ==
  ASSUME ReductionInv, GrammarStands, Reduced, SccInv, CertInv
  PROVE  ReductionKeepsLanguage
<1> SUFFICES ASSUME reduction.at = "done", scc.at = "idle"
             PROVE  IsGrammar(grammar) /\ LanguageOf(grammar) = Derived[given][given.start]
  BY DEF ReductionKeepsLanguage
<1>1. cert = NoCert
  BY DEF CertInv
<1>2. RegionWords = << >>
  BY <1>1 DEF RegionWords, NoCert
<1>3. /\ grammar.start = given.start
      /\ \A A \in grammar.nonterminals : Derivations(grammar, << >>, MaxLength)[A] = Derived[given][A]
  BY DerivedResult
<1>4. grammar.start \in grammar.nonterminals /\ IsGrammar(grammar)
  BY DEF GrammarStands, IsGrammar
<1> QED BY <1>2, <1>3, <1>4 DEF LanguageOf

-----------------------------------------------------------------------------
(* Iteration. *)

Widened(S, n) == [L \in Language |-> L \cup Concatenated(L, S, n)]
Iterations(S, n, k) == Repeated(Language, Widened(S, n), {<< >>}, k)

LEMMA IterationsGoOn ==
  ASSUME NEW S \in Language, NEW n \in Nat
  PROVE  /\ Widened(S, n) \in [Language -> Language] /\ {<< >>} \in Language
         /\ \A L \in Language : Widened(S, n)[L] = L \cup Concatenated(L, S, n)
         /\ Iterations(S, n, 0) = {<< >>}
         /\ \A k \in Nat : /\ Iterations(S, n, k) \in Language
                           /\ Iterations(S, n, k + 1) =
                                Iterations(S, n, k) \cup Concatenated(Iterations(S, n, k), S, n)
<1>1. {<< >>} \in Language
  BY DEF Language
<1>2. ASSUME NEW L \in Language
      PROVE  L \cup Concatenated(L, S, n) \in Language
  <2>1. Concatenated(L, S, n) \in Language
    BY ConcatenatedResult
  <2> QED BY <2>1 DEF Language
<1>3. Widened(S, n) \in [Language -> Language]
  BY <1>2 DEF Widened
<1>4. \A L \in Language : Widened(S, n)[L] = L \cup Concatenated(L, S, n)
  BY DEF Widened
<1> HIDE DEF Widened, Language
<1>5. Iterations(S, n, 0) = {<< >>}
  <2>1. 0 \in Nat
    OBVIOUS
  <2> QED BY <1>1, <1>3, <2>1, RepeatedGoesOn DEF Iterations
<1>6. ASSUME NEW k \in Nat
      PROVE  /\ Iterations(S, n, k) \in Language
             /\ Iterations(S, n, k + 1) = Widened(S, n)[Iterations(S, n, k)]
  BY <1>1, <1>3, RepeatedGoesOn DEF Iterations
<1> QED BY <1>1, <1>3, <1>4, <1>5, <1>6

LEMMA IteratedIsIterations ==
  ASSUME NEW S \in Language, NEW n \in Nat
  PROVE  Iterated(S, n) = Iterations(S, n, n)
<1> DEFINE A == Language
           a == {<< >>}
           s == Upward(n)
           F == Repeats(A, Widened(S, n))
           Equation(g) ==
             g = [T \in SUBSET DOMAIN s |->
                    IF T = {} THEN a
                    ELSE LET x == Max(T) IN g[T \ {x}] \cup Concatenated(g[T \ {x}], S, n)]
           iter == CHOOSE g : Equation(g)
           p == Partial(F, a, s)
<1>1. IsStep(F, A, Nat) /\ a \in A /\ \A L \in A, k \in Nat : F[<<L, k>>] = L \cup Concatenated(L, S, n)
  <2>1. Widened(S, n) \in [A -> A] /\ a \in A /\ \A L \in A : Widened(S, n)[L] = L \cup Concatenated(L, S, n)
    BY IterationsGoOn
  <2> HIDE DEF a, A
  <2>2. IsStep(F, A, Nat) /\ \A L \in A, k \in Nat : F[<<L, k>>] = Widened(S, n)[L]
    BY <2>1, RepeatsIsStep
  <2> QED BY <2>1, <2>2
<1>2. s \in Seq(Nat) /\ Len(s) = n /\ DOMAIN s = 1..Len(s)
  BY DEF Upward
<1>3. Iterated(S, n) = iter[DOMAIN s]
  BY Zenon DEF Iterated, Upward, FoldLeft, MapThenFoldSet
<1> HIDE DEF A, F, a, s
<1>4. StepsAs(p, A, Nat, F, a, s)
  BY <1>1, <1>2, PartialSteps, Zenon
<1> HIDE DEF p
<1>5. Equation(p)
  <2>1. ASSUME NEW T \in SUBSET DOMAIN s, T # {}
        PROVE  p[T] = p[T \ {Max(T)}] \cup Concatenated(p[T \ {Max(T)}], S, n)
    <3>1. /\ p[T \ {Max(T)}] \in A /\ s[Max(T)] \in Nat
          /\ p[T] = F[<<p[T \ {Max(T)}], s[Max(T)]>>]
      BY <1>4, <2>1 DEF StepsAs
    <3> QED BY <1>1, <3>1
  <2> QED BY <1>4, <2>1 DEF StepsAs
<1>6. Equation(iter)
  <2> HIDE DEF Equation
  <2> QED BY <1>5
<1> HIDE DEF iter
<1>7. StepAlike(iter, p, Len(s))
  <2>1. {} \in SUBSET DOMAIN s
    OBVIOUS
  <2>2. \A g : Equation(g) => g[{}] = a
    BY <2>1
  <2>3. ASSUME NEW T \in SUBSET DOMAIN s, T # {}, iter[T \ {Max(T)}] = p[T \ {Max(T)}]
        PROVE  iter[T] = p[T]
    <3>1. iter[T] = iter[T \ {Max(T)}] \cup Concatenated(iter[T \ {Max(T)}], S, n)
      BY <1>6, <2>3
    <3>2. p[T] = p[T \ {Max(T)}] \cup Concatenated(p[T \ {Max(T)}], S, n)
      BY <1>5, <2>3
    <3> QED BY <2>3, <3>1, <3>2
  <2>4. iter[{}] = p[{}]
    <3> HIDE DEF Equation
    <3> QED BY <1>5, <1>6, <2>2
  <2> HIDE DEF Equation
  <2> QED BY <1>2, <2>3, <2>4 DEF StepAlike
<1>8. FoldsTo(iter, F, a, s)
  BY <1>1, <1>2, <1>7, FoldsAlike, Zenon DEF p
<1>9. Iterated(S, n) = Folded(F, a, s)
  BY <1>2, <1>3, <1>8, Zenon DEF FoldsTo
<1> QED BY <1>9 DEF F, a, s, A, Iterations, Repeated

\* The least language that has the empty string and goes on with S.
Iterates(I, S, n) ==
  /\ I \in Language /\ << >> \in I
  /\ Concatenated(I, S, n) \subseteq I
  /\ \A w \in I : Len(w) <= n
  /\ \A Q \in Language : << >> \in Q /\ Concatenated(Q, S, n) \subseteq Q => I \subseteq Q

LEMMA IteratedResult ==
  ASSUME NEW S \in Language, NEW n \in Nat
  PROVE  Iterates(Iterated(S, n), S, n)
<1> DEFINE L(k) == Iterations(S, n, k)
<1>1. /\ L(0) = {<< >>}
      /\ \A k \in Nat : L(k) \in Language /\ L(k + 1) = L(k) \cup Concatenated(L(k), S, n)
  BY IterationsGoOn
<1> HIDE DEF L
<1>2. ASSUME NEW k \in Nat
      PROVE  \A w : w \in L(k + 1) <=>
                w \in L(k) \/ \E u \in L(k), v \in S : w = u \o v /\ Len(u) + Len(v) <= n
  <2>1. IsConcatenation(Concatenated(L(k), S, n), L(k), S, n)
    BY <1>1, ConcatenatedResult
  <2> QED BY <1>1, <2>1 DEF IsConcatenation
<1>3. ASSUME NEW k \in Nat
      PROVE  L(k) \subseteq L(k + 1) /\ \A w \in L(k) : w \in Seq(Byte) /\ Len(w) \in Nat
  BY <1>1 DEF Language
<1> DEFINE T == {k \in Nat : /\ << >> \in L(k) /\ \A w \in L(k) : Len(w) <= n
                             /\ \A w \in L(k + 1) : Len(w) <= k => w \in L(k)}
<1>4. 0 \in T
  <2>1. << >> \in L(0) /\ \A w \in L(0) : Len(w) <= n
    BY <1>1
  <2>2. ASSUME NEW w \in L(0 + 1), Len(w) <= 0
        PROVE  w \in L(0)
    <3>1. w \in Seq(Byte)
      BY <1>3
    <3>2. w = << >>
      BY <2>2, <3>1
    <3> QED BY <2>1, <3>2
  <2> QED BY <2>1, <2>2
<1>5. ASSUME NEW k \in 0..n - 1, k \in T
      PROVE  k + 1 \in T
  <2>1. k \in Nat /\ k + 1 \in Nat
    OBVIOUS
  <2>2. /\ << >> \in L(k) /\ \A w \in L(k) : Len(w) <= n
        /\ \A w \in L(k + 1) : Len(w) <= k => w \in L(k)
    BY <1>5
  <2>3. ASSUME NEW w \in L(k + 1)
        PROVE  Len(w) <= n
    <3>1. CASE w \in L(k)
      BY <2>2, <3>1
    <3>2. CASE w \notin L(k)
      <4>1. PICK u \in L(k), v \in S : w = u \o v /\ Len(u) + Len(v) <= n
        BY <1>2, <2>1, <3>2
      <4>2. u \in Seq(Byte) /\ v \in Seq(Byte)
        BY <1>3, <2>1 DEF Language
      <4> QED BY <4>1, <4>2
    <3> QED BY <3>1, <3>2
  <2>4. ASSUME NEW w \in L((k + 1) + 1), Len(w) <= k + 1
        PROVE  w \in L(k + 1)
    <3>1. CASE w \in L(k + 1)
      BY <3>1
    <3>2. CASE w \notin L(k + 1)
      <4>1. PICK u \in L(k + 1), v \in S : w = u \o v /\ Len(u) + Len(v) <= n
        BY <1>2, <2>1, <3>2
      <4>2. u \in Seq(Byte) /\ v \in Seq(Byte)
        BY <1>3, <2>1 DEF Language
      <4>3. Len(w) = Len(u) + Len(v) /\ Len(u) \in Nat /\ Len(v) \in Nat
        BY <4>1, <4>2
      <4>4. CASE Len(v) = 0
        <5>1. v = << >> /\ u \o << >> = u
          BY <4>2, <4>4
        <5> QED BY <3>2, <4>1, <5>1
      <4>5. CASE Len(v) # 0
        <5>1. Len(u) <= k
          BY <2>1, <2>4, <4>3, <4>5
        <5>2. u \in L(k)
          BY <2>2, <5>1
        <5> QED BY <1>2, <2>1, <4>1, <5>2
      <4> QED BY <4>4, <4>5
    <3> QED BY <3>1, <3>2
  <2>5. << >> \in L(k + 1)
    BY <1>3, <2>1, <2>2
  <2> QED BY <2>1, <2>3, <2>4, <2>5
<1>6. \A k \in 0..n : k \in T
  <2> HIDE DEF T
  <2> QED BY <1>4, <1>5, UpTo
<1>7. n \in T
  <2>1. n \in 0..n
    OBVIOUS
  <2> HIDE DEF T
  <2> QED BY <1>6, <2>1
<1>8. Concatenated(L(n), S, n) \subseteq L(n)
  <2>1. Concatenated(L(n), S, n) \subseteq L(n + 1)
    BY <1>1
  <2>2. \A w \in Concatenated(L(n), S, n) : Len(w) <= n
    BY <1>1, ConcatenatedResult
  <2> QED BY <1>7, <2>1, <2>2
<1>9. ASSUME NEW Q \in Language, << >> \in Q, Concatenated(Q, S, n) \subseteq Q
      PROVE  L(n) \subseteq Q
  <2> DEFINE U == {k \in Nat : L(k) \subseteq Q}
  <2>1. 0 \in U
    BY <1>1, <1>9
  <2>2. ASSUME NEW k \in 0..n - 1, k \in U
        PROVE  k + 1 \in U
    <3>1. k \in Nat /\ k + 1 \in Nat /\ L(k) \subseteq Q
      BY <2>2
    <3>2. S \subseteq S
      OBVIOUS
    <3>3. Concatenated(L(k), S, n) \subseteq Concatenated(Q, S, n)
      BY <1>1, <3>1, <3>2, ConcatenatedGrows
    <3> QED BY <1>1, <1>9, <3>1, <3>3
  <2>3. \A k \in 0..n : k \in U
    <3> HIDE DEF U
    <3> QED BY <2>1, <2>2, UpTo
  <2>4. n \in 0..n
    OBVIOUS
  <2> QED BY <2>3, <2>4
<1>10. Iterated(S, n) = L(n)
  BY IteratedIsIterations DEF L
<1> HIDE DEF T
<1>11. << >> \in L(n) /\ \A w \in L(n) : Len(w) <= n
  BY <1>7 DEF T
<1> QED BY <1>1, <1>8, <1>9, <1>10, <1>11 DEF Iterates

-----------------------------------------------------------------------------
(* The algebra of what is cut to MaxLength. *)

S \odot T == Concatenated(S, T, MaxLength)

Short == {S \in Language : \A w \in S : Len(w) <= MaxLength}

LEMMA Types ==
  /\ Short \subseteq Language /\ {} \in Short /\ {<< >>} \in Short
  /\ \A S \in Language, T \in Language : S \odot T \in Short /\ S \odot T \in Language
<1>1. {} \in Short /\ {<< >>} \in Short
  <2>1. Len(<< >>) = 0 /\ << >> \in Seq(Byte)
    OBVIOUS
  <2> QED BY <2>1, MaxLengthAssumption DEF Short, Language
<1>2. ASSUME NEW S \in Language, NEW T \in Language
      PROVE  S \odot T \in Short
  BY MaxLengthAssumption, ConcatenatedResult DEF Short, \odot
<1> QED BY <1>1, <1>2 DEF Short

LEMMA Associative ==
  ASSUME NEW S \in Language, NEW T \in Language, NEW U \in Language
  PROVE  (S \odot T) \odot U = S \odot (T \odot U)
BY MaxLengthAssumption, ConcatenatedAssociates DEF \odot

LEMMA Monotonic ==
  ASSUME NEW S \in Language, NEW T \in Language, NEW U \in Language, NEW V \in Language,
         S \subseteq U, T \subseteq V
  PROVE  S \odot T \subseteq U \odot V
BY MaxLengthAssumption, ConcatenatedGrows DEF \odot

LEMMA Distributive ==
  ASSUME NEW S \in Language, NEW T \in Language, NEW U \in Language, NEW V, V = S \cup T
  PROVE  /\ V \odot U = (S \odot U) \cup (T \odot U)
         /\ U \odot V = (U \odot S) \cup (U \odot T)
<1>1. V \in Language /\ \A x : x \in V <=> x \in S \/ x \in T
  BY DEF Language
<1>2. /\ IsConcatenation(V \odot U, V, U, MaxLength) /\ IsConcatenation(U \odot V, U, V, MaxLength)
      /\ IsConcatenation(S \odot U, S, U, MaxLength) /\ IsConcatenation(U \odot S, U, S, MaxLength)
      /\ IsConcatenation(T \odot U, T, U, MaxLength) /\ IsConcatenation(U \odot T, U, T, MaxLength)
  BY <1>1, MaxLengthAssumption, ConcatenatedResult DEF \odot
<1>3. ASSUME NEW w
      PROVE  w \in V \odot U <=> w \in (S \odot U) \cup (T \odot U)
  <2>1. /\ w \in V \odot U <=> \E u \in V, v \in U : w = u \o v /\ Len(u) + Len(v) <= MaxLength
        /\ w \in S \odot U <=> \E u \in S, v \in U : w = u \o v /\ Len(u) + Len(v) <= MaxLength
        /\ w \in T \odot U <=> \E u \in T, v \in U : w = u \o v /\ Len(u) + Len(v) <= MaxLength
    BY <1>2, Zenon DEF IsConcatenation
  <2>2. \A x : x \in V <=> x \in S \/ x \in T
    BY <1>1
  <2> QED BY <2>1, <2>2, Zenon
<1>4. ASSUME NEW w
      PROVE  w \in U \odot V <=> w \in (U \odot S) \cup (U \odot T)
  <2>1. w \in U \odot V <=> \E u \in U, v \in V : w = u \o v /\ Len(u) + Len(v) <= MaxLength
    BY <1>2, Zenon DEF IsConcatenation
  <2>2. w \in U \odot S <=> \E u \in U, v \in S : w = u \o v /\ Len(u) + Len(v) <= MaxLength
    BY <1>2, Zenon DEF IsConcatenation
  <2>3. w \in U \odot T <=> \E u \in U, v \in T : w = u \o v /\ Len(u) + Len(v) <= MaxLength
    BY <1>2, Zenon DEF IsConcatenation
  <2> QED BY <1>1, <2>1, <2>2, <2>3, Zenon
<1> QED BY <1>3, <1>4

LEMMA Unit ==
  ASSUME NEW S \in Short
  PROVE  {<< >>} \odot S = S /\ S \odot {<< >>} = S
<1>1. S \in Language /\ Cut(S, MaxLength) = S
  BY DEF Short, Cut
<1> QED BY <1>1, MaxLengthAssumption, ConcatenatedUnit DEF \odot

LEMMA Absorbs ==
  ASSUME NEW S \in Language
  PROVE  {} \odot S = {} /\ S \odot {} = {}
BY DEF Concatenated, \odot

\* Any number of strings of S, one after the other.
Repetition(S) == Iterated(S, MaxLength)

LEMMA RepetitionResult ==
  ASSUME NEW S \in Short
  PROVE  /\ Repetition(S) \in Short
         /\ << >> \in Repetition(S) /\ S \subseteq Repetition(S)
         /\ Repetition(S) \odot S \subseteq Repetition(S)
         /\ \A Q \in Language : << >> \in Q /\ Q \odot S \subseteq Q => Repetition(S) \subseteq Q
<1> DEFINE I == Repetition(S)
<1>1. S \in Language
  BY DEF Short
<1>2. Iterates(I, S, MaxLength)
  BY <1>1, MaxLengthAssumption, IteratedResult DEF Repetition
<1> HIDE DEF I
<1>3. /\ I \in Short /\ << >> \in I /\ I \odot S \subseteq I
      /\ \A Q \in Language : << >> \in Q /\ Q \odot S \subseteq Q => I \subseteq Q
  BY <1>2 DEF Iterates, Short, \odot
<1>4. S \subseteq I
  <2>1. {<< >>} \odot S = S
    BY Unit
  <2>2. {<< >>} \odot S \subseteq I \odot S
    <3>1. {<< >>} \subseteq I /\ S \subseteq S
      BY <1>3
    <3> QED BY <1>1, <1>3, <3>1, Types, Monotonic
  <2> QED BY <1>3, <2>1, <2>2
<1> QED BY <1>3, <1>4 DEF I

\* Repeated twice is repeated.
LEMMA RepetitionTwice ==
  ASSUME NEW S \in Short
  PROVE  Repetition(S) \odot Repetition(S) \subseteq Repetition(S)
<1> DEFINE I == Repetition(S)
           Q == {w \in Seq(Byte) : \A u \in I : Len(u) + Len(w) <= MaxLength => u \o w \in I}
<1>1. /\ I \in Short /\ << >> \in I /\ I \odot S \subseteq I
      /\ \A R \in Language : << >> \in R /\ R \odot S \subseteq R => I \subseteq R
  BY RepetitionResult
<1> HIDE DEF I
<1>2. I \in Language /\ S \in Language /\ Q \in Language
  BY <1>1 DEF Short, Language
<1>3. /\ IsConcatenation(I \odot S, I, S, MaxLength) /\ IsConcatenation(I \odot I, I, I, MaxLength)
      /\ IsConcatenation(Q \odot S, Q, S, MaxLength)
  <2> HIDE DEF Q
  <2> QED BY <1>2, MaxLengthAssumption, ConcatenatedResult DEF \odot
<1>4. << >> \in Q
  <2>1. \A u \in I : u \in Seq(Byte) /\ u \o << >> = u
    BY <1>2 DEF Language
  <2> QED BY <2>1
<1>5. ASSUME NEW w \in Q \odot S
      PROVE  w \in Q
  <2>1. PICK q \in Q, v \in S : w = q \o v /\ Len(q) + Len(v) <= MaxLength
    BY <1>3, Zenon DEF IsConcatenation
  <2>2. q \in Seq(Byte) /\ v \in Seq(Byte) /\ w \in Seq(Byte)
    <3>1. q \in Seq(Byte) /\ v \in Seq(Byte)
      BY <1>2 DEF Language
    <3> QED BY <2>1, <3>1
  <2>3. ASSUME NEW u \in I, Len(u) + Len(w) <= MaxLength
        PROVE  u \o w \in I
    <3>1. u \in Seq(Byte)
      BY <1>2 DEF Language
    <3>2. /\ u \o w = (u \o q) \o v
          /\ Len(w) = Len(q) + Len(v) /\ Len(u \o q) = Len(u) + Len(q)
          /\ Len(u) \in Nat /\ Len(q) \in Nat /\ Len(v) \in Nat
      BY <2>1, <2>2, <3>1
    <3>3. Len(u) + Len(q) <= MaxLength /\ Len(u \o q) + Len(v) <= MaxLength
      BY <2>3, <3>2, MaxLengthAssumption
    <3>4. u \o q \in I
      BY <3>3
    <3>5. u \o w \in I \odot S
      <4> HIDE DEF Q
      <4> QED BY <1>3, <3>2, <3>3, <3>4, Zenon DEF IsConcatenation
    <3> QED BY <1>1, <3>5
  <2> QED BY <2>2, <2>3
<1>6. I \subseteq Q
  <2> HIDE DEF Q
  <2> QED BY <1>1, <1>2, <1>4, <1>5
<1>7. ASSUME NEW w \in I \odot I
      PROVE  w \in I
  <2>1. PICK u \in I, v \in I : w = u \o v /\ Len(u) + Len(v) <= MaxLength
    BY <1>3, Zenon DEF IsConcatenation
  <2> QED BY <1>6, <2>1
<1> QED BY <1>7 DEF I

\* What S does not lead out of, S repeated does not lead out of.
LEMMA RepetitionStays ==
  ASSUME NEW S \in Short, NEW X \in Language, S \odot X \subseteq X
  PROVE  Repetition(S) \odot X \subseteq X
<1> DEFINE I == Repetition(S)
           Q == {w \in Seq(Byte) : \A x \in X : Len(w) + Len(x) <= MaxLength => w \o x \in X}
<1>1. I \in Short /\ \A R \in Language : << >> \in R /\ R \odot S \subseteq R => I \subseteq R
  BY RepetitionResult
<1> HIDE DEF I
<1>2. I \in Language /\ S \in Language /\ Q \in Language
  BY <1>1 DEF Short, Language
<1>3. /\ IsConcatenation(S \odot X, S, X, MaxLength) /\ IsConcatenation(I \odot X, I, X, MaxLength)
      /\ IsConcatenation(Q \odot S, Q, S, MaxLength)
  <2> HIDE DEF Q
  <2> QED BY <1>2, MaxLengthAssumption, ConcatenatedResult DEF \odot
<1>4. << >> \in Q
  <2>1. \A x \in X : x \in Seq(Byte) /\ << >> \o x = x
    BY DEF Language
  <2> QED BY <2>1
<1>5. ASSUME NEW w \in Q \odot S
      PROVE  w \in Q
  <2>1. PICK q \in Q, v \in S : w = q \o v /\ Len(q) + Len(v) <= MaxLength
    BY <1>3, Zenon DEF IsConcatenation
  <2>2. q \in Seq(Byte) /\ v \in Seq(Byte) /\ w \in Seq(Byte)
    <3>1. q \in Seq(Byte) /\ v \in Seq(Byte)
      BY <1>2 DEF Language
    <3> QED BY <2>1, <3>1
  <2>3. ASSUME NEW x \in X, Len(w) + Len(x) <= MaxLength
        PROVE  w \o x \in X
    <3>1. x \in Seq(Byte)
      BY DEF Language
    <3>2. /\ w \o x = q \o (v \o x)
          /\ Len(w) = Len(q) + Len(v) /\ Len(v \o x) = Len(v) + Len(x)
          /\ Len(x) \in Nat /\ Len(q) \in Nat /\ Len(v) \in Nat
      BY <2>1, <2>2, <3>1
    <3>3. Len(v) + Len(x) <= MaxLength /\ Len(q) + Len(v \o x) <= MaxLength
      BY <2>3, <3>2, MaxLengthAssumption
    <3>4. v \o x \in S \odot X
      <4> HIDE DEF Q
      <4> QED BY <1>3, <3>3, Zenon DEF IsConcatenation
    <3>5. v \o x \in X
      BY <3>4
    <3> QED BY <3>2, <3>3, <3>5
  <2> QED BY <2>2, <2>3
<1>6. I \subseteq Q
  <2> HIDE DEF Q
  <2> QED BY <1>1, <1>2, <1>4, <1>5
<1>7. ASSUME NEW w \in I \odot X
      PROVE  w \in X
  <2>1. PICK u \in I, x \in X : w = u \o x /\ Len(u) + Len(x) <= MaxLength
    BY <1>3, Zenon DEF IsConcatenation
  <2> QED BY <1>6, <2>1
<1> QED BY <1>7 DEF I

-----------------------------------------------------------------------------
(* Expressions, and the elimination of the members of a component. *)

Expression == [words : Short, reversible : BOOLEAN]

LEMMA ExpressionTypes ==
  /\ EmptyExpression \in Expression /\ Epsilon \in Expression
  /\ \A e \in Expression, f \in Expression :
       /\ Concat(e, f) \in Expression /\ Concat(e, f).words = e.words \odot f.words
       /\ Union(e, f) \in Expression /\ Union(e, f).words = e.words \cup f.words
       /\ Star(e) \in Expression /\ Star(e).words = Repetition(e.words)
<1>1. EmptyExpression \in Expression /\ Epsilon \in Expression
  BY Types DEF Expression, EmptyExpression, Epsilon
<1>2. ASSUME NEW e \in Expression, NEW f \in Expression
      PROVE  /\ Concat(e, f) \in Expression /\ Concat(e, f).words = e.words \odot f.words
             /\ Union(e, f) \in Expression /\ Union(e, f).words = e.words \cup f.words
             /\ Star(e) \in Expression /\ Star(e).words = Repetition(e.words)
  <2> DEFINE S == e.words
             T == f.words
  <2>1. /\ S \in Short /\ T \in Short /\ S \in Language /\ T \in Language
        /\ e.reversible \in BOOLEAN /\ f.reversible \in BOOLEAN
    BY Types DEF Expression
  <2> HIDE DEF S, T
  <2>2. S \odot T \in Short /\ Repetition(S) \in Short /\ S \cup T \in Short
    <3>1. S \cup T \in Short
      BY <2>1 DEF Short, Language
    <3> QED BY <2>1, <3>1, Types, RepetitionResult
  <2>3. Concat(e, f) \in Expression /\ Concat(e, f).words = S \odot T
    <3>1. CASE S = {} \/ T = {}
      <4>1. S \odot T = {}
        BY <2>1, <3>1, Absorbs
      <4>2. Concat(e, f) = EmptyExpression
        BY <3>1 DEF Concat, S, T
      <4> QED BY <1>1, <4>1, <4>2 DEF EmptyExpression
    <3>2. CASE ~(S = {} \/ T = {})
      <4>1. Concat(e, f) = [words |-> S \odot T, reversible |-> e.reversible /\ f.reversible]
        BY <3>2 DEF Concat, S, T, \odot
      <4> QED BY <2>1, <2>2, <4>1 DEF Expression
    <3> QED BY <3>1, <3>2
  <2>4. Union(e, f) \in Expression /\ Union(e, f).words = S \cup T
    <3>1. Union(e, f) = [words |-> S \cup T, reversible |-> e.reversible /\ f.reversible]
      BY DEF Union, S, T
    <3> QED BY <2>1, <2>2, <3>1 DEF Expression
  <2>5. Star(e) \in Expression /\ Star(e).words = Repetition(S)
    <3>1. Star(e) = [words |-> Repetition(S), reversible |-> e.reversible]
      BY DEF Star, S, Repetition
    <3> QED BY <2>1, <2>2, <3>1 DEF Expression
  <2> QED BY <2>3, <2>4, <2>5 DEF S, T
<1> QED BY <1>1, <1>2

States(C) == C \cup {Final}
Edges(C) == [States(C) \X States(C) -> Expression]
Label(edges, x, y) == edges[<<x, y>>].words

\* The path through the member eliminated, any number of times.
Past(edges, p, x, y) ==
  (Label(edges, x, p) \odot Repetition(Label(edges, p, p))) \odot Label(edges, p, y)

LEMMA EliminatedResult ==
  ASSUME NEW C, NEW edges \in Edges(C), NEW p \in C
  PROVE  /\ Eliminated(edges, p) \in Edges(C)
         /\ \A x \in States(C), y \in States(C) :
              /\ Label(edges, x, y) \in Short
              /\ Label(Eliminated(edges, p), x, y) = Label(edges, x, y) \cup Past(edges, p, x, y)
<1> DEFINE S == States(C)
           P == S \X S
           new == [e \in P |-> Union(edges[e], Concat(Concat(edges[<<e[1], p>>], Star(edges[<<p, p>>])),
                                                      edges[<<p, e[2]>>]))]
<1>1. p \in S /\ edges \in [P -> Expression] /\ DOMAIN edges = P
  BY DEF States, Edges
<1>2. Eliminated(edges, p) = new
  BY <1>1 DEF Eliminated
<1>3. ASSUME NEW x \in S, NEW y \in S
      PROVE  /\ new[<<x, y>>] \in Expression
             /\ Label(edges, x, y) \in Short
             /\ new[<<x, y>>].words = Label(edges, x, y) \cup Past(edges, p, x, y)
  <2> DEFINE a == edges[<<x, y>>]
             b == edges[<<x, p>>]
             c == edges[<<p, p>>]
             d == edges[<<p, y>>]
  <2>1. a \in Expression /\ b \in Expression /\ c \in Expression /\ d \in Expression
    <3> HIDE DEF S
    <3> QED BY <1>1
  <2>2. new[<<x, y>>] = Union(a, Concat(Concat(b, Star(c)), d))
    OBVIOUS
  <2> HIDE DEF a, b, c, d, new
  <2>3. Star(c) \in Expression /\ Star(c).words = Repetition(c.words)
    BY <2>1, ExpressionTypes
  <2>4. Concat(b, Star(c)) \in Expression /\ Concat(b, Star(c)).words = b.words \odot Repetition(c.words)
    BY <2>1, <2>3, ExpressionTypes
  <2>5. /\ Concat(Concat(b, Star(c)), d) \in Expression
        /\ Concat(Concat(b, Star(c)), d).words = (b.words \odot Repetition(c.words)) \odot d.words
    BY <2>1, <2>4, ExpressionTypes
  <2>6. /\ new[<<x, y>>] \in Expression
        /\ new[<<x, y>>].words = a.words \cup ((b.words \odot Repetition(c.words)) \odot d.words)
    <3> DEFINE t == Concat(Concat(b, Star(c)), d)
    <3>1. t \in Expression /\ t.words = (b.words \odot Repetition(c.words)) \odot d.words /\ new[<<x, y>>] = Union(a, t)
      BY <2>2, <2>5
    <3> HIDE DEF t
    <3>2. Union(a, t) \in Expression /\ Union(a, t).words = a.words \cup t.words
      BY <2>1, <3>1, ExpressionTypes
    <3> QED BY <3>1, <3>2
  <2>7. a.words \in Short
    BY <2>1 DEF Expression
  <2> QED BY <2>6, <2>7 DEF a, b, c, d, Label, Past
<1>4. new \in [P -> Expression]
  <2>1. \A e \in P : new[e] \in Expression
    <3> SUFFICES ASSUME NEW e \in P
                 PROVE  new[e] \in Expression
      OBVIOUS
    <3>1. PICK x \in S, y \in S : e = <<x, y>>
      OBVIOUS
    <3> QED BY <1>3, <3>1
  <2>2. new = [e \in P |-> new[e]]
    OBVIOUS
  <2> HIDE DEF new, P
  <2> QED BY <2>1, <2>2
<1> HIDE DEF new
<1>5. new \in Edges(C)
  BY <1>4 DEF Edges
<1> QED BY <1>2, <1>3, <1>5 DEF Label

\* No path gains from going through a member of T.
Bypasses(edges, C, T) ==
  \A p \in T : \A x \in States(C), y \in States(C) :
    Label(edges, x, p) \odot Label(edges, p, y) \subseteq Label(edges, x, y)

\* No edge leads out of the languages X.
IsSound(edges, C, X) ==
  \A x \in States(C), y \in States(C) : Label(edges, x, y) \odot X[y] \subseteq X[x]

HasMore(new, edges, C) ==
  \A x \in States(C), y \in States(C) : Label(edges, x, y) \subseteq Label(new, x, y)

LEMMA EliminatedIsSound ==
  ASSUME NEW C, NEW edges \in Edges(C), NEW p \in C,
         NEW X \in [States(C) -> Language], IsSound(edges, C, X)
  PROVE  IsSound(Eliminated(edges, p), C, X) /\ HasMore(Eliminated(edges, p), edges, C)
<1> DEFINE S == States(C)
           E(x, y) == Label(edges, x, y)
           N(x, y) == Label(Eliminated(edges, p), x, y)
           I == Repetition(E(p, p))
<1>1. p \in S /\ \A x \in S : X[x] \in Language
  BY DEF States
<1>2. \A x \in S, y \in S : E(x, y) \in Short /\ N(x, y) = E(x, y) \cup ((E(x, p) \odot I) \odot E(p, y))
  BY EliminatedResult DEF Past
<1>3. \A x \in S, y \in S : E(x, y) \odot X[y] \subseteq X[x]
  BY DEF IsSound
<1> HIDE DEF S, E, N
<1>4. I \in Short /\ Short \subseteq Language /\ E(p, p) \in Short
  BY <1>1, <1>2, RepetitionResult, Types
<1>5. I \odot X[p] \subseteq X[p]
  BY <1>1, <1>2, <1>3, <1>4, RepetitionStays
<1> HIDE DEF I
<1>6. ASSUME NEW x \in S, NEW y \in S
      PROVE  N(x, y) \odot X[y] \subseteq X[x]
  <2> DEFINE a == E(x, p)
             b == E(p, y)
             Y == X[y]
             P == X[p]
  <2>1. a \in Language /\ b \in Language /\ E(x, y) \in Language /\ I \in Language /\ Y \in Language /\ P \in Language
    BY <1>1, <1>2, <1>4
  <2>2. b \odot Y \subseteq P /\ a \odot P \subseteq X[x] /\ E(x, y) \odot Y \subseteq X[x] /\ I \odot P \subseteq P
    BY <1>1, <1>3, <1>5
  <2>3. N(x, y) = E(x, y) \cup ((a \odot I) \odot b)
    BY <1>2
  <2> HIDE DEF a, b, Y, P
  <2>4. a \odot I \in Language /\ (a \odot I) \odot b \in Language /\ b \odot Y \in Language /\ I \odot P \in Language
    BY <2>1, Types
  <2>5. N(x, y) \odot Y = (E(x, y) \odot Y) \cup (((a \odot I) \odot b) \odot Y)
    BY <2>1, <2>3, <2>4, Distributive
  <2>6. ((a \odot I) \odot b) \odot Y = (a \odot I) \odot (b \odot Y)
    BY <2>1, <2>4, Associative
  <2>7. (a \odot I) \odot (b \odot Y) \subseteq (a \odot I) \odot P
    BY <2>1, <2>2, <2>4, Monotonic
  <2>8. (a \odot I) \odot P = a \odot (I \odot P)
    BY <2>1, Associative
  <2>9. a \odot (I \odot P) \subseteq a \odot P
    BY <2>1, <2>2, <2>4, Monotonic
  <2>10. N(x, y) \odot Y \subseteq X[x]
    BY <2>2, <2>5, <2>6, <2>7, <2>8, <2>9
  <2> QED BY <2>10 DEF Y
<1>7. \A x \in S, y \in S : E(x, y) \subseteq N(x, y)
  BY <1>2
<1> QED BY <1>6, <1>7 DEF S, E, N, IsSound, HasMore

LEMMA EliminatedBypasses ==
  ASSUME NEW C, NEW edges \in Edges(C), NEW p \in C, NEW T \in SUBSET C, Bypasses(edges, C, T)
  PROVE  Bypasses(Eliminated(edges, p), C, T \cup {p})
<1> DEFINE S == States(C)
           E(x, y) == Label(edges, x, y)
           N(x, y) == Label(Eliminated(edges, p), x, y)
           I == Repetition(E(p, p))
           G(x) == E(x, p) \odot I
<1>1. p \in S /\ T \subseteq S
  BY DEF States
<1>2. \A x \in S, y \in S : E(x, y) \in Short /\ N(x, y) = E(x, y) \cup (G(x) \odot E(p, y))
  BY EliminatedResult DEF Past
<1>3. \A q \in T : \A x \in S, y \in S : E(x, q) \odot E(q, y) \subseteq E(x, y)
  BY DEF Bypasses
<1> HIDE DEF S, E, N
<1>4. E(p, p) \in Short /\ Short \subseteq Language
  BY <1>1, <1>2, Types
<1>5. I \in Short /\ << >> \in I /\ E(p, p) \subseteq I /\ I \odot E(p, p) \subseteq I /\ I \odot I \subseteq I
  BY <1>4, RepetitionResult, RepetitionTwice
<1> HIDE DEF I
<1>6. \A x \in S : G(x) \in Language
  BY <1>1, <1>2, <1>4, <1>5, Types
<1>7. ASSUME NEW x \in S
      PROVE  G(x) \odot I \subseteq G(x) /\ E(x, p) \subseteq G(x)
  <2> DEFINE a == E(x, p)
  <2>1. a \in Short /\ a \in Language /\ I \in Language
    BY <1>1, <1>2, <1>4, <1>5
  <2> HIDE DEF a
  <2>2. (a \odot I) \odot I = a \odot (I \odot I) /\ I \odot I \in Language
    BY <2>1, Associative, Types
  <2>3. a \odot (I \odot I) \subseteq a \odot I
    BY <1>5, <2>1, <2>2, Monotonic
  <2>4. a \odot {<< >>} \subseteq a \odot I /\ a \odot {<< >>} = a
    <3>1. {<< >>} \subseteq I /\ {<< >>} \in Language
      BY <1>5, Types
    <3> QED BY <2>1, <3>1, Monotonic, Unit
  <2> QED BY <2>2, <2>3, <2>4 DEF a
<1> HIDE DEF G
<1>8. ASSUME NEW q \in T, NEW x \in S, NEW y \in S
      PROVE  N(x, q) \odot N(q, y) \subseteq N(x, y)
  <2> DEFINE b == E(p, y)
             c == E(x, q)
             d == E(q, y)
             e == E(p, q)
             f == E(q, p)
             A == G(x)
             B == G(q)
             U == A \odot e
             V == B \odot b
             W == A \odot b
  <2>1. /\ b \in Language /\ c \in Language /\ d \in Language /\ e \in Language /\ f \in Language
        /\ A \in Language /\ B \in Language /\ I \in Language /\ E(x, p) \in Language /\ E(p, p) \in Language
    BY <1>1, <1>2, <1>4, <1>5, <1>6
  <2>2. /\ N(x, q) = c \cup U /\ N(q, y) = d \cup V /\ N(x, y) = E(x, y) \cup W
    BY <1>1, <1>2
  <2>3. /\ c \odot d \subseteq E(x, y) /\ c \odot f \subseteq E(x, p) /\ e \odot d \subseteq b /\ e \odot f \subseteq E(p, p)
    BY <1>1, <1>3
  <2>4. B = f \odot I /\ A = E(x, p) \odot I /\ A \odot I \subseteq A
    BY <1>1, <1>7 DEF G
  <2> HIDE DEF b, c, d, e, f, A, B
  <2>5. /\ U \in Language /\ V \in Language /\ W \in Language /\ c \odot f \in Language
        /\ e \odot d \in Language /\ e \odot f \in Language /\ A \odot I \in Language /\ f \odot I \in Language
    BY <2>1, Types
  <2>6. c \odot V \subseteq W
    <3>1. c \odot V = (c \odot B) \odot b /\ c \odot B \in Language
      BY <2>1, Associative, Types
    <3>2. c \odot B = (c \odot f) \odot I
      BY <2>1, <2>4, Associative
    <3>3. (c \odot f) \odot I \subseteq A
      BY <2>1, <2>3, <2>4, <2>5, Monotonic
    <3> QED BY <2>1, <3>1, <3>2, <3>3, Monotonic
  <2>7. U \odot d \subseteq W
    <3>1. U \odot d = A \odot (e \odot d)
      BY <2>1, Associative
    <3>2. A \in Language /\ e \odot d \in Language /\ b \in Language /\ e \odot d \subseteq b
      BY <2>1, <2>3, <2>5
    <3>3. A \odot (e \odot d) \subseteq A \odot b
      BY <3>2, Monotonic
    <3> QED BY <3>1, <3>3
  <2>8. U \odot V \subseteq W
    <3>1. U \odot V = (U \odot B) \odot b /\ U \odot B \in Language
      <4> HIDE DEF U
      <4>1. (U \odot B) \odot b = U \odot (B \odot b)
        BY <2>1, <2>5, Associative
      <4>2. U \odot B \in Language
        BY <2>1, <2>5, Types
      <4> QED BY <4>1, <4>2
    <3>2. U \odot B = A \odot (e \odot B)
      BY <2>1, Associative
    <3>3. e \odot B = (e \odot f) \odot I /\ e \odot B \in Language
      BY <2>1, <2>4, Associative, Types
    <3>4. (e \odot f) \odot I \subseteq I
      <4>1. (e \odot f) \odot I \subseteq I \odot I
        <5>1. e \odot f \subseteq I
          BY <1>5, <2>3
        <5> QED BY <2>1, <2>5, <5>1, Monotonic
      <4> QED BY <1>5, <4>1
    <3>5. A \odot (e \odot B) \subseteq A \odot I
      BY <2>1, <3>3, <3>4, Monotonic
    <3>6. U \odot B \subseteq A
      BY <2>4, <3>2, <3>5
    <3> QED BY <2>1, <3>1, <3>6, Monotonic
  <2> HIDE DEF U, V, W
  <2>9. (c \cup U) \odot (d \cup V) = ((c \odot d) \cup (U \odot d)) \cup ((c \odot V) \cup (U \odot V))
    <3> DEFINE Y == c \cup U
               Z == d \cup V
    <3>1. Y \in Language /\ Y = c \cup U /\ Z = d \cup V
      BY <2>1, <2>5 DEF Language
    <3>0. c \in Language /\ d \in Language /\ U \in Language /\ V \in Language
      BY <2>1, <2>5
    <3> HIDE DEF Y, Z
    <3>2. Y \odot Z = (Y \odot d) \cup (Y \odot V)
      BY <3>0, <3>1, Distributive
    <3>3. Y \odot d = (c \odot d) \cup (U \odot d)
      BY <3>0, <3>1, Distributive
    <3>4. Y \odot V = (c \odot V) \cup (U \odot V)
      BY <3>0, <3>1, Distributive
    <3>5. Y \odot Z = ((c \odot d) \cup (U \odot d)) \cup ((c \odot V) \cup (U \odot V))
      BY <3>2, <3>3, <3>4
    <3> QED BY <3>5 DEF Y, Z
  <2> QED BY <2>2, <2>3, <2>6, <2>7, <2>8, <2>9
<1>9. ASSUME NEW x \in S, NEW y \in S
      PROVE  N(x, p) \odot N(p, y) \subseteq N(x, y)
  <2> DEFINE b == E(p, y)
             s == E(p, p)
             A == G(x)
             B == G(p)
             H == I \odot b
  <2>1. /\ b \in Language /\ b \in Short /\ s \in Language /\ A \in Language /\ B \in Language /\ I \in Language
        /\ E(x, p) \in Language
    BY <1>1, <1>2, <1>4, <1>5, <1>6
  <2>2. /\ N(x, p) = E(x, p) \cup (A \odot s) /\ N(p, y) = b \cup (B \odot b)
        /\ A \odot b \subseteq N(x, y)
    BY <1>1, <1>2
  <2>3. B = s \odot I /\ A \odot I \subseteq A /\ E(x, p) \subseteq A /\ s \subseteq I
    BY <1>1, <1>5, <1>7 DEF G
  <2> HIDE DEF b, s, A, B
  <2>4. A \odot s \subseteq A
    <3>1. A \odot s \subseteq A \odot I
      BY <2>1, <2>3, Monotonic
    <3> QED BY <2>3, <3>1
  <2>5. B \subseteq I
    <3>1. s \odot I \subseteq I \odot I
      BY <2>1, <2>3, Monotonic
    <3> QED BY <1>5, <2>3, <3>1
  <2>6. B \odot b \subseteq H /\ H \in Language
    BY <2>1, <2>5, Monotonic, Types
  <2>7. b \subseteq H
    <3>1. {<< >>} \odot b = b /\ {<< >>} \in Language /\ {<< >>} \subseteq I
      BY <1>5, <2>1, Unit, Types
    <3> QED BY <2>1, <3>1, Monotonic
  <2>8. N(x, p) \subseteq A /\ N(p, y) \subseteq H
    BY <2>2, <2>3, <2>4, <2>6, <2>7
  <2>9. N(x, p) \odot N(p, y) \subseteq A \odot H
    <3>1. N(x, p) \in Language /\ N(p, y) \in Language
      BY <2>1, <2>6, <2>8 DEF Language
    <3> QED BY <2>1, <2>6, <2>8, <3>1, Monotonic
  <2>10. A \odot H = (A \odot I) \odot b /\ A \odot I \in Language
    BY <2>1, Associative, Types
  <2>11. (A \odot I) \odot b \subseteq A \odot b
    BY <2>1, <2>3, <2>10, Monotonic
  <2> QED BY <2>2, <2>9, <2>10, <2>11
<1> QED BY <1>8, <1>9 DEF S, N, Bypasses

-----------------------------------------------------------------------------
(* Reversal, and the expression of a right-hand side. *)

LEMMA ReverseResult ==
  ASSUME NEW s \in Seq(Byte), NEW t \in Seq(Byte)
  PROVE  /\ Reverse(s) \in Seq(Byte) /\ Len(Reverse(s)) = Len(s) /\ Reverse(Reverse(s)) = s
         /\ Reverse(s \o t) = Reverse(t) \o Reverse(s)
<1>1. ASSUME NEW u \in Seq(Byte)
      PROVE  /\ Reverse(u) \in Seq(Byte) /\ Len(Reverse(u)) = Len(u)
             /\ \A i \in 1..Len(u) : Reverse(u)[i] = u[(Len(u) - i) + 1]
  BY DEF Reverse
<1>2. Reverse(Reverse(s)) = s
  <2> DEFINE r == Reverse(s)
             rr == Reverse(r)
  <2>1. /\ r \in Seq(Byte) /\ Len(r) = Len(s) /\ \A i \in 1..Len(s) : r[i] = s[(Len(s) - i) + 1]
    BY <1>1
  <2> HIDE DEF r
  <2>2. /\ rr \in Seq(Byte) /\ Len(rr) = Len(s) /\ \A i \in 1..Len(s) : rr[i] = r[(Len(s) - i) + 1]
    BY <1>1, <2>1
  <2> HIDE DEF rr
  <2>3. ASSUME NEW i \in 1..Len(s)
        PROVE  rr[i] = s[i]
    <3>1. (Len(s) - i) + 1 \in 1..Len(s) /\ (Len(s) - ((Len(s) - i) + 1)) + 1 = i
      OBVIOUS
    <3>2. rr[i] = r[(Len(s) - i) + 1]
      BY <2>2
    <3>3. r[(Len(s) - i) + 1] = s[(Len(s) - ((Len(s) - i) + 1)) + 1]
      BY <2>1, <3>1
    <3> QED BY <3>1, <3>2, <3>3
  <2>4. rr = s
    BY <2>2, <2>3
  <2> QED BY <2>4 DEF r, rr
<1>3. Reverse(s \o t) = Reverse(t) \o Reverse(s)
  <2> DEFINE w == s \o t
             l == Reverse(w)
             r == Reverse(t) \o Reverse(s)
             m == Len(s)
             n == Len(t)
  <2>1. /\ w \in Seq(Byte) /\ Len(w) = m + n /\ m \in Nat /\ n \in Nat
        /\ \A i \in 1..m + n : w[i] = IF i <= m THEN s[i] ELSE t[i - m]
    OBVIOUS
  <2> HIDE DEF w
  <2>2. l \in Seq(Byte) /\ Len(l) = m + n /\ \A i \in 1..m + n : l[i] = w[((m + n) - i) + 1]
    <3> HIDE DEF m, n
    <3>1. Len(w) = m + n /\ w \in Seq(Byte)
      BY <2>1
    <3>2. /\ Reverse(w) \in Seq(Byte) /\ Len(Reverse(w)) = Len(w)
          /\ \A i \in 1..Len(w) : Reverse(w)[i] = w[(Len(w) - i) + 1]
      BY <1>1, <3>1
    <3> QED BY <3>1, <3>2
  <2>3. /\ Reverse(s) \in Seq(Byte) /\ Len(Reverse(s)) = m /\ \A i \in 1..m : Reverse(s)[i] = s[(m - i) + 1]
        /\ Reverse(t) \in Seq(Byte) /\ Len(Reverse(t)) = n /\ \A i \in 1..n : Reverse(t)[i] = t[(n - i) + 1]
    BY <1>1
  <2> DEFINE a == Reverse(t)
             b == Reverse(s)
  <2>4. /\ r \in Seq(Byte) /\ Len(r) = m + n
        /\ \A i \in 1..m + n : r[i] = IF i <= n THEN a[i] ELSE b[i - n]
    <3>1. r = a \o b /\ a \in Seq(Byte) /\ b \in Seq(Byte) /\ Len(a) = n /\ Len(b) = m
      BY <2>3
    <3>0. a \in Seq(Byte) /\ b \in Seq(Byte) /\ r = a \o b
      BY <3>1
    <3> HIDE DEF a, b, r, m, n
    <3>2. /\ r \in Seq(Byte) /\ Len(r) = Len(a) + Len(b)
          /\ \A i \in 1..Len(a) + Len(b) : r[i] = IF i <= Len(a) THEN a[i] ELSE b[i - Len(a)]
      BY <3>0
    <3>3. Len(a) + Len(b) = m + n
      BY <2>1, <3>1
    <3> QED BY <3>1, <3>2, <3>3
  <2> HIDE DEF l, r, m, n
  <2>5. ASSUME NEW i \in 1..m + n
        PROVE  l[i] = r[i]
    <3>1. l[i] = w[((m + n) - i) + 1] /\ ((m + n) - i) + 1 \in 1..m + n
      BY <2>1, <2>2
    <3>2. CASE i <= n
      <4>1. /\ i \in 1..n /\ ~(((m + n) - i) + 1 <= m) /\ (((m + n) - i) + 1) - m = (n - i) + 1
        BY <2>1, <3>2
      <4>2. l[i] = t[(n - i) + 1]
        BY <2>1, <3>1, <4>1
      <4>3. r[i] = t[(n - i) + 1]
        BY <2>3, <2>4, <3>2, <4>1
      <4> QED BY <4>2, <4>3
    <3>3. CASE ~(i <= n)
      <4>1. /\ i - n \in 1..m /\ ((m + n) - i) + 1 <= m /\ ((m + n) - i) + 1 = (m - (i - n)) + 1
        BY <2>1, <3>3
      <4>2. l[i] = s[(m - (i - n)) + 1]
        BY <2>1, <3>1, <4>1
      <4>3. r[i] = s[(m - (i - n)) + 1]
        BY <2>3, <2>4, <3>3, <4>1
      <4> QED BY <4>2, <4>3
    <3> QED BY <3>2, <3>3
  <2>6. l = r
    BY <2>1, <2>2, <2>4, <2>5
  <2> QED BY <2>6 DEF l, r, w
<1> QED BY <1>1, <1>2, <1>3

Turned(S, reversed) == IF reversed THEN Backwards(S) ELSE S

LEMMA TurnedResult ==
  ASSUME NEW S \in Language, NEW reversed \in BOOLEAN
  PROVE  /\ Turned(S, reversed) \in Language
         /\ S \in Short => Turned(S, reversed) \in Short
         /\ Turned(Turned(S, reversed), reversed) = S
         /\ Turned({<< >>}, reversed) = {<< >>}
         /\ \A T \in Language : S \subseteq T => Turned(S, reversed) \subseteq Turned(T, reversed)
<1>1. \A s \in Seq(Byte) : Reverse(s) \in Seq(Byte) /\ Len(Reverse(s)) = Len(s) /\ Reverse(Reverse(s)) = s
  BY ReverseResult
<1>2. \A T : \A w : w \in Backwards(T) <=> \E s \in T : w = Reverse(s)
  BY DEF Backwards
<1>3. S \subseteq Seq(Byte)
  BY DEF Language
<1>4. Backwards(S) \in Language
  BY <1>1, <1>2, <1>3 DEF Language
<1>5. S \in Short => Backwards(S) \in Short
  BY <1>1, <1>2, <1>3, <1>4 DEF Short
<1>6. Backwards(Backwards(S)) = S
  <2>1. ASSUME NEW w \in Backwards(Backwards(S))
        PROVE  w \in S
    <3>1. PICK v \in Backwards(S) : w = Reverse(v)
      BY <1>2
    <3>2. PICK s \in S : v = Reverse(s)
      BY <1>2, <3>1
    <3> QED BY <1>1, <1>3, <3>1, <3>2
  <2>2. ASSUME NEW w \in S
        PROVE  w \in Backwards(Backwards(S))
    <3>1. Reverse(w) \in Backwards(S) /\ w = Reverse(Reverse(w))
      BY <1>1, <1>2, <1>3
    <3> QED BY <1>2, <3>1
  <2> QED BY <2>1, <2>2
<1>7. Backwards({<< >>}) = {<< >>}
  <2>1. Reverse(<< >>) = << >>
    <3>1. << >> \in Seq(Byte) /\ \A s \in Seq(Byte) : Len(s) = Len(<< >>) => s = << >>
      OBVIOUS
    <3> QED BY <1>1, <3>1
  <2> QED BY <1>2, <2>1
<1>8. \A T \in Language : S \subseteq T => Backwards(S) \subseteq Backwards(T)
  BY <1>2
<1> QED BY <1>4, <1>5, <1>6, <1>7, <1>8 DEF Turned

LEMMA TurnedConcatenation ==
  ASSUME NEW S \in Language, NEW T \in Language, NEW reversed \in BOOLEAN
  PROVE  Turned(S \odot T, reversed) = IF reversed THEN Turned(T, reversed) \odot Turned(S, reversed)
                                       ELSE Turned(S, reversed) \odot Turned(T, reversed)
<1> DEFINE A == Backwards(S)
           B == Backwards(T)
<1>1. \A s \in Seq(Byte), t \in Seq(Byte) :
        /\ Reverse(s) \in Seq(Byte) /\ Len(Reverse(s)) = Len(s) /\ Reverse(Reverse(s)) = s
        /\ Reverse(s \o t) = Reverse(t) \o Reverse(s)
        /\ Len(s) \in Nat
  <2> SUFFICES ASSUME NEW s \in Seq(Byte), NEW t \in Seq(Byte)
               PROVE  /\ Reverse(s) \in Seq(Byte) /\ Len(Reverse(s)) = Len(s) /\ Reverse(Reverse(s)) = s
                      /\ Reverse(s \o t) = Reverse(t) \o Reverse(s)
                      /\ Len(s) \in Nat
    OBVIOUS
  <2>1. /\ Reverse(s) \in Seq(Byte) /\ Len(Reverse(s)) = Len(s) /\ Reverse(Reverse(s)) = s
        /\ Reverse(s \o t) = Reverse(t) \o Reverse(s)
    BY ReverseResult, Zenon
  <2>2. Len(s) \in Nat
    OBVIOUS
  <2> QED BY <2>1, <2>2
<1>2. \A U : \A w : w \in Backwards(U) <=> \E s \in U : w = Reverse(s)
  BY DEF Backwards
<1>3. S \subseteq Seq(Byte) /\ T \subseteq Seq(Byte)
  BY DEF Language
<1>4. A \in Language /\ B \in Language
  BY <1>1, <1>2, <1>3 DEF Language
<1>5. /\ \A w : w \in A <=> \E s \in S : w = Reverse(s)
      /\ \A w : w \in B <=> \E s \in T : w = Reverse(s)
  BY <1>2
<1> HIDE DEF A, B
<1>6. IsConcatenation(S \odot T, S, T, MaxLength) /\ IsConcatenation(B \odot A, B, A, MaxLength)
  BY <1>4, MaxLengthAssumption, ConcatenatedResult DEF \odot
<1>7. ASSUME NEW w \in Backwards(S \odot T)
      PROVE  w \in B \odot A
  <2>1. PICK v \in S \odot T : w = Reverse(v)
    BY <1>2
  <2>2. PICK s \in S, t \in T : v = s \o t /\ Len(s) + Len(t) <= MaxLength
    BY <1>6, <2>1, Zenon DEF IsConcatenation
  <2>3. /\ w = Reverse(t) \o Reverse(s) /\ Len(Reverse(t)) + Len(Reverse(s)) <= MaxLength
        /\ Reverse(t) \in B /\ Reverse(s) \in A
    <3>1. s \in Seq(Byte) /\ t \in Seq(Byte)
      BY <1>3
    <3>2. Len(t) + Len(s) = Len(s) + Len(t)
      BY <3>1
    <3> QED BY <1>1, <1>5, <2>1, <2>2, <3>1, <3>2
  <2> QED BY <1>6, <2>3, Zenon DEF IsConcatenation
<1>8. ASSUME NEW w \in B \odot A
      PROVE  w \in Backwards(S \odot T)
  <2>1. PICK b \in B, a \in A : w = b \o a /\ Len(b) + Len(a) <= MaxLength
    BY <1>6, Zenon DEF IsConcatenation
  <2>2. PICK s \in S, t \in T : a = Reverse(s) /\ b = Reverse(t)
    BY <1>5, <2>1
  <2>3. /\ w = Reverse(s \o t) /\ Len(s) + Len(t) <= MaxLength
    <3>1. s \in Seq(Byte) /\ t \in Seq(Byte)
      BY <1>3
    <3>2. Len(t) + Len(s) = Len(s) + Len(t)
      BY <3>1
    <3> QED BY <1>1, <2>1, <2>2, <3>1, <3>2
  <2>4. s \o t \in S \odot T
    BY <1>6, <2>3, Zenon DEF IsConcatenation
  <2> QED BY <1>2, <2>3, <2>4
<1>9. Backwards(S \odot T) = B \odot A
  BY <1>7, <1>8
<1> QED BY <1>9 DEF Turned, A, B

WordsOf(rhs) == [k \in 1..Len(rhs) |-> ExpressionOf(rhs[k]).words]

LEMMA WordsOfTypes ==
  ASSUME NEW B, \A X \in B : ExpressionOf(X) \in Expression, NEW rhs \in Seq(B), NEW X \in B
  PROVE  /\ WordsOf(rhs) \in Seq(Language) /\ Len(WordsOf(rhs)) = Len(rhs) /\ WordsOf(<< >>) = << >>
         /\ \A k \in 1..Len(rhs) : WordsOf(rhs)[k] = ExpressionOf(rhs[k]).words
         /\ WordsOf(Append(rhs, X)) = Append(WordsOf(rhs), ExpressionOf(X).words)
         /\ ExpressionOf(X).words \in Short /\ ExpressionOf(X).words \in Language
<1>1. \A Y \in B : ExpressionOf(Y).words \in Short /\ ExpressionOf(Y).words \in Language
  BY Types DEF Expression
<1> DEFINE W(Y) == ExpressionOf(Y).words
<1>2. /\ Len(rhs) \in Nat /\ \A k \in 1..Len(rhs) : rhs[k] \in B
      /\ Len(Append(rhs, X)) = Len(rhs) + 1
      /\ \A k \in 1..Len(rhs) : Append(rhs, X)[k] = rhs[k]
      /\ Append(rhs, X)[Len(rhs) + 1] = X
  OBVIOUS
<1>3. /\ WordsOf(rhs) = [k \in 1..Len(rhs) |-> W(rhs[k])]
      /\ WordsOf(Append(rhs, X)) = [k \in 1..Len(rhs) + 1 |-> W(Append(rhs, X)[k])]
  BY <1>2 DEF WordsOf
<1>4. \A Y \in B : W(Y) \in Short /\ W(Y) \in Language
  BY <1>1
<1> HIDE DEF W
<1>5. /\ WordsOf(rhs) \in Seq(Language) /\ Len(WordsOf(rhs)) = Len(rhs)
      /\ \A k \in 1..Len(rhs) : WordsOf(rhs)[k] = W(rhs[k])
  BY <1>2, <1>3, <1>4
<1>6. WordsOf(Append(rhs, X)) = Append(WordsOf(rhs), W(X))
  <2> DEFINE n == Len(rhs)
             u == WordsOf(Append(rhs, X))
             v == Append(WordsOf(rhs), W(X))
  <2>1. /\ v \in Seq(Language) /\ Len(v) = n + 1 /\ v[n + 1] = W(X)
        /\ \A k \in 1..n : v[k] = W(rhs[k])
    BY <1>4, <1>5
  <2>2. u = [k \in 1..n + 1 |-> u[k]] /\ u[n + 1] = W(X) /\ \A k \in 1..n : u[k] = W(rhs[k])
    BY <1>2, <1>3
  <2> HIDE DEF u, v, n, Language
  <2>3. v = [k \in 1..n + 1 |-> v[k]] /\ n \in Nat
    BY <1>2, <2>1 DEF n
  <2>4. \A k \in 1..n + 1 : u[k] = v[k]
    <3>1. \A k \in 1..n + 1 : k \in 1..n \/ k = n + 1
      BY <2>3
    <3>2. \A k \in 1..n : u[k] = v[k]
      BY <2>1, <2>2
    <3>3. u[n + 1] = v[n + 1]
      BY <2>1, <2>2
    <3> QED BY <3>1, <3>2, <3>3, Zenon
  <2>5. u = v
    BY <2>2, <2>3, <2>4
  <2> QED BY <2>5 DEF u, v
<1>7. WordsOf(<< >>) = << >>
  BY DEF WordsOf
<1> QED BY <1>4, <1>5, <1>6, <1>7 DEF W

\* One more symbol in the expression e of a right-hand side.
Extended(e, X, reversed) ==
  IF reversed THEN Concat(Reversed(ExpressionOf(X)), e) ELSE Concat(e, ExpressionOf(X))

LEMMA ExtendedResult ==
  ASSUME NEW X, ExpressionOf(X) \in Expression, NEW e \in Expression, NEW reversed \in BOOLEAN
  PROVE  /\ Extended(e, X, reversed) \in Expression
         /\ Extended(e, X, reversed).words =
              IF reversed THEN Turned(ExpressionOf(X).words, reversed) \odot e.words
              ELSE e.words \odot Turned(ExpressionOf(X).words, reversed)
<1> DEFINE f == ExpressionOf(X)
           r == Reversed(f)
<1>1. f \in Expression /\ f.words \in Short /\ f.words \in Language
  BY Types DEF Expression
<1>2. CASE reversed
  <2>1. Turned(f.words, TRUE) \in Short /\ Turned(f.words, TRUE) = Backwards(f.words)
    <3>1. TRUE \in BOOLEAN
      OBVIOUS
    <3> QED BY <1>1, <3>1, TurnedResult DEF Turned
  <2>2. r \in Expression /\ r.words = Backwards(f.words)
    BY <1>1, <2>1 DEF Reversed, Expression
  <2>3. Extended(e, X, reversed) = Concat(r, e)
    BY <1>2 DEF Extended
  <2>4. Turned(f.words, reversed) = Backwards(f.words)
    BY <1>2 DEF Turned
  <2> HIDE DEF f, r
  <2>5. Concat(r, e) \in Expression /\ Concat(r, e).words = Turned(f.words, reversed) \odot e.words
    <3>1. Concat(r, e) \in Expression /\ Concat(r, e).words = r.words \odot e.words
      BY <2>2, ExpressionTypes
    <3> QED BY <2>2, <2>4, <3>1
  <2> QED BY <1>2, <2>3, <2>5 DEF f
<1>3. CASE ~reversed
  <2>1. Extended(e, X, reversed) = Concat(e, f) /\ Turned(f.words, reversed) = f.words
    BY <1>3 DEF Extended, Turned
  <2> HIDE DEF f
  <2> QED BY <1>1, <1>3, <2>1, ExpressionTypes DEF f
<1> QED BY <1>2, <1>3

RhsStep(B, reversed) == [q \in Expression \X B |-> Extended(q[1], q[2], reversed)]

LEMMA RhsExpressionFolds ==
  ASSUME NEW B, \A X \in B : ExpressionOf(X) \in Expression, NEW rhs \in Seq(B), NEW reversed \in BOOLEAN
  PROVE  /\ IsStep(RhsStep(B, reversed), Expression, B) /\ Epsilon \in Expression
         /\ \A e \in Expression, X \in B : RhsStep(B, reversed)[<<e, X>>] = Extended(e, X, reversed)
         /\ RhsExpression(rhs, reversed) = Folded(RhsStep(B, reversed), Epsilon, rhs)
<1> DEFINE A == Expression
           a == Epsilon
           s == rhs
           F == RhsStep(B, reversed)
           Equation(g) ==
             g = [T \in SUBSET DOMAIN s |->
                    IF T = {} THEN a
                    ELSE LET x == Max(T) IN IF reversed THEN Concat(Reversed(ExpressionOf(s[x])), g[T \ {x}])
                                            ELSE Concat(g[T \ {x}], ExpressionOf(s[x]))]
           iter == CHOOSE g : Equation(g)
           p == Partial(F, a, s)
<1>1. IsStep(F, A, B) /\ a \in A /\ \A e \in A, X \in B : F[<<e, X>>] = Extended(e, X, reversed)
  <2>1. \A e \in A, X \in B : Extended(e, X, reversed) \in A
    BY ExtendedResult
  <2>2. a \in A
    BY ExpressionTypes
  <2> HIDE DEF A, a
  <2> QED BY <2>1, <2>2 DEF RhsStep, IsStep, A
<1>2. s \in Seq(B) /\ DOMAIN s = 1..Len(s)
  OBVIOUS
<1>3. RhsExpression(rhs, reversed) = iter[DOMAIN s]
  BY Zenon DEF RhsExpression, FoldLeft, MapThenFoldSet
<1> HIDE DEF A, F, a
<1>4. StepsAs(p, A, B, F, a, s)
  BY <1>1, <1>2, PartialSteps, Zenon
<1> HIDE DEF p
<1>5. ASSUME NEW T \in SUBSET DOMAIN s, T # {}
      PROVE  p[T] = Extended(p[T \ {Max(T)}], s[Max(T)], reversed)
  <2>1. /\ p[T \ {Max(T)}] \in A /\ s[Max(T)] \in B
        /\ p[T] = F[<<p[T \ {Max(T)}], s[Max(T)]>>]
    BY <1>4, <1>5 DEF StepsAs
  <2> QED BY <1>1, <2>1
<1>6. Equation(p)
  BY <1>4, <1>5 DEF StepsAs, Extended
<1>7. Equation(iter)
  <2> HIDE DEF Equation
  <2> QED BY <1>6
<1> HIDE DEF iter
<1>8. StepAlike(iter, p, Len(s))
  <2>1. {} \in SUBSET DOMAIN s
    OBVIOUS
  <2>2. \A g : Equation(g) => g[{}] = a
    BY <2>1
  <2>3. ASSUME NEW T \in SUBSET DOMAIN s, T # {}, iter[T \ {Max(T)}] = p[T \ {Max(T)}]
        PROVE  iter[T] = p[T]
    <3>1. iter[T] = Extended(iter[T \ {Max(T)}], s[Max(T)], reversed)
      BY <1>7, <2>3 DEF Extended
    <3> QED BY <1>5, <2>3, <3>1
  <2>4. iter[{}] = p[{}]
    <3> HIDE DEF Equation
    <3> QED BY <1>6, <1>7, <2>2
  <2> HIDE DEF Equation
  <2> QED BY <1>2, <2>3, <2>4 DEF StepAlike
<1>9. FoldsTo(iter, F, a, s)
  BY <1>1, <1>2, <1>8, FoldsAlike, Zenon DEF p
<1>10. RhsExpression(rhs, reversed) = Folded(F, a, s)
  BY <1>2, <1>3, <1>9, Zenon DEF FoldsTo
<1> QED BY <1>1, <1>10 DEF F, a, A

\* What it stands for: the product of what its symbols stand for, or its reversal.
LEMMA RhsExpressionResult ==
  ASSUME NEW B, \A X \in B : ExpressionOf(X) \in Expression, NEW rhs \in Seq(B), NEW reversed \in BOOLEAN
  PROVE  /\ RhsExpression(rhs, reversed) \in Expression
         /\ RhsExpression(rhs, reversed).words = Turned(Product(WordsOf(rhs), MaxLength), reversed)
<1> DEFINE F == RhsStep(B, reversed)
           R(s) == Folded(F, Epsilon, s)
           Q(s) == Product(WordsOf(s), MaxLength)
           P == {s \in Seq(B) : R(s) \in Expression /\ R(s).words = Turned(Q(s), reversed)}
<1>1. /\ IsStep(F, Expression, B) /\ Epsilon \in Expression
      /\ \A e \in Expression, X \in B : F[<<e, X>>] = Extended(e, X, reversed)
      /\ RhsExpression(rhs, reversed) = R(rhs)
  BY RhsExpressionFolds
<1> HIDE DEF F
<1>2. R(<< >>) = Epsilon
  BY <1>1, FoldedEmpty, Zenon
<1>3. << >> \in P
  <2>1. Q(<< >>) = {<< >>}
    <3>1. WordsOf(<< >>) = << >>
      BY DEF WordsOf
    <3> QED BY <3>1, MaxLengthAssumption, ProductEmpty
  <2>2. Turned({<< >>}, reversed) = {<< >>}
    <3>1. {<< >>} \in Language
      BY Types
    <3> QED BY <3>1, TurnedResult
  <2>3. << >> \in Seq(B)
    OBVIOUS
  <2>4. Epsilon.words = {<< >>}
    BY DEF Epsilon
  <2>5. R(<< >>) \in Expression /\ R(<< >>).words = Turned(Q(<< >>), reversed)
    BY <1>1, <1>2, <2>1, <2>2, <2>4
  <2> QED BY <2>3, <2>5
<1>4. ASSUME NEW s \in Seq(B), NEW X \in B, s \in P
      PROVE  Append(s, X) \in P
  <2> DEFINE e == R(s)
             S == Q(s)
             W == ExpressionOf(X).words
  <2>1. \A t \in Seq(B), Y \in B : R(Append(t, Y)) = F[<<R(t), Y>>]
    BY <1>1, FoldedLast
  <2>2. e \in Expression /\ e.words = Turned(S, reversed)
    BY <1>4
  <2>3. R(Append(s, X)) = Extended(e, X, reversed)
    BY <1>1, <2>1, <2>2, Zenon
  <2>4. /\ WordsOf(s) \in Seq(Language) /\ W \in Short /\ W \in Language
        /\ WordsOf(Append(s, X)) = Append(WordsOf(s), W)
    BY WordsOfTypes
  <2>5. Q(Append(s, X)) = S \odot W /\ S \in Language
    BY <2>4, MaxLengthAssumption, ProductMore DEF \odot
  <2> HIDE DEF R, Q, P, e, S
  <2>6. /\ Extended(e, X, reversed) \in Expression
        /\ Extended(e, X, reversed).words = Turned(S \odot W, reversed)
    <3>1. /\ Extended(e, X, reversed) \in Expression
          /\ Extended(e, X, reversed).words = IF reversed THEN Turned(W, reversed) \odot e.words
                                              ELSE e.words \odot Turned(W, reversed)
      BY <2>2, ExtendedResult
    <3> HIDE DEF W
    <3>2. Turned(S \odot W, reversed) = IF reversed THEN Turned(W, reversed) \odot Turned(S, reversed)
                                        ELSE Turned(S, reversed) \odot Turned(W, reversed)
      BY <2>4, <2>5, TurnedConcatenation
    <3> QED BY <2>2, <3>1, <3>2
  <2>7. Append(s, X) \in Seq(B)
    OBVIOUS
  <2> QED BY <2>3, <2>5, <2>6, <2>7 DEF P
<1>5. rhs \in P
  <2> HIDE DEF P
  <2> QED BY <1>3, <1>4, SequenceInduction
<1> QED BY <1>1, <1>5

-----------------------------------------------------------------------------
(* A component as equations. *)

\* A right-hand side whose symbols stand for more derives more.
LEMMA ReadingsGrow ==
  ASSUME NEW V, NEW regions, AreRegions(regions), NEW n \in Nat, NEW rhs \in Seq(Known(V, regions)),
         NEW K \in Reading(V), NEW L \in Reading(V), Within(K, L)
  PROVE  Product(Values(rhs, K, regions), n) \subseteq Product(Values(rhs, L, regions), n)
<1> DEFINE u == Values(rhs, K, regions)
           v == Values(rhs, L, regions)
<1>1. /\ u \in Seq(Language) /\ v \in Seq(Language) /\ Len(u) = Len(rhs) /\ Len(v) = Len(rhs)
      /\ \A k \in 1..Len(rhs) : /\ u[k] = StringsOf(rhs[k], K, regions)
                                /\ v[k] = StringsOf(rhs[k], L, regions)
                                /\ rhs[k] \in Known(V, regions)
  BY ValuesResult
<1>2. \A A \in V : K[A] \subseteq L[A]
  BY DEF Within, Reading
<1> HIDE DEF u, v
<1>3. ASSUME NEW k \in 1..Len(rhs)
      PROVE  u[k] \subseteq v[k]
  BY <1>1, <1>2 DEF Known, StringsOf
<1>4. Outgrows(v, u, n)
  BY <1>1, <1>3, ProductGrows
<1> QED BY <1>4 DEF Outgrows, u, v

\* What is too long in the factors is too long in the product.
LEMMA ProductCut ==
  ASSUME NEW n \in Nat, NEW u \in Seq(Language), NEW v \in Seq(Language), Len(u) = Len(v),
         \A k \in 1..Len(v) : u[k] = Cut(v[k], n)
  PROVE  Product(u, n) = Product(v, n)
<1>1. \A k \in 1..Len(v) : u[k] \subseteq v[k]
  BY DEF Cut
<1>2. Outgrows(v, u, n)
  BY <1>1, ProductGrows
<1>3. ASSUME NEW w \in Product(v, n), w \notin Product(u, n)
      PROVE  FALSE
  <2>1. PICK k \in 1..Len(v) : \E x \in v[k] \ u[k] : IsPiece(x, w)
    BY <1>2, <1>3 DEF Outgrows
  <2>2. PICK x \in v[k] \ u[k] : IsPiece(x, w)
    BY <2>1
  <2>3. Len(w) <= n
    BY ProductResult
  <2>4. PICK y \in Seq(Byte), z \in Seq(Byte) : w = (y \o x) \o z
    BY <2>2 DEF IsPiece
  <2>5. x \in Seq(Byte)
    BY <2>2 DEF IsPiece
  <2>6. Len(x) <= n
    <3>1. Len(w) = (Len(y) + Len(x)) + Len(z) /\ Len(x) \in Nat /\ Len(y) \in Nat /\ Len(z) \in Nat
      BY <2>4, <2>5
    <3> QED BY <2>3, <3>1
  <2> QED BY <2>2, <2>6 DEF Cut
<1> QED BY <1>2, <1>3 DEF Outgrows

\* Part by part.
LEMMA ValuesOfBoth ==
  ASSUME NEW V, NEW regions, AreRegions(regions), NEW L \in Reading(V),
         NEW r \in Seq(Known(V, regions)), NEW s \in Seq(Known(V, regions))
  PROVE  Values(r \o s, L, regions) = Values(r, L, regions) \o Values(s, L, regions)
<1> DEFINE K == Known(V, regions)
           u == Values(r, L, regions)
           v == Values(s, L, regions)
           w == Values(r \o s, L, regions)
           x == u \o v
           m == Len(r)
           n == Len(s)
<1>1. /\ m \in Nat /\ n \in Nat /\ r \o s \in Seq(K) /\ Len(r \o s) = m + n
      /\ \A k \in 1..m + n : (r \o s)[k] = IF k <= m THEN r[k] ELSE s[k - m]
  OBVIOUS
<1>2. /\ u \in Seq(Language) /\ Len(u) = m /\ \A k \in 1..m : u[k] = StringsOf(r[k], L, regions)
      /\ v \in Seq(Language) /\ Len(v) = n /\ \A k \in 1..n : v[k] = StringsOf(s[k], L, regions)
  BY ValuesResult
<1>3. w = [k \in 1..m + n |-> w[k]] /\ \A k \in 1..m + n : w[k] = StringsOf((r \o s)[k], L, regions)
  BY <1>1 DEF Values
<1> HIDE DEF u, v, w, K, m, n
<1>4. x = [k \in 1..m + n |-> x[k]] /\ \A k \in 1..m + n : x[k] = IF k <= m THEN u[k] ELSE v[k - m]
  <2>1. /\ x \in Seq(Language) /\ Len(x) = Len(u) + Len(v)
        /\ \A k \in 1..Len(u) + Len(v) : x[k] = IF k <= Len(u) THEN u[k] ELSE v[k - Len(u)]
    <3>1. u \in Seq(Language) /\ v \in Seq(Language)
      BY <1>2
    <3> HIDE DEF Language
    <3> QED BY <3>1
  <2> HIDE DEF x
  <2>2. Len(x) = m + n /\ x = [k \in 1..Len(x) |-> x[k]]
    BY <1>2, <2>1
  <2> QED BY <1>2, <2>1, <2>2
<1> HIDE DEF x
<1>5. ASSUME NEW k \in 1..m + n
      PROVE  w[k] = x[k]
  <2>1. CASE k <= m
    <3>1. k \in 1..m /\ (r \o s)[k] = r[k]
      BY <1>1, <2>1
    <3>2. w[k] = StringsOf((r \o s)[k], L, regions)
      BY <1>3
    <3>3. u[k] = StringsOf(r[k], L, regions)
      BY <1>2, <3>1
    <3>4. x[k] = u[k]
      BY <1>4, <2>1
    <3> QED BY <3>1, <3>2, <3>3, <3>4
  <2>2. CASE ~(k <= m)
    <3>1. k - m \in 1..n /\ (r \o s)[k] = s[k - m]
      BY <1>1, <2>2
    <3>2. w[k] = StringsOf((r \o s)[k], L, regions)
      BY <1>3
    <3>3. v[k - m] = StringsOf(s[k - m], L, regions)
      BY <1>2, <3>1
    <3>4. x[k] = v[k - m]
      BY <1>4, <2>2
    <3> QED BY <3>1, <3>2, <3>3, <3>4
  <2> QED BY <2>1, <2>2
<1> QED BY <1>3, <1>4, <1>5 DEF u, v, w, x

ReadsBoth(r, s, L, regions) ==
  Values(r \o s, L, regions) = Values(r, L, regions) \o Values(s, L, regions)

\* The same, named.
LEMMA BothRead ==
  ASSUME NEW V, NEW regions, AreRegions(regions), NEW L \in Reading(V),
         NEW r \in Seq(Known(V, regions)), NEW s \in Seq(Known(V, regions))
  PROVE  ReadsBoth(r, s, L, regions)
BY ValuesOfBoth DEF ReadsBoth

\* L holds for the rules of C when the other nonterminals stand for what D has.
HoldsIn(C, g, regions, n, D, L) ==
  /\ IsReadable(g, regions) /\ n \in Nat /\ IsLeastClosed(g, regions, n, D)
  /\ C \in SUBSET g.nonterminals /\ L \in Reading(g.nonterminals)
  /\ \A A \in g.nonterminals \ C : L[A] = D[A]
  /\ \A r \in ToSet(g.rules) : r.lhs \in C => Product(Values(r.rhs, L, regions), n) \subseteq L[r.lhs]

\* It then has what C derives.
LEMMA ComponentIsLeast ==
  ASSUME NEW g, NEW regions, NEW n, NEW D, NEW C, NEW L, HoldsIn(C, g, regions, n, D, L)
  PROVE  \A A \in C : D[A] \subseteq L[A]
<1> USE DEF HoldsIn
<1> DEFINE V == g.nonterminals
           K == [A \in V |-> D[A] \cap L[A]]
<1>1. D \in Reading(V) /\ DOMAIN D = V
  BY DEF IsLeastClosed, Reading
<1>2. K \in Reading(V) /\ \A A \in V : K[A] = D[A] \cap L[A]
  <2>1. \A A \in V : K[A] \in Language
    BY <1>1 DEF Reading, Language
  <2>2. K = [A \in V |-> K[A]]
    OBVIOUS
  <2>3. \A A \in V : K[A] = D[A] \cap L[A]
    OBVIOUS
  <2> HIDE DEF K
  <2> QED BY <2>1, <2>2, <2>3 DEF Reading
<1> HIDE DEF K
<1>3. Within(K, D) /\ Within(K, L)
  BY <1>2 DEF Within, Reading
<1>4. ASSUME NEW r \in ToSet(g.rules)
      PROVE  Product(Values(r.rhs, K, regions), n) \subseteq K[r.lhs]
  <2>1. r.lhs \in V /\ r.rhs \in Seq(Known(V, regions)) /\ AreRegions(regions)
    BY DEF IsReadable
  <2>2. /\ Product(Values(r.rhs, K, regions), n) \subseteq Product(Values(r.rhs, D, regions), n)
        /\ Product(Values(r.rhs, K, regions), n) \subseteq Product(Values(r.rhs, L, regions), n)
    BY <1>1, <1>2, <1>3, <2>1, ReadingsGrow
  <2>3. Product(Values(r.rhs, D, regions), n) \subseteq D[r.lhs]
    BY DEF IsLeastClosed, RulesHold
  <2> QED BY <1>2, <2>1, <2>2, <2>3
<1>5. Within(D, K)
  BY <1>2, <1>4 DEF IsLeastClosed, RulesHold
<1> QED BY <1>1, <1>2, <1>5 DEF Within

None == << >>

\* The symbols whose expressions are known and stand for what D has.
Expressed(D) ==
  {X \in Known(grammar.nonterminals, None) :
     X.kind = "nonterminal" =>
       /\ X.id \in DOMAIN cert.expressions
       /\ cert.expressions[X.id] \in Expression
       /\ cert.expressions[X.id].words = D[X.id]}

LEMMA ExpressedResult ==
  ASSUME NEW D \in Reading(grammar.nonterminals), \A A \in grammar.nonterminals : D[A] \in Short
  PROVE  \A X \in Expressed(D) :
           /\ ExpressionOf(X) \in Expression
           /\ ExpressionOf(X).words = Cut(StringsOf(X, D, None), MaxLength)
<1> SUFFICES ASSUME NEW X \in Expressed(D)
             PROVE  /\ ExpressionOf(X) \in Expression
                    /\ ExpressionOf(X).words = Cut(StringsOf(X, D, None), MaxLength)
  OBVIOUS
<1>1. X \in Known(grammar.nonterminals, None)
  BY DEF Expressed
<1>2. CASE X.kind = "nonterminal"
  <2>1. /\ X.id \in grammar.nonterminals /\ cert.expressions[X.id] \in Expression
        /\ cert.expressions[X.id].words = D[X.id]
    BY <1>1, <1>2 DEF Expressed, Known
  <2>2. ExpressionOf(X) = cert.expressions[X.id] /\ StringsOf(X, D, None) = D[X.id]
    BY <1>2 DEF ExpressionOf, StringsOf
  <2>3. Cut(D[X.id], MaxLength) = D[X.id]
    BY <2>1 DEF Cut, Short
  <2> QED BY <2>1, <2>2, <2>3
<1>3. CASE X.kind # "nonterminal"
  <2>1. X.kind = "terminal" /\ X.id \in DOMAIN Words
    BY <1>1, <1>3 DEF Known, None
  <2>2. Words[X.id] \subseteq Seq(Byte)
    <3>1. Words \in Seq(SUBSET (Seq(Byte) \ {<< >>}))
      BY GrammarAssumption
    <3>2. Words[X.id] \in SUBSET (Seq(Byte) \ {<< >>})
      BY <2>1, <3>1
    <3> QED BY <3>2
  <2>3. ExpressionOf(X) = [words |-> Cut(Words[X.id], MaxLength), reversible |-> X.id \in Reversible]
    BY <2>1 DEF ExpressionOf, Cut
  <2>4. Cut(Words[X.id], MaxLength) \in Short /\ StringsOf(X, D, None) = Words[X.id]
    BY <2>1, <2>2 DEF Cut, Short, Language, StringsOf
  <2> QED BY <2>3, <2>4 DEF Expression
<1> QED BY <1>2, <1>3

\* The expression of such symbols is the product of what they derive.
LEMMA ExpressedProduct ==
  ASSUME NEW D \in Reading(grammar.nonterminals), \A A \in grammar.nonterminals : D[A] \in Short,
         NEW rhs \in Seq(Expressed(D)), NEW reversed \in BOOLEAN
  PROVE  /\ RhsExpression(rhs, reversed) \in Expression
         /\ RhsExpression(rhs, reversed).words = Turned(Product(Values(rhs, D, None), MaxLength), reversed)
         /\ rhs \in Seq(Known(grammar.nonterminals, None))
<1> DEFINE B == Expressed(D)
           K == Known(grammar.nonterminals, None)
           u == WordsOf(rhs)
           v == Values(rhs, D, None)
<1>1. \A X \in B : ExpressionOf(X) \in Expression /\ ExpressionOf(X).words = Cut(StringsOf(X, D, None), MaxLength)
  BY ExpressedResult
<1>2. B \subseteq K
  BY DEF Expressed
<1>3. rhs \in Seq(K) /\ \A k \in 1..Len(rhs) : rhs[k] \in B
  <2> HIDE DEF K, B
  <2>1. rhs \in Seq(B)
    BY DEF B
  <2> QED BY <1>2, <2>1
<1>4. /\ RhsExpression(rhs, reversed) \in Expression
      /\ RhsExpression(rhs, reversed).words = Turned(Product(u, MaxLength), reversed)
  BY <1>1, RhsExpressionResult
<1>5. AreRegions(None)
  BY DEF AreRegions, None
<1>6. /\ v \in Seq(Language) /\ Len(v) = Len(rhs)
      /\ \A k \in 1..Len(rhs) : v[k] = StringsOf(rhs[k], D, None)
  BY <1>3, <1>5, ValuesResult
<1>7. /\ u \in Seq(Language) /\ Len(u) = Len(rhs)
      /\ \A k \in 1..Len(rhs) : u[k] = ExpressionOf(rhs[k]).words
  <2>1. CASE B = {}
    <3>1. rhs = << >>
      BY <1>3, <2>1
    <3>2. u = << >>
      BY <3>1 DEF WordsOf
    <3> HIDE DEF u
    <3> QED BY <3>1, <3>2
  <2>2. CASE B # {}
    BY <1>1, <2>2, WordsOfTypes
  <2> QED BY <2>1, <2>2
<1> HIDE DEF u, v, B, K
<1>8. \A k \in 1..Len(v) : u[k] = Cut(v[k], MaxLength)
  BY <1>1, <1>3, <1>6, <1>7
<1>9. Product(u, MaxLength) = Product(v, MaxLength)
  BY <1>6, <1>7, <1>8, MaxLengthAssumption, ProductCut
<1> QED BY <1>3, <1>4, <1>9 DEF v, K

-----------------------------------------------------------------------------

\* Rule r of component C mentions C at its end, or at its beginning, or nowhere.
Fits(C, r, reversed) ==
  \/ RecursivePlaces(C, r) = {}
  \/ /\ Len(r.rhs) # 0
     /\ RecursivePlaces(C, r) = {IF reversed THEN 1 ELSE Len(r.rhs)}

LEMMA OrientationFits ==
  ASSUME NEW C, \A r \in RulesIn(C) : \E B : r.rhs \in Seq(B), NEW reversed \in BOOLEAN,
         Orientation(C) = IF reversed THEN "left" ELSE "right"
  PROVE  \A r \in RulesIn(C) : Fits(C, r, reversed)
<1> SUFFICES ASSUME NEW r \in RulesIn(C), RecursivePlaces(C, r) # {}
             PROVE  Fits(C, r, reversed)
  BY DEF Fits
<1> DEFINE n == Len(r.rhs)
           places == RecursivePlaces(C, r)
           kind == CASE n = 1 -> "neutral"
                     [] places = {1} /\ n > 1 -> "left"
                     [] places = {n} /\ n > 1 -> "right"
                     [] OTHER -> "none"
           found == Orientations(C) \ {"neutral"}
           way == IF reversed THEN "left" ELSE "right"
<1>1. n \in Nat /\ places \subseteq 1..n /\ n # 0
  <2>1. n \in Nat
    OBVIOUS
  <2>2. places \subseteq 1..n
    BY DEF RecursivePlaces
  <2> QED BY <2>1, <2>2
<1>2. kind \in Orientations(C)
  BY DEF Orientations
<1>3. found = {} \/ found = {way}
  <2>1. Orientation(C) = IF found = {} THEN "right"
                         ELSE IF found \in {{"left"}, {"right"}} THEN CHOOSE o \in found : TRUE ELSE "none"
    BY DEF Orientation
  <2> HIDE DEF found
  <2>2. \A x : (CHOOSE o \in {x} : TRUE) = x
    OBVIOUS
  <2>3. CASE found # {}
    <3>1. found = {"left"} \/ found = {"right"}
      BY <2>1, <2>3
    <3>2. CASE found = {"left"}
      <4>1. Orientation(C) = "left"
        BY <2>1, <2>2, <3>2
      <4> QED BY <3>2, <4>1
    <3>3. CASE found = {"right"}
      <4>1. Orientation(C) = "right"
        BY <2>1, <2>2, <3>3
      <4> QED BY <3>3, <4>1
    <3> QED BY <3>1, <3>2, <3>3
  <2> QED BY <2>3
<1>4. kind = "neutral" \/ kind = way
  BY <1>2, <1>3
<1>5. CASE n = 1
  <2>1. places = {1}
    BY <1>1, <1>5
  <2> QED BY <1>5, <2>1 DEF Fits
<1>6. CASE n # 1
  <2>1. kind = way /\ n > 1
    BY <1>1, <1>4, <1>6
  <2>2. places = {IF reversed THEN 1 ELSE n}
    BY <1>6, <2>1
  <2> QED BY <1>1, <2>2 DEF Fits
<1> QED BY <1>5, <1>6

\* A sequence without its last element, and without its first.
LEMMA EndsOff ==
  ASSUME NEW B, NEW s \in Seq(B), Len(s) # 0
  PROVE  /\ s[1] \in B /\ s[Len(s)] \in B /\ Len(s) \in Nat
         /\ SubSeq(s, 1, Len(s) - 1) \in Seq(B) /\ Len(SubSeq(s, 1, Len(s) - 1)) = Len(s) - 1
         /\ \A k \in 1..Len(s) - 1 : SubSeq(s, 1, Len(s) - 1)[k] = s[k]
         /\ SubSeq(s, 2, Len(s)) \in Seq(B) /\ Len(SubSeq(s, 2, Len(s))) = Len(s) - 1
         /\ \A k \in 1..Len(s) - 1 : SubSeq(s, 2, Len(s))[k] = s[k + 1]
         /\ s = SubSeq(s, 1, Len(s) - 1) \o <<s[Len(s)]>>
         /\ s = <<s[1]>> \o SubSeq(s, 2, Len(s))
<1> DEFINE n == Len(s)
           a == SubSeq(s, 1, n - 1)
           b == SubSeq(s, 2, n)
<1>1. n \in Nat /\ n # 0 /\ \A k \in 1..n : s[k] \in B
  OBVIOUS
<1>2. a \in Seq(B) /\ Len(a) = n - 1 /\ \A k \in 1..n - 1 : a[k] = s[k]
  <2> DEFINE m == n - 1
  <2>1. m \in Nat /\ m <= n /\ \A k \in 1..m : k \in 1..n /\ s[k] \in B
    BY <1>1
  <2>2. a = [k \in 1..m |-> s[k]]
    BY <2>1
  <2> HIDE DEF a, m
  <2>3. a \in Seq(B) /\ Len(a) = m /\ \A k \in 1..m : a[k] = s[k]
    BY <2>1, <2>2
  <2> QED BY <2>3 DEF m
<1>3. b \in Seq(B) /\ Len(b) = n - 1 /\ \A k \in 1..n - 1 : b[k] = s[k + 1]
  <2> DEFINE m == n - 1
  <2>1. m \in Nat /\ m <= n /\ \A k \in 1..m : k + 1 \in 1..n /\ s[k + 1] \in B
    BY <1>1
  <2>2. b = [k \in 1..m |-> s[k + 1]]
    BY <2>1
  <2> HIDE DEF b, m
  <2>3. b \in Seq(B) /\ Len(b) = m /\ \A k \in 1..m : b[k] = s[k + 1]
    BY <2>1, <2>2
  <2> QED BY <2>3 DEF m
<1>4. s = a \o <<s[n]>>
  <2> DEFINE c == a \o <<s[n]>>
  <2>1. /\ c \in Seq(B) /\ Len(c) = (n - 1) + 1
        /\ \A k \in 1..n : c[k] = IF k <= n - 1 THEN a[k] ELSE s[n]
    <3> HIDE DEF a, n
    <3> QED BY <1>1, <1>2
  <2> HIDE DEF c, a
  <2>2. \A k \in 1..n : c[k] = s[k]
    BY <1>1, <1>2, <2>1
  <2>3. c = s
    BY <1>1, <2>1, <2>2
  <2> QED BY <2>3 DEF c
<1>5. s = <<s[1]>> \o b
  <2> DEFINE c == <<s[1]>> \o b
  <2>1. /\ c \in Seq(B) /\ Len(c) = 1 + (n - 1)
        /\ \A k \in 1..n : c[k] = IF k = 1 THEN s[1] ELSE b[k - 1]
    <3> HIDE DEF b, n
    <3>1. 1 \in 1..n /\ <<s[1]>> \in Seq(B) /\ Len(<<s[1]>>) = 1 /\ <<s[1]>>[1] = s[1]
      BY <1>1
    <3> DEFINE e == <<s[1]>>
    <3> HIDE DEF e
    <3>2. /\ e \o b \in Seq(B) /\ Len(e \o b) = Len(e) + Len(b)
          /\ \A k \in 1..Len(e) + Len(b) : (e \o b)[k] = IF k <= Len(e) THEN e[k] ELSE b[k - Len(e)]
      BY <1>3, <3>1 DEF e
    <3> QED BY <1>1, <1>3, <3>1, <3>2 DEF e
  <2> HIDE DEF c, b
  <2>2. \A k \in 1..n : c[k] = s[k]
    BY <1>1, <1>3, <2>1
  <2>3. c = s
    BY <1>1, <2>1, <2>2
  <2> QED BY <2>3 DEF c
<1>6. s[1] \in B /\ s[n] \in B
  BY <1>1
<1> QED BY <1>1, <1>2, <1>3, <1>4, <1>5, <1>6

-----------------------------------------------------------------------------

\* All that component C mentions has been done, rightly.
DependenciesDone(C, D) ==
  /\ C \in SUBSET grammar.nonterminals /\ Final \notin grammar.nonterminals
  /\ D \in Reading(grammar.nonterminals) /\ \A A \in grammar.nonterminals : D[A] \in Short
  /\ IsReadable(grammar, None) /\ IsLeastClosed(grammar, None, MaxLength, D)
  /\ \A r \in RulesIn(C) : \A B \in NonterminalsIn(r.rhs) \ C :
       /\ B \in DOMAIN cert.expressions /\ cert.expressions[B] \in Expression
       /\ cert.expressions[B].words = D[B]

LEMMA RuleTypes ==
  ASSUME NEW C, NEW D, DependenciesDone(C, D), NEW r \in RulesIn(C)
  PROVE  /\ r \in ToSet(grammar.rules) /\ r.lhs \in C
         /\ r.rhs \in Seq(Known(grammar.nonterminals, None)) /\ AreRegions(None)
BY DEF DependenciesDone, RulesIn, RulesOf, IsReadable

\* A part of a right-hand side that does not mention C.
LEMMA WayIsExpressed ==
  ASSUME NEW C, NEW D, DependenciesDone(C, D), NEW r \in RulesIn(C),
         NEW way \in Seq(Known(grammar.nonterminals, None)),
         NonterminalsIn(way) \subseteq NonterminalsIn(r.rhs) \ C,
         NEW L \in Reading(grammar.nonterminals), \A A \in grammar.nonterminals \ C : L[A] = D[A]
  PROVE  way \in Seq(Expressed(D)) /\ Values(way, L, None) = Values(way, D, None)
<1> DEFINE K == Known(grammar.nonterminals, None)
           B == Expressed(D)
<1>1. \A k \in 1..Len(way) : way[k] \in K /\ (way[k].kind = "nonterminal" => way[k].id \in NonterminalsIn(way))
  <2>1. \A k \in 1..Len(way) : way[k] \in K /\ way[k] \in ToSet(way)
    <3> HIDE DEF K
    <3>1. way \in Seq(K)
      BY DEF K
    <3> QED BY <3>1 DEF ToSet
  <2> QED BY <2>1 DEF NonterminalsIn
<1>2. ASSUME NEW k \in 1..Len(way)
      PROVE  way[k] \in B
  BY <1>1, <1>2 DEF Expressed, DependenciesDone
<1>3. way \in Seq(B)
  <2> HIDE DEF B
  <2> QED BY <1>2
<1>4. \A A \in NonterminalsIn(way) : L[A] = D[A]
  BY MentionsKnown
<1>5. Values(way, L, None) = Values(way, D, None)
  BY <1>4, SameValues
<1> QED BY <1>3, <1>5

\* Where the rules of C lead.
Far(C, L, reversed) == [y \in States(C) |-> IF y = Final THEN {<< >>} ELSE Turned(L[y], reversed)]

Way(C, r, reversed) == RhsExpression(OnTheWay(C, r, reversed), reversed)

IsEdge(C, r, L, reversed) ==
  /\ TargetOf(C, r) \in States(C)
  /\ Way(C, r, reversed) \in Expression
  /\ Turned(Product(Values(r.rhs, L, None), MaxLength), reversed) =
       Way(C, r, reversed).words \odot Far(C, L, reversed)[TargetOf(C, r)]

LEMMA RuleIsEdge ==
  ASSUME NEW C, NEW D, DependenciesDone(C, D), NEW r \in RulesIn(C), NEW reversed \in BOOLEAN,
         Fits(C, r, reversed),
         NEW L \in Reading(grammar.nonterminals), \A A \in grammar.nonterminals \ C : L[A] = D[A]
  PROVE  IsEdge(C, r, L, reversed)
<1> DEFINE V == grammar.nonterminals
           K == Known(V, None)
           rhs == r.rhs
           n == Len(rhs)
           places == RecursivePlaces(C, r)
           way == OnTheWay(C, r, reversed)
           S == Product(Values(way, D, None), MaxLength)
<1>1. rhs \in Seq(K) /\ AreRegions(None) /\ n \in Nat
  BY RuleTypes
<1>2. D \in Reading(V) /\ (\A A \in V : D[A] \in Short) /\ C \subseteq V /\ Final \notin V
  BY DEF DependenciesDone
<1>3. \A k \in 1..n : k \in places <=> rhs[k].kind = "nonterminal" /\ rhs[k].id \in C
  BY DEF RecursivePlaces
<1>4. ASSUME way \in Seq(K),
             \A k \in 1..Len(way) : \E i \in 1..n : way[k] = rhs[i] /\ i \notin places
      PROVE  /\ Values(way, L, None) = Values(way, D, None)
             /\ Way(C, r, reversed) \in Expression /\ Way(C, r, reversed).words = Turned(S, reversed)
             /\ S \in Short
  <2>1. NonterminalsIn(way) \subseteq NonterminalsIn(rhs) \ C
    <3> SUFFICES ASSUME NEW A \in NonterminalsIn(way)
                 PROVE  A \in NonterminalsIn(rhs) /\ A \notin C
      OBVIOUS
    <3>1. PICK k \in 1..Len(way) : way[k].kind = "nonterminal" /\ way[k].id = A
      <4> HIDE DEF way, K
      <4> QED BY <1>4 DEF NonterminalsIn, ToSet
    <3>2. PICK i \in 1..n : way[k] = rhs[i] /\ i \notin places
      BY <1>4, <3>1
    <3>3. rhs[i] \in ToSet(rhs)
      <4> HIDE DEF rhs, K
      <4> QED BY <1>1 DEF ToSet, n
    <3> HIDE DEF way, rhs, places
    <3> QED BY <1>3, <3>1, <3>2, <3>3 DEF NonterminalsIn
  <2> HIDE DEF way
  <2>2. way \in Seq(Expressed(D)) /\ Values(way, L, None) = Values(way, D, None)
    BY <1>4, <2>1, WayIsExpressed
  <2>3. /\ RhsExpression(way, reversed) \in Expression
        /\ RhsExpression(way, reversed).words = Turned(S, reversed)
    BY <1>2, <2>2, ExpressedProduct
  <2>4. Values(way, D, None) \in Seq(Language)
    BY <1>1, <1>2, <1>4, ValuesResult
  <2>5. S \in Short
    BY <2>4, MaxLengthAssumption, ProductResult DEF Short
  <2> QED BY <2>2, <2>3, <2>5 DEF Way, way
<1>5. CASE places = {}
  <2>1. way = rhs /\ TargetOf(C, r) = Final
    BY <1>5 DEF OnTheWay, TargetOf
  <2>2. /\ Values(way, L, None) = Values(way, D, None)
        /\ Way(C, r, reversed) \in Expression /\ Way(C, r, reversed).words = Turned(S, reversed)
        /\ S \in Short
    <3>1. way \in Seq(K)
      BY <1>1, <2>1
    <3>2. \A k \in 1..Len(way) : \E i \in 1..n : way[k] = rhs[i] /\ i \notin places
      BY <1>5, <2>1
    <3> QED BY <1>4, <3>1, <3>2
  <2>3. Final \in States(C) /\ Far(C, L, reversed)[Final] = {<< >>}
    BY DEF States, Far
  <2>4. Turned(S, reversed) \in Short
    BY <2>2, TurnedResult, Types
  <2>5. Turned(S, reversed) \odot {<< >>} = Turned(S, reversed)
    BY <2>4, Unit
  <2> QED BY <2>1, <2>2, <2>3, <2>5 DEF IsEdge
<1>6. CASE places # {}
  <2> DEFINE k == IF reversed THEN 1 ELSE n
             X == rhs[k]
             T == L[X.id]
             U == Product(Values(rhs, L, None), MaxLength)
  <2>1. n # 0 /\ places = {k}
    BY <1>6 DEF Fits
  <2>2. k \in 1..n /\ X.kind = "nonterminal" /\ X.id \in C /\ X \in K
    <3>1. k \in 1..n
      BY <1>1, <2>1
    <3>2. X \in K
      <4> HIDE DEF K
      <4> QED BY <1>1, <3>1
    <3> HIDE DEF k
    <3> QED BY <1>3, <2>1, <3>1, <3>2
  <2>3. (CHOOSE i \in places : TRUE) = k
    <3> HIDE DEF places, k
    <3> QED BY <2>1
  <2>4. TargetOf(C, r) = X.id
    BY <1>6, <2>3 DEF TargetOf
  <2>5. way = IF reversed THEN SubSeq(rhs, k + 1, n) ELSE SubSeq(rhs, 1, k - 1)
    BY <1>6, <2>3 DEF OnTheWay
  <2>6. way = IF reversed THEN SubSeq(rhs, 2, n) ELSE SubSeq(rhs, 1, n - 1)
    BY <2>5
  <2>7. /\ way \in Seq(K) /\ Len(way) = n - 1
        /\ \A i \in 1..n - 1 : way[i] = IF reversed THEN rhs[i + 1] ELSE rhs[i]
        /\ rhs = IF reversed THEN <<X>> \o way ELSE way \o <<X>>
    <3> DEFINE s == rhs
    <3>1. s \in Seq(K) /\ Len(s) # 0
      BY <1>1, <2>1
    <3> HIDE DEF s, K
    <3>2. /\ SubSeq(s, 1, Len(s) - 1) \in Seq(K) /\ Len(SubSeq(s, 1, Len(s) - 1)) = Len(s) - 1
          /\ \A i \in 1..Len(s) - 1 : SubSeq(s, 1, Len(s) - 1)[i] = s[i]
          /\ SubSeq(s, 2, Len(s)) \in Seq(K) /\ Len(SubSeq(s, 2, Len(s))) = Len(s) - 1
          /\ \A i \in 1..Len(s) - 1 : SubSeq(s, 2, Len(s))[i] = s[i + 1]
          /\ s = SubSeq(s, 1, Len(s) - 1) \o <<s[Len(s)]>>
          /\ s = <<s[1]>> \o SubSeq(s, 2, Len(s))
      BY <3>1, EndsOff
    <3>3. CASE reversed
      BY <2>6, <3>2, <3>3 DEF s
    <3>4. CASE ~reversed
      BY <2>6, <3>2, <3>4 DEF s
    <3> QED BY <3>3, <3>4
  <2>8. /\ Values(way, L, None) = Values(way, D, None)
        /\ Way(C, r, reversed) \in Expression /\ Way(C, r, reversed).words = Turned(S, reversed)
        /\ S \in Short
    <3>1. \A i \in 1..Len(way) : \E j \in 1..n : way[i] = rhs[j] /\ j \notin places
      <4> SUFFICES ASSUME NEW i \in 1..Len(way)
                   PROVE  \E j \in 1..n : way[i] = rhs[j] /\ j \notin places
        OBVIOUS
      <4>1. i \in 1..n - 1 /\ i \in 1..n /\ i + 1 \in 1..n /\ i # n /\ i + 1 # 1
        <5> HIDE DEF n, way
        <5> QED BY <1>1, <2>7
      <4>2. way[i] = IF reversed THEN rhs[i + 1] ELSE rhs[i]
        <5> HIDE DEF n, way, rhs
        <5> QED BY <2>7, <4>1
      <4> HIDE DEF way, rhs, places, n
      <4> QED BY <2>1, <4>1, <4>2
    <3> HIDE DEF way
    <3> QED BY <1>4, <2>7, <3>1
  <2>9. X.id \in States(C) /\ X.id # Final /\ Far(C, L, reversed)[X.id] = Turned(T, reversed) /\ T \in Language
    <3>1. X.id \in V /\ X.id # Final
      BY <1>2, <2>2
    <3> HIDE DEF X
    <3> QED BY <2>2, <3>1 DEF States, Far, Reading
  <2>10. /\ Product(Values(<<X>>, L, None), MaxLength) = Cut(T, MaxLength)
         /\ <<X>> \in Seq(K) /\ Values(<<X>>, L, None) \in Seq(Language)
    <3> DEFINE e == <<X>>
    <3>1. e \in Seq(K) /\ Len(e) = 1 /\ e[1] = X
      <4> HIDE DEF X, K
      <4> QED BY <2>2
    <3>2. StringsOf(X, L, None) = T
      <4> HIDE DEF X
      <4> QED BY <2>2 DEF StringsOf, T
    <3>3. Values(e, L, None) = <<T>>
      <4>1. Values(e, L, None) = [i \in 1..1 |-> StringsOf(e[i], L, None)]
        BY <3>1 DEF Values
      <4> HIDE DEF e, T
      <4>2. \A i \in 1..1 : StringsOf(e[i], L, None) = T
        BY <3>1, <3>2
      <4> QED BY <4>1, <4>2
    <3> HIDE DEF T, e
    <3>4. Product(<<T>>, MaxLength) = Cut(T, MaxLength) /\ <<T>> \in Seq(Language)
      BY <2>9, MaxLengthAssumption, ProductOfOne
    <3> QED BY <3>1, <3>3, <3>4 DEF e
  <2>11. Values(way, L, None) \in Seq(Language) /\ Product(Values(way, L, None), MaxLength) = S
    <3> HIDE DEF way, K
    <3>1. Values(way, L, None) \in Seq(Language)
      BY <1>1, <2>7, ValuesResult DEF K
    <3> QED BY <2>8, <3>1
  <2>12. U = IF reversed THEN Cut(T, MaxLength) \odot S ELSE S \odot Cut(T, MaxLength)
    <3> DEFINE a == Values(<<X>>, L, None)
               b == Values(way, L, None)
               e == <<X>>
    <3>1. Values(rhs, L, None) = IF reversed THEN a \o b ELSE b \o a
      <4>1. e \in Seq(K) /\ way \in Seq(K) /\ rhs = IF reversed THEN e \o way ELSE way \o e
        BY <2>7, <2>10
      <4> HIDE DEF e, way, K, rhs
      <4>2. Values(e \o way, L, None) = Values(e, L, None) \o Values(way, L, None)
        <5>1. ReadsBoth(e, way, L, None)
          BY <1>1, <4>1, BothRead, Zenon DEF K
        <5> QED BY <5>1 DEF ReadsBoth
      <4>3. Values(way \o e, L, None) = Values(way, L, None) \o Values(e, L, None)
        <5>1. ReadsBoth(way, e, L, None)
          BY <1>1, <4>1, BothRead, Zenon DEF K
        <5> QED BY <5>1 DEF ReadsBoth
      <4>4. a = Values(e, L, None)
        BY DEF e
      <4> HIDE DEF b
      <4>5. b = Values(way, L, None)
        BY DEF b
      <4> HIDE DEF a
      <4>6. CASE reversed
        BY <4>1, <4>2, <4>4, <4>5, <4>6
      <4>7. CASE ~reversed
        BY <4>1, <4>3, <4>4, <4>5, <4>7
      <4> QED BY <4>6, <4>7
    <3>2. a \in Seq(Language) /\ b \in Seq(Language)
          /\ Product(a, MaxLength) = Cut(T, MaxLength) /\ Product(b, MaxLength) = S
      BY <2>10, <2>11
    <3> HIDE DEF a, b, T, S
    <3>3. /\ Product(a \o b, MaxLength) = Concatenated(Product(a, MaxLength), Product(b, MaxLength), MaxLength)
          /\ Product(b \o a, MaxLength) = Concatenated(Product(b, MaxLength), Product(a, MaxLength), MaxLength)
      BY <3>2, MaxLengthAssumption, ProductOfBoth
    <3>4. U = Product(IF reversed THEN a \o b ELSE b \o a, MaxLength)
      <4> HIDE DEF rhs
      <4> QED BY <3>1
    <3> HIDE DEF U
    <3>5. CASE reversed
      BY <3>2, <3>3, <3>4, <3>5 DEF \odot
    <3>6. CASE ~reversed
      BY <3>2, <3>3, <3>4, <3>6 DEF \odot
    <3> QED BY <3>5, <3>6
  <2>13. U = IF reversed THEN T \odot S ELSE S \odot T
    <3>1. S \in Language
      BY <2>8, Types
    <3> HIDE DEF S, T, U
    <3>2. /\ Concatenated(S, Cut(T, MaxLength), MaxLength) = Concatenated(S, T, MaxLength)
          /\ Concatenated(Cut(T, MaxLength), S, MaxLength) = Concatenated(T, S, MaxLength)
      BY <2>9, <3>1, MaxLengthAssumption, ConcatenatedCut
    <3> QED BY <2>12, <3>2 DEF \odot
  <2>14. Turned(U, reversed) = Turned(S, reversed) \odot Turned(T, reversed)
    <3>1. S \in Language
      BY <2>8, Types
    <3> HIDE DEF S, T, U
    <3>2. CASE reversed
      BY <2>9, <2>13, <3>1, <3>2, TurnedConcatenation
    <3>3. CASE ~reversed
      BY <2>9, <2>13, <3>1, <3>3, TurnedConcatenation
    <3> QED BY <3>2, <3>3
  <2> HIDE DEF T, S, U
  <2> QED BY <2>4, <2>8, <2>9, <2>14 DEF IsEdge, U
<1> QED BY <1>5, <1>6

LEMMA UnionOfResult ==
  ASSUME NEW S, S \subseteq Expression
  PROVE  /\ UnionOf(S) \in Expression
         /\ \A w : w \in UnionOf(S).words <=> \E e \in S : w \in e.words
<1>1. \A e \in S : e.words \in Short
  BY DEF Expression
<1>2. \A w : w \in UnionOf(S).words <=> \E e \in S : w \in e.words
  BY DEF UnionOf
<1>3. UNION {e.words : e \in S} \in Short
  <2> DEFINE U == UNION {e.words : e \in S}
  <2>1. \A e \in S : e.words \in Language /\ \A w \in e.words : Len(w) <= MaxLength
    BY <1>1 DEF Short
  <2>2. \A w \in U : \E e \in S : w \in e.words
    OBVIOUS
  <2>3. \A w \in U : w \in Seq(Byte)
    BY <2>1, <2>2 DEF Language
  <2>4. U \in Language
    <3> HIDE DEF U
    <3> QED BY <2>3 DEF Language
  <2>5. \A w \in U : Len(w) <= MaxLength
    <3> HIDE DEF U
    <3> QED BY <2>1, <2>2
  <2> HIDE DEF U
  <2>6. U \in Short
    BY <2>4, <2>5 DEF Short
  <2> QED BY <2>6 DEF U
<1>4. (\A e \in S : e.reversible) \in BOOLEAN
  OBVIOUS
<1>5. UnionOf(S) \in Expression
  BY <1>3, <1>4 DEF UnionOf, Expression
<1> QED BY <1>2, <1>5

\* All rules of C mention C where the elimination wants it.
IsLinear(C, D, reversed) ==
  DependenciesDone(C, D) /\ reversed \in BOOLEAN /\ \A r \in RulesIn(C) : Fits(C, r, reversed)

LEMMA FirstEdgesResult ==
  ASSUME NEW C, NEW D, NEW reversed, IsLinear(C, D, reversed)
  PROVE  /\ FirstEdges(C, reversed) \in Edges(C)
         /\ \A x \in States(C), y \in States(C) : \A w :
              w \in Label(FirstEdges(C, reversed), x, y) <=>
                \E r \in RulesIn(C) : r.lhs = x /\ TargetOf(C, r) = y /\ w \in Way(C, r, reversed).words
<1> DEFINE RulesOn(e) == {r \in RulesIn(C) : r.lhs = e[1] /\ TargetOf(C, r) = e[2]}
           labels(e) == {Way(C, r, reversed) : r \in RulesOn(e)}
           E == FirstEdges(C, reversed)
           P == States(C) \X States(C)
<1>1. \A r \in RulesIn(C) : Way(C, r, reversed) \in Expression
  <2>1. \A r \in RulesIn(C) : IsEdge(C, r, D, reversed)
    BY RuleIsEdge DEF IsLinear, DependenciesDone
  <2> QED BY <2>1 DEF IsEdge
<1>2. E = [e \in P |-> UnionOf(labels(e))]
  BY DEF FirstEdges, Way, States
<1>3. ASSUME NEW e \in P
      PROVE  /\ UnionOf(labels(e)) \in Expression
             /\ \A w : w \in UnionOf(labels(e)).words <=> \E r \in RulesOn(e) : w \in Way(C, r, reversed).words
  <2>1. labels(e) \subseteq Expression
    BY <1>1
  <2> DEFINE S == labels(e)
  <2>2. \A w : (\E f \in S : w \in f.words) <=> \E r \in RulesOn(e) : w \in Way(C, r, reversed).words
    OBVIOUS
  <2> HIDE DEF S
  <2>3. UnionOf(S) \in Expression /\ \A w : w \in UnionOf(S).words <=> \E f \in S : w \in f.words
    BY <2>1, UnionOfResult DEF S
  <2> QED BY <2>2, <2>3 DEF S
<1>4. E \in Edges(C)
  BY <1>2, <1>3 DEF Edges
<1>5. ASSUME NEW x \in States(C), NEW y \in States(C), NEW w
      PROVE  w \in Label(E, x, y) <=>
               \E r \in RulesIn(C) : r.lhs = x /\ TargetOf(C, r) = y /\ w \in Way(C, r, reversed).words
  <2> DEFINE e == <<x, y>>
  <2>1. e \in P /\ e[1] = x /\ e[2] = y
    OBVIOUS
  <2>2. Label(E, x, y) = UnionOf(labels(e)).words
    BY <1>2, <2>1 DEF Label
  <2>3. w \in Label(E, x, y) <=> \E r \in RulesOn(e) : w \in Way(C, r, reversed).words
    BY <1>3, <2>1, <2>2
  <2> QED BY <2>1, <2>3
<1> QED BY <1>4, <1>5

\* What is derived, the edges do not lead out of.
LEMMA FirstEdgesAreSound ==
  ASSUME NEW C, NEW D, NEW reversed, IsLinear(C, D, reversed)
  PROVE  /\ Far(C, D, reversed) \in [States(C) -> Language]
         /\ IsSound(FirstEdges(C, reversed), C, Far(C, D, reversed))
<1> DEFINE E == FirstEdges(C, reversed)
           X == Far(C, D, reversed)
           V == grammar.nonterminals
<1>1. /\ D \in Reading(V) /\ C \subseteq V /\ Final \notin V /\ reversed \in BOOLEAN
      /\ \A A \in V : D[A] \in Language
      /\ RulesHold(grammar, None, MaxLength, D)
  <2>1. D \in Reading(V) /\ C \subseteq V /\ Final \notin V /\ reversed \in BOOLEAN
        /\ RulesHold(grammar, None, MaxLength, D)
    BY DEF IsLinear, DependenciesDone, IsLeastClosed
  <2> QED BY <2>1 DEF Reading
<1>2. \A x \in C : x # Final /\ X[x] = Turned(D[x], reversed) /\ D[x] \in Language
  BY <1>1 DEF Far, States
<1>3. X \in [States(C) -> Language]
  <2>1. \A x \in C : Turned(D[x], reversed) \in Language
    BY <1>1, <1>2, TurnedResult
  <2>2. {<< >>} \in Language
    BY Types
  <2> QED BY <2>1, <2>2 DEF Far, States
<1>4. ASSUME NEW x \in States(C), NEW y \in States(C), NEW w \in Label(E, x, y) \odot X[y]
      PROVE  w \in X[x]
  <2>1. Label(E, x, y) \in Language /\ X[y] \in Language
    <3>1. E \in Edges(C)
      BY FirstEdgesResult
    <3>2. E[<<x, y>>] \in Expression
      BY <3>1 DEF Edges
    <3> QED BY <1>3, <3>2, Types DEF Expression, Label
  <2>2. PICK u \in Label(E, x, y), v \in X[y] : w = u \o v /\ Len(u) + Len(v) <= MaxLength
    <3> DEFINE S == Label(E, x, y)
               T == X[y]
    <3>1. S \in Language /\ T \in Language /\ w \in Concatenated(S, T, MaxLength)
      BY <2>1 DEF \odot
    <3> HIDE DEF S, T
    <3>2. IsConcatenation(Concatenated(S, T, MaxLength), S, T, MaxLength)
      BY <3>1, MaxLengthAssumption, ConcatenatedResult
    <3> QED BY <3>1, <3>2 DEF IsConcatenation, S, T
  <2>3. PICK r \in RulesIn(C) : r.lhs = x /\ TargetOf(C, r) = y /\ u \in Way(C, r, reversed).words
    BY <2>2, FirstEdgesResult
  <2>4. r \in ToSet(grammar.rules) /\ r.lhs \in C /\ x \in C
    BY <2>3, RuleTypes DEF IsLinear
  <2> DEFINE U == Product(Values(r.rhs, D, None), MaxLength)
             W == Way(C, r, reversed).words
             T == X[y]
  <2>5. Turned(U, reversed) = W \odot T /\ W \in Language
    <3>1. IsEdge(C, r, D, reversed)
      BY RuleIsEdge DEF IsLinear, DependenciesDone
    <3> QED BY <2>3, <3>1, Types DEF IsEdge, Expression
  <2>6. u \o v \in W \odot T
    <3>1. u \in W /\ v \in T /\ W \in Language /\ T \in Language /\ Len(u) + Len(v) <= MaxLength
      BY <2>1, <2>2, <2>3, <2>5
    <3> DEFINE s == u \o v
    <3> HIDE DEF W, T
    <3>2. IsConcatenation(Concatenated(W, T, MaxLength), W, T, MaxLength)
      BY <3>1, MaxLengthAssumption, ConcatenatedResult
    <3>3. \E a \in W, b \in T : s = a \o b /\ Len(a) + Len(b) <= MaxLength
      BY <3>1
    <3> HIDE DEF s
    <3>4. s \in Concatenated(W, T, MaxLength)
      BY <3>1, <3>2, <3>3 DEF IsConcatenation, s
    <3> QED BY <3>4 DEF \odot, s
  <2>7. U \subseteq D[x] /\ D[x] \in Language /\ U \in Language
    <3>1. U \subseteq D[x]
      BY <1>1, <2>3, <2>4 DEF RulesHold
    <3>2. D[x] \in Language
      BY <1>2, <2>4
    <3> HIDE DEF U
    <3> QED BY <3>1, <3>2 DEF Language
  <2>8. Turned(U, reversed) \subseteq Turned(D[x], reversed)
    <3> DEFINE Q == D[x]
    <3> HIDE DEF U, Q
    <3>1. U \in Language /\ Q \in Language /\ U \subseteq Q
      BY <2>7 DEF Q
    <3>2. Turned(U, reversed) \subseteq Turned(Q, reversed)
      BY <1>1, <3>1, TurnedResult
    <3> QED BY <3>2 DEF Q
  <2>9. X[x] = Turned(D[x], reversed)
    BY <1>2, <2>4
  <2> HIDE DEF U, X
  <2> QED BY <2>2, <2>5, <2>6, <2>8, <2>9
<1>5. IsSound(E, C, X)
  <2> HIDE DEF E, X
  <2> QED BY <1>4 DEF IsSound
<1> QED BY <1>3, <1>5

-----------------------------------------------------------------------------
(* The elimination of all members of a component, one after the other. *)

EliminationStep(C) == [q \in Edges(C) \X C |-> Eliminated(q[1], q[2])]

LEMMA EliminationFolds ==
  ASSUME NEW C, NEW edges \in Edges(C), NEW order \in Seq(C)
  PROVE  /\ IsStep(EliminationStep(C), Edges(C), C)
         /\ \A e \in Edges(C), p \in C : EliminationStep(C)[<<e, p>>] = Eliminated(e, p)
         /\ FoldLeft(Eliminated, edges, order) = Folded(EliminationStep(C), edges, order)
<1> DEFINE A == Edges(C)
           B == C
           a == edges
           s == order
           F == EliminationStep(C)
           Equation(g) ==
             g = [T \in SUBSET DOMAIN s |->
                    IF T = {} THEN a ELSE LET x == Max(T) IN Eliminated(g[T \ {x}], s[x])]
           iter == CHOOSE g : Equation(g)
           p == Partial(F, a, s)
<1>1. IsStep(F, A, B) /\ a \in A /\ \A e \in A, X \in B : F[<<e, X>>] = Eliminated(e, X)
  <2>1. \A e \in A, X \in B : Eliminated(e, X) \in A
    BY EliminatedResult
  <2>2. a \in A
    OBVIOUS
  <2> HIDE DEF A, a
  <2> QED BY <2>1, <2>2 DEF EliminationStep, IsStep, A
<1>2. s \in Seq(B) /\ DOMAIN s = 1..Len(s)
  OBVIOUS
<1>3. FoldLeft(Eliminated, a, s) = iter[DOMAIN s]
  BY Zenon DEF FoldLeft, MapThenFoldSet
<1> HIDE DEF A, F, a
<1>4. StepsAs(p, A, B, F, a, s)
  BY <1>1, <1>2, PartialSteps, Zenon
<1> HIDE DEF p
<1>5. ASSUME NEW T \in SUBSET DOMAIN s, T # {}
      PROVE  p[T] = Eliminated(p[T \ {Max(T)}], s[Max(T)])
  <2>1. /\ p[T \ {Max(T)}] \in A /\ s[Max(T)] \in B
        /\ p[T] = F[<<p[T \ {Max(T)}], s[Max(T)]>>]
    BY <1>4, <1>5 DEF StepsAs
  <2> QED BY <1>1, <2>1
<1>6. Equation(p)
  BY <1>4, <1>5 DEF StepsAs
<1>7. Equation(iter)
  <2> HIDE DEF Equation
  <2> QED BY <1>6
<1> HIDE DEF iter
<1>8. StepAlike(iter, p, Len(s))
  <2>1. {} \in SUBSET DOMAIN s
    OBVIOUS
  <2>2. \A g : Equation(g) => g[{}] = a
    BY <2>1
  <2>3. ASSUME NEW T \in SUBSET DOMAIN s, T # {}, iter[T \ {Max(T)}] = p[T \ {Max(T)}]
        PROVE  iter[T] = p[T]
    <3>1. iter[T] = Eliminated(iter[T \ {Max(T)}], s[Max(T)])
      BY <1>7, <2>3
    <3> QED BY <1>5, <2>3, <3>1
  <2>4. iter[{}] = p[{}]
    <3> HIDE DEF Equation
    <3> QED BY <1>6, <1>7, <2>2
  <2> HIDE DEF Equation
  <2> QED BY <1>2, <2>3, <2>4 DEF StepAlike
<1>9. FoldsTo(iter, F, a, s)
  BY <1>1, <1>2, <1>8, FoldsAlike, Zenon DEF p
<1>10. FoldLeft(Eliminated, a, s) = Folded(F, a, s)
  BY <1>2, <1>3, <1>9, Zenon DEF FoldsTo
<1> QED BY <1>1, <1>10 DEF F, a, A

\* What new has when it goes past the members T of edges.
GoesPast(new, edges, C, X, T) ==
  new \in Edges(C) /\ HasMore(new, edges, C) /\ IsSound(new, C, X) /\ Bypasses(new, C, T)

LEMMA EliminationResult ==
  ASSUME NEW C, NEW edges \in Edges(C), NEW order \in Seq(C),
         NEW X \in [States(C) -> Language], IsSound(edges, C, X)
  PROVE  GoesPast(FoldLeft(Eliminated, edges, order), edges, C, X, ToSet(order))
<1> DEFINE F == EliminationStep(C)
           R(s) == Folded(F, edges, s)
           P == {s \in Seq(C) : GoesPast(R(s), edges, C, X, ToSet(s))}
<1>1. /\ IsStep(F, Edges(C), C) /\ \A e \in Edges(C), p \in C : F[<<e, p>>] = Eliminated(e, p)
      /\ FoldLeft(Eliminated, edges, order) = R(order)
  BY EliminationFolds
<1> HIDE DEF F
<1>2. R(<< >>) = edges
  BY <1>1, FoldedEmpty, Zenon
<1>3. << >> \in P
  <2>1. ToSet(<< >>) = {} /\ << >> \in Seq(C)
    BY DEF ToSet
  <2>2. HasMore(edges, edges, C) /\ Bypasses(edges, C, {})
    BY DEF HasMore, Bypasses
  <2> QED BY <1>2, <2>1, <2>2 DEF GoesPast
<1>4. ASSUME NEW s \in Seq(C), NEW p \in C, s \in P
      PROVE  Append(s, p) \in P
  <2> DEFINE e == R(s)
             f == Eliminated(e, p)
             T == ToSet(s)
  <2>1. \A t \in Seq(C), Y \in C : R(Append(t, Y)) = F[<<R(t), Y>>]
    BY <1>1, FoldedLast
  <2>2. e \in Edges(C) /\ HasMore(e, edges, C) /\ IsSound(e, C, X) /\ Bypasses(e, C, T)
    BY <1>4 DEF GoesPast
  <2>3. R(Append(s, p)) = f
    BY <1>1, <2>1, <2>2, Zenon
  <2>4. T \in SUBSET C /\ ToSet(Append(s, p)) = T \cup {p} /\ Append(s, p) \in Seq(C)
    <3> DEFINE t == Append(s, p)
    <3>1. /\ Len(t) = Len(s) + 1 /\ Len(s) \in Nat /\ t[Len(s) + 1] = p /\ t \in Seq(C)
          /\ DOMAIN t = 1..Len(s) + 1 /\ DOMAIN s = 1..Len(s)
          /\ \A i \in 1..Len(s) : t[i] = s[i] /\ s[i] \in C
      OBVIOUS
    <3> HIDE DEF t
    <3>2. 1..Len(s) + 1 = (1..Len(s)) \cup {Len(s) + 1}
      BY <3>1
    <3>3. ToSet(t) = T \cup {p}
      BY <3>1, <3>2 DEF ToSet
    <3>4. T \in SUBSET C
      BY <3>1 DEF ToSet
    <3> QED BY <3>1, <3>3, <3>4 DEF t
  <2> HIDE DEF R, P, e, T
  <2>5. f \in Edges(C)
    BY <2>2, EliminatedResult
  <2>6. IsSound(f, C, X) /\ HasMore(f, e, C)
    BY <2>2, EliminatedIsSound
  <2>7. Bypasses(f, C, T \cup {p})
    BY <2>2, <2>4, EliminatedBypasses
  <2>8. HasMore(f, edges, C)
    <3> HIDE DEF f
    <3> QED BY <2>2, <2>6 DEF HasMore
  <2> HIDE DEF f
  <2> QED BY <2>3, <2>4, <2>5, <2>6, <2>7, <2>8 DEF P, GoesPast
<1>5. order \in P
  <2> HIDE DEF P
  <2> QED BY <1>3, <1>4, SequenceInduction
<1> QED BY <1>1, <1>5

LEMMA AscendingArranges ==
  ASSUME NEW S \in SUBSET Nat, IsFiniteSet(S)
  PROVE  Ascending(S) \in Seq(S) /\ ToSet(Ascending(S)) = S
<1> DEFINE s == Ascending(S)
<1>1. Arranges(s, S)
  <2>1. PICK t : Arranges(t, S)
    BY AscendingExists
  <2>2. t \in SetToSeqs(S) /\ (\A i, j \in DOMAIN t : i < j => t[i] < t[j])
    BY <2>1 DEF Arranges, IsAscending
  <2>3. s \in SetToSeqs(S) /\ (\A i, j \in DOMAIN s : i < j => s[i] < s[j])
    BY <2>2 DEF Ascending
  <2> QED BY <2>3 DEF Arranges, IsAscending
<1> HIDE DEF s
<1>2. s \in Seq(S) /\ ToSet(s) = S
  BY <1>1, ArrangedResult
<1> QED BY <1>2 DEF s

AllEliminated(C, reversed) == FoldLeft(Eliminated, FirstEdges(C, reversed), Ascending(C))

\* The edges to the final state have what D has, turned.
AreFinal(edges, C, D, reversed) ==
  edges \in Edges(C) /\ \A A \in C : Label(edges, A, Final) = Turned(D[A], reversed)

\* What is left of the edges of a component is what its members derive.
LEMMA EliminationIsExact ==
  ASSUME NEW C, NEW D, NEW reversed, IsLinear(C, D, reversed), C \in SUBSET Nat, IsFiniteSet(C)
  PROVE  AreFinal(AllEliminated(C, reversed), C, D, reversed)
<1> DEFINE V == grammar.nonterminals
           E == FirstEdges(C, reversed)
           G == AllEliminated(C, reversed)
           X == Far(C, D, reversed)
           To(A) == Label(G, A, Final)
           L == [A \in V |-> IF A \in C THEN Turned(To(A), reversed) ELSE D[A]]
<1>1. /\ D \in Reading(V) /\ C \in SUBSET V /\ Final \notin V /\ reversed \in BOOLEAN
      /\ \A A \in V : D[A] \in Language /\ D[A] \in Short
      /\ IsReadable(grammar, None) /\ IsLeastClosed(grammar, None, MaxLength, D)
      /\ DependenciesDone(C, D)
  <2>1. /\ D \in Reading(V) /\ C \in SUBSET V /\ Final \notin V /\ reversed \in BOOLEAN
        /\ \A A \in V : D[A] \in Short
        /\ IsReadable(grammar, None) /\ IsLeastClosed(grammar, None, MaxLength, D)
        /\ DependenciesDone(C, D)
    BY DEF IsLinear, DependenciesDone
  <2> QED BY <2>1 DEF Reading
<1>2. X \in [States(C) -> Language] /\ IsSound(E, C, X) /\ E \in Edges(C)
  BY FirstEdgesAreSound, FirstEdgesResult
<1>3. GoesPast(G, E, C, X, C)
  <2> DEFINE s == Ascending(C)
  <2>1. s \in Seq(C) /\ ToSet(s) = C
    BY AscendingArranges
  <2> HIDE DEF s, E, X
  <2>2. GoesPast(FoldLeft(Eliminated, E, s), E, C, X, ToSet(s))
    BY <1>2, <2>1, EliminationResult
  <2> QED BY <2>1, <2>2 DEF AllEliminated, s, E
<1>4. G \in Edges(C) /\ HasMore(G, E, C) /\ IsSound(G, C, X) /\ Bypasses(G, C, C)
  BY <1>3 DEF GoesPast
<1> HIDE DEF G, E
<1>5. \A x \in States(C), y \in States(C) : Label(G, x, y) \in Short /\ Label(G, x, y) \in Language
  <2>1. \A x \in States(C), y \in States(C) : G[<<x, y>>] \in Expression
    BY <1>4 DEF Edges
  <2> QED BY <2>1, Types DEF Expression, Label
<1>6. Final \in States(C) /\ \A A \in C : A \in States(C) /\ A # Final
  BY <1>1 DEF States
<1>7. ASSUME NEW A \in C
      PROVE  To(A) \subseteq Turned(D[A], reversed)
  <2>1. To(A) \odot X[Final] \subseteq X[A]
    BY <1>4, <1>6 DEF IsSound
  <2>2. X[Final] = {<< >>} /\ X[A] = Turned(D[A], reversed)
    BY <1>6 DEF Far
  <2>3. To(A) \odot {<< >>} = To(A)
    BY <1>5, <1>6, Unit
  <2> HIDE DEF To
  <2> QED BY <2>1, <2>2, <2>3
<1>8. /\ L \in Reading(V)
      /\ \A A \in V \ C : L[A] = D[A]
      /\ \A A \in C : L[A] = Turned(To(A), reversed) /\ Turned(L[A], reversed) = To(A)
  <2>1. \A A \in C : /\ Turned(To(A), reversed) \in Language
                     /\ Turned(Turned(To(A), reversed), reversed) = To(A)
    BY <1>1, <1>5, <1>6, TurnedResult
  <2> HIDE DEF To
  <2>2. \A A \in V : L[A] \in Language
    BY <1>1, <2>1
  <2>3. \A A \in C : A \in V
    BY <1>1
  <2> QED BY <2>1, <2>2, <2>3 DEF Reading
<1>9. ASSUME NEW r \in ToSet(grammar.rules), r.lhs \in C
      PROVE  Product(Values(r.rhs, L, None), MaxLength) \subseteq L[r.lhs]
  <2> DEFINE U == Product(Values(r.rhs, L, None), MaxLength)
             W == Way(C, r, reversed).words
             t == TargetOf(C, r)
             T == Far(C, L, reversed)[t]
             A == r.lhs
  <2>1. r \in RulesIn(C) /\ Fits(C, r, reversed)
    <3>1. r \in RulesIn(C)
      BY <1>9 DEF RulesIn, RulesOf
    <3> QED BY <3>1 DEF IsLinear
  <2>2. t \in States(C) /\ W \in Language /\ W \in Short /\ Turned(U, reversed) = W \odot T
    <3>1. IsEdge(C, r, L, reversed)
      <4> HIDE DEF L
      <4> QED BY <1>1, <1>8, <2>1, RuleIsEdge
    <3> QED BY <3>1, Types DEF IsEdge, Expression
  <2>3. W \subseteq Label(G, A, t)
    <3>1. W \subseteq Label(E, A, t)
      <4> HIDE DEF W
      <4>1. \A w \in W : w \in Label(E, A, t)
        BY <1>6, <1>9, <2>1, <2>2, FirstEdgesResult DEF W, E
      <4> QED BY <4>1
    <3> HIDE DEF W
    <3> QED BY <1>4, <1>6, <1>9, <2>2, <3>1 DEF HasMore
  <2>4. W \odot T \subseteq To(A)
    <3>1. CASE t = Final
      <4>1. T = {<< >>}
        BY <3>1, <1>6 DEF Far
      <4>2. W \odot {<< >>} = W
        BY <2>2, Unit
      <4> HIDE DEF W, T
      <4> QED BY <2>3, <3>1, <4>1, <4>2
    <3>2. CASE t # Final
      <4>1. t \in C
        BY <2>2, <3>2 DEF States
      <4>2. T = To(t)
        <5>1. T = Turned(L[t], reversed)
          BY <2>2, <3>2 DEF Far
        <5> HIDE DEF L, T, To, t
        <5> QED BY <1>8, <4>1, <5>1
      <4> DEFINE S == Label(G, A, t)
                 Q == To(t)
      <4>3. S \in Language /\ Q \in Language /\ W \subseteq S /\ Q \subseteq Q
        BY <1>5, <1>6, <1>9, <2>2, <2>3
      <4>4. S \odot Q \subseteq To(A)
        BY <1>4, <1>6, <1>9, <4>1 DEF Bypasses
      <4> HIDE DEF S, Q, W, T
      <4>5. W \odot Q \subseteq S \odot Q
        BY <2>2, <4>3, Monotonic
      <4> QED BY <4>2, <4>4, <4>5 DEF Q
    <3> QED BY <3>1, <3>2
  <2>5. U \in Language
    <3>1. r.rhs \in Seq(Known(V, None)) /\ AreRegions(None)
      BY <1>1, <2>1, RuleTypes
    <3>2. Values(r.rhs, L, None) \in Seq(Language)
      <4> HIDE DEF L
      <4> QED BY <1>8, <3>1, ValuesResult
    <3> DEFINE v == Values(r.rhs, L, None)
    <3> HIDE DEF v
    <3> QED BY <3>2, MaxLengthAssumption, ProductResult DEF v
  <2>6. U \subseteq Turned(To(A), reversed)
    <3> DEFINE Q == To(A)
               Z == Turned(U, reversed)
    <3>1. Q \in Language /\ U \in Language /\ Z \subseteq Q
      BY <1>5, <1>6, <1>9, <2>2, <2>4, <2>5
    <3> HIDE DEF Q, U
    <3>2. Z \in Language /\ Turned(Z, reversed) = U
      BY <1>1, <3>1, TurnedResult
    <3> HIDE DEF Z
    <3>3. Turned(Z, reversed) \subseteq Turned(Q, reversed)
      BY <1>1, <3>1, <3>2, TurnedResult
    <3> QED BY <3>2, <3>3 DEF Q
  <2> HIDE DEF U, L, To
  <2> QED BY <1>8, <1>9, <2>6 DEF U
<1>10. \A A \in C : D[A] \subseteq L[A]
  <2> HIDE DEF L
  <2>1. \A A \in V \ C : L[A] = D[A]
    BY <1>8
  <2>2. \A r \in ToSet(grammar.rules) : r.lhs \in C => Product(Values(r.rhs, L, None), MaxLength) \subseteq L[r.lhs]
    BY <1>9
  <2>3. L \in Reading(V) /\ C \in SUBSET V /\ IsReadable(grammar, None) /\ IsLeastClosed(grammar, None, MaxLength, D)
    BY <1>1, <1>8
  <2>4. HoldsIn(C, grammar, None, MaxLength, D, L)
    BY <2>1, <2>2, <2>3, MaxLengthAssumption DEF HoldsIn
  <2> QED BY <2>4, ComponentIsLeast
<1>11. ASSUME NEW A \in C
       PROVE  Turned(D[A], reversed) \subseteq To(A)
  <2> DEFINE S == D[A]
             T == L[A]
  <2>1. S \in Language /\ T \in Language /\ S \subseteq T /\ Turned(T, reversed) = To(A)
    <3>1. L[A] \in Language
      BY <1>1, <1>8 DEF Reading
    <3> HIDE DEF L, To
    <3> QED BY <1>1, <1>8, <1>10, <3>1
  <2> HIDE DEF S, T, To
  <2>2. Turned(S, reversed) \subseteq Turned(T, reversed)
    BY <1>1, <2>1, TurnedResult
  <2> QED BY <2>1, <2>2 DEF S
<1>12. \A A \in C : To(A) = Turned(D[A], reversed)
  BY <1>7, <1>11
<1> QED BY <1>4, <1>12 DEF G, AreFinal

-----------------------------------------------------------------------------
(* The expressions of one component. *)

\* f gives each nonterminal of C an expression for what it derives.
IsExact(f, C, D) == DOMAIN f = C /\ \A A \in C : f[A] \in Expression /\ f[A].words = D[A]

\* The members of a linear component.
LEMMA SolvedIsExact ==
  ASSUME NEW C, NEW D, NEW reversed, IsLinear(C, D, reversed), C \in SUBSET Nat, IsFiniteSet(C)
  PROVE  IsExact(Solved(C, reversed), C, D)
<1> DEFINE G == AllEliminated(C, reversed)
           S == Solved(C, reversed)
<1>1. G \in Edges(C) /\ \A A \in C : Label(G, A, Final) = Turned(D[A], reversed)
  <2>1. AreFinal(G, C, D, reversed)
    BY EliminationIsExact
  <2> HIDE DEF G
  <2> QED BY <2>1 DEF AreFinal
<1>2. reversed \in BOOLEAN /\ \A A \in C : D[A] \in Language /\ D[A] \in Short
  <2>1. reversed \in BOOLEAN /\ C \in SUBSET grammar.nonterminals /\ \A A \in grammar.nonterminals : D[A] \in Short
    BY DEF IsLinear, DependenciesDone
  <2> QED BY <2>1, Types
<1>3. S = [A \in C |-> IF reversed THEN Reversed(G[<<A, Final>>]) ELSE G[<<A, Final>>]]
  BY DEF Solved, AllEliminated
<1> HIDE DEF G
<1>4. ASSUME NEW A \in C
      PROVE  S[A] \in Expression /\ S[A].words = D[A]
  <2> DEFINE e == G[<<A, Final>>]
  <2>1. e \in Expression /\ e.words = Turned(D[A], reversed)
    <3>1. <<A, Final>> \in States(C) \X States(C)
      BY DEF States
    <3> QED BY <1>1, <3>1 DEF Edges, Label
  <2>2. Turned(e.words, reversed) = D[A]
    <3> DEFINE T == D[A]
    <3>1. T \in Language
      BY <1>2
    <3> HIDE DEF T, e
    <3>2. Turned(Turned(T, reversed), reversed) = T
      BY <1>2, <3>1, TurnedResult
    <3> QED BY <2>1, <3>2 DEF T
  <2>3. S[A] = IF reversed THEN Reversed(e) ELSE e
    BY <1>3
  <2> HIDE DEF e, S
  <2>4. CASE reversed
    <3>1. S[A] = [e EXCEPT !.words = Backwards(@)] /\ Backwards(e.words) = D[A]
      BY <2>2, <2>3, <2>4 DEF Reversed, Turned
    <3>2. e.words \in Short /\ e.reversible \in BOOLEAN /\ e = [words |-> e.words, reversible |-> e.reversible]
      BY <2>1 DEF Expression
    <3>3. S[A] = [words |-> D[A], reversible |-> e.reversible]
      BY <3>1, <3>2
    <3> QED BY <1>2, <3>2, <3>3 DEF Expression
  <2>5. CASE ~reversed
    BY <2>1, <2>2, <2>3, <2>5 DEF Turned
  <2> QED BY <2>4, <2>5
<1> QED BY <1>3, <1>4 DEF IsExact

\* No rule of a component that is not recursive mentions it.
LEMMA NotRecursive ==
  ASSUME NEW C, IsFiniteSet(C), C \in SUBSET grammar.nonterminals, ~IsRecursive(C), NEW r \in RulesIn(C)
  PROVE  NonterminalsIn(r.rhs) \cap C = {}
<1> SUFFICES ASSUME NEW B \in NonterminalsIn(r.rhs), B \in C
             PROVE  FALSE
  OBVIOUS
<1> DEFINE A == r.lhs
<1>1. A \in C /\ r \in RulesOf(grammar, A)
  BY DEF RulesIn, RulesOf
<1>2. A = B
  <2>1. Cardinality(C) \in Nat /\ ~(Cardinality(C) > 1)
    BY FS_CardinalityType DEF IsRecursive
  <2>2. IsFiniteSet({A}) /\ Cardinality({A}) = 1
    BY FS_Singleton
  <2>3. {A} \in SUBSET C
    BY <1>1
  <2>4. Cardinality({A}) <= Cardinality(C) /\ (Cardinality(C) = Cardinality({A}) => C = {A})
    <3> HIDE DEF A
    <3> QED BY <2>3, FS_Subset
  <2>5. C = {A}
    BY <2>1, <2>2, <2>4
  <2> HIDE DEF A
  <2> QED BY <2>5
<1>3. A \in Successors(A)
  <2> HIDE DEF A
  <2> QED BY <1>1, <1>2 DEF Successors
<1> QED BY <1>1, <1>3 DEF IsRecursive

\* A component that is not recursive.
LEMMA AlternativesAreExact ==
  ASSUME NEW C, NEW D, DependenciesDone(C, D), IsFiniteSet(C), ~IsRecursive(C), NEW A \in C
  PROVE  Alternatives(A) \in Expression /\ Alternatives(A).words = D[A]
<1> DEFINE V == grammar.nonterminals
           rules == RulesOf(grammar, A)
           S == {RhsExpression(r.rhs, FALSE) : r \in rules}
<1>1. /\ D \in Reading(V) /\ (\A B \in V : D[B] \in Short) /\ C \in SUBSET V /\ A \in V
      /\ RulesHold(grammar, None, MaxLength, D)
      /\ \A w \in D[A] : \E r \in ToSet(grammar.rules) :
           r.lhs = A /\ w \in Product(Values(r.rhs, D, None), MaxLength)
  BY DEF DependenciesDone, IsLeastClosed
<1>2. ASSUME NEW r \in rules
      PROVE  /\ RhsExpression(r.rhs, FALSE) \in Expression
             /\ RhsExpression(r.rhs, FALSE).words = Product(Values(r.rhs, D, None), MaxLength)
  <2>1. r \in RulesIn(C)
    BY DEF RulesIn, RulesOf
  <2>2. NonterminalsIn(r.rhs) \cap C = {}
    BY <1>1, <2>1, NotRecursive
  <2> DEFINE rhs == r.rhs
  <2>3. rhs \in Seq(Known(V, None)) /\ NonterminalsIn(rhs) \subseteq NonterminalsIn(rhs) \ C
    BY <2>1, <2>2, RuleTypes
  <2>4. rhs \in Seq(Expressed(D))
    <3>1. \A B \in V \ C : D[B] = D[B]
      OBVIOUS
    <3> QED BY <1>1, <2>1, <2>3, <3>1, WayIsExpressed
  <2> HIDE DEF rhs
  <2>5. /\ RhsExpression(rhs, FALSE) \in Expression
        /\ RhsExpression(rhs, FALSE).words = Turned(Product(Values(rhs, D, None), MaxLength), FALSE)
    BY <1>1, <2>4, ExpressedProduct
  <2> QED BY <2>5 DEF Turned, rhs
<1>3. S \subseteq Expression
  BY <1>2
<1>4. \A w : (\E e \in S : w \in e.words) <=> \E r \in rules : w \in Product(Values(r.rhs, D, None), MaxLength)
  <2>1. \A w : (\E e \in S : w \in e.words) <=> \E r \in rules : w \in RhsExpression(r.rhs, FALSE).words
    OBVIOUS
  <2> QED BY <1>2, <2>1
<1>5. \A w : w \in D[A] <=> \E r \in rules : w \in Product(Values(r.rhs, D, None), MaxLength)
  BY <1>1 DEF RulesHold, RulesOf
<1>6. Alternatives(A) = UnionOf(S)
  BY DEF Alternatives
<1> HIDE DEF S
<1>7. UnionOf(S) \in Expression /\ \A w : w \in UnionOf(S).words <=> \E e \in S : w \in e.words
  BY <1>3, UnionOfResult
<1>8. \A w : w \in UnionOf(S).words <=> w \in D[A]
  BY <1>4, <1>5, <1>7
<1> QED BY <1>6, <1>7, <1>8

\* What certify_component finds.
LEMMA ExpressionsAreExact ==
  ASSUME NEW C, NEW D, DependenciesDone(C, D), C \in SUBSET Nat, IsFiniteSet(C)
  PROVE  /\ OutcomeOf(C) \in Failure => ExpressionsOf(C) = << >>
         /\ OutcomeOf(C) \notin Failure => IsExact(ExpressionsOf(C), C, D)
<1> DEFINE o == OutcomeOf(C)
           d == Orientation(C)
<1>1. d \in {"left", "right", "none"}
  <2> DEFINE found == Orientations(C) \ {"neutral"}
  <2>1. d = IF found = {} THEN "right"
            ELSE IF found \in {{"left"}, {"right"}} THEN CHOOSE p \in found : TRUE ELSE "none"
    BY DEF Orientation
  <2>2. \A x : (CHOOSE p \in {x} : TRUE) = x
    OBVIOUS
  <2> HIDE DEF found, d
  <2>3. CASE found = {"left"}
    BY <2>1, <2>2, <2>3
  <2>4. CASE found = {"right"}
    BY <2>1, <2>2, <2>4
  <2> QED BY <2>1, <2>3, <2>4
<1>2. \A r \in RulesIn(C) : \E B : r.rhs \in Seq(B)
  BY RuleTypes
<1>3. CASE ~IsRecursive(C)
  <2>1. o = "acyclic"
    BY <1>3 DEF OutcomeOf
  <2>2. ExpressionsOf(C) = [A \in C |-> Alternatives(A)]
    BY <2>1 DEF ExpressionsOf
  <2>3. \A A \in C : Alternatives(A) \in Expression /\ Alternatives(A).words = D[A]
    BY <1>3, AlternativesAreExact
  <2> QED BY <2>1, <2>2, <2>3 DEF IsExact, Failure
<1>4. CASE IsRecursive(C) /\ d = "right"
  <2>1. o = "right"
    BY <1>4 DEF OutcomeOf
  <2>2. ExpressionsOf(C) = Solved(C, FALSE)
    BY <2>1 DEF ExpressionsOf
  <2>3. IsLinear(C, D, FALSE)
    <3> DEFINE f == FALSE
    <3>1. f \in BOOLEAN /\ d = IF f THEN "left" ELSE "right"
      BY <1>4
    <3> HIDE DEF f
    <3>2. \A r \in RulesIn(C) : Fits(C, r, f)
      BY <1>2, <3>1, OrientationFits
    <3> QED BY <3>1, <3>2 DEF IsLinear, f
  <2>4. IsExact(Solved(C, FALSE), C, D)
    BY <2>3, SolvedIsExact
  <2> QED BY <2>1, <2>2, <2>4 DEF Failure
<1>5. CASE IsRecursive(C) /\ d = "left"
  <2>1. o = IF CanReverse(C) THEN "left" ELSE "operation"
    BY <1>5 DEF OutcomeOf
  <2>2. o = "left" => ExpressionsOf(C) = Solved(C, TRUE)
    BY DEF ExpressionsOf
  <2>3. o = "operation" => ExpressionsOf(C) = << >>
    BY DEF ExpressionsOf
  <2>4. IsLinear(C, D, TRUE)
    <3> DEFINE f == TRUE
    <3>1. f \in BOOLEAN /\ d = IF f THEN "left" ELSE "right"
      BY <1>5
    <3> HIDE DEF f
    <3>2. \A r \in RulesIn(C) : Fits(C, r, f)
      BY <1>2, <3>1, OrientationFits
    <3> QED BY <3>1, <3>2 DEF IsLinear, f
  <2>5. IsExact(Solved(C, TRUE), C, D)
    BY <2>4, SolvedIsExact
  <2> QED BY <2>1, <2>2, <2>3, <2>5 DEF Failure
<1>6. CASE IsRecursive(C) /\ d = "none"
  <2>1. o = "shape"
    BY <1>6 DEF OutcomeOf
  <2>2. ExpressionsOf(C) = << >>
    BY <2>1 DEF ExpressionsOf
  <2> QED BY <2>1, <2>2 DEF Failure
<1> QED BY <1>1, <1>3, <1>4, <1>5, <1>6

-----------------------------------------------------------------------------
(* Certification. *)

\* The members of the components certified have expressions, for what they derive.
Certified ==
  /\ cert = [outcome |-> cert.outcome, expressions |-> cert.expressions]
  /\ DOMAIN cert.expressions = UNION {C \in DOMAIN cert.outcome : cert.outcome[C] \notin Failure}
  /\ \A A \in DOMAIN cert.expressions :
       cert.expressions[A] \in Expression /\ cert.expressions[A].words = Derived[given][A]

\* What is derived, of the reduced grammar.
Reads == Derivations(grammar, None, MaxLength)

\* What is known of a component when its turn comes.
LEMMA ComponentFacts ==
  ASSUME ReductionInv, GrammarStands, Reduced, SccInv, CertInv, Certified,
         scc.at = "done", NEW C \in scc.components
  PROVE  /\ C \in SUBSET grammar.nonterminals /\ C \in SUBSET Nat /\ IsFiniteSet(C)
         /\ \A A \in C : Reads[A] = Derived[given][A]
         /\ External(C) \subseteq DOMAIN cert.outcome /\ (\A D \in External(C) : cert.outcome[D] \notin Failure)
              => DependenciesDone(C, Reads)
<1> DEFINE V == grammar.nonterminals
           D == Reads
<1>1. IsGraph(V, Graph) /\ SearchOK(V, Graph, scc) /\ DOMAIN scc.index = V /\ scc.frames = << >>
      /\ IsFiniteSet(C) /\ reduction.at = "done"
  BY GraphStands DEF SccInv
<1>2. UNION scc.components = V
  BY <1>1, NothingWaitsAtEnd
<1>3. V \subseteq Nat \ {0} /\ C \in SUBSET V
  BY <1>2 DEF GrammarStands, IsGrammar
<1>4. IsReadable(grammar, None) /\ IsLeastClosed(grammar, None, MaxLength, D)
      /\ \A A \in V : D[A] = Derived[given][A]
  BY <1>1, DerivedResult DEF None, Reads
<1>5. D \in Reading(V) /\ \A A \in V : D[A] \in Short
  <2>1. D \in Reading(V) /\ \A A \in V : \A w \in D[A] : Len(w) <= MaxLength
    BY <1>4 DEF IsLeastClosed
  <2> HIDE DEF D
  <2> QED BY <2>1 DEF Reading, Short
<1>6. ASSUME External(C) \subseteq DOMAIN cert.outcome, \A K \in External(C) : cert.outcome[K] \notin Failure,
             NEW r \in RulesIn(C), NEW B \in NonterminalsIn(r.rhs) \ C
      PROVE  /\ B \in DOMAIN cert.expressions /\ cert.expressions[B] \in Expression
             /\ cert.expressions[B].words = D[B]
  <2> DEFINE K == ComponentOf(B)
  <2>1. K \in External(C)
    BY DEF External
  <2>2. B \in V
    <3>1. r \in ToSet(grammar.rules)
      BY DEF RulesIn, RulesOf
    <3>2. PICK i \in 1..Len(grammar.rules) : r = grammar.rules[i]
      BY <3>1, RulesByPlace DEF GrammarStands
    <3>3. NonterminalsIn(r.rhs) \subseteq V
      BY <3>2 DEF GrammarStands, IsGrammar
    <3> QED BY <3>3
  <2>3. B \in K
    <3>1. \E X \in scc.components : B \in X
      BY <1>2, <2>2
    <3> QED BY <3>1 DEF ComponentOf
  <2>4. K \in DOMAIN cert.outcome /\ cert.outcome[K] \notin Failure
    BY <1>6, <2>1
  <2> HIDE DEF K
  <2>5. B \in DOMAIN cert.expressions
    BY <2>3, <2>4 DEF Certified
  <2> HIDE DEF D
  <2> QED BY <1>4, <2>2, <2>5 DEF Certified
<1>7. Final \notin V
  BY <1>3 DEF Final
<1> HIDE DEF D
<1>8. /\ External(C) \subseteq DOMAIN cert.outcome /\ (\A K \in External(C) : cert.outcome[K] \notin Failure)
        => DependenciesDone(C, D)
  BY <1>3, <1>4, <1>5, <1>6, <1>7 DEF DependenciesDone
<1> QED BY <1>1, <1>3, <1>4, <1>8 DEF D

LEMMA CertifiedKeeps ==
  ASSUME ReductionInv, GrammarStands, Reduced, SccInv, CertInv, Certified, [Next]_vars
  PROVE  Certified'
<1>1. CASE UNCHANGED <<given, cert>>
  BY <1>1 DEF Certified
<1>2. CASE ReduceStep /\ UNCHANGED <<scc, cert, backend>>
  BY <1>1, <1>2 DEF ReduceStep, MarkProductive, EndProductive, MarkReachable, Rebuild
<1>3. CASE SccStep /\ UNCHANGED <<cert, backend>>
  BY <1>1, <1>3 DEF SccStep, BeginScc, StartRoot, FollowEdge, EndNode, reductionVars
<1>4. CASE \E C \in scc.components : CertifyComponent(C)
  <2>1. PICK C \in scc.components : CertifyComponent(C)
    BY <1>4
  <2>2. /\ scc.at = "done" /\ C \notin DOMAIN cert.outcome /\ External(C) \subseteq DOMAIN cert.outcome
        /\ given' = given
    BY <2>1 DEF CertifyComponent
  <2>3. /\ C \in SUBSET Nat /\ IsFiniteSet(C) /\ \A A \in C : Reads[A] = Derived[given][A]
    BY <2>2, ComponentFacts
  <2> DEFINE failed == {K \in DOMAIN cert.outcome : cert.outcome[K] \in Failure}
             passed == {K \in DOMAIN cert.outcome : cert.outcome[K] \notin Failure}
             passing == {K \in DOMAIN cert'.outcome : cert'.outcome[K] \notin Failure}
  <2>4. ASSUME NEW o
        PROVE  /\ DOMAIN With(cert.outcome, C, o) = {C} \cup DOMAIN cert.outcome
               /\ With(cert.outcome, C, o)[C] = o
               /\ \A K \in DOMAIN cert.outcome : With(cert.outcome, C, o)[K] = cert.outcome[K]
    BY <2>2 DEF With
  <2>5. CASE \E K \in External(C) : cert.outcome[K] \in Failure
    <3> DEFINE o == With(cert.outcome, C, "dependency")
    <3>1. cert' = [cert EXCEPT !.outcome = o]
      BY <2>1, <2>5 DEF CertifyComponent
    <3>2. o[C] \in Failure /\ DOMAIN o = {C} \cup DOMAIN cert.outcome
          /\ \A K \in DOMAIN cert.outcome : o[K] = cert.outcome[K]
      BY <2>4 DEF Failure
    <3> HIDE DEF o
    <3>3. cert' = [outcome |-> o, expressions |-> cert.expressions]
      BY <3>1 DEF Certified
    <3>4. passing = passed
      BY <3>2, <3>3
    <3> HIDE DEF passing, passed
    <3> QED BY <2>2, <3>3, <3>4 DEF Certified, passing, passed
  <2>6. CASE ~\E K \in External(C) : cert.outcome[K] \in Failure
    <3> DEFINE f == ExpressionsOf(C)
               g == cert.expressions
               o == With(cert.outcome, C, OutcomeOf(C))
    <3>1. cert' = [outcome |-> o, expressions |-> Joined(f, g)]
      BY <2>1, <2>6 DEF CertifyComponent
    <3>2. DependenciesDone(C, Reads)
      BY <2>2, <2>6, ComponentFacts
    <3>3. /\ OutcomeOf(C) \in Failure => f = << >>
          /\ OutcomeOf(C) \notin Failure => IsExact(f, C, Reads)
      BY <2>3, <3>2, ExpressionsAreExact
    <3>4. o[C] = OutcomeOf(C) /\ DOMAIN o = {C} \cup DOMAIN cert.outcome
          /\ \A K \in DOMAIN cert.outcome : o[K] = cert.outcome[K]
      BY <2>4
    <3> HIDE DEF o, f
    <3>5. cert'.outcome = o /\ cert'.expressions = Joined(f, g)
          /\ cert' = [outcome |-> cert'.outcome, expressions |-> cert'.expressions]
      BY <3>1
    <3>6. /\ DOMAIN Joined(f, g) = DOMAIN f \cup DOMAIN g
          /\ \A A \in DOMAIN f : Joined(f, g)[A] = f[A]
          /\ \A A \in DOMAIN g \ DOMAIN f : Joined(f, g)[A] = g[A]
      BY DEF Joined
    <3>7. DOMAIN g = UNION passed
          /\ \A A \in DOMAIN g : g[A] \in Expression /\ g[A].words = Derived[given][A]
      BY DEF Certified
    <3>8. \A A \in DOMAIN f : f[A] \in Expression /\ f[A].words = Derived[given][A]
      <4>1. CASE OutcomeOf(C) \in Failure
        <5>1. DOMAIN f = {}
          BY <3>3, <4>1
        <5> QED BY <5>1
      <4>2. CASE OutcomeOf(C) \notin Failure
        BY <2>3, <3>3, <4>2 DEF IsExact
      <4> QED BY <4>1, <4>2
    <3>9. DOMAIN f \cup DOMAIN g = UNION passing
      <4>1. CASE OutcomeOf(C) \in Failure
        <5>1. DOMAIN f = {} /\ passing = passed
          BY <3>3, <3>4, <3>5, <4>1
        <5> QED BY <3>7, <5>1
      <4>2. CASE OutcomeOf(C) \notin Failure
        <5>1. DOMAIN f = C /\ passing = {C} \cup passed
          BY <2>2, <3>3, <3>4, <3>5, <4>2 DEF IsExact
        <5> HIDE DEF passing, passed
        <5> QED BY <3>7, <5>1
      <4> QED BY <4>1, <4>2
    <3>10. \A A \in DOMAIN f \cup DOMAIN g :
             Joined(f, g)[A] \in Expression /\ Joined(f, g)[A].words = Derived[given][A]
      <4> SUFFICES ASSUME NEW A \in DOMAIN f \cup DOMAIN g
                   PROVE  Joined(f, g)[A] \in Expression /\ Joined(f, g)[A].words = Derived[given][A]
        OBVIOUS
      <4> HIDE DEF g, passed, passing
      <4>1. CASE A \in DOMAIN f
        <5>1. Joined(f, g)[A] = f[A]
          BY <3>6, <4>1
        <5> QED BY <3>8, <4>1, <5>1
      <4>2. CASE A \notin DOMAIN f
        <5>1. A \in DOMAIN g /\ A \in DOMAIN g \ DOMAIN f
          BY <4>2
        <5>2. Joined(f, g)[A] = g[A]
          BY <3>6, <5>1, Zenon
        <5> QED BY <3>7, <5>1, <5>2
      <4> QED BY <4>1, <4>2
    <3> DEFINE j == Joined(f, g)
    <3>11. cert'.expressions = j /\ DOMAIN j = UNION passing /\ given' = given
           /\ \A A \in DOMAIN j : j[A] \in Expression /\ j[A].words = Derived[given][A]
      BY <2>2, <3>5, <3>6, <3>9, <3>10
    <3> HIDE DEF j, passed, g
    <3> QED BY <3>5, <3>11 DEF Certified
  <2> QED BY <2>5, <2>6
<1>5. CASE SelectBackend
  BY <1>1, <1>5 DEF SelectBackend
<1>6. CASE UNCHANGED vars
  BY <1>1, <1>6 DEF vars
<1> QED BY <1>2, <1>3, <1>4, <1>5, <1>6 DEF Next

-----------------------------------------------------------------------------
(* What grows within a finite set comes to an end. *)

\* Every step of f from a on goes on from more.
Ascends(V, f, a) ==
  /\ f \in [SUBSET V -> SUBSET V] /\ a \in SUBSET V
  /\ \A k \in Nat : Repeated(SUBSET V, f, a, k) \subseteq f[Repeated(SUBSET V, f, a, k)]

\* After as many steps as V has elements there is nothing more.
LEMMA AscentEnds ==
  ASSUME NEW V, IsFiniteSet(V), NEW f, NEW a, Ascends(V, f, a)
  PROVE  /\ Repeated(SUBSET V, f, a, Cardinality(V)) \in SUBSET V
         /\ f[Repeated(SUBSET V, f, a, Cardinality(V))] = Repeated(SUBSET V, f, a, Cardinality(V))
         /\ a \subseteq Repeated(SUBSET V, f, a, Cardinality(V))
<1> DEFINE n == Cardinality(V)
           R(k) == Repeated(SUBSET V, f, a, k)
<1>1. n \in Nat
  BY FS_CardinalityType
<1>2. \A k \in Nat : R(k) \in SUBSET V /\ R(k + 1) = f[R(k)] /\ R(k) \subseteq R(k + 1) /\ R(0) = a
  <2> DEFINE A == SUBSET V
  <2>1. f \in [A -> A] /\ a \in A
    BY DEF Ascends
  <2>3. \A k \in Nat : Repeated(A, f, a, k) \subseteq f[Repeated(A, f, a, k)]
    BY DEF Ascends
  <2> HIDE DEF A
  <2>2. \A k \in Nat : /\ Repeated(A, f, a, 0) = a
                       /\ Repeated(A, f, a, k) \in A
                       /\ Repeated(A, f, a, k + 1) = f[Repeated(A, f, a, k)]
    BY <2>1, RepeatedGoesOn
  <2> QED BY <2>2, <2>3 DEF A
<1> HIDE DEF R, n
<1>3. ASSUME NEW k \in 0..n, R(k) = R(k + 1)
      PROVE  f[R(n)] = R(n)
  <2> DEFINE S == {j \in Nat : R(k + j) = R(k)}
  <2>1. 0 \in S
    BY <1>1
  <2>2. \A j \in 0..(n - k) - 1 : j \in S => j + 1 \in S
    <3> SUFFICES ASSUME NEW j \in Nat, R(k + j) = R(k)
                 PROVE  R(k + (j + 1)) = R(k)
      OBVIOUS
    <3>1. k + j \in Nat /\ k \in Nat /\ k + (j + 1) = (k + j) + 1
      BY <1>1
    <3>2. R((k + j) + 1) = f[R(k + j)] /\ R(k + 1) = f[R(k)]
      BY <1>2, <3>1
    <3> QED BY <1>3, <3>1, <3>2
  <2>3. n - k \in Nat /\ k + (n - k) = n
    BY <1>1
  <2>4. n - k \in S
    <3> HIDE DEF S
    <3>1. \A j \in 0..n - k : j \in S
      BY <2>1, <2>2, <2>3, UpTo
    <3> QED BY <2>3, <3>1
  <2>5. R(n) = R(k)
    BY <2>3, <2>4
  <2> QED BY <1>1, <1>2, <1>3, <2>5
<1>4. ASSUME \A k \in 0..n : R(k) # R(k + 1)
      PROVE  FALSE
  <2> DEFINE S == {k \in Nat : k <= Cardinality(R(k))}
  <2>1. \A k \in Nat : IsFiniteSet(R(k)) /\ Cardinality(R(k)) \in Nat /\ Cardinality(R(k)) <= n
    <3> SUFFICES ASSUME NEW k \in Nat
                 PROVE  IsFiniteSet(R(k)) /\ Cardinality(R(k)) \in Nat /\ Cardinality(R(k)) <= n
      OBVIOUS
    <3>1. R(k) \in SUBSET V
      BY <1>2
    <3>2. IsFiniteSet(R(k)) /\ Cardinality(R(k)) <= Cardinality(V)
      BY <3>1, FS_Subset
    <3> QED BY <3>2, FS_CardinalityType DEF n
  <2>2. 0 \in S
    BY <2>1
  <2>3. \A k \in 0..(n + 1) - 1 : k \in S => k + 1 \in S
    <3> SUFFICES ASSUME NEW k \in 0..n, k <= Cardinality(R(k))
                 PROVE  k + 1 <= Cardinality(R(k + 1))
      BY <1>1
    <3> DEFINE P == R(k)
               Q == R(k + 1)
    <3>1. P \in SUBSET Q /\ P # Q /\ IsFiniteSet(Q) /\ Cardinality(P) \in Nat /\ Cardinality(Q) \in Nat
      BY <1>1, <1>2, <1>4, <2>1
    <3> HIDE DEF P, Q
    <3>2. Cardinality(P) <= Cardinality(Q) /\ Cardinality(P) # Cardinality(Q)
      BY <3>1, FS_Subset
    <3> QED BY <1>1, <3>1, <3>2 DEF P, Q
  <2>4. n + 1 \in S
    <3> HIDE DEF S
    <3>1. \A k \in 0..n + 1 : k \in S
      BY <1>1, <2>2, <2>3, UpTo
    <3> QED BY <1>1, <3>1
  <2> QED BY <1>1, <2>1, <2>4
<1>5. f[R(n)] = R(n)
  BY <1>3, <1>4
<1>6. a \subseteq R(n)
  <2> DEFINE S == {k \in Nat : a \subseteq R(k)}
  <2>1. 0 \in S
    BY <1>1, <1>2
  <2>2. \A k \in 0..n - 1 : k \in S => k + 1 \in S
    BY <1>1, <1>2
  <2>3. n \in S
    <3> HIDE DEF S
    <3>1. \A k \in 0..n : k \in S
      BY <1>1, <2>1, <2>2, UpTo
    <3> QED BY <1>1, <3>1
  <2> QED BY <2>3
<1> QED BY <1>1, <1>2, <1>5, <1>6 DEF R, n

-----------------------------------------------------------------------------
(* What can be empty, and what is retained. *)

\* The nonterminals with a rule all of whose symbols are in S.
Over(S) == {r.lhs : r \in {r \in ToSet(grammar.rules) :
                              ToSet(r.rhs) \subseteq {Nonterminal(A) : A \in S}}}

OverStep == [S \in SUBSET grammar.nonterminals |-> Over(S)]

LEMMA NullableFolds ==
  ASSUME IsReadable(grammar, None)
  PROVE  /\ OverStep \in [SUBSET grammar.nonterminals -> SUBSET grammar.nonterminals]
         /\ Nullable = Repeated(SUBSET grammar.nonterminals, OverStep, {}, Cardinality(grammar.nonterminals))
<1> DEFINE A == SUBSET grammar.nonterminals
           n == Cardinality(grammar.nonterminals)
           a == {}
           s == Upward(n)
           F == Repeats(A, OverStep)
           Equation(g) ==
             g = [T \in SUBSET DOMAIN s |->
                    IF T = {} THEN a ELSE LET x == Max(T) IN Over(g[T \ {x}])]
           iter == CHOOSE g : Equation(g)
           p == Partial(F, a, s)
<1>0. n \in Nat
  BY FS_CardinalityType DEF IsReadable
<1>t. OverStep \in [A -> A] /\ a \in A /\ \A S \in A : OverStep[S] = Over(S)
  BY DEF OverStep, Over, IsReadable
<1>1. IsStep(F, A, Nat) /\ a \in A /\ \A S \in A, k \in Nat : F[<<S, k>>] = Over(S)
  <2> HIDE DEF a, A
  <2>2. IsStep(F, A, Nat) /\ \A S \in A, k \in Nat : F[<<S, k>>] = OverStep[S]
    BY <1>t, RepeatsIsStep
  <2> QED BY <1>t, <2>2
<1>2. s \in Seq(Nat) /\ Len(s) = n /\ DOMAIN s = 1..Len(s)
  BY <1>0 DEF Upward
<1>3. Nullable = iter[DOMAIN s]
  BY Zenon DEF Nullable, Over, Upward, FoldLeft, MapThenFoldSet
<1> HIDE DEF A, F, a, s
<1>4. StepsAs(p, A, Nat, F, a, s)
  BY <1>1, <1>2, PartialSteps, Zenon
<1> HIDE DEF p
<1>5. Equation(p)
  <2>1. ASSUME NEW T \in SUBSET DOMAIN s, T # {}
        PROVE  p[T] = Over(p[T \ {Max(T)}])
    <3>1. /\ p[T \ {Max(T)}] \in A /\ s[Max(T)] \in Nat
          /\ p[T] = F[<<p[T \ {Max(T)}], s[Max(T)]>>]
      BY <1>4, <2>1 DEF StepsAs
    <3> QED BY <1>1, <3>1
  <2> QED BY <1>4, <2>1 DEF StepsAs
<1>6. Equation(iter)
  <2> HIDE DEF Equation
  <2> QED BY <1>5
<1> HIDE DEF iter
<1>7. StepAlike(iter, p, Len(s))
  <2>1. {} \in SUBSET DOMAIN s
    OBVIOUS
  <2>2. \A g : Equation(g) => g[{}] = a
    BY <2>1
  <2>3. ASSUME NEW T \in SUBSET DOMAIN s, T # {}, iter[T \ {Max(T)}] = p[T \ {Max(T)}]
        PROVE  iter[T] = p[T]
    <3>1. iter[T] = Over(iter[T \ {Max(T)}])
      BY <1>6, <2>3
    <3>2. p[T] = Over(p[T \ {Max(T)}])
      BY <1>5, <2>3
    <3> QED BY <2>3, <3>1, <3>2
  <2>4. iter[{}] = p[{}]
    <3> HIDE DEF Equation
    <3> QED BY <1>5, <1>6, <2>2
  <2> HIDE DEF Equation
  <2> QED BY <1>2, <2>3, <2>4 DEF StepAlike
<1>8. FoldsTo(iter, F, a, s)
  BY <1>1, <1>2, <1>7, FoldsAlike, Zenon DEF p
<1>9. Nullable = Folded(F, a, s)
  BY <1>2, <1>3, <1>8, Zenon DEF FoldsTo
<1> QED BY <1>t, <1>9 DEF F, a, s, A, Repeated

\* Nullable is closed under the rules.
LEMMA NullableIsClosed ==
  ASSUME IsReadable(grammar, None)
  PROVE  Nullable \in SUBSET grammar.nonterminals /\ Over(Nullable) = Nullable
<1> DEFINE V == grammar.nonterminals
           f == OverStep
           A == SUBSET V
           R(k) == Repeated(A, f, {}, k)
<1>1. f \in [A -> A] /\ {} \in A /\ Nullable = R(Cardinality(V)) /\ IsFiniteSet(V)
  BY NullableFolds DEF IsReadable
<1>2. \A S \in A : f[S] = Over(S)
  BY DEF OverStep
<1>3. \A S, T \in A : S \subseteq T => f[S] \subseteq f[T]
  <2>1. \A S, T \in A : S \subseteq T => Over(S) \subseteq Over(T)
    BY DEF Over
  <2> QED BY <1>2, <2>1
<1> HIDE DEF f, A
<1>4. \A k \in Nat : R(0) = {} /\ R(k) \in A /\ R(k + 1) = f[R(k)]
  BY <1>1, RepeatedGoesOn
<1>5. ASSUME NEW n \in Nat
      PROVE  R(n) \subseteq f[R(n)]
  <2> DEFINE S == {k \in Nat : R(k) \subseteq f[R(k)]}
  <2> HIDE DEF R
  <2>1. 0 \in S
    BY <1>4
  <2>2. \A k \in 0..n - 1 : k \in S => k + 1 \in S
    <3> SUFFICES ASSUME NEW k \in Nat, R(k) \subseteq f[R(k)]
                 PROVE  R(k + 1) \subseteq f[R(k + 1)]
      OBVIOUS
    <3>1. R(k) \in A /\ R(k + 1) \in A /\ R(k + 1) = f[R(k)]
      BY <1>4
    <3> QED BY <1>3, <3>1
  <2>3. \A k \in 0..n : k \in S
    <3> HIDE DEF S
    <3> QED BY <2>1, <2>2, UpTo
  <2> QED BY <2>3
<1>6. Ascends(V, f, {})
  BY <1>1, <1>5 DEF Ascends, A
<1>7. R(Cardinality(V)) \in A /\ f[R(Cardinality(V))] = R(Cardinality(V))
  BY <1>1, <1>6, AscentEnds DEF A
<1> HIDE DEF R
<1> QED BY <1>1, <1>2, <1>7 DEF A

\* What derives the empty string is nullable: the rest derives the same without it.
LEMMA EmptyIsNullable ==
  ASSUME IsReadable(grammar, None), NEW D, IsLeastClosed(grammar, None, MaxLength, D),
         NEW A \in grammar.nonterminals, << >> \in D[A]
  PROVE  A \in Nullable
<1> DEFINE V == grammar.nonterminals
           n == MaxLength
           M == [B \in V |-> IF B \in Nullable THEN D[B] ELSE D[B] \ {<< >>}]
<1>1. D \in Reading(V) /\ n \in Nat /\ AreRegions(None) /\ DOMAIN None = {}
  BY MaxLengthAssumption DEF IsLeastClosed, IsReadable, None
<1>2. /\ M \in Reading(V) /\ Within(M, D)
      /\ \A B \in V : M[B] = IF B \in Nullable THEN D[B] ELSE D[B] \ {<< >>}
  <2>1. \A B \in V : D[B] \in Language /\ D[B] \ {<< >>} \in Language
    BY <1>1 DEF Reading, Language
  <2>2. M \in Reading(V)
    BY <2>1 DEF Reading
  <2>3. Within(M, D)
    BY DEF Within
  <2> QED BY <2>2, <2>3
<1> HIDE DEF M
<1>3. ASSUME NEW r \in ToSet(grammar.rules)
      PROVE  Product(Values(r.rhs, M, None), n) \subseteq M[r.lhs]
  <2> DEFINE v == Values(r.rhs, M, None)
  <2>1. r.lhs \in V /\ r.rhs \in Seq(Known(V, None))
    BY DEF IsReadable
  <2>2. Product(v, n) \subseteq D[r.lhs]
    <3>1. Product(v, n) \subseteq Product(Values(r.rhs, D, None), n)
      BY <1>1, <1>2, <2>1, ReadingsGrow
    <3>2. Product(Values(r.rhs, D, None), n) \subseteq D[r.lhs]
      BY DEF IsLeastClosed, RulesHold
    <3> QED BY <3>1, <3>2
  <2>3. /\ v \in Seq(Language) /\ Len(v) = Len(r.rhs)
        /\ \A k \in 1..Len(r.rhs) : v[k] = StringsOf(r.rhs[k], M, None) /\ r.rhs[k] \in Known(V, None)
    BY <1>1, <1>2, <2>1, ValuesResult
  <2>4. ASSUME << >> \in Product(v, n)
        PROVE  r.lhs \in Nullable
    <3> HIDE DEF v
    <3>1. \A k \in 1..Len(v) : << >> \in v[k]
      BY <1>1, <2>3, <2>4, ProductNeedsAll
    <3>2. ASSUME NEW k \in 1..Len(r.rhs)
          PROVE  \E B \in Nullable : r.rhs[k] = Nonterminal(B)
      <4> DEFINE X == r.rhs[k]
      <4>1. << >> \in StringsOf(X, M, None) /\ X \in Known(V, None)
        BY <2>3, <3>1
      <4> HIDE DEF X
      <4>2. X.kind # "terminal"
        <5> SUFFICES ASSUME X.kind = "terminal"
                     PROVE  FALSE
          OBVIOUS
        <5>1. X.id \in DOMAIN Words /\ << >> \in Words[X.id]
          BY <1>1, <4>1 DEF Known, StringsOf
        <5> QED BY <5>1, GrammarAssumption
      <4>3. X.kind = "nonterminal" /\ X.id \in V /\ X \in Symbol
        BY <1>1, <4>1, <4>2 DEF Known
      <4>4. << >> \in M[X.id]
        BY <4>1, <4>3 DEF StringsOf
      <4>5. X.id \in Nullable
        BY <1>2, <4>3, <4>4
      <4>6. X = Nonterminal(X.id)
        BY <4>3 DEF Symbol, Nonterminal
      <4> QED BY <4>5, <4>6 DEF X
    <3>3. ToSet(r.rhs) \subseteq {Nonterminal(B) : B \in Nullable}
      <4>1. DOMAIN r.rhs = 1..Len(r.rhs)
        BY <2>1
      <4> QED BY <3>2, <4>1 DEF ToSet
    <3>4. r.lhs \in Over(Nullable)
      BY <3>3 DEF Over
    <3> QED BY <3>4, NullableIsClosed
  <2> HIDE DEF v
  <2>5. Product(v, n) \subseteq M[r.lhs]
    BY <1>2, <2>1, <2>2, <2>4
  <2> QED BY <2>5 DEF v
<1>4. Within(D, M)
  BY <1>2, <1>3 DEF IsLeastClosed, RulesHold
<1>5. << >> \in M[A]
  BY <1>1, <1>4 DEF Within, Reading
<1> QED BY <1>2, <1>5

-----------------------------------------------------------------------------
(* What the residual grammar retains. *)

MentionedBy(S) ==
  UNION {NonterminalsIn(r.rhs) : r \in {r \in ToSet(grammar.rules) : r.lhs \in S}}

\* With the nullable ones that S mentions.
Grown(S) == S \cup (Nullable \cap MentionedBy(S))

GrownStep == [S \in SUBSET grammar.nonterminals |-> Grown(S)]

RetainedFirst == {A \in grammar.nonterminals : ~IsCertified(A)} \cup {grammar.start}

LEMMA RetainedFolds ==
  ASSUME IsReadable(grammar, None), grammar.start \in grammar.nonterminals
  PROVE  /\ GrownStep \in [SUBSET grammar.nonterminals -> SUBSET grammar.nonterminals]
         /\ RetainedFirst \in SUBSET grammar.nonterminals
         /\ RetainedByResidual =
              Repeated(SUBSET grammar.nonterminals, GrownStep, RetainedFirst, Cardinality(grammar.nonterminals))
<1> DEFINE A == SUBSET grammar.nonterminals
           n == Cardinality(grammar.nonterminals)
           a == RetainedFirst
           s == Upward(n)
           F == Repeats(A, GrownStep)
           Equation(g) ==
             g = [T \in SUBSET DOMAIN s |->
                    IF T = {} THEN a ELSE LET x == Max(T) IN Grown(g[T \ {x}])]
           iter == CHOOSE g : Equation(g)
           p == Partial(F, a, s)
<1>0. n \in Nat
  BY FS_CardinalityType DEF IsReadable
<1>t. GrownStep \in [A -> A] /\ a \in A /\ \A S \in A : GrownStep[S] = Grown(S)
  <2>1. Nullable \in A
    BY NullableIsClosed
  <2>2. \A S \in A : Grown(S) \in A
    BY <2>1 DEF Grown
  <2>3. a \in A
    BY DEF RetainedFirst
  <2> HIDE DEF A, a
  <2> QED BY <2>2, <2>3 DEF GrownStep, A
<1>1. IsStep(F, A, Nat) /\ a \in A /\ \A S \in A, k \in Nat : F[<<S, k>>] = Grown(S)
  <2> HIDE DEF a, A
  <2>2. IsStep(F, A, Nat) /\ \A S \in A, k \in Nat : F[<<S, k>>] = GrownStep[S]
    BY <1>t, RepeatsIsStep
  <2> QED BY <1>t, <2>2
<1>2. s \in Seq(Nat) /\ Len(s) = n /\ DOMAIN s = 1..Len(s)
  BY <1>0 DEF Upward
<1>3. RetainedByResidual = iter[DOMAIN s]
  BY Zenon DEF RetainedByResidual, RetainedFirst, Grown, MentionedBy, Upward, FoldLeft, MapThenFoldSet
<1> HIDE DEF A, F, a, s
<1>4. StepsAs(p, A, Nat, F, a, s)
  BY <1>1, <1>2, PartialSteps, Zenon
<1> HIDE DEF p
<1>5. Equation(p)
  <2>1. ASSUME NEW T \in SUBSET DOMAIN s, T # {}
        PROVE  p[T] = Grown(p[T \ {Max(T)}])
    <3>1. /\ p[T \ {Max(T)}] \in A /\ s[Max(T)] \in Nat
          /\ p[T] = F[<<p[T \ {Max(T)}], s[Max(T)]>>]
      BY <1>4, <2>1 DEF StepsAs
    <3> QED BY <1>1, <3>1
  <2> QED BY <1>4, <2>1 DEF StepsAs
<1>6. Equation(iter)
  <2> HIDE DEF Equation
  <2> QED BY <1>5
<1> HIDE DEF iter
<1>7. StepAlike(iter, p, Len(s))
  <2>1. {} \in SUBSET DOMAIN s
    OBVIOUS
  <2>2. \A g : Equation(g) => g[{}] = a
    BY <2>1
  <2>3. ASSUME NEW T \in SUBSET DOMAIN s, T # {}, iter[T \ {Max(T)}] = p[T \ {Max(T)}]
        PROVE  iter[T] = p[T]
    <3>1. iter[T] = Grown(iter[T \ {Max(T)}])
      BY <1>6, <2>3
    <3>2. p[T] = Grown(p[T \ {Max(T)}])
      BY <1>5, <2>3
    <3> QED BY <2>3, <3>1, <3>2
  <2>4. iter[{}] = p[{}]
    <3> HIDE DEF Equation
    <3> QED BY <1>5, <1>6, <2>2
  <2> HIDE DEF Equation
  <2> QED BY <1>2, <2>3, <2>4 DEF StepAlike
<1>8. FoldsTo(iter, F, a, s)
  BY <1>1, <1>2, <1>7, FoldsAlike, Zenon DEF p
<1>9. RetainedByResidual = Folded(F, a, s)
  BY <1>2, <1>3, <1>8, Zenon DEF FoldsTo
<1> QED BY <1>t, <1>9 DEF F, a, s, A, Repeated

\* The start and what has no expression are retained, and of what the rules of these
\* mention, everything nullable.
LEMMA RetainedIsClosed ==
  ASSUME IsReadable(grammar, None), grammar.start \in grammar.nonterminals
  PROVE  /\ RetainedByResidual \in SUBSET grammar.nonterminals
         /\ RetainedFirst \subseteq RetainedByResidual
         /\ Grown(RetainedByResidual) = RetainedByResidual
<1> DEFINE V == grammar.nonterminals
           f == GrownStep
           A == SUBSET V
           a == RetainedFirst
           R(k) == Repeated(A, f, a, k)
<1>1. /\ f \in [A -> A] /\ a \in A /\ RetainedByResidual = R(Cardinality(V)) /\ IsFiniteSet(V)
  BY RetainedFolds DEF IsReadable
<1>2. \A S \in A : f[S] = Grown(S)
  BY DEF GrownStep
<1>3. \A S \in A : S \subseteq f[S]
  BY <1>2 DEF Grown
<1> HIDE DEF f, A, a
<1>4. \A k \in Nat : R(k) \in A
  BY <1>1, RepeatedGoesOn
<1>5. Ascends(V, f, a)
  BY <1>1, <1>3, <1>4 DEF Ascends, A
<1>6. /\ R(Cardinality(V)) \in A /\ f[R(Cardinality(V))] = R(Cardinality(V))
      /\ a \subseteq R(Cardinality(V))
  BY <1>1, <1>5, AscentEnds DEF A
<1> HIDE DEF R
<1> QED BY <1>1, <1>2, <1>6 DEF A, a

\* The rules of the residual grammar.
LEMMA ResidualRulesResult ==
  ASSUME IsGrammar(grammar), NEW R
  PROVE  ToSet(ResidualRules(R)) = {Collapsed(r, R) : r \in {r \in ToSet(grammar.rules) : r.lhs \in R}}
         /\ \A i \in DOMAIN ResidualRules(R) : ResidualRules(R)[i] \in ToSet(ResidualRules(R))
<1> DEFINE s == grammar.rules
           B == ToSet(s)
           c(r) == Collapsed(r, R)
           C == {c(r) : r \in B}
           A == Seq(C)
           a == << >>
           G == [r \in B |-> IF r.lhs \in R THEN <<c(r)>> ELSE << >>]
           F == Collects(B, C, G)
           Equation(g) ==
             g = [T \in SUBSET DOMAIN s |->
                    IF T = {} THEN a
                    ELSE LET x == Max(T)
                         IN IF s[x].lhs \in R THEN Append(g[T \ {x}], c(s[x])) ELSE g[T \ {x}]]
           iter == CHOOSE g : Equation(g)
           p == Partial(F, a, s)
<1>0. a \in A /\ s \in Seq(B)
  <2> DEFINE T == [lhs : grammar.nonterminals, rhs : Seq(Symbol)]
  <2>1. s \in Seq(T)
    BY DEF IsGrammar
  <2> HIDE DEF T
  <2>2. \A i \in 1..Len(s) : s[i] \in B
    BY <2>1 DEF ToSet
  <2> HIDE DEF B
  <2> QED BY <2>1, <2>2
<1>5. ResidualRules(R) = iter[DOMAIN s]
  BY Zenon DEF ResidualRules, FoldLeft, MapThenFoldSet
<1> HIDE DEF s, c
<1>g. G \in [B -> Seq(C)]
  <2>1. \A r \in B : c(r) \in C
    OBVIOUS
  <2> HIDE DEF B, C
  <2> QED BY <2>1
<1>1. IsStep(F, A, B)
  <2> HIDE DEF G, B, C
  <2> QED BY <1>0, <1>g, FoldedCollects
<1>2. \A w \in A, r \in B : F[<<w, r>>] = IF r.lhs \in R THEN Append(w, c(r)) ELSE w
  <2> SUFFICES ASSUME NEW w \in A, NEW r \in B
               PROVE  F[<<w, r>>] = IF r.lhs \in R THEN Append(w, c(r)) ELSE w
    OBVIOUS
  <2>1. F[<<w, r>>] = w \o G[r]
    <3> HIDE DEF G, B, C
    <3> QED BY DEF Collects
  <2>2. w \o << >> = w /\ w \o <<c(r)>> = Append(w, c(r))
    <3>1. c(r) \in C
      OBVIOUS
    <3> HIDE DEF B, C
    <3> QED BY <3>1
  <2> QED BY <2>1, <2>2
<1>4. DOMAIN s = 1..Len(s)
  <2> HIDE DEF B, C
  <2> QED BY <1>0
<1>10. Folded(F, a, s) \in Seq(C) /\ Gathers(Folded(F, a, s), G, s)
  <2> HIDE DEF G, B, C
  <2> QED BY <1>0, <1>g, FoldedCollects
<1>11. ASSUME NEW x
       PROVE  (\E i \in 1..Len(s) : x \in ToSet(G[s[i]])) <=> \E r \in B : r.lhs \in R /\ x = c(r)
  <2>1. \A r \in B : ToSet(G[r]) = IF r.lhs \in R THEN {c(r)} ELSE {}
    <3>1. ToSet(<< >>) = {} /\ \A r : ToSet(<<r>>) = {r}
      BY DEF ToSet
    <3>2. \A r \in B : G[r] = IF r.lhs \in R THEN <<c(r)>> ELSE << >>
      OBVIOUS
    <3> HIDE DEF G
    <3> QED BY <3>1, <3>2
  <2> HIDE DEF G
  <2>2. \A i \in 1..Len(s) : s[i] \in B
    BY <1>4 DEF ToSet
  <2>3. \A r \in B : \E i \in 1..Len(s) : r = s[i]
    BY <1>4 DEF ToSet
  <2> HIDE DEF B, c
  <2>4. ASSUME NEW r \in B
        PROVE  x \in ToSet(G[r]) <=> r.lhs \in R /\ x = c(r)
    <3>1. ToSet(G[r]) = IF r.lhs \in R THEN {c(r)} ELSE {}
      BY <2>1
    <3> QED BY <3>1
  <2>5. ASSUME NEW i \in 1..Len(s), x \in ToSet(G[s[i]])
        PROVE  \E r \in B : r.lhs \in R /\ x = c(r)
    BY <2>2, <2>4, <2>5
  <2>6. ASSUME NEW r \in B, r.lhs \in R, x = c(r)
        PROVE  \E i \in 1..Len(s) : x \in ToSet(G[s[i]])
    BY <2>3, <2>4, <2>6
  <2> QED BY <2>5, <2>6
<1> HIDE DEF A, F, a, G, B, C
<1>3. StepsAs(p, A, B, F, a, s)
  BY <1>0, <1>1, PartialSteps, Zenon
<1> HIDE DEF p
<1>6. Equation(p)
  BY <1>2, <1>3 DEF StepsAs
<1>7. Equation(iter)
  <2> HIDE DEF Equation
  <2> QED BY <1>6
<1> HIDE DEF iter
<1>8. StepAlike(iter, p, Len(s))
  <2>1. iter[{}] = a /\ p[{}] = a
    BY <1>4, <1>6, <1>7
  <2>2. ASSUME NEW T \in SUBSET (1..Len(s)), T # {}, iter[T \ {Max(T)}] = p[T \ {Max(T)}]
        PROVE  iter[T] = p[T]
    <3>1. iter[T] = IF s[Max(T)].lhs \in R THEN Append(iter[T \ {Max(T)}], c(s[Max(T)]))
                    ELSE iter[T \ {Max(T)}]
      BY <1>4, <1>7, <2>2
    <3>2. p[T] = IF s[Max(T)].lhs \in R THEN Append(p[T \ {Max(T)}], c(s[Max(T)]))
                 ELSE p[T \ {Max(T)}]
      BY <1>4, <1>6, <2>2
    <3> QED BY <2>2, <3>1, <3>2
  <2> QED BY <2>1, <2>2 DEF StepAlike
<1>9. FoldsTo(iter, F, a, s)
  BY <1>0, <1>1, <1>8, FoldsAlike, Zenon DEF p
<1>12. ResidualRules(R) = Folded(F, a, s)
  BY <1>4, <1>5, <1>9, Zenon DEF FoldsTo
<1> DEFINE v == ResidualRules(R)
<1>13. \A x : x \in ToSet(v) <=> \E r \in B : r.lhs \in R /\ x = c(r)
  BY <1>10, <1>11, <1>12 DEF Gathers
<1>14. \A i \in DOMAIN v : v[i] \in ToSet(v)
  BY DEF ToSet
<1> HIDE DEF v
<1>15. ToSet(v) = {c(r) : r \in {r \in B : r.lhs \in R}}
  BY <1>13
<1> QED BY <1>14, <1>15 DEF v, B, c, s

-----------------------------------------------------------------------------
(* What the residual grammar derives. *)

\* The grammar derives D, and an expression found stands for what D has.
StandsFor(D) ==
  /\ IsGrammar(grammar) /\ IsReadable(grammar, None)
  /\ IsLeastClosed(grammar, None, MaxLength, D)
  /\ AreRegions(RegionWords)
  /\ \A A \in grammar.nonterminals : IsCertified(A) => cert.expressions[A].words = D[A]

\* R is retained, and what it mentions and does not retain has an expression.
IsRetained(R) ==
  /\ R \in SUBSET grammar.nonterminals /\ grammar.start \in R
  /\ \A A \in grammar.nonterminals \ R : IsCertified(A)
  /\ Nullable \cap MentionedBy(R) \subseteq R

\* L for what is retained, D for what is collapsed.
Filled(R, L, D) == [A \in grammar.nonterminals |-> IF A \in R THEN L[A] ELSE D[A]]

\* A rule collapsed reads what the rule reads.
LEMMA CollapsedReads ==
  ASSUME NEW D, StandsFor(D), NEW R, IsRetained(R), NEW L \in Reading(R), NEW r \in ToSet(grammar.rules)
  PROVE  /\ Collapsed(r, R).rhs \in Seq(Known(R, RegionWords))
         /\ Collapsed(r, R).lhs = r.lhs
         /\ Values(Collapsed(r, R).rhs, L, RegionWords) = Values(r.rhs, Filled(R, L, D), None)
<1> DEFINE V == grammar.nonterminals
           s == r.rhs
           c == Collapsed(r, R).rhs
           m == Len(s)
           fill == Filled(R, L, D)
<1>1. s \in Seq(Known(V, None)) /\ m \in Nat /\ DOMAIN s = 1..m
  <2>1. s \in Seq(Known(V, None))
    BY DEF StandsFor, IsReadable
  <2> HIDE DEF s
  <2> QED BY <2>1
<1>2. /\ c = [k \in 1..m |-> IF s[k].kind = "nonterminal" /\ s[k].id \notin R THEN Region(s[k].id) ELSE s[k]]
      /\ Collapsed(r, R).lhs = r.lhs
  BY <1>1 DEF Collapsed
<1> HIDE DEF c, s, m
<1>3. ASSUME NEW k \in 1..m
      PROVE  /\ c[k] \in Known(R, RegionWords)
             /\ StringsOf(c[k], L, RegionWords) = StringsOf(s[k], fill, None)
  <2> DEFINE X == s[k]
  <2>1. X \in Known(V, None) /\ c[k] = IF X.kind = "nonterminal" /\ X.id \notin R THEN Region(X.id) ELSE X
    BY <1>1, <1>2
  <2> HIDE DEF X
  <2>2. DOMAIN None = {} /\ X \in Symbol
    BY <2>1 DEF None, Known
  <2>3. CASE X.kind = "terminal"
    <3>1. c[k] = X /\ X.id \in DOMAIN Words
      BY <2>1, <2>2, <2>3 DEF Known
    <3> QED BY <2>2, <2>3, <3>1 DEF Known, StringsOf, X
  <2>4. CASE X.kind = "nonterminal" /\ X.id \in R
    <3>1. c[k] = X /\ X.id \in V /\ fill[X.id] = L[X.id]
      BY <2>1, <2>2, <2>4 DEF Known, Filled
    <3> QED BY <2>2, <2>4, <3>1 DEF Known, StringsOf, X
  <2>5. CASE X.kind = "nonterminal" /\ X.id \notin R
    <3> DEFINE A == X.id
    <3>1. c[k] = Region(A) /\ A \in V \ R /\ fill[A] = D[A] /\ A \in Nat
      BY <2>1, <2>2, <2>5 DEF Known, Filled, Symbol
    <3>2. A \in DOMAIN cert.expressions /\ cert.expressions[A].words = D[A]
      BY <3>1 DEF IsRetained, StandsFor, IsCertified
    <3>3. A \in DOMAIN RegionWords /\ RegionWords[A] = D[A]
      BY <3>2 DEF RegionWords
    <3>4. StringsOf(X, fill, None) = D[A]
      BY <2>5, <3>1 DEF StringsOf
    <3> HIDE DEF A
    <3>5. Region(A).kind = "region" /\ Region(A).id = A /\ Region(A) \in Symbol
      BY <3>1 DEF Region, Symbol
    <3>6. StringsOf(Region(A), L, RegionWords) = D[A]
      BY <3>3, <3>5 DEF StringsOf
    <3> QED BY <3>1, <3>3, <3>4, <3>5, <3>6 DEF Known, X
  <2>6. X.kind = "terminal" \/ X.kind = "nonterminal"
    BY <2>1, <2>2 DEF Known
  <2> QED BY <2>3, <2>4, <2>5, <2>6
<1> HIDE DEF fill
<1>4. DOMAIN c = 1..m /\ Len(c) = m
  BY <1>1, <1>2
<1>5. c \in Seq(Known(R, RegionWords))
  <2> HIDE DEF Known
  <2>1. c \in [1..m -> Known(R, RegionWords)]
    BY <1>2, <1>3, <1>4
  <2> QED BY <1>1, <2>1
<1>6. Values(c, L, RegionWords) = Values(s, fill, None)
  BY <1>1, <1>3, <1>4 DEF Values, m
<1> QED BY <1>2, <1>5, <1>6 DEF c, s, fill

\* The residual grammar as it is read.
LEMMA ResidualIsReadable ==
  ASSUME NEW D, StandsFor(D), IsRetained(RetainedByResidual)
  PROVE  /\ IsReadable(Residual, RegionWords)
         /\ Residual.start = grammar.start
         /\ Residual.nonterminals = RetainedByResidual
         /\ ToSet(Residual.rules) =
              {Collapsed(r, RetainedByResidual) : r \in {r \in ToSet(grammar.rules) : r.lhs \in RetainedByResidual}}
<1> DEFINE R == RetainedByResidual
           g == Residual
<1>1. g.start = grammar.start /\ g.nonterminals = R /\ g.rules = ResidualRules(R)
  BY DEF Residual
<1> HIDE DEF g
<1>2. ToSet(g.rules) = {Collapsed(r, R) : r \in {r \in ToSet(grammar.rules) : r.lhs \in R}}
  BY <1>1, ResidualRulesResult DEF StandsFor
<1>3. IsFiniteSet(R)
  <2>1. R \subseteq grammar.nonterminals /\ IsFiniteSet(grammar.nonterminals)
    BY DEF IsRetained, StandsFor, IsGrammar
  <2> HIDE DEF R
  <2> QED BY <2>1, FS_Subset
<1>4. ASSUME NEW q \in ToSet(g.rules)
      PROVE  q.lhs \in R /\ q.rhs \in Seq(Known(R, RegionWords))
  <2>1. PICK r \in ToSet(grammar.rules) : r.lhs \in R /\ q = Collapsed(r, R)
    BY <1>2, <1>4
  <2> HIDE DEF R
  <2>2. D \in Reading(grammar.nonterminals) /\ R \in SUBSET grammar.nonterminals
    BY DEF StandsFor, IsLeastClosed, IsRetained, R
  <2>3. Nothing(R) \in Reading(R)
    BY DEF Nothing, Reading, Language
  <2>4. Collapsed(r, R).rhs \in Seq(Known(R, RegionWords)) /\ Collapsed(r, R).lhs = r.lhs
    BY <2>3, CollapsedReads DEF R
  <2> QED BY <2>1, <2>4
<1> HIDE DEF R
<1>5. IsReadable(g, RegionWords)
  BY <1>1, <1>3, <1>4 DEF IsReadable, StandsFor
<1> QED BY <1>1, <1>2, <1>5 DEF g, R

\* The residual grammar, with the regions it was left with, derives what the grammar
\* derives.
LEMMA ResidualDerives ==
  ASSUME NEW D, StandsFor(D), IsRetained(RetainedByResidual)
  PROVE  LanguageOf(Residual) = D[grammar.start]
<1> DEFINE V == grammar.nonterminals
           R == RetainedByResidual
           g == Residual
           n == MaxLength
           words == RegionWords
           M == Derivations(g, words, n)
           K == [A \in R |-> D[A]]
           fill(L) == Filled(R, L, D)
<1>1. /\ IsReadable(g, words) /\ g.start = grammar.start /\ g.nonterminals = R
      /\ ToSet(g.rules) = {Collapsed(r, R) : r \in {r \in ToSet(grammar.rules) : r.lhs \in R}}
      /\ n \in Nat
  BY ResidualIsReadable, MaxLengthAssumption
<1>2. D \in Reading(V) /\ DOMAIN D = V /\ R \in SUBSET V /\ grammar.start \in R
  BY DEF StandsFor, IsLeastClosed, Reading, IsRetained
<1>3. ASSUME NEW L \in Reading(R), NEW r \in ToSet(grammar.rules)
      PROVE  /\ Collapsed(r, R).lhs = r.lhs
             /\ Values(Collapsed(r, R).rhs, L, words) = Values(r.rhs, fill(L), None)
  BY CollapsedReads
<1>f. ASSUME NEW L \in Reading(R)
      PROVE  /\ fill(L) \in Reading(V)
             /\ \A A \in R : fill(L)[A] = L[A]
             /\ \A A \in V \ R : fill(L)[A] = D[A]
  <2>1. \A A \in V : (IF A \in R THEN L[A] ELSE D[A]) \in Language
    BY <1>2 DEF Reading
  <2>2. fill(L) = [A \in V |-> IF A \in R THEN L[A] ELSE D[A]]
    BY DEF Filled
  <2> HIDE DEF R, fill, V
  <2> QED BY <1>2, <2>1, <2>2 DEF Reading
<1> HIDE DEF g, words, n, R, M, K
<1>4. IsLeastClosed(g, words, n, M)
  BY <1>1, DerivationsResult DEF M
<1>5. M \in Reading(R)
  BY <1>1, <1>4 DEF IsLeastClosed
<1>6. K \in Reading(R) /\ (\A A \in R : K[A] = D[A]) /\ fill(K) = D
  <2>1. K \in Reading(R) /\ \A A \in R : K[A] = D[A]
    BY <1>2 DEF K, Reading
  <2>2. fill(K) \in Reading(V) /\ \A A \in V : fill(K)[A] = D[A]
    BY <1>2, <1>f, <2>1
  <2> HIDE DEF fill
  <2> QED BY <1>2, <2>1, <2>2 DEF Reading
<1>7. \A A \in R : M[A] \subseteq D[A]
  <2>1. ASSUME NEW q \in ToSet(g.rules)
        PROVE  Product(Values(q.rhs, K, words), n) \subseteq K[q.lhs]
    <3>1. PICK r \in ToSet(grammar.rules) : r.lhs \in R /\ q = Collapsed(r, R)
      BY <1>1, <2>1
    <3>2. q.lhs = r.lhs /\ Values(q.rhs, K, words) = Values(r.rhs, D, None)
      BY <1>3, <1>6, <3>1
    <3>3. Product(Values(r.rhs, D, None), n) \subseteq D[r.lhs]
      BY DEF StandsFor, IsLeastClosed, RulesHold, n
    <3> QED BY <1>6, <3>1, <3>2, <3>3
  <2>2. Within(M, K)
    BY <1>1, <1>4, <1>6, <2>1 DEF IsLeastClosed, RulesHold
  <2> QED BY <1>5, <1>6, <2>2 DEF Within, Reading
<1>8. \A A \in R : D[A] \subseteq M[A]
  <2> DEFINE L == fill(M)
  <2>1. L \in Reading(V) /\ (\A A \in R : L[A] = M[A]) /\ \A A \in V \ R : L[A] = D[A]
    BY <1>5, <1>f
  <2>2. ASSUME NEW r \in ToSet(grammar.rules), r.lhs \in R
        PROVE  Product(Values(r.rhs, L, None), n) \subseteq L[r.lhs]
    <3> DEFINE q == Collapsed(r, R)
    <3>1. q \in ToSet(g.rules)
      BY <1>1, <2>2
    <3>2. q.lhs = r.lhs /\ Values(q.rhs, M, words) = Values(r.rhs, L, None)
      BY <1>3, <1>5
    <3> HIDE DEF q, L
    <3>3. Product(Values(q.rhs, M, words), n) \subseteq M[q.lhs]
      BY <1>4, <3>1 DEF IsLeastClosed, RulesHold
    <3> QED BY <2>1, <2>2, <3>2, <3>3
  <2> HIDE DEF L
  <2>3. HoldsIn(R, grammar, None, n, D, L)
    BY <1>1, <1>2, <2>1, <2>2 DEF HoldsIn, StandsFor, n
  <2>4. \A A \in R : D[A] \subseteq L[A]
    BY <2>3, ComponentIsLeast
  <2> QED BY <2>1, <2>4
<1>9. M[grammar.start] = D[grammar.start]
  BY <1>2, <1>7, <1>8
<1>10. LanguageOf(g) = M[g.start]
  BY DEF LanguageOf, M, words, n
<1> QED BY <1>1, <1>9, <1>10 DEF g

\* A region collapsed does not derive the empty string, and has an expression.
LEMMA RegionsDoCompile ==
  ASSUME NEW D, StandsFor(D), IsRetained(RetainedByResidual)
  PROVE  RegionsCompile(Residual)
<1> DEFINE V == grammar.nonterminals
           R == RetainedByResidual
           g == Residual
<1> SUFFICES ASSUME NEW A \in RegionsIn(g)
             PROVE  IsCertified(A) /\ << >> \notin cert.expressions[A].words
  BY DEF RegionsCompile
<1>1. g.rules = ResidualRules(R)
      /\ ToSet(g.rules) = {Collapsed(r, R) : r \in {r \in ToSet(grammar.rules) : r.lhs \in R}}
      /\ \A i \in DOMAIN g.rules : g.rules[i] \in ToSet(g.rules)
  BY ResidualRulesResult DEF Residual, StandsFor
<1> HIDE DEF g, R
<1>2. PICK i \in DOMAIN g.rules : \E X \in ToSet(g.rules[i].rhs) : X.kind = "region" /\ X.id = A
  BY DEF RegionsIn
<1>3. PICK r \in ToSet(grammar.rules) : r.lhs \in R /\ g.rules[i] = Collapsed(r, R)
  BY <1>1, <1>2
<1>4. r.rhs \in Seq(Known(V, None)) /\ DOMAIN None = {}
  BY DEF StandsFor, IsReadable, None
<1>5. PICK k \in DOMAIN r.rhs : /\ Collapsed(r, R).rhs[k].kind = "region"
                                /\ Collapsed(r, R).rhs[k].id = A
  <2>1. DOMAIN Collapsed(r, R).rhs = DOMAIN r.rhs
    BY DEF Collapsed
  <2> QED BY <1>2, <1>3, <2>1 DEF ToSet
<1> DEFINE X == r.rhs[k]
<1>6. X \in Known(V, None) /\ X \in ToSet(r.rhs)
  <2>1. DOMAIN r.rhs = 1..Len(r.rhs)
    BY <1>4
  <2> HIDE DEF Known
  <2> QED BY <1>4, <1>5, <2>1 DEF ToSet
<1>7. Collapsed(r, R).rhs[k] = IF X.kind = "nonterminal" /\ X.id \notin R THEN Region(X.id) ELSE X
  BY DEF Collapsed
<1> HIDE DEF X
<1>8. X.kind = "nonterminal" /\ X.id = A /\ A \notin R /\ A \in V
  BY <1>4, <1>5, <1>6, <1>7 DEF Known, Region
<1>9. A \in MentionedBy(R)
  <2>1. A \in NonterminalsIn(r.rhs)
    BY <1>6, <1>8 DEF NonterminalsIn
  <2> QED BY <1>3, <2>1 DEF MentionedBy
<1>10. IsCertified(A) /\ A \notin Nullable
  BY <1>8, <1>9 DEF IsRetained, R
<1>11. << >> \notin D[A]
  BY <1>8, <1>10, EmptyIsNullable DEF StandsFor
<1>12. cert.expressions[A].words = D[A]
  BY <1>8, <1>10 DEF StandsFor
<1> QED BY <1>10, <1>11, <1>12

-----------------------------------------------------------------------------
(* The choice of a backend. *)

\* What is known when the choice is made.
LEMMA ReadyToSelect ==
  ASSUME ReductionInv, GrammarStands, Reduced, SccInv, CertInv, Certified, scc.at = "done"
  PROVE  /\ reduction.at = "done"
         /\ RegionsCompile(Residual)
         /\ LanguageOf(Residual) = Derived[given][given.start]
         /\ IsCertified(grammar.start) =>
              cert.expressions[grammar.start].words = Derived[given][given.start]
<1> DEFINE V == grammar.nonterminals
           D == Reads
<1>1. reduction.at = "done"
  BY GraphStands DEF SccInv
<1>2. /\ grammar.start = given.start /\ IsReadable(grammar, None)
      /\ IsLeastClosed(grammar, None, MaxLength, D)
      /\ \A A \in V : D[A] = Derived[given][A]
  BY <1>1, DerivedResult DEF None, Reads
<1> HIDE DEF D
<1>3. IsGrammar(grammar) /\ grammar.start \in V
  BY DEF GrammarStands, IsGrammar
<1>4. AreRegions(RegionWords)
  <2>1. \A A \in DOMAIN cert.expressions : cert.expressions[A].words \in Language
    BY DEF Certified, Expression, Short
  <2> QED BY <2>1 DEF AreRegions, RegionWords
<1>5. \A A \in V : IsCertified(A) => cert.expressions[A].words = D[A]
  BY <1>2 DEF Certified, IsCertified
<1>6. StandsFor(D)
  BY <1>2, <1>3, <1>4, <1>5 DEF StandsFor
<1>7. IsRetained(RetainedByResidual)
  <2> DEFINE R == RetainedByResidual
  <2>1. R \in SUBSET V /\ RetainedFirst \subseteq R /\ Grown(R) = R
    BY <1>2, <1>3, RetainedIsClosed
  <2> HIDE DEF R
  <2>2. IsRetained(R)
    BY <2>1 DEF IsRetained, RetainedFirst, Grown
  <2> QED BY <2>2 DEF R
<1>8. RegionsCompile(Residual) /\ LanguageOf(Residual) = D[grammar.start]
  BY <1>6, <1>7, RegionsDoCompile, ResidualDerives
<1> QED BY <1>1, <1>2, <1>3, <1>5, <1>8

\* A backend that fits the policy, or none for a reason of its own.
FitsPolicy(b, certified, residual) ==
  /\ b.answer \in {"refused", "unavailable", "dfa", "lalr", "earley"}
  /\ b.answer = "dfa" => certified /\ b.policy \in {"auto", "dfa"}
  /\ b.answer = "unavailable" => b.policy # "auto"
  /\ b.answer \in {"lalr", "earley"} => b.residual = residual /\ b.policy \in {"auto", b.answer}

LEMMA SelectedFits ==
  ASSUME NEW policy \in Policies, NEW certified \in BOOLEAN, NEW residual, RegionsCompile(residual),
         NEW dfaFits \in BOOLEAN, NEW residualFits \in BOOLEAN, NEW earleyFits \in BOOLEAN,
         NEW table \in {"usable", "unusable", "limit"}, NEW b,
         b = Selected(policy, certified, residual, dfaFits, residualFits, table, earleyFits)
  PROVE  FitsPolicy(b, certified, residual)
<1> DEFINE rest ==
      IF ~residualFits THEN [policy |-> policy, answer |-> "refused"]
      ELSE IF ~RegionsCompile(residual) THEN [policy |-> policy, answer |-> "internal"]
      ELSE CASE policy \in {"auto", "lalr"} /\ table = "usable" -> Answered(policy, "lalr", residual)
             [] policy = "lalr" /\ table = "unusable" -> [policy |-> policy, answer |-> "unavailable"]
             [] policy = "lalr" /\ table = "limit" -> [policy |-> policy, answer |-> "refused"]
             [] OTHER -> IF earleyFits THEN Answered(policy, "earley", residual) ELSE [policy |-> policy, answer |-> "refused"]
<1>1. CASE certified /\ ~dfaFits
  <2>1. b = [policy |-> policy, answer |-> "refused"]
    BY <1>1 DEF Selected, Policies
  <2> QED BY <2>1 DEF FitsPolicy
<1>2. CASE ~certified /\ policy = "dfa"
  <2>1. b = [policy |-> policy, answer |-> "unavailable"]
    BY <1>2 DEF Selected
  <2> QED BY <1>2, <2>1 DEF FitsPolicy
<1>3. CASE certified /\ dfaFits /\ policy \in {"auto", "dfa"}
  <2>1. b = [policy |-> policy, answer |-> "dfa"]
    BY <1>3 DEF Selected
  <2>2. b.answer = "dfa" /\ b.policy = policy
    BY <2>1
  <2> QED BY <1>3, <2>2 DEF FitsPolicy
<1>4. CASE /\ ~(certified /\ ~dfaFits)
           /\ ~(~certified /\ policy = "dfa")
           /\ ~(certified /\ dfaFits /\ policy \in {"auto", "dfa"})
  <2>1. b = rest
    BY <1>4 DEF Selected
  <2>2. policy \in {"auto", "lalr", "earley"}
    BY <1>4 DEF Policies
  <2>3. Answered(policy, "lalr", residual).answer = "lalr" /\ Answered(policy, "earley", residual).answer = "earley"
    BY DEF Answered
  <2>4. CASE ~residualFits
    BY <2>1, <2>4 DEF FitsPolicy
  <2>5. CASE residualFits /\ policy \in {"auto", "lalr"} /\ table = "usable"
    <3>1. b = [policy |-> policy, answer |-> "lalr", residual |-> residual]
      BY <2>1, <2>5 DEF Answered
    <3>2. b.answer = "lalr" /\ b.policy = policy /\ b.residual = residual
      BY <3>1
    <3> QED BY <2>5, <3>2 DEF FitsPolicy
  <2>6. CASE residualFits /\ policy = "lalr" /\ table = "unusable"
    <3>1. b = [policy |-> policy, answer |-> "unavailable"]
      BY <2>1, <2>6
    <3>2. b.answer = "unavailable" /\ b.policy = policy
      BY <3>1
    <3> QED BY <2>6, <3>2 DEF FitsPolicy
  <2>7. CASE residualFits /\ policy = "lalr" /\ table = "limit"
    <3>1. b = [policy |-> policy, answer |-> "refused"]
      BY <2>1, <2>7
    <3> QED BY <3>1 DEF FitsPolicy
  <2>8. CASE /\ residualFits
             /\ ~(policy \in {"auto", "lalr"} /\ table = "usable")
             /\ ~(policy = "lalr" /\ table = "unusable")
             /\ ~(policy = "lalr" /\ table = "limit")
    <3>1. b = [policy |-> policy, answer |-> "earley", residual |-> residual]
          \/ b = [policy |-> policy, answer |-> "refused"]
      BY <2>1, <2>8 DEF Answered
    <3>2. policy \in {"auto", "earley"}
      BY <2>2, <2>8
    <3>3. CASE b = [policy |-> policy, answer |-> "earley", residual |-> residual]
      <4>1. b.answer = "earley" /\ b.policy = policy /\ b.residual = residual
        BY <3>3
      <4> QED BY <3>2, <4>1 DEF FitsPolicy
    <3>4. CASE b = [policy |-> policy, answer |-> "refused"]
      BY <3>4 DEF FitsPolicy
    <3> QED BY <3>1, <3>3, <3>4
  <2> QED BY <2>4, <2>5, <2>6, <2>7, <2>8
<1> QED BY <1>1, <1>2, <1>3, <1>4

\* Nothing happens after the choice.
Chosen ==
  backend.answer # "none" =>
    /\ scc.at = "done" /\ DOMAIN cert.outcome = scc.components
    /\ BackendKeepsLanguage

LEMMA ChosenKeeps ==
  ASSUME ReductionInv, GrammarStands, Reduced, SccInv, CertInv, Certified, Chosen, [Next]_vars
  PROVE  Chosen'
<1>1. CASE UNCHANGED backend /\ backend.answer = "none"
  BY <1>1 DEF Chosen
<1>2. CASE UNCHANGED vars
  BY <1>2 DEF vars, Chosen, BackendKeepsLanguage, LanguageOf, RegionWords
<1>3. ASSUME backend.answer # "none", UNCHANGED backend, Next
      PROVE  FALSE
  <2>1. scc.at = "done" /\ DOMAIN cert.outcome = scc.components /\ reduction.at = "done"
    BY <1>3, ReadyToSelect DEF Chosen
  <2>2. ~ReduceStep
    BY <2>1 DEF ReduceStep, MarkProductive, EndProductive, MarkReachable, Rebuild
  <2>3. ~SccStep
    BY <2>1 DEF SccStep, BeginScc, StartRoot, FollowEdge, EndNode, SccInv
  <2>4. ~\E C \in scc.components : CertifyComponent(C)
    BY <2>1 DEF CertifyComponent
  <2>5. ~SelectBackend
    BY <1>3 DEF SelectBackend
  <2> QED BY <1>3, <2>2, <2>3, <2>4, <2>5 DEF Next
<1>4. CASE SelectBackend
  <2> DEFINE certified == IsCertified(grammar.start)
             residual == Residual
             words == cert.expressions[grammar.start].words
             language == Derived[given][given.start]
             b == backend'
  <2>1. /\ scc.at = "done" /\ DOMAIN cert.outcome = scc.components
        /\ UNCHANGED <<given, grammar, reduction, scc, cert>>
    BY <1>4 DEF SelectBackend
  <2>2. PICK policy \in Policies, dfaFits \in BOOLEAN, residualFits \in BOOLEAN, earleyFits \in BOOLEAN,
             table \in {"usable", "unusable", "limit"} :
          b = Selected(policy, certified, residual, dfaFits, residualFits, table, earleyFits)
    BY <1>4, Zenon DEF SelectBackend
  <2>3. /\ RegionsCompile(residual) /\ LanguageOf(residual) = language
        /\ certified => words = language
    BY <2>1, ReadyToSelect
  <2>4. certified \in BOOLEAN
    BY DEF IsCertified
  <2> HIDE DEF certified, residual, b
  <2>5. FitsPolicy(b, certified, residual)
    BY <2>2, <2>3, <2>4, SelectedFits
  <2>6. b.answer = "dfa" => (cert.expressions[grammar.start].words)' = (Derived[given][given.start])'
    BY <2>1, <2>3, <2>5 DEF FitsPolicy
  <2>7. b.answer \in {"lalr", "earley"} => LanguageOf(backend.residual)' = (Derived[given][given.start])'
    BY <2>1, <2>3, <2>5 DEF LanguageOf, RegionWords, FitsPolicy, b
  <2>8. BackendKeepsLanguage'
    BY <2>5, <2>6, <2>7 DEF BackendKeepsLanguage, NoBackend, FitsPolicy, b
  <2> QED BY <2>1, <2>8 DEF Chosen
<1> QED BY <1>1, <1>2, <1>3, <1>4 DEF Next, vars

-----------------------------------------------------------------------------
(* The results. *)

\* The invariant of the passes together.
CompilationInv ==
  ReductionInv /\ GrammarStands /\ Reduced /\ SccInv /\ CertInv /\ Certified /\ Chosen

LEMMA CompilationInvariant == Spec => []CompilationInv
<1>1. Begin => GrammarStands /\ Reduced /\ SccInv /\ CertInv /\ Certified /\ Chosen
  <2> SUFFICES ASSUME Begin PROVE GrammarStands /\ Reduced /\ SccInv /\ CertInv /\ Certified /\ Chosen
    OBVIOUS
  <2>1. grammar \in Grammars /\ reduction.at = "productive" /\ scc = NoScc /\ cert = NoCert
    BY DEF Begin, Init
  <2>2. NoScc.at = "idle" /\ NoScc.components = {} /\ IsSearch(NoScc)
    BY DEF NoScc, IsSearch
  <2>3. /\ DOMAIN NoCert.outcome = {} /\ DOMAIN NoCert.expressions = {}
        /\ NoCert = [outcome |-> NoCert.outcome, expressions |-> NoCert.expressions]
    BY DEF NoCert
  <2>4. Certified
    BY <2>1, <2>3 DEF Certified
  <2>5. Chosen
    BY DEF Begin, Chosen
  <2> QED BY <2>1, <2>2, <2>3, <2>4, <2>5, GrammarsAssumption DEF GrammarStands, Reduced, SccInv, CertInv
<1>2. ReductionInv /\ GrammarStands /\ Reduced /\ SccInv /\ CertInv /\ Certified /\ Chosen /\ [Next]_vars
        => GrammarStands' /\ Reduced' /\ SccInv' /\ CertInv' /\ Certified' /\ Chosen'
  BY GrammarStandsOn, ReducedKeeps, SccInvKeeps, CertInvKeeps, CertifiedKeeps, ChosenKeeps
<1> QED BY <1>1, <1>2, ReductionInvariant, PTL DEF Spec, CompilationInv

\* Of any set of grammars: what is compiled is always a grammar.  The rules kept by
\* the reduction mention no nonterminal that was dropped (reduce of grammar.rs).
THEOREM ReducedIsGrammar == Spec => []IsGrammar(grammar)
<1>1. CompilationInv => IsGrammar(grammar)
  BY DEF CompilationInv, GrammarStands
<1> QED BY <1>1, CompilationInvariant, PTL

\* Of any set of grammars: reduced, a grammar derives what it derived before, for
\* strings of any bounded length (reduce of grammar.rs).
THEOREM ReducedDerivesTheSame == Spec => []ReductionKeepsLanguage
<1>1. CompilationInv => ReductionKeepsLanguage
  BY LanguageKept DEF CompilationInv
<1> QED BY <1>1, CompilationInvariant, PTL

\* Of any set of grammars: the components are the classes of nonterminals that lead
\* to each other, and a component with more than one, or with an edge from one to
\* itself, is one with a cycle (analyze_sccs and is_recursive of grammar.rs); and
\* certification never finds all the components left waiting.
THEOREM ComponentsAreExact == Spec => []ComponentsAreClasses
<1>1. CompilationInv => ComponentsAreClasses
  BY ClassesAtEnd, OneIsReady DEF CompilationInv
<1> QED BY <1>1, CompilationInvariant, PTL

\* Of any set of grammars: the components that are left never all wait, for each
\* other or for themselves, so that the loop of certify_regular always gets on.
THEOREM CertificationNeverStuck == Spec => []CertificationProceeds
<1>1. CompilationInv => CertificationProceeds
  BY OneIsReady DEF CompilationInv
<1> QED BY <1>1, CompilationInvariant, PTL

\* Of any set of grammars: the expression certify_regular finds for a nonterminal
\* stands for what the nonterminal derives, for strings of any bounded length,
\* whether its component is not recursive, right-linear, or left-linear and turned
\* round (certify_component and solve_linear_component of grammar.rs).
THEOREM CertificatesAlwaysExact == Spec => []CertificatesAreExact
<1>1. CompilationInv => CertificatesAreExact
  BY DEF CompilationInv, Certified, CertificatesAreExact
<1> QED BY <1>1, CompilationInvariant, PTL

\* Of any set of grammars, and whatever limits are met: the backend chosen reads the
\* language of the grammar that came in.  A region is collapsed only if it has an
\* expression and does not derive the empty string, so that the residual grammar
\* always compiles; the residual grammar derives, with its regions, what the grammar
\* derived; and the backend is one the policy allows (build_residual of grammar.rs,
\* prepare of engine.rs).
THEOREM BackendAlwaysKeepsLanguage == Spec => []BackendKeepsLanguage
<1>1. CompilationInv => BackendKeepsLanguage
  <2>1. backend.answer = "none" => BackendKeepsLanguage
    BY DEF BackendKeepsLanguage, NoBackend
  <2> QED BY <2>1 DEF CompilationInv, Chosen
<1> QED BY <1>1, CompilationInvariant, PTL
=============================================================================
