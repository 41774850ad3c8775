----------------------------- MODULE Lalr_proofs -----------------------------
(***************************************************************************)
(* Theorems about Lalr, for every grammar, every set of limits and chunks  *)
(* and any number of reductions: the stacks are paths of the automaton, no *)
(* internal error happens, and a failed call leaves the recognizer it      *)
(* found.                                                                  *)
(*                                                                         *)
(* Lookaheads decide which action a table has, but not where it leads:     *)
(* what a closure holds besides lookaheads, its core, depends on the cores *)
(* of its seed alone.  So states merged by core agree on their targets,    *)
(* and an item with the dot further on came from a state that has it with  *)
(* the dot one back.  From a state that asks for a reduction the stack     *)
(* leads back through the rule to a state where the rule began, and that   *)
(* one has a goto for it.                                                  *)
(***************************************************************************)
EXTENDS Lalr, FoldLemmas

-----------------------------------------------------------------------------
(* Rules and items. *)

Symbol == Nonterminal \cup Terminal

RuleAt(g, i) == AugmentedRules(g)[i]

RuleNumbers(g) == 1..Len(g.rules) + 1

\* The lookaheads an item of g may have.
Looks(g) == {Eof} \cup UNION {FirstOf(w, Nullable(g), First(g)) : w \in Seq(Symbol)}

Items(g) ==
  {i \in [rule : RuleNumbers(g), dot : Nat, look : Looks(g)] : i.dot <= Len(RuleAt(g, i.rule).rhs)}

\* Nothing but the added rule has the added left-hand side.
RulesAreTyped(g) ==
  \A i \in RuleNumbers(g) :
    /\ RuleAt(g, i).rhs \in Seq(Symbol)
    /\ i <= Len(g.rules) => RuleAt(g, i).lhs \in Nonterminal
    /\ i = Len(g.rules) + 1 => RuleAt(g, i).lhs = Augmented

\* The rules of a grammar and the one that is added.
LEMMA RulesType ==
  ASSUME NEW g, IsGrammar(g)
  PROVE  /\ Len(g.rules) \in Nat
         /\ DOMAIN AugmentedRules(g) = RuleNumbers(g)
         /\ Len(AugmentedRules(g)) = Len(g.rules) + 1
         /\ RulesAreTyped(g)
<1> DEFINE R == [lhs : Nonterminal, rhs : Seq(Symbol)]
           n == Len(g.rules)
           added == [lhs |-> Augmented, rhs |-> <<g.start>>]
<1>1. g.rules \in Seq(R) /\ g.start \in Nonterminal
  BY DEF IsGrammar, Symbol
<1>2. n \in Nat /\ (\A i \in 1..n : g.rules[i] \in R)
  <2> HIDE DEF R
  <2> QED BY <1>1
<1>3. AugmentedRules(g) = Append(g.rules, added)
  BY DEF AugmentedRules
<1>4. /\ Len(AugmentedRules(g)) = n + 1 /\ DOMAIN AugmentedRules(g) = 1..n + 1
      /\ \A i \in 1..n : AugmentedRules(g)[i] = g.rules[i]
      /\ AugmentedRules(g)[n + 1] = added
  <2> HIDE DEF R, added
  <2> QED BY <1>1, <1>3
<1>5. ASSUME NEW i \in RuleNumbers(g)
      PROVE  /\ RuleAt(g, i).rhs \in Seq(Symbol)
             /\ i <= n => RuleAt(g, i).lhs \in Nonterminal
             /\ i = n + 1 => RuleAt(g, i).lhs = Augmented
  <2>1. CASE i = n + 1
    <3>1. <<g.start>> \in Seq(Symbol)
      BY <1>1 DEF Symbol
    <3>2. ~(i <= n) /\ RuleAt(g, i) = added
      BY <1>2, <1>4, <2>1 DEF RuleAt
    <3> QED BY <3>1, <3>2
  <2>2. CASE i # n + 1
    <3>1. i \in 1..n
      BY <1>2, <2>2 DEF RuleNumbers
    <3>2. RuleAt(g, i) \in R
      BY <1>2, <1>4, <3>1 DEF RuleAt
    <3> QED BY <2>2, <3>2
  <2> QED BY <2>1, <2>2
<1> QED BY <1>2, <1>4, <1>5 DEF RuleNumbers, RulesAreTyped

\* Where the dot of an item may stand, and the symbol behind it.
RhsOf(g, item) == RuleAt(g, item.rule).rhs

\* An item stands in a rule that there is.
LEMMA ItemType ==
  ASSUME NEW g, IsGrammar(g), NEW item \in Items(g)
  PROVE  /\ item.rule \in RuleNumbers(g) /\ item.look \in Looks(g)
         /\ item = [rule |-> item.rule, dot |-> item.dot, look |-> item.look]
         /\ RhsOf(g, item) \in Seq(Symbol)
         /\ item.dot \in 0..Len(RhsOf(g, item))
<1>1. /\ item \in [rule : RuleNumbers(g), dot : Nat, look : Looks(g)]
      /\ item.dot <= Len(RuleAt(g, item.rule).rhs)
  BY DEF Items
<1>2. RuleAt(g, item.rule).rhs \in Seq(Symbol)
  BY <1>1, RulesType DEF RulesAreTyped
<1> QED BY <1>1, <1>2 DEF RhsOf

\* What follows the dot is a symbol of the grammar, and then the dot can move.
LEMMA AfterDot ==
  ASSUME NEW g, IsGrammar(g), NEW item \in Items(g)
  PROVE  /\ IsAtEnd(AugmentedRules(g), item) <=> item.dot = Len(RhsOf(g, item))
         /\ \A X : IsBefore(AugmentedRules(g), item, X) <=>
                     item.dot < Len(RhsOf(g, item)) /\ RhsOf(g, item)[item.dot + 1] = X
         /\ item.dot < Len(RhsOf(g, item)) =>
              /\ Head(SymbolsAfterDot(AugmentedRules(g), item)) = RhsOf(g, item)[item.dot + 1]
              /\ Tail(SymbolsAfterDot(AugmentedRules(g), item)) \in Seq(Symbol)
              /\ RhsOf(g, item)[item.dot + 1] \in Symbol
<1> DEFINE w == RhsOf(g, item)
           d == item.dot
           after == SymbolsAfterDot(AugmentedRules(g), item)
<1>1. w \in Seq(Symbol) /\ d \in 0..Len(w) /\ Len(w) \in Nat
  BY ItemType
<1>2. after = SubSeq(w, d + 1, Len(w))
  BY DEF SymbolsAfterDot, RhsOf, RuleAt
<1> HIDE DEF w, d, after
<1>3. CASE d = Len(w)
  <2>1. after = << >>
    BY <1>1, <1>2, <1>3
  <2> QED BY <1>1, <1>3, <2>1 DEF IsAtEnd, IsBefore, w, d, after
<1>4. CASE d < Len(w)
  <2>1. d + 1 \in 1..Len(w) /\ after \in Seq(Symbol) /\ Len(after) = Len(w) - d
    BY <1>1, <1>2, <1>4
  <2>2. Len(after) >= 1
    BY <1>1, <1>4, <2>1
  <2>3. after # << >> /\ after[1] = w[d + 1]
    BY <1>1, <1>2, <2>1, <2>2
  <2>4. Head(after) = w[d + 1] /\ Tail(after) \in Seq(Symbol) /\ w[d + 1] \in Symbol
    BY <1>1, <2>1, <2>3
  <2>5. d # Len(w)
    BY <1>1, <1>4
  <2> QED BY <1>4, <2>3, <2>4, <2>5 DEF IsAtEnd, IsBefore, w, d, after
<1> QED BY <1>1, <1>3, <1>4
-----------------------------------------------------------------------------
(* First sets and closures. *)

\* The items that an item predicts.
Predicts(g, item) == Predicted(g, First(g), item)

\* What an item predicts are items that begin rules.
LEMMA PredictedType ==
  ASSUME NEW g, IsGrammar(g), NEW item \in Items(g)
  PROVE  \A p \in Predicts(g, item) :
           /\ p \in Items(g) /\ p.dot = 0
           /\ IsBefore(AugmentedRules(g), item, RuleAt(g, p.rule).lhs)
<1> DEFINE rules == AugmentedRules(g)
           looks == FirstOfTail(g, First(g), item)
<1>1. SUFFICES ASSUME NEW p \in Predicts(g, item)
               PROVE  /\ p \in Items(g) /\ p.dot = 0
                      /\ IsBefore(rules, item, RuleAt(g, p.rule).lhs)
  BY DEF Predicts
<1>2. PICK i \in 1..Len(rules), l \in IF IsAtEnd(rules, item) THEN {} ELSE looks :
        /\ IsBefore(rules, item, rules[i].lhs)
        /\ p = [rule |-> i, dot |-> 0, look |-> l]
  BY DEF Predicts, Predicted
<1>3. ~IsAtEnd(rules, item) /\ l \in looks
  BY <1>2
<1>4. i \in RuleNumbers(g) /\ RuleAt(g, i).rhs \in Seq(Symbol) /\ RuleAt(g, i) = rules[i]
  BY <1>2, RulesType DEF RuleNumbers, RulesAreTyped, RuleAt
<1>5. l \in Looks(g)
  <2> DEFINE tail == Tail(SymbolsAfterDot(rules, item))
  <2>1. tail \in Seq(Symbol)
    <3>1. item.dot # Len(RhsOf(g, item)) /\ item.dot \in 0..Len(RhsOf(g, item)) /\ Len(RhsOf(g, item)) \in Nat
      BY <1>3, AfterDot, ItemType
    <3>2. item.dot < Len(RhsOf(g, item))
      BY <3>1
    <3> QED BY <3>2, AfterDot
  <2> HIDE DEF tail
  <2>2. l \in FirstOf(tail, Nullable(g), First(g)) \/ l = item.look
    BY <1>3 DEF FirstOfTail, tail
  <2>3. CASE l = item.look
    BY <2>3, ItemType
  <2>4. CASE l \in FirstOf(tail, Nullable(g), First(g))
    BY <2>1, <2>4 DEF Looks
  <2> QED BY <2>2, <2>3, <2>4
<1>6. Len(RuleAt(g, i).rhs) \in Nat
  BY <1>4
<1>7. p \in Items(g)
  BY <1>2, <1>4, <1>5, <1>6 DEF Items
<1> QED BY <1>2, <1>4, <1>7

\* Items that differ in their lookaheads only predict items that differ in theirs only.
LEMMA PredictionsIgnoreLooks ==
  ASSUME NEW g, IsGrammar(g), NEW item \in Items(g), NEW other \in Items(g),
         item.rule = other.rule, item.dot = other.dot, NEW p \in Predicts(g, item)
  PROVE  \E q \in Predicts(g, other) : q.rule = p.rule /\ q.dot = p.dot
<1> DEFINE rules == AugmentedRules(g)
           L(i) == FirstOfTail(g, First(g), i)
           after == SymbolsAfterDot(rules, item)
<1>1. PICK i \in 1..Len(rules), l \in IF IsAtEnd(rules, item) THEN {} ELSE L(item) :
        /\ IsBefore(rules, item, rules[i].lhs)
        /\ p = [rule |-> i, dot |-> 0, look |-> l]
  BY DEF Predicts, Predicted
<1>2. SymbolsAfterDot(rules, other) = after
  BY DEF SymbolsAfterDot
<1>3. ~IsAtEnd(rules, other) /\ IsBefore(rules, other, rules[i].lhs)
  BY <1>1, <1>2 DEF IsAtEnd, IsBefore
<1>4. \E m : m \in L(other)
  <2>1. /\ L(item) = FirstOf(Tail(after), Nullable(g), First(g))
                       \cup (IF ToSet(Tail(after)) \subseteq Nullable(g) THEN {item.look} ELSE {})
        /\ L(other) = FirstOf(Tail(after), Nullable(g), First(g))
                       \cup (IF ToSet(Tail(after)) \subseteq Nullable(g) THEN {other.look} ELSE {})
    BY <1>2 DEF FirstOfTail
  <2>2. l \in L(item)
    BY <1>1
  <2> HIDE DEF L, after
  <2> QED BY <2>1, <2>2, Zenon
<1>5. PICK m : m \in L(other)
  BY <1>4
<1> DEFINE q == [rule |-> i, dot |-> 0, look |-> m]
<1>6. q \in Predicts(g, other)
  BY <1>1, <1>3, <1>5 DEF Predicts, Predicted
<1> QED BY <1>1, <1>6
-----------------------------------------------------------------------------
\* What a sequence maps to is finite.
LEMMA RangeIsFinite ==
  ASSUME NEW S, NEW s \in Seq(S)
  PROVE  IsFiniteSet(ToSet(s))
<1> DEFINE n == Len(s)
<1>1. n \in Nat /\ DOMAIN s = 1..n
  OBVIOUS
<1>2. s \in Surjection(1..n, ToSet(s))
  <2>1. s \in [1..n -> ToSet(s)]
    BY <1>1 DEF ToSet
  <2>2. \A x \in ToSet(s) : \E i \in 1..n : s[i] = x
    BY <1>1 DEF ToSet
  <2> QED BY <2>1, <2>2 DEF Surjection
<1>3. IsFiniteSet(1..n)
  BY <1>1, FS_Interval
<1> QED BY <1>2, <1>3, FS_Surjection, Zenon

RoundsOf(g) == Len(g.rules) * Cardinality(Lookaheads(g))

\* The rounds are numbered, so there is a last one.
LEMMA RoundsAreNumbered ==
  ASSUME NEW g, IsGrammar(g)
  PROVE  RoundsOf(g) \in Nat
<1>1. IsFiniteSet(Terminal)
  <2>1. TerminalTable \in Seq(Terminal)
    BY TerminalAssumption
  <2> QED BY <2>1, RangeIsFinite DEF Terminal
<1>2. TerminalsOf(g) \in SUBSET Terminal
  BY DEF TerminalsOf
<1>3. IsFiniteSet(TerminalsOf(g))
  BY <1>1, <1>2, FS_Subset, Zenon
<1>4. IsFiniteSet(Lookaheads(g))
  BY <1>3, FS_AddElement, Zenon DEF Lookaheads
<1>5. Cardinality(Lookaheads(g)) \in Nat /\ Len(g.rules) \in Nat
  BY <1>4, FS_CardinalityType, RulesType
<1> QED BY <1>5, SMT DEF RoundsOf

\* The item set and the agenda of closure, round after round.
Closing(g) == [all : SUBSET Items(g), agenda : SUBSET Items(g)]

News(g, x) == (UNION {Predicts(g, item) : item \in x.agenda}) \ x.all

Grow(g) == [x \in Closing(g) |-> [all |-> x.all \cup News(g, x), agenda |-> News(g, x)]]

Found(g, seed, n) == Repeated(Closing(g), Grow(g), [all |-> seed, agenda |-> seed], n)

\* What the rounds keep to.
LEMMA FoundGoesOn ==
  ASSUME NEW g, IsGrammar(g), NEW seed \in SUBSET Items(g), NEW n \in Nat
  PROVE  /\ Found(g, seed, 0) = [all |-> seed, agenda |-> seed]
         /\ Found(g, seed, n) \in Closing(g)
         /\ Found(g, seed, n + 1) = [all    |-> Found(g, seed, n).all \cup News(g, Found(g, seed, n)),
                                     agenda |-> News(g, Found(g, seed, n))]
<1> DEFINE a == [all |-> seed, agenda |-> seed]
<1>1. a \in Closing(g)
  BY DEF Closing
<1>2. Grow(g) \in [Closing(g) -> Closing(g)]
  <2>1. ASSUME NEW x \in Closing(g)
        PROVE  [all |-> x.all \cup News(g, x), agenda |-> News(g, x)] \in Closing(g)
    <3>1. x.all \in SUBSET Items(g) /\ x.agenda \in SUBSET Items(g)
      BY DEF Closing
    <3>2. News(g, x) \in SUBSET Items(g)
      BY <3>1, PredictedType DEF News
    <3> QED BY <3>1, <3>2 DEF Closing
  <2> QED BY <2>1 DEF Grow
<1> HIDE DEF a
<1>3. /\ Found(g, seed, 0) = a
      /\ Found(g, seed, n) \in Closing(g)
      /\ Found(g, seed, n + 1) = Grow(g)[Found(g, seed, n)]
  BY <1>1, <1>2, RepeatedGoesOn DEF Found, a
<1>4. \A x \in Closing(g) : Grow(g)[x] = [all |-> x.all \cup News(g, x), agenda |-> News(g, x)]
  BY DEF Grow
<1> QED BY <1>3, <1>4 DEF a

GoesOn(g, seed, n) ==
  Found(g, seed, n + 1) = [all    |-> Found(g, seed, n).all \cup News(g, Found(g, seed, n)),
                           agenda |-> News(g, Found(g, seed, n))]

\* The last of these, named.
LEMMA GoesOnByRounds ==
  ASSUME NEW g, IsGrammar(g), NEW seed \in SUBSET Items(g), NEW n \in Nat
  PROVE  GoesOn(g, seed, n) /\ Found(g, seed, n) \in Closing(g)
BY FoundGoesOn DEF GoesOn

\* Closure goes these rounds.
LEMMA ClosureIsFound ==
  ASSUME NEW g, IsGrammar(g), NEW seed \in SUBSET Items(g)
  PROVE  Closure(g, First(g), seed) = Found(g, seed, RoundsOf(g)).all
<1> DEFINE m == RoundsOf(g)
           first == First(g)
           start == [all |-> seed, agenda |-> seed]
           Turn(x) == LET new == (UNION {Predicted(g, first, item) : item \in x.agenda}) \ x.all
                      IN [all |-> x.all \cup new, agenda |-> new]
           Equation(f) ==
             f = [n \in 0..m |->
                    IF n = 0 THEN [all |-> seed, agenda |-> seed]
                    ELSE LET before == f[n - 1]
                             new == (UNION {Predicted(g, first, item) : item \in before.agenda}) \ before.all
                         IN [all |-> before.all \cup new, agenda |-> new]]
           found == CHOOSE f : Equation(f)
           c == [n \in 0..m |-> Found(g, seed, n)]
<1>1. m \in Nat
  BY RoundsAreNumbered
<1>2. Closure(g, first, seed) = found[m].all
  BY Zenon DEF Closure, RoundsOf
<1>3. \A n \in 1..m : c[n] = Turn(c[n - 1])
  <2> SUFFICES ASSUME NEW n \in 1..m
               PROVE  c[n] = Turn(c[n - 1])
    OBVIOUS
  <2>1. n - 1 \in Nat /\ (n - 1) + 1 = n /\ n - 1 \in 0..m /\ n \in 0..m
    BY <1>1
  <2>2. c[n] = Found(g, seed, n) /\ c[n - 1] = Found(g, seed, n - 1)
    BY <2>1
  <2> HIDE DEF c, m
  <2>3. Found(g, seed, (n - 1) + 1) = Turn(Found(g, seed, n - 1))
    <3> DEFINE x == Found(g, seed, n - 1)
    <3>1. Found(g, seed, (n - 1) + 1) = [all |-> x.all \cup News(g, x), agenda |-> News(g, x)]
      <4> HIDE DEF x
      <4>1. GoesOn(g, seed, n - 1)
        BY <2>1, GoesOnByRounds, Zenon
      <4> QED BY <4>1 DEF GoesOn, x
    <3>2. News(g, x) = (UNION {Predicted(g, first, item) : item \in x.agenda}) \ x.all
      BY DEF News, Predicts
    <3> HIDE DEF x
    <3> QED BY <3>1, <3>2 DEF x
  <2> QED BY <2>1, <2>2, <2>3
<1>4. c[0] = start
  <2>1. 0 \in 0..m /\ 0 \in Nat
    BY <1>1
  <2> QED BY <2>1, FoundGoesOn
<1> HIDE DEF m
<1>5. Equation(c)
  <2>1. c = [n \in 0..m |-> c[n]]
    OBVIOUS
  <2> HIDE DEF c
  <2>2. \A n \in 0..m : c[n] = IF n = 0 THEN start ELSE Turn(c[n - 1])
    <3>1. \A n \in 0..m : n # 0 => n \in 1..m
      BY <1>1
    <3> QED BY <1>3, <1>4, <3>1
  <2> QED BY <2>1, <2>2
<1>6. Equation(found)
  <2> HIDE DEF Equation, c
  <2> QED BY <1>5
<1> HIDE DEF found
<1> DEFINE T == {n \in Nat : n <= m => found[n] = c[n]}
<1>7. 0 \in T
  <2> HIDE DEF c
  <2>1. 0 \in 0..m
    BY <1>1
  <2>2. found[0] = start
    BY <1>6, <2>1
  <2> QED BY <1>4, <2>2
<1>8. ASSUME NEW n \in 0..m - 1, n \in T
      PROVE  n + 1 \in T
  <2>1. n \in Nat /\ n + 1 \in Nat /\ n + 1 \in 0..m /\ n + 1 # 0 /\ (n + 1) - 1 = n /\ n <= m /\ n + 1 \in 1..m
    BY <1>1
  <2>2. found[n] = c[n]
    BY <1>8, <2>1
  <2> HIDE DEF c
  <2>3. found[n + 1] = Turn(found[n])
    BY <1>6, <2>1
  <2>4. c[n + 1] = Turn(c[n])
    BY <1>3, <2>1
  <2>5. found[n + 1] = c[n + 1]
    BY <2>2, <2>3, <2>4
  <2> QED BY <2>1, <2>5
<1>9. found[m] = c[m]
  <2> HIDE DEF T
  <2>1. m \in T
    <3>1. \A n \in 0..m : n \in T
      BY <1>1, <1>7, <1>8, UpTo
    <3> QED BY <1>1, <3>1
  <2> QED BY <1>1, <2>1 DEF T
<1>10. c[m] = Found(g, seed, m)
  BY <1>1
<1> QED BY <1>2, <1>9, <1>10 DEF m

\* What closure adds to its seed stands at the beginning of a rule that an item of it
\* waits for.
IsClosure(g, seed, items) ==
  /\ items \in SUBSET Items(g) /\ seed \subseteq items
  /\ \A p \in items :
       \/ p \in seed
       \/ p.dot = 0 /\ \E q \in items : IsBefore(AugmentedRules(g), q, RuleAt(g, p.rule).lhs)

\* Everything predicted is found, but what the agenda predicts.
IsSettled(g, x) ==
  /\ x.agenda \subseteq x.all
  /\ \A item \in x.all \ x.agenda : Predicts(g, item) \subseteq x.all

\* After every round all is found that items off the agenda predict, and whatever was found
\* is of the seed or predicted.
LEMMA FoundIsSettled ==
  ASSUME NEW g, IsGrammar(g), NEW seed \in SUBSET Items(g), NEW m \in Nat
  PROVE  IsSettled(g, Found(g, seed, m)) /\ IsClosure(g, seed, Found(g, seed, m).all)
<1> DEFINE F(n) == Found(g, seed, n)
           S == {n \in Nat : IsSettled(g, F(n)) /\ IsClosure(g, seed, F(n).all)}
<1>1. 0 \in S
  <2>1. F(0) = [all |-> seed, agenda |-> seed]
    BY FoundGoesOn
  <2> HIDE DEF F
  <2> QED BY <2>1 DEF IsSettled, IsClosure
<1>2. ASSUME NEW n \in Nat, n \in S
      PROVE  n + 1 \in S
  <2> DEFINE x == F(n)
             y == F(n + 1)
             new == News(g, x)
  <2>1. x \in Closing(g) /\ y = [all |-> x.all \cup new, agenda |-> new]
    BY FoundGoesOn
  <2>2. IsSettled(g, x) /\ IsClosure(g, seed, x.all)
    BY <1>2
  <2>3. x.all \in SUBSET Items(g) /\ x.agenda \in SUBSET Items(g)
    BY <2>1 DEF Closing
  <2> HIDE DEF F, x
  <2>4. /\ y.all = x.all \cup new /\ y.agenda = new
        /\ new = (UNION {Predicts(g, item) : item \in x.agenda}) \ x.all
    BY <2>1 DEF News
  <2> HIDE DEF new, y
  <2>5. IsSettled(g, y)
    BY <2>2, <2>4 DEF IsSettled
  <2>6. IsClosure(g, seed, y.all)
    <3>1. ASSUME NEW p \in new
          PROVE  /\ p \in Items(g) /\ p.dot = 0
                 /\ \E q \in x.all : IsBefore(AugmentedRules(g), q, RuleAt(g, p.rule).lhs)
      <4>1. PICK item \in x.agenda : p \in Predicts(g, item)
        BY <2>4, <3>1
      <4>2. item \in Items(g) /\ item \in x.all
        BY <2>2, <2>3 DEF IsSettled
      <4> QED BY <4>1, <4>2, PredictedType
    <3> QED BY <2>2, <2>4, <3>1 DEF IsClosure
  <2> QED BY <2>5, <2>6 DEF F, y
<1>3. \A n \in 0..m : n \in S
  <2> HIDE DEF S
  <2> QED BY <1>1, <1>2, UpTo
<1>4. m \in S
  <2> HIDE DEF S
  <2> QED BY <1>3
<1> QED BY <1>4

\* Closure gives the items of the seed and items that are predicted.
LEMMA ClosureResult ==
  ASSUME NEW g, IsGrammar(g), NEW seed \in SUBSET Items(g)
  PROVE  IsClosure(g, seed, Closure(g, First(g), seed))
BY RoundsAreNumbered, ClosureIsFound, FoundIsSettled, Zenon

\* The core of a closure follows from the core of its seed.
LEMMA ClosureCores ==
  ASSUME NEW g, IsGrammar(g), NEW seed \in SUBSET Items(g), NEW other \in SUBSET Items(g),
         Core(seed) \subseteq Core(other)
  PROVE  Core(Closure(g, First(g), seed)) \subseteq Core(Closure(g, First(g), other))
<1> DEFINE X(n) == Found(g, seed, n).all
           Y(n) == Found(g, other, n).all
           m == RoundsOf(g)
           S == {n \in Nat : Core(X(n)) \subseteq Core(Y(n))}
<1>1. 0 \in S
  <2>1. Found(g, seed, 0) = [all |-> seed, agenda |-> seed]
    BY FoundGoesOn
  <2>2. Found(g, other, 0) = [all |-> other, agenda |-> other]
    BY FoundGoesOn
  <2>3. X(0) = seed /\ Y(0) = other
    BY <2>1, <2>2
  <2> HIDE DEF X, Y
  <2> QED BY <2>3
<1>2. ASSUME NEW n \in Nat, n \in S
      PROVE  n + 1 \in S
  <2> DEFINE x == Found(g, seed, n)
             y == Found(g, other, n)
  <2>1. /\ x \in Closing(g) /\ X(n + 1) = x.all \cup News(g, x)
        /\ y \in Closing(g) /\ Y(n + 1) = y.all \cup News(g, y)
    <3>1. x \in Closing(g) /\ Found(g, seed, n + 1) = [all |-> x.all \cup News(g, x), agenda |-> News(g, x)]
      <4>1. GoesOn(g, seed, n) /\ Found(g, seed, n) \in Closing(g)
        BY GoesOnByRounds, Zenon
      <4> QED BY <4>1 DEF GoesOn
    <3>2. y \in Closing(g) /\ Found(g, other, n + 1) = [all |-> y.all \cup News(g, y), agenda |-> News(g, y)]
      <4>1. GoesOn(g, other, n) /\ Found(g, other, n) \in Closing(g)
        BY GoesOnByRounds, Zenon
      <4> QED BY <4>1 DEF GoesOn
    <3> HIDE DEF x, y
    <3> QED BY <3>1, <3>2
  <2>2. IsSettled(g, x) /\ IsSettled(g, y) /\ Core(x.all) \subseteq Core(y.all)
    BY <1>2, FoundIsSettled
  <2>3. x.all \in SUBSET Items(g) /\ y.all \in SUBSET Items(g)
    BY <2>1 DEF Closing
  <2> HIDE DEF x, y, X, Y
  <2>4. ASSUME NEW p \in X(n + 1)
        PROVE  \E q \in Y(n + 1) : q.rule = p.rule /\ q.dot = p.dot
    <3>1. CASE p \in x.all
      <4>1. <<p.rule, p.dot>> \in Core(y.all)
        BY <2>2, <3>1 DEF Core
      <4>2. PICK q \in y.all : <<p.rule, p.dot>> = <<q.rule, q.dot>>
        BY <4>1 DEF Core
      <4> QED BY <2>1, <4>2
    <3>2. CASE p \notin x.all
      <4>1. PICK item \in x.agenda : p \in Predicts(g, item)
        BY <2>1, <2>4, <3>2 DEF News
      <4>2. item \in x.all
        BY <2>2 DEF IsSettled
      <4>3. <<item.rule, item.dot>> \in Core(y.all)
        BY <2>2, <4>2 DEF Core
      <4>4. PICK twin \in y.all : <<item.rule, item.dot>> = <<twin.rule, twin.dot>>
        BY <4>3 DEF Core
      <4>5. item \in Items(g) /\ twin \in Items(g) /\ item.rule = twin.rule /\ item.dot = twin.dot
        BY <2>3, <4>2, <4>4
      <4>6. PICK q \in Predicts(g, twin) : q.rule = p.rule /\ q.dot = p.dot
        BY <4>1, <4>5, PredictionsIgnoreLooks
      <4>7. q \in y.all \cup News(g, y)
        <5>1. CASE twin \in y.agenda
          BY <4>6, <5>1 DEF News
        <5>2. CASE twin \notin y.agenda
          BY <2>2, <4>6, <5>2 DEF IsSettled
        <5> QED BY <5>1, <5>2
      <4> QED BY <2>1, <4>6, <4>7
    <3> QED BY <3>1, <3>2
  <2>5. Core(X(n + 1)) \subseteq Core(Y(n + 1))
    BY <2>4 DEF Core
  <2> QED BY <2>5
<1>3. m \in Nat
  BY RoundsAreNumbered
<1>4. m \in S
  <2> HIDE DEF S, m
  <2>1. \A n \in 0..m : n \in S
    BY <1>1, <1>2, <1>3, UpTo
  <2> QED BY <1>3, <2>1
<1> QED BY <1>4, ClosureIsFound

-----------------------------------------------------------------------------
(* Transitions. *)

\* An item set of the automaton: items, each at the beginning of a rule being there
\* because another waits for the left-hand side, or because it is where all begins.
IsState(g, items) ==
  /\ items \in SUBSET Items(g)
  /\ \A p \in items :
       p.dot = 0 => \/ p.rule = Len(g.rules) + 1
                    \/ \E q \in items : IsBefore(AugmentedRules(g), q, RuleAt(g, p.rule).lhs)

\* The items of after whose dot is past a symbol come from items of before, and the
\* symbol is X.
Follows(g, before, X, after) ==
  \A p \in after :
    p.dot # 0 => \E q \in before : /\ q.rule = p.rule /\ q.dot = p.dot - 1
                                   /\ IsBefore(AugmentedRules(g), q, X)

\* The items of a set that wait for X, past it.
Moved(g, items, X) ==
  {[item EXCEPT !.dot = @ + 1] : item \in {i \in items : IsBefore(AugmentedRules(g), i, X)}}

\* Items whose dot has moved are items, none of them at the beginning.
LEMMA MovedType ==
  ASSUME NEW g, IsGrammar(g), NEW items \in SUBSET Items(g), NEW X
  PROVE  \A p \in Moved(g, items, X) :
           /\ p \in Items(g)
           /\ \E q \in items : /\ q.rule = p.rule /\ p.dot = q.dot + 1 /\ q.dot \in Nat
                               /\ IsBefore(AugmentedRules(g), q, X)
<1> SUFFICES ASSUME NEW p \in Moved(g, items, X)
             PROVE  /\ p \in Items(g)
                    /\ \E q \in items : /\ q.rule = p.rule /\ p.dot = q.dot + 1 /\ q.dot \in Nat
                                        /\ IsBefore(AugmentedRules(g), q, X)
  OBVIOUS
<1>1. PICK q \in items : IsBefore(AugmentedRules(g), q, X) /\ p = [q EXCEPT !.dot = @ + 1]
  BY DEF Moved
<1>2. /\ q \in Items(g) /\ q.rule \in RuleNumbers(g) /\ q.look \in Looks(g)
      /\ q = [rule |-> q.rule, dot |-> q.dot, look |-> q.look]
      /\ RhsOf(g, q) \in Seq(Symbol) /\ q.dot \in 0..Len(RhsOf(g, q))
  BY ItemType
<1>3. q.dot < Len(RhsOf(g, q))
  BY <1>1, <1>2, AfterDot
<1>4. p = [rule |-> q.rule, dot |-> q.dot + 1, look |-> q.look]
  BY <1>1, <1>2
<1>5. q.dot \in Nat /\ q.dot + 1 \in Nat /\ q.dot + 1 <= Len(RuleAt(g, q.rule).rhs)
  BY <1>2, <1>3 DEF RhsOf
<1>6. p \in Items(g)
  BY <1>2, <1>4, <1>5 DEF Items
<1> QED BY <1>1, <1>4, <1>5, <1>6

\* Goto leads from a state to a state.
LEMMA GotoResult ==
  ASSUME NEW g, IsGrammar(g), NEW items \in SUBSET Items(g), NEW X
  PROVE  /\ IsState(g, Goto(g, First(g), items, X))
         /\ Follows(g, items, X, Goto(g, First(g), items, X))
<1> DEFINE seed == Moved(g, items, X)
           after == Goto(g, First(g), items, X)
<1>1. after = Closure(g, First(g), seed)
  BY DEF Goto, Moved
<1>2. seed \in SUBSET Items(g)
  BY MovedType
<1>3. IsClosure(g, seed, after)
  BY <1>1, <1>2, ClosureResult
<1>4. \A p \in seed : p.dot # 0
  <2> SUFFICES ASSUME NEW p \in seed
               PROVE  p.dot # 0
    OBVIOUS
  <2>1. PICK q \in items : p.dot = q.dot + 1 /\ q.dot \in Nat
    BY MovedType
  <2> QED BY <2>1
<1>5. ASSUME NEW p \in seed
      PROVE  \E q \in items : /\ q.rule = p.rule /\ q.dot = p.dot - 1
                              /\ IsBefore(AugmentedRules(g), q, X)
  <2>1. PICK q \in items : /\ q.rule = p.rule /\ p.dot = q.dot + 1 /\ q.dot \in Nat
                           /\ IsBefore(AugmentedRules(g), q, X)
    BY MovedType
  <2>2. q.dot = p.dot - 1
    BY <2>1
  <2> QED BY <2>1, <2>2
<1> HIDE DEF seed, after
<1>6. IsState(g, after)
  BY <1>3, <1>4 DEF IsClosure, IsState
<1>7. Follows(g, items, X, after)
  BY <1>3, <1>5 DEF IsClosure, Follows
<1> QED BY <1>6, <1>7 DEF after

\* So do the states with the core of another have transitions with the same core.
LEMMA GotoCores ==
  ASSUME NEW g, IsGrammar(g), NEW items \in SUBSET Items(g), NEW other \in SUBSET Items(g),
         Core(items) = Core(other), NEW X
  PROVE  Core(Goto(g, First(g), items, X)) = Core(Goto(g, First(g), other, X))
<1>1. ASSUME NEW S \in SUBSET Items(g), NEW T \in SUBSET Items(g), Core(S) = Core(T)
      PROVE  Core(Goto(g, First(g), S, X)) \subseteq Core(Goto(g, First(g), T, X))
  <2>1. Moved(g, S, X) \in SUBSET Items(g) /\ Moved(g, T, X) \in SUBSET Items(g)
    BY MovedType
  <2>2. ASSUME NEW p \in Moved(g, S, X)
        PROVE  \E r \in Moved(g, T, X) : r.rule = p.rule /\ r.dot = p.dot
    <3>1. PICK q \in S : IsBefore(AugmentedRules(g), q, X) /\ p = [q EXCEPT !.dot = @ + 1]
      BY DEF Moved
    <3>2. <<q.rule, q.dot>> \in Core(T)
      BY <1>1 DEF Core
    <3>3. PICK twin \in T : <<q.rule, q.dot>> = <<twin.rule, twin.dot>>
      BY <3>2 DEF Core
    <3>4. twin.rule = q.rule /\ twin.dot = q.dot
      BY <3>3
    <3>5. IsBefore(AugmentedRules(g), twin, X)
      BY <3>1, <3>4 DEF IsBefore, IsAtEnd, SymbolsAfterDot
    <3>6. [twin EXCEPT !.dot = @ + 1] \in Moved(g, T, X)
      BY <3>5 DEF Moved
    <3>7. /\ q = [rule |-> q.rule, dot |-> q.dot, look |-> q.look]
          /\ twin = [rule |-> twin.rule, dot |-> twin.dot, look |-> twin.look]
      BY ItemType
    <3> QED BY <3>1, <3>4, <3>6, <3>7
  <2>3. Core(Moved(g, S, X)) \subseteq Core(Moved(g, T, X))
    BY <2>2 DEF Core
  <2>4. Core(Closure(g, First(g), Moved(g, S, X))) \subseteq Core(Closure(g, First(g), Moved(g, T, X)))
    BY <2>1, <2>3, ClosureCores
  <2> QED BY <2>4 DEF Goto, Moved
<1>2. Core(Goto(g, First(g), items, X)) \subseteq Core(Goto(g, First(g), other, X))
  BY <1>1
<1>3. Core(Goto(g, First(g), other, X)) \subseteq Core(Goto(g, First(g), items, X))
  BY <1>1
<1> QED BY <1>2, <1>3

\* The symbols of a state are those that follow a dot in it, and no state has infinitely many.
LEMMA SymbolsResult ==
  ASSUME NEW g, IsGrammar(g), NEW items \in SUBSET Items(g)
  PROVE  /\ IsFiniteSet(SymbolsIn(g, items))
         /\ \A X : X \in SymbolsIn(g, items) <=> \E i \in items : IsBefore(AugmentedRules(g), i, X)
<1> DEFINE rules == AugmentedRules(g)
           n == Len(g.rules) + 1
           f == [i \in 1..n |-> ToSet(RuleAt(g, i).rhs)]
           all == UNION {f[i] : i \in 1..n}
<1>1. \A X : X \in SymbolsIn(g, items) <=> \E i \in items : IsBefore(rules, i, X)
  BY DEF SymbolsIn, IsBefore
<1>2. n \in Nat /\ IsFiniteSet(1..n)
  BY RulesType, FS_Interval
<1>3. \A i \in 1..n : IsFiniteSet(f[i])
  <2> SUFFICES ASSUME NEW i \in 1..n
               PROVE  IsFiniteSet(f[i])
    OBVIOUS
  <2>1. RuleAt(g, i).rhs \in Seq(Symbol)
    BY RulesType DEF RulesAreTyped, RuleNumbers
  <2>2. IsFiniteSet(ToSet(RuleAt(g, i).rhs))
    BY <2>1, RangeIsFinite
  <2> QED BY <2>2
<1>4. f \in Surjection(1..n, {f[i] : i \in 1..n})
  BY DEF Surjection
<1> HIDE DEF f, n
<1>5. IsFiniteSet({f[i] : i \in 1..n})
  BY <1>2, <1>4, FS_Surjection, Zenon
<1>6. IsFiniteSet(all)
  <2>1. \A T \in {f[i] : i \in 1..n} : IsFiniteSet(T)
    BY <1>3
  <2> QED BY <1>5, <2>1, FS_UNION, Zenon
<1>7. ASSUME NEW X, X \in SymbolsIn(g, items)
      PROVE  X \in all
  <2>1. PICK i \in items : IsBefore(rules, i, X)
    BY <1>1, <1>7
  <2> DEFINE w == RhsOf(g, i)
             d == i.dot
  <2>2. d < Len(w) /\ w[d + 1] = X /\ w \in Seq(Symbol) /\ d \in 0..Len(w) /\ i.rule \in RuleNumbers(g)
    BY <2>1, AfterDot, ItemType
  <2> HIDE DEF w, d
  <2>3. d + 1 \in DOMAIN w
    BY <2>2
  <2>4. X \in ToSet(w)
    BY <2>2, <2>3 DEF ToSet
  <2>5. i.rule \in 1..n /\ f[i.rule] = ToSet(w)
    BY <2>2 DEF RuleNumbers, n, f, w, RhsOf
  <2> QED BY <2>4, <2>5
<1>8. IsFiniteSet(SymbolsIn(g, items))
  <2> HIDE DEF all
  <2>1. SymbolsIn(g, items) \in SUBSET all
    BY <1>7
  <2> QED BY <1>6, <2>1, FS_Subset, Zenon
<1> QED BY <1>1, <1>8

\* SetToSeq lists every element of a finite set.
LEMMA SetToSeqResult ==
  ASSUME NEW S, IsFiniteSet(S)
  PROVE  /\ SetToSeq(S) \in Seq(S)
         /\ \A x \in S : \E i \in 1..Len(SetToSeq(S)) : SetToSeq(S)[i] = x
<1> DEFINE n == Cardinality(S)
           s == SetToSeq(S)
<1>1. n \in Nat /\ ExistsBijection(1..n, S)
  BY FS_CardinalityType
<1>2. \E f \in [1..n -> S] : IsInjective(f)
  BY <1>1 DEF ExistsBijection, Bijection, Injection
<1>3. s \in [1..n -> S] /\ IsInjective(s)
  BY <1>2 DEF SetToSeq
<1> HIDE DEF s
<1>4. s \in Injection(1..n, S)
  BY <1>3 DEF Injection
<1>5. Cardinality(1..n) = n
  <2> HIDE DEF n
  <2> QED BY <1>1, FS_Interval
<1>6. s \in Surjection(1..n, S)
  BY <1>4, <1>5, FS_Injection
<1> HIDE DEF n
<1>7. s \in Seq(S) /\ Len(s) = n
  BY <1>1, <1>3
<1> QED BY <1>6, <1>7 DEF Surjection, s

-----------------------------------------------------------------------------
(* Merging. *)

IsFirst(states, i) == \A j \in 1..(i - 1) : Core(states[j]) # Core(states[i])

FirstOnes(states, n) == {j \in 1..n : IsFirst(states, j)}

\* States have the same number when they have the same core, and the numbers are from 1
\* to how many there are.
MergesCores(states) ==
  LET as == MergedAs(states)
      count == Cardinality(ToSet(as))
  IN /\ as \in [1..Len(states) -> 1..count] /\ count \in Nat
     /\ \A i, j \in 1..Len(states) : as[i] = as[j] <=> Core(states[i]) = Core(states[j])
     /\ states # << >> => as[1] = 1

\* States are numbered by their cores: those of one core alike, without gaps, the first one 1.
LEMMA MergingResult ==
  ASSUME NEW S, NEW states \in Seq(S)
  PROVE  MergesCores(states)
<1> DEFINE n == Len(states)
           as == MergedAs(states)
           count == Cardinality(ToSet(as))
           isFirst(i) == \A j \in 1..(i - 1) : Core(states[j]) # Core(states[i])
           earliest(i) == CHOOSE j \in 1..i : isFirst(j) /\ Core(states[j]) = Core(states[i])
           C(i) == Core(states[i])
           firsts(k) == FirstOnes(states, k)
           number(k) == Cardinality(firsts(k))
<1>1. n \in Nat
  OBVIOUS
<1>2. as = [i \in 1..n |-> Cardinality({j \in 1..earliest(i) : isFirst(j)})]
  BY Zenon DEF MergedAs
<1>3. ASSUME NEW i \in 1..n
      PROVE  earliest(i) \in 1..i /\ IsFirst(states, earliest(i)) /\ C(earliest(i)) = C(i)
  <2> DEFINE same == {j \in 1..i : C(j) = C(i)}
  <2>1. same \in SUBSET Nat /\ i \in same
    OBVIOUS
  <2> HIDE DEF same
  <2>2. PICK m \in same : \A k \in same : m <= k
    BY <2>1, LeastExists
  <2> USE DEF same
  <2>3. m \in 1..i /\ C(m) = C(i) /\ m \in Nat
    BY <2>2
  <2>4. \A j \in 1..(m - 1) : C(j) # C(m)
    <3> SUFFICES ASSUME NEW j \in 1..(m - 1), C(j) = C(m)
                 PROVE  FALSE
      OBVIOUS
    <3>1. j \in 1..i /\ j < m /\ j \in Nat
      BY <2>3
    <3>2. j \in same
      BY <2>3, <3>1
    <3>3. m <= j
      BY <2>2, <3>2
    <3> QED BY <2>3, <3>1, <3>3
  <2>5. isFirst(m) /\ Core(states[m]) = Core(states[i])
    BY <2>3, <2>4
  <2>6. earliest(i) \in 1..i /\ isFirst(earliest(i)) /\ Core(states[earliest(i)]) = Core(states[i])
    <3> HIDE DEF isFirst, same
    <3> QED BY <2>3, <2>5
  <2> QED BY <2>6 DEF IsFirst
<1>4. \A i \in 1..n : as[i] = number(earliest(i))
  <2> HIDE DEF earliest
  <2>1. \A i \in 1..n : {j \in 1..earliest(i) : isFirst(j)} = firsts(earliest(i))
    BY DEF FirstOnes, IsFirst
  <2> QED BY <1>2, <2>1
<1> HIDE DEF earliest, as
<1>5. \A i, j \in 1..n : C(i) = C(j) => earliest(i) = earliest(j)
  <2> SUFFICES ASSUME NEW i \in 1..n, NEW j \in 1..n, C(i) = C(j)
               PROVE  ~(earliest(i) < earliest(j))
    BY <1>1, <1>3, SMT
  <2> SUFFICES ASSUME earliest(i) < earliest(j)
               PROVE  FALSE
    OBVIOUS
  <2>1. earliest(i) \in 1..i /\ earliest(j) \in 1..j
    BY <1>3
  <2>2. earliest(i) \in 1..(earliest(j) - 1)
    BY <2>1
  <2>3. C(earliest(i)) # C(earliest(j))
    BY <1>3, <2>2 DEF IsFirst
  <2> QED BY <1>3, <2>3
<1>6. \A k \in 0..n : IsFiniteSet(firsts(k)) /\ number(k) \in Nat
  <2> SUFFICES ASSUME NEW k \in 0..n
               PROVE  IsFiniteSet(firsts(k)) /\ number(k) \in Nat
    OBVIOUS
  <2>1. IsFiniteSet(1..k) /\ firsts(k) \in SUBSET (1..k)
    BY FS_Interval DEF FirstOnes
  <2>2. IsFiniteSet(firsts(k))
    BY <2>1, FS_Subset, Zenon
  <2> QED BY <2>2, FS_CardinalityType
<1>7. ASSUME NEW k \in firsts(n), NEW m \in firsts(n), k < m
      PROVE  number(k) < number(m)
  <2>1. k \in 1..n /\ m \in 1..n /\ IsFirst(states, m) /\ IsFirst(states, k)
    BY DEF FirstOnes
  <2>2. firsts(k) \in SUBSET firsts(m) /\ m \in firsts(m) /\ m \notin firsts(k)
    BY <2>1, <1>7 DEF FirstOnes
  <2>3. IsFiniteSet(firsts(m)) /\ number(m) \in Nat /\ number(k) \in Nat
    BY <1>6, <2>1
  <2>4. number(k) <= number(m) /\ (number(m) = number(k) => firsts(m) = firsts(k))
    <3> HIDE DEF firsts
    <3> QED BY <2>2, <2>3, FS_Subset
  <2>5. number(k) # number(m)
    BY <2>2, <2>4
  <2> HIDE DEF number
  <2> QED BY <2>3, <2>4, <2>5
<1>8. \A i, j \in 1..n : earliest(i) \in firsts(n) /\ (as[i] = as[j] => earliest(i) = earliest(j))
  <2> SUFFICES ASSUME NEW i \in 1..n, NEW j \in 1..n
               PROVE  earliest(i) \in firsts(n) /\ (as[i] = as[j] => earliest(i) = earliest(j))
    OBVIOUS
  <2>1. earliest(i) \in firsts(n) /\ earliest(j) \in firsts(n)
    BY <1>1, <1>3 DEF FirstOnes
  <2>2. earliest(i) \in 1..n /\ earliest(j) \in 1..n
    BY <2>1 DEF FirstOnes
  <2>3. number(earliest(i)) \in Nat /\ number(earliest(j)) \in Nat
    BY <1>6, <2>2
  <2>4. /\ earliest(i) < earliest(j) => number(earliest(i)) < number(earliest(j))
        /\ earliest(j) < earliest(i) => number(earliest(j)) < number(earliest(i))
    BY <1>7, <2>1
  <2>5. as[i] = number(earliest(i)) /\ as[j] = number(earliest(j))
    BY <1>4
  <2> HIDE DEF number
  <2> QED BY <2>1, <2>2, <2>3, <2>4, <2>5
<1>9. ToSet(as) = {number(k) : k \in firsts(n)}
  <2>1. DOMAIN as = 1..n
    BY <1>2, Zenon
  <2>2. \A k \in firsts(n) : earliest(k) = k
    <3> SUFFICES ASSUME NEW k \in firsts(n)
                 PROVE  earliest(k) = k
      OBVIOUS
    <3>1. k \in 1..n /\ IsFirst(states, k)
      BY DEF FirstOnes
    <3>2. earliest(k) \in 1..k /\ C(earliest(k)) = C(k)
      BY <1>3, <3>1
    <3>3. earliest(k) \notin 1..(k - 1)
      BY <3>1, <3>2 DEF IsFirst
    <3> QED BY <3>1, <3>2, <3>3
  <2>3. \A k \in firsts(n) : k \in 1..n
    BY DEF FirstOnes
  <2>4. \A i \in 1..n : as[i] = number(earliest(i)) /\ earliest(i) \in firsts(n)
    BY <1>4, <1>8
  <2>5. \A k \in firsts(n) : k \in 1..n /\ as[k] = number(k)
    <3> HIDE DEF firsts, number
    <3> QED BY <1>4, <2>2, <2>3
  <2> HIDE DEF firsts, number, n
  <2>6. ToSet(as) = {as[i] : i \in 1..n}
    BY <2>1 DEF ToSet
  <2> QED BY <2>4, <2>5, <2>6
<1>10. count = number(n)
  <2> DEFINE f == [k \in firsts(n) |-> number(k)]
             V == {number(k) : k \in firsts(n)}
  <2>1. \A k, m \in firsts(n) : number(k) = number(m) => k = m
    <3> SUFFICES ASSUME NEW k \in firsts(n), NEW m \in firsts(n), k < m
                 PROVE  number(k) # number(m)
      BY SMT DEF FirstOnes
    <3>1. k \in 1..n /\ m \in 1..n
      BY DEF FirstOnes
    <3>2. number(k) < number(m) /\ number(k) \in Nat /\ number(m) \in Nat
      BY <1>6, <1>7, <3>1
    <3> HIDE DEF number
    <3> QED BY <3>2
  <2> HIDE DEF firsts, number
  <2>2. f \in Surjection(firsts(n), V) /\ f \in Injection(firsts(n), V)
    BY <2>1 DEF Surjection, Injection, IsInjective
  <2>3. IsFiniteSet(firsts(n))
    BY <1>1, <1>6
  <2> HIDE DEF f, V
  <2>4. Cardinality(V) = Cardinality(firsts(n))
    BY <2>2, <2>3, FS_Surjection
  <2> QED BY <1>9, <2>4 DEF V, number
<1>11. ASSUME NEW i \in 1..n
       PROVE  as[i] \in 1..count
  <2> DEFINE e == earliest(i)
  <2>1. e \in 1..n /\ e \in firsts(n) /\ as[i] = number(e)
    BY <1>4, <1>8 DEF FirstOnes
  <2> HIDE DEF e
  <2>2. e \in firsts(e) /\ firsts(e) \in SUBSET firsts(n)
    BY <2>1, <1>1 DEF FirstOnes
  <2>3. IsFiniteSet(firsts(e)) /\ IsFiniteSet(firsts(n)) /\ number(e) \in Nat /\ number(n) \in Nat
    BY <1>1, <1>6, <2>1
  <2>4. number(e) <= number(n)
    <3> HIDE DEF firsts
    <3> QED BY <2>2, <2>3, FS_Subset
  <2>5. number(e) # 0
    <3> HIDE DEF firsts
    <3> QED BY <2>2, <2>3, FS_EmptySet
  <2> HIDE DEF number, firsts
  <2> QED BY <1>10, <2>1, <2>3, <2>4, <2>5
<1>12. n # 0 => as[1] = 1
  <2> SUFFICES ASSUME n # 0
               PROVE  as[1] = 1
    OBVIOUS
  <2>1. 1 \in 1..n
    BY <1>1
  <2>2. earliest(1) = 1
    BY <1>3, <2>1
  <2>3. firsts(1) = {1}
    BY DEF FirstOnes, IsFirst
  <2>4. number(1) = 1
    BY <2>3, FS_Singleton
  <2> QED BY <1>4, <2>1, <2>2, <2>4
<1>13. count \in Nat
  BY <1>1, <1>6, <1>10
<1>14. as \in [1..n -> 1..count]
  <2>1. as = [i \in 1..n |-> as[i]]
    BY <1>2, Zenon
  <2> QED BY <1>11, <2>1
<1>15. \A i, j \in 1..n : as[i] = as[j] <=> C(i) = C(j)
  <2> HIDE DEF C
  <2> QED BY <1>3, <1>4, <1>5, <1>8
<1>16. states # << >> => n # 0
  OBVIOUS
<1> HIDE DEF count
<1> QED BY <1>12, <1>13, <1>14, <1>15, <1>16 DEF MergesCores, as, count

-----------------------------------------------------------------------------
(* Construction. *)

\* e is a transition from an expanded state.
IsEdge(g, b, e) ==
  /\ e = <<e[1], e[2], e[3]>>
  /\ e[1] \in 1..(b.next - 1) /\ e[3] \in 1..Len(b.states)
  /\ b.states[e[3]] = Goto(g, First(g), b.states[e[1]], e[2])

\* The expanded states have their transitions.
IsExpanded(g, b) ==
  \A i \in 1..(b.next - 1) : \A X \in SymbolsIn(g, b.states[i]) :
    \E e \in b.edges : e[1] = i /\ e[2] = X

IsConstruction(g, b) ==
  /\ b = [at |-> b.at, states |-> b.states, next |-> b.next, edges |-> b.edges]
  /\ b.states \in Seq(SUBSET Items(g)) /\ b.states # << >>
  /\ \A i \in 1..Len(b.states) : IsState(g, b.states[i])
  /\ \A p \in b.states[1] : p.dot = 0
  /\ b.next \in 1..(Len(b.states) + 1)
  /\ \A e \in b.edges : IsEdge(g, b, e)
  /\ IsExpanded(g, b)

ConstructionInv ==
  /\ IsGrammar(grammar)
  /\ build.at \in {"expand", "limit", "unusable", "usable"}
  /\ build.at = "expand" => IsConstruction(grammar, build)

\* The construction begins with the closure of the item that begins the added rule.
LEMMA InitConstruction ==
  ASSUME Init
  PROVE  ConstructionInv
<1> DEFINE g == grammar
           start == StartItem(g)
           initial == Closure(g, First(g), {start})
<1>1. IsGrammar(g)
  BY LalrAssumption DEF Init
<1>2. /\ build = [at     |-> IF Cardinality(initial) > limits.items THEN "limit" ELSE "expand",
                  states |-> <<initial>>,
                  next   |-> 1,
                  edges  |-> {}]
  BY DEF Init
<1>3. start \in Items(g) /\ start.dot = 0 /\ start.rule = Len(g.rules) + 1
  <2>1. Len(g.rules) + 1 \in RuleNumbers(g) /\ RuleAt(g, Len(g.rules) + 1).rhs \in Seq(Symbol)
    BY <1>1, RulesType DEF RuleNumbers, RulesAreTyped
  <2>2. Eof \in Looks(g)
    BY DEF Looks
  <2>3. Len(RuleAt(g, Len(g.rules) + 1).rhs) \in Nat
    BY <2>1
  <2> QED BY <2>1, <2>2, <2>3 DEF StartItem, Items
<1>4. IsClosure(g, {start}, initial)
  BY <1>1, <1>3, ClosureResult
<1> HIDE DEF start, initial, g
<1>5. IsState(g, initial) /\ \A p \in initial : p.dot = 0
  BY <1>3, <1>4 DEF IsClosure, IsState
<1>6. initial \in SUBSET Items(g)
  BY <1>5 DEF IsState
<1>7. <<initial>> \in Seq(SUBSET Items(g)) /\ Len(<<initial>>) = 1 /\ <<initial>>[1] = initial /\ <<initial>> # << >>
  BY <1>6
<1>8. /\ build.states = <<initial>> /\ build.next = 1 /\ build.edges = {}
      /\ build.at \in {"limit", "expand"}
      /\ build = [at |-> build.at, states |-> build.states, next |-> build.next, edges |-> build.edges]
  BY <1>2
<1>9. IsConstruction(g, build)
  BY <1>5, <1>7, <1>8 DEF IsConstruction, IsExpanded
<1> QED BY <1>1, <1>8, <1>9 DEF ConstructionInv, g

\* A state that is expanded gets its transitions, and its targets are states.
LEMMA ExpandConstruction ==
  ASSUME ConstructionInv, ExpandState
  PROVE  ConstructionInv'
<1> DEFINE g == grammar
           n == build.next
           items == build.states[n]
           first == First(g)
           goto == [X \in SymbolsIn(g, items) |-> Goto(g, first, items, X)]
           known == ToSet(build.states)
           targets == {goto[X] : X \in DOMAIN goto} \ known
           states == build.states \o SetToSeq(targets)
           total == FoldLeft(LAMBDA k, s : k + Cardinality(s), 0, states)
           over == Len(states) > Len(build.states)
                     /\ (Len(states) > limits.states \/ total > limits.items)
           target(X) == CHOOSE i \in 1..Len(states) : states[i] = goto[X]
           edges == {<<n, X, (CHOOSE i \in 1..Len(states) : states[i] = goto[X])>> : X \in DOMAIN goto}
<1>1. /\ build.at = "expand" /\ n <= Len(build.states) /\ UNCHANGED grammar
      /\ build' = IF over THEN [build EXCEPT !.at = "limit"]
                  ELSE [build EXCEPT !.states = states, !.next = @ + 1, !.edges = @ \cup edges]
  BY Zenon DEF ExpandState
<1>2. IsGrammar(g) /\ IsConstruction(g, build)
  BY <1>1 DEF ConstructionInv
<1>3. /\ build = [at |-> build.at, states |-> build.states, next |-> build.next, edges |-> build.edges]
      /\ build.states \in Seq(SUBSET Items(g)) /\ build.states # << >>
      /\ n \in 1..Len(build.states)
  <2>1. /\ build = [at |-> build.at, states |-> build.states, next |-> build.next, edges |-> build.edges]
        /\ build.states \in Seq(SUBSET Items(g)) /\ build.states # << >>
        /\ n \in 1..(Len(build.states) + 1)
    BY <1>2 DEF IsConstruction
  <2>2. Len(build.states) \in Nat
    BY <2>1
  <2>3. n <= Len(build.states)
    <3> HIDE DEF over, edges
    <3> QED BY <1>1
  <2>4. n \in 1..Len(build.states)
    <3> HIDE DEF n
    <3> QED BY <2>1, <2>2, <2>3
  <2> QED BY <2>1, <2>4
<1>4. IsState(g, items) /\ items \in SUBSET Items(g)
  BY <1>2, <1>3 DEF IsConstruction, IsState
<1> HIDE DEF g, n, items
<1>5. \A X \in DOMAIN goto : goto[X] = Goto(g, first, items, X) /\ IsState(g, goto[X])
  BY <1>2, <1>4, GotoResult
<1>6. IsFiniteSet(targets)
  <2> DEFINE all == {goto[X] : X \in DOMAIN goto}
  <2>1. IsFiniteSet(DOMAIN goto)
    BY <1>2, <1>4, SymbolsResult
  <2>2. goto \in Surjection(DOMAIN goto, all)
    BY DEF Surjection
  <2> HIDE DEF goto
  <2>3. IsFiniteSet(all)
    BY <2>1, <2>2, FS_Surjection, Zenon
  <2> HIDE DEF all
  <2>4. all \ known \in SUBSET all
    OBVIOUS
  <2>5. IsFiniteSet(all \ known)
    BY <2>3, <2>4, FS_Subset, Zenon
  <2> QED BY <2>5 DEF all
<1> DEFINE added == SetToSeq(targets)
<1>7. added \in Seq(targets) /\ \A x \in targets : \E i \in 1..Len(added) : added[i] = x
  BY <1>6, SetToSeqResult
<1>8. states = build.states \o added
  OBVIOUS
<1>9. \A i \in 1..Len(added) : \E X \in DOMAIN goto : added[i] = goto[X]
  <2> HIDE DEF added, goto, known
  <2> QED BY <1>7
<1> HIDE DEF added, states, goto, targets
<1>10. added \in Seq(SUBSET Items(g)) /\ \A i \in 1..Len(added) : IsState(g, added[i])
  <2>1. \A i \in 1..Len(added) : IsState(g, added[i])
    BY <1>5, <1>9
  <2>2. \A i \in 1..Len(added) : added[i] \in SUBSET Items(g)
    BY <2>1 DEF IsState
  <2> QED BY <1>7, <2>1, <2>2
<1>11. /\ states \in Seq(SUBSET Items(g)) /\ states # << >>
       /\ Len(states) = Len(build.states) + Len(added) /\ Len(build.states) \in Nat /\ Len(added) \in Nat
       /\ \A i \in 1..Len(build.states) : states[i] = build.states[i]
       /\ \A i \in 1..Len(added) : states[Len(build.states) + i] = added[i]
  BY <1>3, <1>8, <1>10
<1>12. \A i \in 1..Len(states) : IsState(g, states[i])
  <2> SUFFICES ASSUME NEW i \in 1..Len(states)
               PROVE  IsState(g, states[i])
    OBVIOUS
  <2>1. CASE i <= Len(build.states)
    <3>1. i \in 1..Len(build.states)
      BY <2>1, <1>11
    <3> QED BY <3>1, <1>2, <1>11 DEF IsConstruction
  <2>2. CASE i > Len(build.states)
    <3>1. i - Len(build.states) \in 1..Len(added) /\ Len(build.states) + (i - Len(build.states)) = i
      BY <2>2, <1>11
    <3>2. states[i] = added[i - Len(build.states)]
      BY <3>1, <1>11
    <3> QED BY <3>1, <3>2, <1>10
  <2> QED BY <1>11, <2>1, <2>2
<1>13. ASSUME NEW X \in DOMAIN goto
       PROVE  target(X) \in 1..Len(states) /\ states[target(X)] = goto[X]
  <2>1. \E i \in 1..Len(states) : states[i] = goto[X]
    <3>1. CASE goto[X] \in known
      <4>1. PICK i \in DOMAIN build.states : build.states[i] = goto[X]
        BY <3>1 DEF ToSet
      <4>2. i \in 1..Len(build.states)
        BY <1>3, <4>1
      <4>3. i \in 1..Len(states)
        BY <1>11, <4>2
      <4> QED BY <1>11, <4>1, <4>2, <4>3
    <3>2. CASE goto[X] \notin known
      <4>1. goto[X] \in targets
        BY <3>2 DEF targets
      <4>2. PICK i \in 1..Len(added) : added[i] = goto[X]
        BY <1>7, <4>1
      <4>3. Len(build.states) + i \in 1..Len(states)
        BY <1>11, <4>2
      <4> QED BY <1>11, <4>2, <4>3
    <3> QED BY <3>1, <3>2
  <2> QED BY <2>1
<1>14. CASE over
  <2>1. build'.at = "limit"
    <3> HIDE DEF over
    <3> QED BY <1>1, <1>3, <1>14
  <2> QED BY <1>1, <1>2, <2>1 DEF ConstructionInv, g
<1>15. CASE ~over
  <2>1. build' = [build EXCEPT !.states = states, !.next = @ + 1, !.edges = @ \cup edges]
    <3> HIDE DEF over, edges
    <3> QED BY <1>1, <1>15
  <2> HIDE DEF over, edges
  <2>2. /\ build'.at = "expand" /\ build'.states = states /\ build'.next = n + 1
        /\ build'.edges = build.edges \cup edges
        /\ build' = [at |-> build'.at, states |-> build'.states, next |-> build'.next, edges |-> build'.edges]
    BY <1>1, <1>3, <2>1 DEF n
  <2>3. n \in Nat /\ n + 1 \in 1..(Len(states) + 1) /\ (n + 1) - 1 = n /\ states[n] = items
    BY <1>3, <1>11 DEF items
  <2>4. ASSUME NEW e \in build.edges \cup edges
        PROVE  IsEdge(g, build', e)
    <3>1. CASE e \in build.edges
      <4>1. IsEdge(g, build, e)
        BY <1>2, <3>1 DEF IsConstruction
      <4>2. /\ e = <<e[1], e[2], e[3]>> /\ e[1] \in 1..(n - 1) /\ e[3] \in 1..Len(build.states)
            /\ build.states[e[3]] = Goto(g, First(g), build.states[e[1]], e[2])
        BY <4>1 DEF IsEdge, n
      <4>3. e[1] \in 1..n /\ e[1] \in 1..Len(build.states) /\ e[3] \in 1..Len(states)
        BY <1>3, <1>11, <4>2
      <4>4. states[e[3]] = Goto(g, First(g), states[e[1]], e[2])
        BY <1>11, <4>2, <4>3
      <4> QED BY <2>2, <2>3, <4>2, <4>3, <4>4 DEF IsEdge
    <3>2. CASE e \in edges
      <4>1. PICK X \in DOMAIN goto : e = <<n, X, target(X)>>
        BY <3>2 DEF edges
      <4>2. e[1] = n /\ e[2] = X /\ e[3] = target(X) /\ e = <<e[1], e[2], e[3]>>
        BY <4>1
      <4>3. e[3] \in 1..Len(states) /\ states[e[3]] = goto[X]
        BY <1>13, <4>2
      <4>4. goto[X] = Goto(g, First(g), items, X)
        BY <1>5
      <4>5. e[1] \in 1..((n + 1) - 1)
        BY <1>3, <2>3, <4>2
      <4> QED BY <2>2, <2>3, <4>2, <4>3, <4>4, <4>5 DEF IsEdge
    <3> QED BY <3>1, <3>2
  <2>5. IsExpanded(g, build')
    <3>1. ASSUME NEW i \in 1..n, NEW X \in SymbolsIn(g, states[i])
          PROVE  \E e \in build.edges \cup edges : e[1] = i /\ e[2] = X
      <4>1. CASE i = n
        <5>1. X \in DOMAIN goto
          BY <2>3, <4>1 DEF goto
        <5>2. <<n, X, target(X)>> \in edges
          BY <5>1 DEF edges
        <5> QED BY <4>1, <5>2
      <4>2. CASE i # n
        <5>1. i \in 1..(n - 1) /\ i \in 1..Len(build.states)
          BY <1>3, <2>3, <4>2
        <5>2. states[i] = build.states[i]
          BY <1>11, <5>1
        <5>3. IsExpanded(g, build)
          BY <1>2 DEF IsConstruction
        <5>4. \E e \in build.edges : e[1] = i /\ e[2] = X
          BY <5>1, <5>2, <5>3 DEF IsExpanded, n
        <5> QED BY <5>4
      <4> QED BY <4>1, <4>2
    <3>2. build'.next - 1 = n
      BY <2>2, <2>3
    <3>3. \A i \in 1..n : \A X \in SymbolsIn(g, build'.states[i]) :
            \E e \in build'.edges : e[1] = i /\ e[2] = X
      BY <2>2, <3>1
    <3> QED BY <3>2, <3>3 DEF IsExpanded
  <2>6. \A p \in states[1] : p.dot = 0
    <3>1. 1 \in 1..Len(build.states)
      BY <1>3
    <3> QED BY <1>2, <1>11, <3>1 DEF IsConstruction
  <2>7. IsConstruction(g, build')
    BY <1>11, <1>12, <2>2, <2>3, <2>4, <2>5, <2>6 DEF IsConstruction
  <2> QED BY <1>1, <1>2, <2>2, <2>7 DEF ConstructionInv, g
<1> QED BY <1>14, <1>15

-----------------------------------------------------------------------------
(* The table. *)

\* M gives each state of table t the cores of its items: a transition moves their dots,
\* the state has one for each rule that may begin in it, and it asks for the reduction of
\* rules that end in it.
GotosFit(g, gotos, M) ==
  \A s \in DOMAIN gotos : \A X \in DOMAIN gotos[s] :
    /\ gotos[s][X] \in DOMAIN gotos
    /\ \A c \in M[gotos[s][X]] : c[2] # 0 => <<c[1], c[2] - 1>> \in M[s]

BeginningsFit(g, gotos, M) ==
  /\ \A c \in M[1] : c[2] = 0
  /\ \A s \in DOMAIN gotos : \A c \in M[s] :
       /\ c[1] \in RuleNumbers(g) /\ c[2] \in Nat
       /\ c[2] = 0 => c[1] = Len(g.rules) + 1 \/ RuleAt(g, c[1]).lhs \in DOMAIN gotos[s]

ActionsFit(g, t, M) ==
  \A s \in DOMAIN t.gotos : \A l \in Lookaheads(g) :
    \/ t.actions[s][l] \in {NoAction, Accept}
    \/ l \in DOMAIN t.gotos[s] /\ t.actions[s][l] = Shift(t.gotos[s][l])
    \/ \E i \in 1..Len(g.rules) : /\ t.actions[s][l] = Reduce(i)
                                  /\ <<i, Len(RuleAt(g, i).rhs)>> \in M[s]

IsAutomaton(g, t, M) ==
  /\ 1 \in DOMAIN t.gotos /\ DOMAIN t.gotos \subseteq Nat
  /\ GotosFit(g, t.gotos, M)
  /\ BeginningsFit(g, t.gotos, M)
  /\ ActionsFit(g, t, M)

\* The transitions of merged states are those of the states merged, and each symbol
\* leads to one of them.
TargetsMerge ==
  LET as == MergedAs(build.states)
  IN /\ \A s, X : X \in DOMAIN MergedTargets(s) <=> \E e \in build.edges : as[e[1]] = s /\ e[2] = X
     /\ \A e \in build.edges : MergedTargets(as[e[1]])[e[2]] = {as[e[3]]}

\* States of one core lead by one symbol to states of one core, hence a merged state has one
\* target for each symbol: the first internal error never happens.
LEMMA MergedTargetsResult ==
  ASSUME ConstructionInv, build.at = "expand"
  PROVE  TargetsMerge
<1> DEFINE g == grammar
           as == MergedAs(build.states)
           out(s) == {e \in build.edges : as[e[1]] = s}
           n == Len(build.states)
<1>1. IsGrammar(g) /\ IsConstruction(g, build)
  BY DEF ConstructionInv
<1>2. build.states \in Seq(SUBSET Items(g)) /\ n \in Nat /\ build.next \in 1..n + 1
  BY <1>1 DEF IsConstruction
<1>3. MergesCores(build.states)
  BY <1>2, MergingResult
<1>4. \A s : MergedTargets(s) = [X \in {e[2] : e \in out(s)} |-> {as[e[3]] : e \in {e \in out(s) : e[2] = X}}]
  BY Zenon DEF MergedTargets
<1> HIDE DEF as, g, n
<1>5. \A s, X : X \in DOMAIN MergedTargets(s) <=> \E e \in build.edges : as[e[1]] = s /\ e[2] = X
  BY <1>4
<1>6. ASSUME NEW e \in build.edges, NEW f \in build.edges, as[e[1]] = as[f[1]], e[2] = f[2]
      PROVE  as[e[3]] = as[f[3]]
  <2>1. IsEdge(g, build, e) /\ IsEdge(g, build, f)
    BY <1>1 DEF IsConstruction
  <2>2. /\ e[1] \in 1..n /\ e[3] \in 1..n /\ f[1] \in 1..n /\ f[3] \in 1..n
        /\ build.states[e[3]] = Goto(g, First(g), build.states[e[1]], e[2])
        /\ build.states[f[3]] = Goto(g, First(g), build.states[f[1]], f[2])
    <3>1. \A d : IsEdge(g, build, d) =>
            /\ d[1] \in 1..n /\ d[3] \in 1..n
            /\ build.states[d[3]] = Goto(g, First(g), build.states[d[1]], d[2])
      <4> SUFFICES ASSUME NEW d, IsEdge(g, build, d)
                   PROVE  /\ d[1] \in 1..n /\ d[3] \in 1..n
                          /\ build.states[d[3]] = Goto(g, First(g), build.states[d[1]], d[2])
        OBVIOUS
      <4>1. /\ d[1] \in 1..(build.next - 1) /\ d[3] \in 1..n
            /\ build.states[d[3]] = Goto(g, First(g), build.states[d[1]], d[2])
        BY DEF IsEdge, n
      <4>2. d[1] \in 1..n
        BY <1>2, <4>1
      <4> QED BY <4>1, <4>2
    <3> QED BY <2>1, <3>1
  <2>3. Core(build.states[e[1]]) = Core(build.states[f[1]])
    <3>1. \A i, j \in 1..n : as[i] = as[j] <=> Core(build.states[i]) = Core(build.states[j])
      BY <1>3 DEF MergesCores, as, n
    <3> QED BY <1>6, <2>2, <3>1
  <2>4. build.states[e[1]] \in SUBSET Items(g) /\ build.states[f[1]] \in SUBSET Items(g)
    BY <1>2, <2>2 DEF n
  <2>5. Core(build.states[e[3]]) = Core(build.states[f[3]])
    BY <1>1, <1>6, <2>2, <2>3, <2>4, GotoCores
  <2> QED BY <1>3, <2>2, <2>5 DEF MergesCores, as, n
<1>7. ASSUME NEW e \in build.edges
      PROVE  MergedTargets(as[e[1]])[e[2]] = {as[e[3]]}
  <2>1. e \in out(as[e[1]]) /\ e[2] \in {f[2] : f \in out(as[e[1]])}
    OBVIOUS
  <2>2. MergedTargets(as[e[1]])[e[2]] = {as[f[3]] : f \in {f \in out(as[e[1]]) : f[2] = e[2]}}
    BY <1>4, <2>1
  <2>3. \A f \in {f \in out(as[e[1]]) : f[2] = e[2]} : as[f[3]] = as[e[3]]
    BY <1>6
  <2>4. e \in {f \in out(as[e[1]]) : f[2] = e[2]}
    BY <2>1
  <2> HIDE DEF out
  <2> QED BY <2>2, <2>3, <2>4
<1> QED BY <1>5, <1>7 DEF TargetsMerge, as

\* What build_table makes.
GotosOf(count) ==
  [s \in 1..count |-> [X \in DOMAIN MergedTargets(s) |-> CHOOSE t \in MergedTargets(s)[X] : TRUE]]

CellOf(goto, s, l) == Actions(grammar, MergedItems(build.states, s), goto[s], l)

ActionsOf(goto, count) ==
  [s \in 1..count |->
     [l \in Lookaheads(grammar) |->
        IF CellOf(goto, s, l) = {} THEN NoAction ELSE CHOOSE a \in CellOf(goto, s, l) : TRUE]]

TableIsBuilt(count) ==
  /\ build'.at = "usable"
  /\ table' = [actions |-> ActionsOf(GotosOf(count), count), gotos |-> GotosOf(count)]
  /\ LexicallySafe(TerminalsOf(grammar))

\* So building the table ends in a limit, in a conflict or in a table.
LEMMA BuildTableResult ==
  ASSUME ConstructionInv, BuildTable
  PROVE  /\ UNCHANGED <<grammar, limits, rec, reply, text, saved>>
         /\ \/ build'.at \in {"limit", "unusable"} /\ UNCHANGED table
            \/ TableIsBuilt(Cardinality(ToSet(MergedAs(build.states))))
<1> DEFINE count == Cardinality(ToSet(MergedAs(build.states)))
           targets == [s \in 1..count |-> MergedTargets(s)]
           consistent == \A s \in 1..count : \A X \in DOMAIN targets[s] : Cardinality(targets[s][X]) = 1
           goto == [s \in 1..count |-> [X \in DOMAIN targets[s] |-> CHOOSE t \in targets[s][X] : TRUE]]
           cells == [s \in 1..count |->
                       [l \in Lookaheads(grammar) |->
                          Actions(grammar, MergedItems(build.states, s), goto[s], l)]]
           filled == {c \in (1..count) \X Lookaheads(grammar) : cells[c[1]][c[2]] # {}}
           gotoCells == {c \in (1..count) \X Nonterminal : c[2] \in DOMAIN goto[c[1]]}
           conflicts == UNION {{<<c, i>> : i \in Conflicts(grammar, MergedItems(build.states, c[1]),
                                                           goto[c[1]], c[2])} : c \in filled}
           built == [actions |-> [s \in 1..count |->
                                    [l \in Lookaheads(grammar) |->
                                       IF cells[s][l] = {} THEN NoAction
                                       ELSE CHOOSE a \in cells[s][l] : TRUE]],
                     gotos   |-> goto]
<1>1. /\ build.at = "expand" /\ UNCHANGED <<grammar, limits, rec, reply, text, saved>>
      /\ IF ~consistent THEN build' = [build EXCEPT !.at = "internal"] /\ UNCHANGED table
         ELSE IF \/ Cardinality(conflicts) > limits.conflicts
                 \/ Cardinality(filled) > limits.actions
                 \/ Cardinality(gotoCells) > limits.gotos
         THEN build' = [build EXCEPT !.at = "limit"] /\ UNCHANGED table
         ELSE IF conflicts # {} \/ ~LexicallySafe(TerminalsOf(grammar))
         THEN build' = [build EXCEPT !.at = "unusable"] /\ UNCHANGED table
         ELSE /\ build' = [at |-> "usable", states |-> << >>, next |-> 0, edges |-> {}]
              /\ table' = built
  BY Zenon DEF BuildTable
<1>2. TargetsMerge
  BY <1>1, MergedTargetsResult
<1>3. consistent
  <2> SUFFICES ASSUME NEW s \in 1..count, NEW X \in DOMAIN targets[s]
               PROVE  Cardinality(targets[s][X]) = 1
    OBVIOUS
  <2>1. targets[s] = MergedTargets(s)
    OBVIOUS
  <2>2. PICK e \in build.edges : MergedAs(build.states)[e[1]] = s /\ e[2] = X
    BY <1>2, <2>1 DEF TargetsMerge
  <2>3. targets[s][X] = {MergedAs(build.states)[e[3]]}
    BY <1>2, <2>1, <2>2 DEF TargetsMerge
  <2> HIDE DEF targets
  <2> QED BY <2>3, FS_Singleton
<1>4. goto = GotosOf(count)
  BY DEF GotosOf
<1>5. built = [actions |-> ActionsOf(GotosOf(count), count), gotos |-> GotosOf(count)]
  <2> DEFINE made == [s \in 1..count |->
                        [l \in Lookaheads(grammar) |->
                           IF cells[s][l] = {} THEN NoAction ELSE CHOOSE a \in cells[s][l] : TRUE]]
  <2>1. \A s \in 1..count, l \in Lookaheads(grammar) : cells[s][l] = CellOf(goto, s, l)
    <3> HIDE DEF goto, count
    <3> QED BY DEF CellOf
  <2> HIDE DEF cells, goto, count
  <2>2. ASSUME NEW s \in 1..count
        PROVE  made[s] = [l \in Lookaheads(grammar) |->
                            IF CellOf(goto, s, l) = {} THEN NoAction
                            ELSE CHOOSE a \in CellOf(goto, s, l) : TRUE]
    <3> DEFINE row == [l \in Lookaheads(grammar) |->
                         IF cells[s][l] = {} THEN NoAction ELSE CHOOSE a \in cells[s][l] : TRUE]
               other == [l \in Lookaheads(grammar) |->
                           IF CellOf(goto, s, l) = {} THEN NoAction
                           ELSE CHOOSE a \in CellOf(goto, s, l) : TRUE]
    <3>1. made[s] = row
      BY Zenon
    <3>2. \A l \in Lookaheads(grammar) : row[l] = other[l]
      <4> SUFFICES ASSUME NEW l \in Lookaheads(grammar)
                   PROVE  row[l] = other[l]
        OBVIOUS
      <4>1. cells[s][l] = CellOf(goto, s, l)
        BY <2>1
      <4>2. row[l] = IF cells[s][l] = {} THEN NoAction ELSE CHOOSE a \in cells[s][l] : TRUE
        BY Zenon
      <4>3. other[l] = IF CellOf(goto, s, l) = {} THEN NoAction
                       ELSE CHOOSE a \in CellOf(goto, s, l) : TRUE
        BY Zenon
      <4> HIDE DEF row, other
      <4> QED BY <4>1, <4>2, <4>3, Zenon
    <3>3. row = [l \in Lookaheads(grammar) |-> row[l]] /\ other = [l \in Lookaheads(grammar) |-> other[l]]
      OBVIOUS
    <3>4. row = other
      <4> HIDE DEF row, other
      <4> QED BY <3>2, <3>3
    <3> QED BY <3>1, <3>4
  <2>3. made = [s \in 1..count |-> made[s]]
    OBVIOUS
  <2>4. made = ActionsOf(goto, count)
    <3> HIDE DEF made
    <3> QED BY <2>2, <2>3 DEF ActionsOf
  <2>5. built = [actions |-> made, gotos |-> goto]
    OBVIOUS
  <2> HIDE DEF made, built
  <2> QED BY <1>4, <2>4, <2>5
<1>6. build = [at |-> build.at, states |-> build.states, next |-> build.next, edges |-> build.edges]
  BY <1>1 DEF ConstructionInv, IsConstruction
<1> HIDE DEF consistent, conflicts, filled, gotoCells, built, count
<1>7. \/ build' = [build EXCEPT !.at = "limit"] /\ UNCHANGED table
      \/ build' = [build EXCEPT !.at = "unusable"] /\ UNCHANGED table
      \/ /\ build' = [at |-> "usable", states |-> << >>, next |-> 0, edges |-> {}] /\ table' = built
         /\ LexicallySafe(TerminalsOf(grammar))
  BY <1>1, <1>3
<1>8. CASE build' = [build EXCEPT !.at = "limit"] /\ UNCHANGED table
  BY <1>1, <1>6, <1>8
<1>9. CASE build' = [build EXCEPT !.at = "unusable"] /\ UNCHANGED table
  BY <1>1, <1>6, <1>9
<1>10. CASE /\ build' = [at |-> "usable", states |-> << >>, next |-> 0, edges |-> {}] /\ table' = built
            /\ LexicallySafe(TerminalsOf(grammar))
  <2>1. build'.at = "usable"
    BY <1>10
  <2>2. TableIsBuilt(count)
    BY <1>5, <1>10, <2>1 DEF TableIsBuilt
  <2> QED BY <1>1, <2>2 DEF count
<1> QED BY <1>7, <1>8, <1>9, <1>10

\* The table that is built fits the cores of the merged states.
LEMMA BuiltIsAutomaton ==
  ASSUME ConstructionInv, build.at = "expand", build.next > Len(build.states),
         NEW t, t.gotos = GotosOf(Cardinality(ToSet(MergedAs(build.states)))),
         t.actions = ActionsOf(t.gotos, Cardinality(ToSet(MergedAs(build.states))))
  PROVE  \E M : IsAutomaton(grammar, t, M)
<1> DEFINE g == grammar
           states == build.states
           as == MergedAs(states)
           n == Len(states)
           count == Cardinality(ToSet(as))
           M == [s \in 1..count |-> Core(MergedItems(states, s))]
           gotos == t.gotos
<1>1. IsGrammar(g) /\ IsConstruction(g, build)
  BY DEF ConstructionInv
<1>2. states \in Seq(SUBSET Items(g)) /\ states # << >> /\ n \in Nat /\ build.next - 1 = n /\ 1 \in 1..n
  <2>1. states \in Seq(SUBSET Items(g)) /\ states # << >> /\ build.next \in 1..(n + 1)
    BY <1>1 DEF IsConstruction
  <2>2. n \in Nat /\ n # 0 /\ build.next > n
    BY <2>1
  <2> HIDE DEF n
  <2> QED BY <2>1, <2>2
<1>3. /\ as \in [1..n -> 1..count] /\ count \in Nat
      /\ \A i, j \in 1..n : as[i] = as[j] <=> Core(states[i]) = Core(states[j])
      /\ as[1] = 1
  BY <1>2, MergingResult DEF MergesCores
<1>4. TargetsMerge
  BY MergedTargetsResult
<1>5. \A s \in 1..count : \A c : c \in M[s] <=> \E i \in 1..n : as[i] = s /\ c \in Core(states[i])
  <2> SUFFICES ASSUME NEW s \in 1..count, NEW c
               PROVE  c \in M[s] <=> \E i \in 1..n : as[i] = s /\ c \in Core(states[i])
    OBVIOUS
  <2>1. M[s] = Core(MergedItems(states, s))
    OBVIOUS
  <2>2. MergedItems(states, s) = UNION {states[i] : i \in {i \in 1..n : as[i] = s}}
    BY Zenon DEF MergedItems
  <2> HIDE DEF M, as, n, states
  <2>3. \A p : p \in MergedItems(states, s) <=> \E i \in 1..n : as[i] = s /\ p \in states[i]
    BY <2>2
  <2>4. ASSUME c \in M[s]
        PROVE  \E i \in 1..n : as[i] = s /\ c \in Core(states[i])
    <3>1. PICK p \in MergedItems(states, s) : c = <<p.rule, p.dot>>
      BY <2>1, <2>4 DEF Core
    <3> QED BY <2>3, <3>1 DEF Core
  <2>5. ASSUME NEW i \in 1..n, as[i] = s, c \in Core(states[i])
        PROVE  c \in M[s]
    <3>1. PICK p \in states[i] : c = <<p.rule, p.dot>>
      BY <2>5 DEF Core
    <3> QED BY <2>1, <2>3, <2>5, <3>1 DEF Core
  <2> QED BY <2>4, <2>5
<1> HIDE DEF M, as, n, count, states
<1>6. \A i \in 1..n : \A c : c \in M[as[i]] <=> c \in Core(states[i])
  <2> SUFFICES ASSUME NEW i \in 1..n, NEW c
               PROVE  c \in M[as[i]] <=> c \in Core(states[i])
    OBVIOUS
  <2>1. as[i] \in 1..count
    BY <1>3
  <2>2. c \in M[as[i]] <=> \E j \in 1..n : as[j] = as[i] /\ c \in Core(states[j])
    BY <1>5, <2>1
  <2>3. \A j \in 1..n : as[j] = as[i] => Core(states[j]) = Core(states[i])
    BY <1>3
  <2> QED BY <2>2, <2>3
<1>7. /\ DOMAIN gotos = 1..count
      /\ \A s \in 1..count : DOMAIN gotos[s] = DOMAIN MergedTargets(s)
      /\ \A s \in 1..count : \A X \in DOMAIN MergedTargets(s) :
           gotos[s][X] = CHOOSE u \in MergedTargets(s)[X] : TRUE
  BY DEF GotosOf, count, as, states
<1>8. \A e \in build.edges :
        /\ e[1] \in 1..n /\ e[3] \in 1..n
        /\ states[e[3]] = Goto(g, First(g), states[e[1]], e[2])
  BY <1>1, <1>2 DEF IsConstruction, IsEdge, states, n
<1>9. ASSUME NEW e \in build.edges
      PROVE  /\ as[e[1]] \in 1..count /\ as[e[3]] \in 1..count
             /\ e[2] \in DOMAIN gotos[as[e[1]]] /\ gotos[as[e[1]]][e[2]] = as[e[3]]
  <2>1. as[e[1]] \in 1..count /\ as[e[3]] \in 1..count
    BY <1>3, <1>8
  <2>2. /\ e[2] \in DOMAIN MergedTargets(as[e[1]])
        /\ MergedTargets(as[e[1]])[e[2]] = {as[e[3]]}
    BY <1>4 DEF TargetsMerge, as, states
  <2> HIDE DEF gotos
  <2>3. gotos[as[e[1]]][e[2]] = CHOOSE u \in {as[e[3]]} : TRUE
    BY <1>7, <2>1, <2>2
  <2> QED BY <1>7, <2>1, <2>2, <2>3
<1>10. \A s \in 1..count : \A X \in DOMAIN gotos[s] : \E e \in build.edges : as[e[1]] = s /\ e[2] = X
  <2> HIDE DEF gotos
  <2> QED BY <1>4, <1>7 DEF TargetsMerge, as, states
<1>11. GotosFit(g, gotos, M)
  <2> SUFFICES ASSUME NEW s \in 1..count, NEW X \in DOMAIN gotos[s]
               PROVE  /\ gotos[s][X] \in 1..count
                      /\ \A c \in M[gotos[s][X]] : c[2] # 0 => <<c[1], c[2] - 1>> \in M[s]
    BY <1>7 DEF GotosFit
  <2>1. PICK e \in build.edges : as[e[1]] = s /\ e[2] = X
    BY <1>10
  <2>2. /\ gotos[s][X] = as[e[3]] /\ as[e[3]] \in 1..count
    BY <1>9, <2>1
  <2>3. ASSUME NEW c \in M[as[e[3]]], c[2] # 0
        PROVE  <<c[1], c[2] - 1>> \in M[s]
    <3>1. e[1] \in 1..n /\ e[3] \in 1..n /\ states[e[3]] = Goto(g, First(g), states[e[1]], X)
      BY <1>8, <2>1
    <3>2. c \in Core(states[e[3]])
      BY <1>6, <2>3, <3>1
    <3>3. PICK p \in states[e[3]] : c = <<p.rule, p.dot>>
      BY <3>2 DEF Core
    <3>4. states[e[1]] \in SUBSET Items(g)
      BY <1>2, <3>1 DEF n
    <3>5. Follows(g, states[e[1]], X, states[e[3]])
      BY <1>1, <3>1, <3>4, GotoResult
    <3>6. PICK q \in states[e[1]] : q.rule = p.rule /\ q.dot = p.dot - 1
      BY <2>3, <3>3, <3>5 DEF Follows
    <3>7. <<q.rule, q.dot>> \in Core(states[e[1]])
      BY DEF Core
    <3>8. <<q.rule, q.dot>> \in M[as[e[1]]]
      BY <1>6, <3>1, <3>7
    <3> QED BY <2>1, <3>3, <3>6, <3>8
  <2> QED BY <2>2, <2>3
<1>12. BeginningsFit(g, gotos, M)
  <2>1. \A c \in M[1] : c[2] = 0
    <3>1. \A p \in states[1] : p.dot = 0
      BY <1>1 DEF IsConstruction, states
    <3>2. \A c \in M[1] : c \in Core(states[1])
      BY <1>2, <1>3, <1>6
    <3> QED BY <3>1, <3>2 DEF Core
  <2>2. ASSUME NEW s \in 1..count, NEW c \in M[s]
        PROVE  /\ c[1] \in RuleNumbers(g) /\ c[2] \in Nat
               /\ c[2] = 0 => c[1] = Len(g.rules) + 1 \/ RuleAt(g, c[1]).lhs \in DOMAIN gotos[s]
    <3>1. PICK i \in 1..n : as[i] = s /\ c \in Core(states[i])
      BY <1>5
    <3>2. PICK p \in states[i] : c = <<p.rule, p.dot>>
      BY <3>1 DEF Core
    <3>3. IsState(g, states[i]) /\ states[i] \in SUBSET Items(g)
      BY <1>1 DEF IsConstruction, IsState, states, n
    <3>4. p.rule \in RuleNumbers(g) /\ p.dot \in Nat
      BY <3>3 DEF Items
    <3>5. ASSUME p.dot = 0, p.rule # Len(g.rules) + 1
          PROVE  RuleAt(g, p.rule).lhs \in DOMAIN gotos[s]
      <4> DEFINE A == RuleAt(g, p.rule).lhs
      <4>1. PICK q \in states[i] : IsBefore(AugmentedRules(g), q, A)
        BY <3>3, <3>5 DEF IsState
      <4>2. A \in SymbolsIn(g, states[i])
        BY <1>1, <3>3, <4>1, SymbolsResult
      <4>3. IsExpanded(g, build)
        BY <1>1 DEF IsConstruction
      <4> HIDE DEF A
      <4>4. PICK e \in build.edges : e[1] = i /\ e[2] = A
        BY <1>2, <4>2, <4>3 DEF IsExpanded, states
      <4> USE DEF A
      <4> QED BY <1>9, <3>1, <4>4
    <3> QED BY <3>2, <3>4, <3>5
  <2> QED BY <1>7, <2>1, <2>2 DEF BeginningsFit
<1>13. ActionsFit(g, t, M)
  <2> SUFFICES ASSUME NEW s \in 1..count, NEW l \in Lookaheads(g)
               PROVE  \/ t.actions[s][l] \in {NoAction, Accept}
                      \/ l \in DOMAIN gotos[s] /\ t.actions[s][l] = Shift(gotos[s][l])
                      \/ \E i \in 1..Len(g.rules) : /\ t.actions[s][l] = Reduce(i)
                                                    /\ <<i, Len(RuleAt(g, i).rhs)>> \in M[s]
    BY <1>7 DEF ActionsFit
  <2> DEFINE cell == CellOf(gotos, s, l)
             a == t.actions[s][l]
             items == MergedItems(states, s)
             rules == AugmentedRules(g)
  <2>1. a = IF cell = {} THEN NoAction ELSE CHOOSE x \in cell : TRUE
    <3>1. t.actions = ActionsOf(gotos, count)
      BY DEF count, as, states
    <3> HIDE DEF gotos
    <3>2. t.actions[s] = [k \in Lookaheads(g) |->
                            IF CellOf(gotos, s, k) = {} THEN NoAction
                            ELSE CHOOSE x \in CellOf(gotos, s, k) : TRUE]
      BY <3>1, Zenon DEF ActionsOf
    <3> QED BY <3>2, Zenon
  <2>2. cell = {Shift(gotos[s][l]) : i \in {i \in items : IsBefore(rules, i, l)}}
                 \cup {IF i.rule = Len(rules) THEN Accept ELSE Reduce(i.rule) :
                         i \in {i \in items : IsAtEnd(rules, i) /\ i.look = l}}
    BY DEF CellOf, Actions, states
  <2> HIDE DEF cell, a
  <2>3. CASE cell = {}
    BY <2>1, <2>3 DEF a
  <2>4. CASE cell # {}
    <3>1. a \in cell
      BY <2>1, <2>4
    <3>2. \A p : p \in items <=> \E i \in 1..n : as[i] = s /\ p \in states[i]
      BY DEF MergedItems, n, as
    <3> HIDE DEF items, gotos
    <3>3. CASE a \in {Shift(gotos[s][l]) : i \in {i \in items : IsBefore(rules, i, l)}}
      <4>1. PICK p \in items : IsBefore(rules, p, l) /\ a = Shift(gotos[s][l])
        BY <3>3
      <4>2. PICK i \in 1..n : as[i] = s /\ p \in states[i]
        BY <3>2
      <4>3. states[i] \in SUBSET Items(g)
        BY <1>2 DEF n
      <4>4. l \in SymbolsIn(g, states[i])
        BY <1>1, <4>1, <4>2, <4>3, SymbolsResult
      <4>5. IsExpanded(g, build)
        BY <1>1 DEF IsConstruction
      <4>6. PICK e \in build.edges : e[1] = i /\ e[2] = l
        BY <1>2, <4>4, <4>5 DEF IsExpanded, states
      <4>7. l \in DOMAIN gotos[s]
        BY <1>9, <4>2, <4>6
      <4> QED BY <4>1, <4>7 DEF a, gotos
    <3>4. CASE a \in {IF i.rule = Len(rules) THEN Accept ELSE Reduce(i.rule) :
                         i \in {i \in items : IsAtEnd(rules, i) /\ i.look = l}}
      <4>1. PICK p \in items : /\ IsAtEnd(rules, p)
                               /\ a = IF p.rule = Len(rules) THEN Accept ELSE Reduce(p.rule)
        BY <3>4
      <4>2. PICK i \in 1..n : as[i] = s /\ p \in states[i]
        BY <3>2
      <4>3. p \in Items(g)
        BY <1>2, <4>2 DEF n
      <4>4. CASE p.rule = Len(rules)
        BY <4>1, <4>4 DEF a
      <4>5. CASE p.rule # Len(rules)
        <5>1. p.rule \in 1..Len(g.rules)
          <6>1. p.rule \in RuleNumbers(g) /\ Len(rules) = Len(g.rules) + 1 /\ Len(g.rules) \in Nat
            BY <1>1, <4>3, RulesType, ItemType
          <6> QED BY <4>5, <6>1 DEF RuleNumbers
        <5>2. p.dot = Len(RuleAt(g, p.rule).rhs)
          BY <1>1, <4>1, <4>3, AfterDot DEF RhsOf
        <5>3. <<p.rule, p.dot>> \in Core(states[i])
          BY <4>2 DEF Core
        <5>4. <<p.rule, p.dot>> \in M[s]
          BY <1>5, <4>2, <5>3
        <5> QED BY <4>1, <4>5, <5>1, <5>2, <5>4 DEF a
      <4> QED BY <4>4, <4>5
    <3> QED BY <2>2, <3>1, <3>3, <3>4
  <2> QED BY <2>3, <2>4
<1>14. 1 \in DOMAIN gotos /\ DOMAIN gotos \subseteq Nat
  <2>1. 1 \in 1..count
    BY <1>2, <1>3
  <2> QED BY <1>3, <1>7, <2>1
<1>15. IsAutomaton(g, t, M)
  BY <1>11, <1>12, <1>13, <1>14 DEF IsAutomaton
<1> QED BY <1>15

-----------------------------------------------------------------------------
(* Stacks. *)

\* The stacks that are paths of the automaton, from its first state.
Paths(gotos) ==
  {stack \in Seq(DOMAIN gotos) :
     /\ stack # << >> /\ stack[1] = 1
     /\ \A i \in 1..(Len(stack) - 1) : stack[i + 1] \in Range(gotos[stack[i]])}

\* A path ends in a state, its beginnings are paths, and it goes on with each target.
LEMMA PathResult ==
  ASSUME NEW gotos, NEW stack \in Paths(gotos)
  PROVE  /\ stack \in Seq(DOMAIN gotos) /\ Len(stack) \in Nat \ {0} /\ stack[1] = 1
         /\ Last(stack) = stack[Len(stack)] /\ Last(stack) \in DOMAIN gotos
         /\ \A k \in 1..Len(stack) : SubSeq(stack, 1, k) \in Paths(gotos)
         /\ \A X \in DOMAIN gotos[Last(stack)] :
              gotos[Last(stack)][X] \in DOMAIN gotos =>
                Append(stack, gotos[Last(stack)][X]) \in Paths(gotos)
<1> DEFINE n == Len(stack)
           Step(w, i) == w[i + 1] \in Range(gotos[w[i]])
<1>1. /\ stack \in Seq(DOMAIN gotos) /\ stack # << >> /\ stack[1] = 1
      /\ \A i \in 1..(n - 1) : Step(stack, i)
  BY DEF Paths
<1>2. n \in Nat \ {0}
  BY <1>1
<1>3. Last(stack) = stack[n] /\ stack[n] \in DOMAIN gotos
  BY <1>1, <1>2 DEF Last
<1>4. ASSUME NEW k \in 1..n
      PROVE  SubSeq(stack, 1, k) \in Paths(gotos)
  <2> DEFINE w == SubSeq(stack, 1, k)
  <2>1. /\ w \in Seq(DOMAIN gotos) /\ Len(w) = k /\ (\A i \in 1..k : w[i] = stack[i])
    BY <1>1, <1>2
  <2> HIDE DEF w
  <2>2. w # << >> /\ w[1] = 1
    BY <1>1, <2>1
  <2>3. \A i \in 1..(k - 1) : Step(w, i)
    <3> SUFFICES ASSUME NEW i \in 1..(k - 1)
                 PROVE  Step(w, i)
      OBVIOUS
    <3>1. i \in 1..k /\ i + 1 \in 1..k /\ i \in 1..(n - 1)
      BY <1>2
    <3> QED BY <1>1, <2>1, <3>1
  <2> QED BY <2>1, <2>2, <2>3 DEF Paths, w
<1>5. ASSUME NEW X \in DOMAIN gotos[Last(stack)], gotos[Last(stack)][X] \in DOMAIN gotos
      PROVE  Append(stack, gotos[Last(stack)][X]) \in Paths(gotos)
  <2> DEFINE s == gotos[Last(stack)][X]
             w == Append(stack, s)
  <2>1. s \in DOMAIN gotos /\ s \in Range(gotos[stack[n]])
    BY <1>3, <1>5 DEF Range
  <2> HIDE DEF s
  <2>2. /\ w \in Seq(DOMAIN gotos) /\ Len(w) = n + 1 /\ w[n + 1] = s
        /\ \A i \in 1..n : w[i] = stack[i]
    BY <1>1, <2>1
  <2> HIDE DEF w
  <2>3. w # << >> /\ w[1] = 1
    BY <1>1, <1>2, <2>2
  <2>4. \A i \in 1..((n + 1) - 1) : Step(w, i)
    <3> SUFFICES ASSUME NEW i \in 1..n
                 PROVE  Step(w, i)
      BY <1>2
    <3>1. CASE i = n
      <4>1. w[i + 1] = s /\ w[i] = stack[n]
        BY <1>2, <2>2, <3>1
      <4> QED BY <2>1, <4>1
    <3>2. CASE i # n
      <4>1. i \in 1..(n - 1) /\ i + 1 \in 1..n /\ i \in 1..n
        BY <1>2, <3>2
      <4> QED BY <1>1, <2>2, <4>1
    <3> QED BY <3>1, <3>2
  <2> QED BY <2>2, <2>3, <2>4 DEF Paths, w, s
<1> QED BY <1>1, <1>2, <1>3, <1>4, <1>5

\* Below an item whose dot is past k symbols there are k states, the lowest of which has
\* it at its beginning.
LEMMA ItemsHavePaths ==
  ASSUME NEW g, NEW t, NEW M, IsAutomaton(g, t, M), NEW stack \in Paths(t.gotos),
         NEW r, NEW d \in Nat, <<r, d>> \in M[Last(stack)]
  PROVE  d < Len(stack) /\ <<r, 0>> \in M[stack[Len(stack) - d]]
<1> DEFINE n == Len(stack)
           S == {e \in Nat : \A k \in 1..n : <<r, e>> \in M[stack[k]] => e < k /\ <<r, 0>> \in M[stack[k - e]]}
<1>1. /\ n \in Nat \ {0} /\ stack[1] = 1 /\ Last(stack) = stack[n] /\ stack \in Seq(DOMAIN t.gotos)
      /\ \A i \in 1..(n - 1) : stack[i + 1] \in Range(t.gotos[stack[i]])
  BY PathResult DEF Paths
<1>2. 0 \in S
  <2> SUFFICES ASSUME NEW k \in 1..n, <<r, 0>> \in M[stack[k]]
               PROVE  0 < k /\ <<r, 0>> \in M[stack[k - 0]]
    OBVIOUS
  <2>1. k - 0 = k /\ 0 < k
    BY <1>1
  <2> QED BY <2>1
<1>3. ASSUME NEW e \in Nat, e \in S
      PROVE  e + 1 \in S
  <2> SUFFICES ASSUME NEW k \in 1..n, <<r, e + 1>> \in M[stack[k]]
               PROVE  e + 1 < k /\ <<r, 0>> \in M[stack[k - (e + 1)]]
    OBVIOUS
  <2>1. \A c \in M[stack[1]] : c[2] = 0
    BY <1>1 DEF IsAutomaton, BeginningsFit
  <2>2. k # 1
    <3> SUFFICES ASSUME k = 1
                 PROVE  FALSE
      OBVIOUS
    <3>1. <<r, e + 1>>[2] = 0
      BY <2>1
    <3> QED BY <3>1
  <2>3. k - 1 \in 1..(n - 1) /\ k - 1 \in 1..n /\ (k - 1) + 1 = k
    BY <1>1, <2>2
  <2>4. stack[k] \in Range(t.gotos[stack[k - 1]]) /\ stack[k - 1] \in DOMAIN t.gotos
    BY <1>1, <2>3
  <2>5. PICK X \in DOMAIN t.gotos[stack[k - 1]] : stack[k] = t.gotos[stack[k - 1]][X]
    BY <2>4 DEF Range
  <2>6. \A c \in M[stack[k]] : c[2] # 0 => <<c[1], c[2] - 1>> \in M[stack[k - 1]]
    BY <2>4, <2>5 DEF IsAutomaton, GotosFit
  <2>7. <<r, e>> \in M[stack[k - 1]]
    <3>1. <<r, e + 1>>[2] # 0 /\ <<r, e + 1>>[1] = r /\ <<r, e + 1>>[2] - 1 = e
      OBVIOUS
    <3>2. <<r, e + 1>>[2] # 0 => <<<<r, e + 1>>[1], <<r, e + 1>>[2] - 1>> \in M[stack[k - 1]]
      BY <2>6
    <3> QED BY <3>1, <3>2
  <2>8. e < k - 1 /\ <<r, 0>> \in M[stack[(k - 1) - e]]
    BY <1>3, <2>3, <2>7
  <2>9. (k - 1) - e = k - (e + 1) /\ e + 1 < k
    <3>1. k \in Int /\ e \in Nat
      BY <1>1
    <3> QED BY <2>8, <3>1
  <2> QED BY <2>8, <2>9
<1>4. d \in S
  <2> HIDE DEF S
  <2>1. \A e \in 0..d : e \in S
    BY <1>2, <1>3, UpTo
  <2> QED BY <2>1
<1>5. n \in 1..n /\ <<r, d>> \in M[stack[n]]
  BY <1>1
<1>6. d < n /\ <<r, 0>> \in M[stack[n - d]]
  <2> HIDE DEF n
  <2> QED BY <1>4, <1>5
<1> QED BY <1>6

\* What the loop of action_after_reductions may be left with on lookahead l.
Runs(gotos, l) ==
  {r \in [kind : {"reduce", "shift", "accept", "none", "limit"}, to : Nat, stack : Paths(gotos)] :
     r.kind = "shift" =>
       /\ l \in DOMAIN gotos[Last(r.stack)]
       /\ r.to = gotos[Last(r.stack)][l] /\ r.to \in DOMAIN gotos}

\* A reduction stays on a path: the other two internal errors never happen.
LEMMA ReducedResult ==
  ASSUME IsGrammar(grammar), NEW M, IsAutomaton(grammar, table, M),
         NEW stack \in Paths(table.gotos), NEW l \in Lookaheads(grammar)
  PROVE  Reduced(stack, l) \in Runs(table.gotos, l)
<1> DEFINE gotos == table.gotos
           n == Len(stack)
           action == table.actions[Last(stack)][l]
           rule == AugmentedRules(grammar)[action.to]
           base == SubSeq(stack, 1, n - Len(rule.rhs))
           reduced == Append(base, gotos[Last(base)][rule.lhs])
<1>1. Reduced(stack, l) =
        IF action.kind # "reduce" THEN [kind |-> action.kind, to |-> action.to, stack |-> stack]
        ELSE IF base = << >> \/ rule.lhs \notin DOMAIN gotos[Last(base)]
        THEN [kind |-> "internal", to |-> 0, stack |-> stack]
        ELSE IF Len(reduced) > limits.stack THEN [kind |-> "limit", to |-> 0, stack |-> stack]
        ELSE [kind |-> "reduce", to |-> 0, stack |-> reduced]
  BY Zenon DEF Reduced
<1>2. /\ n \in Nat \ {0} /\ Last(stack) = stack[n] /\ Last(stack) \in DOMAIN gotos
      /\ \A k \in 1..n : SubSeq(stack, 1, k) \in Paths(gotos)
      /\ stack \in Seq(DOMAIN gotos)
  BY PathResult
<1>3. \/ action \in {NoAction, Accept}
      \/ l \in DOMAIN gotos[Last(stack)] /\ action = Shift(gotos[Last(stack)][l])
      \/ \E i \in 1..Len(grammar.rules) : /\ action = Reduce(i)
                                          /\ <<i, Len(RuleAt(grammar, i).rhs)>> \in M[Last(stack)]
  BY <1>2 DEF IsAutomaton, ActionsFit
<1> HIDE DEF action, gotos
<1>4. CASE action \in {NoAction, Accept}
  <2>1. action.kind \in {"none", "accept"} /\ action.to = 0
    BY <1>4 DEF NoAction, Accept
  <2>2. Reduced(stack, l) = [kind |-> action.kind, to |-> 0, stack |-> stack]
    <3> HIDE DEF base, reduced
    <3> QED BY <1>1, <2>1
  <2> QED BY <2>1, <2>2 DEF Runs, gotos
<1>5. CASE l \in DOMAIN gotos[Last(stack)] /\ action = Shift(gotos[Last(stack)][l])
  <2>1. action.kind = "shift" /\ action.to = gotos[Last(stack)][l]
    BY <1>5 DEF Shift
  <2>2. Reduced(stack, l) = [kind |-> "shift", to |-> action.to, stack |-> stack]
    <3> HIDE DEF base, reduced
    <3> QED BY <1>1, <2>1
  <2>3. action.to \in DOMAIN gotos /\ action.to \in Nat
    BY <1>2, <1>5, <2>1 DEF IsAutomaton, GotosFit, gotos
  <2> QED BY <1>5, <2>1, <2>2, <2>3 DEF Runs, gotos
<1>6. ASSUME NEW i \in 1..Len(grammar.rules), action = Reduce(i),
             <<i, Len(RuleAt(grammar, i).rhs)>> \in M[Last(stack)]
      PROVE  Reduced(stack, l) \in Runs(gotos, l)
  <2> DEFINE d == Len(rule.rhs)
  <2>1. action.kind = "reduce" /\ action.to = i /\ rule = RuleAt(grammar, i)
    BY <1>6 DEF Reduce, RuleAt
  <2>2. d \in Nat
    <3>1. Len(grammar.rules) \in Nat /\ RulesAreTyped(grammar)
      BY RulesType
    <3>2. i \in RuleNumbers(grammar)
      BY <3>1 DEF RuleNumbers
    <3>3. RuleAt(grammar, i).rhs \in Seq(Symbol)
      BY <3>1, <3>2 DEF RulesAreTyped
    <3> QED BY <2>1, <3>3
  <2>3. d < n /\ <<i, 0>> \in M[stack[n - d]]
    <3>1. <<i, d>> \in M[Last(stack)]
      BY <1>6, <2>1
    <3> HIDE DEF d
    <3> QED BY <2>2, <3>1, ItemsHavePaths
  <2> HIDE DEF d
  <2>4. n - d \in 1..n
    BY <1>2, <2>2, <2>3
  <2>5. base \in Paths(gotos) /\ base = SubSeq(stack, 1, n - d)
    BY <1>2, <2>4 DEF d
  <2>6. Len(base) = n - d /\ base[n - d] = stack[n - d]
    <3> HIDE DEF n
    <3>1. stack \in Seq(DOMAIN gotos) /\ n - d \in 1..Len(stack)
      BY <1>2, <2>4 DEF n
    <3> HIDE DEF base
    <3> QED BY <2>4, <2>5, <3>1
  <2> HIDE DEF base
  <2>7. Last(base) = stack[n - d] /\ Last(base) \in DOMAIN gotos /\ base # << >>
    BY <2>5, <2>6, PathResult DEF Paths
  <2>8. rule.lhs \in DOMAIN gotos[Last(base)]
    <3>1. \A c \in M[Last(base)] :
            c[2] = 0 => c[1] = Len(grammar.rules) + 1 \/ RuleAt(grammar, c[1]).lhs \in DOMAIN gotos[Last(base)]
      BY <2>7 DEF IsAutomaton, BeginningsFit, gotos
    <3>2. <<i, 0>> \in M[Last(base)] /\ <<i, 0>>[2] = 0 /\ <<i, 0>>[1] = i
      BY <2>3, <2>7
    <3>3. i = Len(grammar.rules) + 1 \/ RuleAt(grammar, i).lhs \in DOMAIN gotos[Last(base)]
      BY <3>1, <3>2
    <3>4. i # Len(grammar.rules) + 1
      BY RulesType
    <3> QED BY <2>1, <3>3, <3>4
  <2>9. gotos[Last(base)][rule.lhs] \in DOMAIN gotos
    BY <2>7, <2>8 DEF IsAutomaton, GotosFit, gotos
  <2>10. reduced \in Paths(gotos)
    BY <2>5, <2>8, <2>9, PathResult
  <2> HIDE DEF reduced, rule
  <2>11. \/ Reduced(stack, l) = [kind |-> "limit", to |-> 0, stack |-> stack]
         \/ Reduced(stack, l) = [kind |-> "reduce", to |-> 0, stack |-> reduced]
    BY <1>1, <2>1, <2>7, <2>8
  <2> QED BY <2>10, <2>11 DEF Runs, gotos
<1> QED BY <1>3, <1>4, <1>5, <1>6 DEF gotos

\* So does any number of them.
LEMMA AfterReductionsResult ==
  ASSUME IsGrammar(grammar), NEW M, IsAutomaton(grammar, table, M),
         NEW stack \in Paths(table.gotos), NEW l \in Lookaheads(grammar)
  PROVE  AfterReductions(stack, l) \in Runs(table.gotos, l)
<1> DEFINE A == Runs(table.gotos, l)
           start == [kind |-> "reduce", to |-> 0, stack |-> stack]
           m == MaxReductions
           Turn(r) == IF r.kind = "reduce" THEN Reduced(r.stack, l) ELSE r
           f == [r \in A |-> Turn(r)]
           Equation(h) ==
             h = [k \in 0..m |->
                    IF k = 0 THEN [kind |-> "reduce", to |-> 0, stack |-> stack]
                    ELSE LET before == h[k - 1]
                         IN IF before.kind = "reduce" THEN Reduced(before.stack, l) ELSE before]
           run == CHOOSE h : Equation(h)
           c == [k \in 0..m |-> Repeated(A, f, start, k)]
<1>1. m \in Nat
  BY LalrAssumption
<1>2. AfterReductions(stack, l) = run[m]
  BY Zenon DEF AfterReductions
<1>3. start \in A
  BY DEF Runs
<1>4. \A r \in A : Turn(r) \in A
  <2> SUFFICES ASSUME NEW r \in A
               PROVE  Turn(r) \in A
    OBVIOUS
  <2>1. r.stack \in Paths(table.gotos)
    BY DEF Runs
  <2>2. Reduced(r.stack, l) \in A
    BY <2>1, ReducedResult
  <2> HIDE DEF A
  <2> QED BY <2>2
<1> HIDE DEF A, start
<1>5. f \in [A -> A] /\ \A r \in A : f[r] = Turn(r)
  BY <1>4
<1> HIDE DEF f, m
<1>6. /\ Repeated(A, f, start, 0) = start
      /\ \A k \in Nat : /\ Repeated(A, f, start, k) \in A
                        /\ Repeated(A, f, start, k + 1) = f[Repeated(A, f, start, k)]
  BY <1>3, <1>5, RepeatedGoesOn
<1>7. c[0] = start
  BY <1>1, <1>6
<1>8. \A k \in 1..m : c[k] = Turn(c[k - 1])
  <2> SUFFICES ASSUME NEW k \in 1..m
               PROVE  c[k] = Turn(c[k - 1])
    OBVIOUS
  <2>1. k - 1 \in Nat /\ (k - 1) + 1 = k /\ k - 1 \in 0..m /\ k \in 0..m
    BY <1>1
  <2>2. c[k] = Repeated(A, f, start, k) /\ c[k - 1] = Repeated(A, f, start, k - 1)
    BY <2>1
  <2> HIDE DEF c
  <2>3. /\ Repeated(A, f, start, k - 1) \in A
        /\ Repeated(A, f, start, (k - 1) + 1) = f[Repeated(A, f, start, k - 1)]
    BY <1>6, <2>1
  <2> HIDE DEF Turn
  <2> QED BY <1>5, <2>1, <2>2, <2>3
<1>9. Equation(c)
  <2>1. c = [k \in 0..m |-> c[k]]
    OBVIOUS
  <2> HIDE DEF c
  <2>2. \A k \in 0..m : c[k] = IF k = 0 THEN start ELSE Turn(c[k - 1])
    <3>1. \A k \in 0..m : k # 0 => k \in 1..m
      BY <1>1
    <3> HIDE DEF Turn
    <3> QED BY <1>7, <1>8, <3>1
  <2> QED BY <2>1, <2>2 DEF start
<1>10. Equation(run)
  <2> HIDE DEF Equation, c
  <2> QED BY <1>9
<1> HIDE DEF run
<1> DEFINE T == {k \in Nat : k <= m => run[k] \in A}
<1>11. 0 \in T
  <2>1. 0 \in 0..m
    BY <1>1
  <2>2. run[0] = start
    BY <1>10, <2>1 DEF start
  <2> QED BY <1>3, <2>2
<1>12. ASSUME NEW k \in 0..m - 1, k \in T
       PROVE  k + 1 \in T
  <2>1. k \in Nat /\ k + 1 \in Nat /\ k + 1 \in 0..m /\ k + 1 # 0 /\ (k + 1) - 1 = k /\ k <= m
    BY <1>1
  <2>2. run[k] \in A
    BY <1>12, <2>1
  <2>3. run[k + 1] = Turn(run[k])
    BY <1>10, <2>1
  <2> HIDE DEF Turn
  <2> QED BY <1>4, <2>1, <2>2, <2>3
<1>13. run[m] \in A
  <2> HIDE DEF T
  <2>1. m \in T
    <3>1. \A k \in 0..m : k \in T
      BY <1>1, <1>11, <1>12, UpTo
    <3> QED BY <1>1, <3>1
  <2> QED BY <1>1, <2>1 DEF T
<1> QED BY <1>2, <1>13 DEF A

-----------------------------------------------------------------------------
(* The recognizer. *)

\* A candidate was reduced to where its terminal can be shifted.
Candidates(g, gotos) ==
  {c \in [terminal : TerminalsOf(g), cursor : Seq(Byte), stack : Paths(gotos), shift : DOMAIN gotos] :
     /\ c.terminal \in DOMAIN gotos[Last(c.stack)]
     /\ c.shift = gotos[Last(c.stack)][c.terminal]}

\* Candidates have read the same bytes, each for another terminal.
InStep(S) == \A c, d \in S : c.cursor = d.cursor /\ (c.terminal = d.terminal => c = d)

Recognizers(g, gotos) ==
  {r \in [stack : Paths(gotos), candidates : SUBSET Candidates(g, gotos), position : Nat] :
     InStep(r.candidates)}

\* The table can be used.
TableInv ==
  /\ IsGrammar(grammar)
  /\ \E M : IsAutomaton(grammar, table, M)
  /\ LexicallySafe(TerminalsOf(grammar))

\* The candidates that begin are on paths.
LEMMA StartCandidatesResult ==
  ASSUME TableInv, NEW stack \in Paths(table.gotos)
  PROVE  /\ StartCandidates(stack).out \in {"ok", "limit"}
         /\ StartCandidates(stack).found \in SUBSET Candidates(grammar, table.gotos)
         /\ InStep(StartCandidates(stack).found)
<1> DEFINE after == [t \in TerminalsOf(grammar) |-> AfterReductions(stack, t)]
           shifted == {t \in TerminalsOf(grammar) : after[t].kind = "shift"}
           failed == {after[t].kind : t \in TerminalsOf(grammar)} \cap {"internal", "limit"}
           C(t) == [terminal |-> t, cursor |-> << >>, stack |-> after[t].stack, shift |-> after[t].to]
           found == {[terminal |-> t, cursor |-> << >>, stack |-> after[t].stack, shift |-> after[t].to] :
                       t \in shifted}
<1>1. StartCandidates(stack) =
        [out   |-> IF failed # {} THEN CHOOSE e \in failed : TRUE
                   ELSE IF Cardinality(shifted) > limits.scans THEN "limit" ELSE "ok",
         found |-> found]
  BY Zenon DEF StartCandidates
<1>2. \A t \in TerminalsOf(grammar) : after[t] \in Runs(table.gotos, t)
  BY AfterReductionsResult DEF TableInv, Lookaheads
<1> HIDE DEF after
<1>3. \A t \in TerminalsOf(grammar) : after[t].kind # "internal"
  BY <1>2 DEF Runs
<1>4. failed \subseteq {"limit"}
  BY <1>3
<1>5. \A t \in shifted : C(t) \in Candidates(grammar, table.gotos)
  <2> SUFFICES ASSUME NEW t \in shifted
               PROVE  C(t) \in Candidates(grammar, table.gotos)
    OBVIOUS
  <2>1. t \in TerminalsOf(grammar) /\ after[t] \in Runs(table.gotos, t) /\ after[t].kind = "shift"
    BY <1>2
  <2>2. /\ after[t].stack \in Paths(table.gotos) /\ t \in DOMAIN table.gotos[Last(after[t].stack)]
        /\ after[t].to = table.gotos[Last(after[t].stack)][t] /\ after[t].to \in DOMAIN table.gotos
    BY <2>1 DEF Runs
  <2>3. << >> \in Seq(Byte)
    OBVIOUS
  <2> QED BY <2>1, <2>2, <2>3 DEF Candidates
<1>6. found = {C(t) : t \in shifted}
  OBVIOUS
<1>7. InStep(found)
  <2>1. \A t \in shifted : C(t).cursor = << >> /\ C(t).terminal = t
    OBVIOUS
  <2> HIDE DEF C, found, shifted
  <2> QED BY <1>6, <2>1 DEF InStep
<1> HIDE DEF failed, found, shifted, C
<1>8. /\ StartCandidates(stack).found = found
      /\ StartCandidates(stack).out =
           IF failed # {} THEN CHOOSE e \in failed : TRUE
           ELSE IF Cardinality(shifted) > limits.scans THEN "limit" ELSE "ok"
  BY <1>1
<1>9. failed # {} => (CHOOSE e \in failed : TRUE) = "limit"
  <2>1. failed # {} => (CHOOSE e \in failed : TRUE) \in failed
    OBVIOUS
  <2> QED BY <1>4, <2>1
<1>10. StartCandidates(stack).out \in {"ok", "limit"}
  BY <1>8, <1>9
<1> QED BY <1>5, <1>6, <1>7, <1>8, <1>10

\* Those that read a byte are still in step.
LEMMA FedResult ==
  ASSUME NEW g, NEW gotos, NEW S \in SUBSET Candidates(g, gotos), InStep(S), NEW b \in Byte
  PROVE  Fed(S, b) \in SUBSET Candidates(g, gotos) /\ InStep(Fed(S, b))
<1> DEFINE C(c) == [c EXCEPT !.cursor = Append(@, b)]
<1>1. \A x \in Fed(S, b) : \E c \in S : x = C(c)
  BY DEF Fed
<1>2. ASSUME NEW c \in S
      PROVE  C(c) \in Candidates(g, gotos) /\ C(c).cursor = Append(c.cursor, b) /\ C(c).terminal = c.terminal
  <2>1. /\ c \in [terminal : TerminalsOf(g), cursor : Seq(Byte), stack : Paths(gotos), shift : DOMAIN gotos]
        /\ c.terminal \in DOMAIN gotos[Last(c.stack)] /\ c.shift = gotos[Last(c.stack)][c.terminal]
    BY DEF Candidates
  <2>2. Append(c.cursor, b) \in Seq(Byte)
    BY <2>1
  <2>3. C(c) = [terminal |-> c.terminal, cursor |-> Append(c.cursor, b), stack |-> c.stack, shift |-> c.shift]
    <3>1. c = [terminal |-> c.terminal, cursor |-> c.cursor, stack |-> c.stack, shift |-> c.shift]
      BY <2>1
    <3> QED BY <3>1
  <2> HIDE DEF C
  <2> QED BY <2>1, <2>2, <2>3 DEF Candidates
<1> HIDE DEF C
<1>3. ASSUME NEW x \in Fed(S, b), NEW y \in Fed(S, b)
      PROVE  x.cursor = y.cursor /\ (x.terminal = y.terminal => x = y)
  <2>1. PICK c \in S : x = C(c)
    BY <1>1
  <2>2. PICK d \in S : y = C(d)
    BY <1>1
  <2>3. c.cursor = d.cursor /\ (c.terminal = d.terminal => c = d)
    BY DEF InStep
  <2> QED BY <1>2, <2>1, <2>2, <2>3
<1>4. \A x \in Fed(S, b) : x \in Candidates(g, gotos)
  BY <1>1, <1>2
<1> QED BY <1>3, <1>4 DEF InStep

\* Of candidates in step, at most one has matched its terminal.
LEMMA OneMatches ==
  ASSUME TableInv, NEW S \in SUBSET Candidates(grammar, table.gotos), InStep(S),
         NEW c \in S, NEW d \in S, IsAcceptingCursor(c.terminal, c.cursor),
         IsAcceptingCursor(d.terminal, d.cursor)
  PROVE  c = d
<1>1. c.terminal \in TerminalsOf(grammar) /\ d.terminal \in TerminalsOf(grammar) /\ c.cursor \in Seq(Byte)
  BY DEF Candidates
<1>2. c.cursor = d.cursor /\ c.cursor \in Words[c.terminal] /\ c.cursor \in Words[d.terminal]
  BY DEF InStep, IsAcceptingCursor
<1>3. SUFFICES ASSUME c.terminal # d.terminal
               PROVE  FALSE
  BY DEF InStep
<1>4. ~IsPrefix(c.cursor, c.cursor)
  BY <1>1, <1>2, <1>3 DEF TableInv, LexicallySafe
<1>5. IsPrefix(c.cursor, c.cursor)
  <2> DEFINE w == c.cursor
  <2>1. w \in Seq(Byte)
    BY <1>1
  <2> HIDE DEF w
  <2>2. IsPrefix(w, w)
    BY <2>1 DEF IsPrefix
  <2> QED BY <2>2 DEF w
<1> QED BY <1>4, <1>5

\* How a byte may end.
Ends(g, gotos) == [out : {"limit", "rejected", "live"}, rec : Recognizers(g, gotos)]

\* A byte is refused, or leads along a path; it never ends in an internal error.
LEMMA AdvanceByteResult ==
  ASSUME TableInv, NEW r \in Recognizers(grammar, table.gotos), NEW b \in Byte
  PROVE  AdvanceByte(r, b) \in Ends(grammar, table.gotos)
<1> DEFINE R == Recognizers(grammar, table.gotos)
           C == Candidates(grammar, table.gotos)
           started == IF r.candidates = {} THEN StartCandidates(r.stack)
                      ELSE [out |-> "ok", found |-> r.candidates]
           fed == Fed(started.found, b)
           matched == {c \in fed : IsAcceptingCursor(c.terminal, c.cursor)}
           running == {c \in fed : IsLiveCursor(c.terminal, c.cursor)}
           drained == [r EXCEPT !.candidates = {}]
           one == CHOOSE c \in matched : TRUE
           next == Matched(r, CHOOSE c \in matched : TRUE)
           onward == [r EXCEPT !.candidates = running, !.position = @ + 1]
<1>1. AdvanceByte(r, b) =
        IF r.position + 1 > MaxInputBytes THEN [out |-> "limit", rec |-> r]
        ELSE IF started.out # "ok" THEN [out |-> started.out, rec |-> r]
        ELSE IF Cardinality(matched) > 1 THEN [out |-> "internal", rec |-> drained]
        ELSE IF matched # {}
        THEN IF Len(next.stack) > limits.stack THEN [out |-> "limit", rec |-> drained]
             ELSE [out |-> "live", rec |-> next]
        ELSE IF running = {} THEN [out |-> "rejected", rec |-> drained]
        ELSE [out |-> "live", rec |-> onward]
  BY Zenon DEF AdvanceByte
<1>2. /\ r = [stack |-> r.stack, candidates |-> r.candidates, position |-> r.position]
      /\ r.stack \in Paths(table.gotos) /\ r.candidates \in SUBSET C /\ r.position \in Nat
      /\ InStep(r.candidates)
  BY DEF Recognizers
<1>3. started.out \in {"ok", "limit"} /\ started.found \in SUBSET C /\ InStep(started.found)
  <2>1. CASE r.candidates = {}
    <3>1. started = StartCandidates(r.stack)
      BY <2>1
    <3> HIDE DEF started, C
    <3> QED BY <1>2, <3>1, StartCandidatesResult DEF C
  <2>2. CASE r.candidates # {}
    <3>1. started.out = "ok" /\ started.found = r.candidates
      BY <2>2
    <3> HIDE DEF started, C
    <3> QED BY <1>2, <3>1
  <2> QED BY <2>1, <2>2
<1> HIDE DEF started
<1>4. fed \in SUBSET C /\ InStep(fed)
  BY <1>3, FedResult
<1> HIDE DEF fed
<1>5. \A c, d \in matched : c = d
  <2> SUFFICES ASSUME NEW c \in matched, NEW d \in matched
               PROVE  c = d
    OBVIOUS
  <2> QED BY <1>4, OneMatches
<1>6. ~(Cardinality(matched) > 1)
  <2>1. CASE matched = {}
    <3>1. Cardinality({}) = 0
      BY FS_EmptySet
    <3> HIDE DEF matched
    <3> QED BY <2>1, <3>1
  <2>2. CASE matched # {}
    <3> HIDE DEF matched
    <3>1. PICK c : c \in matched
      BY <2>2
    <3>2. matched = {c}
      BY <1>5, <3>1
    <3>3. Cardinality({c}) = 1
      BY FS_Singleton
    <3> QED BY <3>2, <3>3
  <2> QED BY <2>1, <2>2
<1>7. drained \in R
  <2>1. drained = [stack |-> r.stack, candidates |-> {}, position |-> r.position]
    BY <1>2
  <2>2. InStep({})
    BY DEF InStep
  <2> HIDE DEF drained
  <2> QED BY <1>2, <2>1, <2>2 DEF Recognizers
<1>8. matched # {} => next \in R
  <2> SUFFICES ASSUME matched # {}
               PROVE  next \in R
    OBVIOUS
  <2>1. one \in matched
    <3> HIDE DEF matched
    <3> QED OBVIOUS
  <2>2. one \in C
    BY <1>4, <2>1
  <2> DEFINE c == one
  <2>3. next = Matched(r, c)
    OBVIOUS
  <2> HIDE DEF one, c, matched, next
  <2>4. c \in Candidates(grammar, table.gotos)
    BY <2>2 DEF c
  <2>5. /\ c.stack \in Paths(table.gotos) /\ c.shift \in DOMAIN table.gotos
        /\ c.terminal \in DOMAIN table.gotos[Last(c.stack)]
        /\ c.shift = table.gotos[Last(c.stack)][c.terminal]
    BY <2>4 DEF Candidates
  <2>6. Append(c.stack, c.shift) \in Paths(table.gotos)
    BY <2>5, PathResult
  <2>7. next = [stack |-> Append(c.stack, c.shift), candidates |-> {}, position |-> r.position + 1]
    BY <2>3 DEF Matched
  <2>8. InStep({})
    BY DEF InStep
  <2>9. r.position + 1 \in Nat
    BY <1>2
  <2> QED BY <2>6, <2>7, <2>8, <2>9 DEF Recognizers
<1>9. onward \in R
  <2>1. running \in SUBSET C /\ InStep(running)
    BY <1>4 DEF InStep
  <2> HIDE DEF running
  <2>2. onward = [stack |-> r.stack, candidates |-> running, position |-> r.position + 1]
    <3>1. r = [stack |-> r.stack, candidates |-> r.candidates, position |-> r.position]
      BY <1>2
    <3> DEFINE q == [r EXCEPT !.candidates = running]
    <3>2. q = [stack |-> r.stack, candidates |-> running, position |-> r.position]
      BY <3>1
    <3>3. onward = [q EXCEPT !.position = r.position + 1]
      OBVIOUS
    <3> HIDE DEF q, onward
    <3> QED BY <3>2, <3>3
  <2>3. r.position + 1 \in Nat
    BY <1>2
  <2> HIDE DEF onward
  <2> QED BY <1>2, <2>1, <2>2, <2>3 DEF Recognizers
<1> HIDE DEF matched, running, drained, next, onward, R
<1>10. \/ AdvanceByte(r, b) = [out |-> "limit", rec |-> r]
       \/ AdvanceByte(r, b) = [out |-> "limit", rec |-> drained]
       \/ AdvanceByte(r, b) = [out |-> "live", rec |-> next] /\ matched # {}
       \/ AdvanceByte(r, b) = [out |-> "rejected", rec |-> drained]
       \/ AdvanceByte(r, b) = [out |-> "live", rec |-> onward]
  BY <1>1, <1>3, <1>6
<1>11. r \in R
  BY DEF R
<1> QED BY <1>7, <1>8, <1>9, <1>10, <1>11 DEF Ends, R

\* So may a chunk: a byte that is not live ends it.
LEMMA AdvanceBytesResult ==
  ASSUME TableInv, NEW r \in Recognizers(grammar, table.gotos), NEW chunk \in Seq(Byte)
  PROVE  AdvanceBytes(r, chunk) \in Ends(grammar, table.gotos)
<1> DEFINE A == Ends(grammar, table.gotos)
           B == Byte
           a == [out |-> "live", rec |-> r]
           s == chunk
           Turn(x, b) == IF x.out = "live" THEN AdvanceByte(x.rec, b) ELSE x
           F == [q \in A \X B |-> Turn(q[1], q[2])]
           Equation(g) ==
             g = [T \in SUBSET DOMAIN s |->
                    IF T = {} THEN a ELSE LET x == Max(T) IN Turn(g[T \ {x}], s[x])]
           iter == CHOOSE g : Equation(g)
           p == Partial(F, a, s)
<1>0. a \in A /\ s \in Seq(B)
  BY DEF Ends
<1>i. ASSUME NEW x \in A, NEW b \in B
      PROVE  Turn(x, b) \in A
  <2>1. x.rec \in Recognizers(grammar, table.gotos)
    BY DEF Ends
  <2>2. AdvanceByte(x.rec, b) \in A
    <3> HIDE DEF A
    <3> QED BY <2>1, AdvanceByteResult DEF A
  <2> HIDE DEF A
  <2> QED BY <2>2
<1> HIDE DEF A
<1>1. IsStep(F, A, B)
  <2> HIDE DEF Turn
  <2> QED BY <1>i DEF IsStep
<1>2. \A x \in A, b \in B : F[<<x, b>>] = Turn(x, b)
  <2> HIDE DEF Turn
  <2> QED OBVIOUS
<1>4. DOMAIN s = 1..Len(s)
  BY <1>0
<1>5. AdvanceBytes(r, chunk) = iter[DOMAIN s]
  BY Zenon DEF AdvanceBytes, FoldLeft, MapThenFoldSet
<1>10. Folded(F, a, s) \in A
  <2> HIDE DEF F, a, s, B
  <2> QED BY <1>0, <1>1, FoldedType, Zenon
<1> HIDE DEF B, F, a, s, Turn
<1>3. StepsAs(p, A, B, F, a, s)
  BY <1>0, <1>1, PartialSteps, Zenon
<1> HIDE DEF p
<1>6. Equation(p)
  BY <1>2, <1>3 DEF StepsAs
<1>7. Equation(iter)
  <2> HIDE DEF Equation
  <2> QED BY <1>6
<1> HIDE DEF iter
<1>8. StepAlike(iter, p, Len(s))
  BY <1>4, <1>6, <1>7 DEF StepAlike
<1>9. FoldsTo(iter, F, a, s)
  BY <1>0, <1>1, <1>8, FoldsAlike, Zenon DEF p
<1>12. AdvanceBytes(r, chunk) = Folded(F, a, s)
  BY <1>4, <1>5, <1>9, Zenon DEF FoldsTo
<1> QED BY <1>10, <1>12 DEF A

-----------------------------------------------------------------------------
(* The inductive invariant. *)

\* Before there is a table nobody has called the recognizer; then it, and every
\* checkpoint of it, is on a path of the automaton.
CallsInv ==
  /\ build.at # "usable" => rec = Fresh /\ saved = << >> /\ reply = NoReply
  /\ build.at = "usable" =>
       /\ TableInv
       /\ rec \in Recognizers(grammar, table.gotos)
       /\ saved \in Seq([checkpoint : Recognizers(grammar, table.gotos), text : Seq(Byte)])
  /\ text \in Seq(Byte)
  /\ reply.out # "internal"

LalrInv == ConstructionInv /\ CallsInv


\* A checkpoint is the whole state, so restoring it gives back the recognizer it was
\* taken of.
LEMMA CheckpointIsTheState ==
  ASSUME NEW g, NEW gotos, NEW r \in Recognizers(g, gotos)
  PROVE  Checkpoint(r) = r /\ Restore(r) = r
<1>1. r = [stack |-> r.stack, candidates |-> r.candidates, position |-> r.position]
  BY DEF Recognizers
<1> QED BY <1>1 DEF Checkpoint, Restore

\* The recognizer begins on the path that is the first state.
LEMMA FreshResult ==
  ASSUME NEW g, NEW gotos, 1 \in DOMAIN gotos
  PROVE  Fresh \in Recognizers(g, gotos)
<1>1. <<1>> \in Paths(gotos)
  <2>1. <<1>> \in Seq(DOMAIN gotos) /\ <<1>> # << >> /\ <<1>>[1] = 1 /\ Len(<<1>>) = 1
    OBVIOUS
  <2> QED BY <2>1 DEF Paths
<1>2. InStep({})
  BY DEF InStep
<1> QED BY <1>1, <1>2 DEF Fresh, Recognizers

\* Nobody has called the recognizer at first.
LEMMA InitCalls ==
  ASSUME Init
  PROVE  CallsInv
<1>1. build.at # "usable" /\ rec = Fresh /\ saved = << >> /\ reply = NoReply /\ text = << >>
  BY DEF Init
<1> QED BY <1>1 DEF CallsInv, NoReply

\* The recognizer of the table that is built begins on a path.
LEMMA BuildingKeeps ==
  ASSUME LalrInv, Building
  PROVE  LalrInv'
<1>1. CASE ExpandState
  <2>1. ConstructionInv'
    BY <1>1, ExpandConstruction DEF LalrInv
  <2>2. build.at = "expand" /\ build'.at # "usable" /\ UNCHANGED <<grammar, rec, reply, text, saved>>
    <3>1. /\ build.at = "expand" /\ UNCHANGED <<grammar, rec, reply, text, saved>>
          /\ \E states, edges : build' \in {[build EXCEPT !.at = "limit"],
               [build EXCEPT !.states = states, !.next = @ + 1, !.edges = @ \cup edges]}
      BY <1>1, Zenon DEF ExpandState
    <3>2. build = [at |-> build.at, states |-> build.states, next |-> build.next, edges |-> build.edges]
      BY <3>1 DEF LalrInv, ConstructionInv, IsConstruction
    <3>3. build'.at \in {"expand", "limit"}
      BY <3>1, <3>2
    <3> QED BY <3>1, <3>3
  <2> QED BY <2>1, <2>2 DEF LalrInv, CallsInv
<1>2. CASE BuildTable
  <2> DEFINE count == Cardinality(ToSet(MergedAs(build.states)))
  <2>1. /\ UNCHANGED <<grammar, limits, rec, reply, text, saved>>
        /\ \/ build'.at \in {"limit", "unusable"} /\ UNCHANGED table
           \/ TableIsBuilt(count)
    BY <1>2, BuildTableResult DEF LalrInv
  <2>2. build.at = "expand" /\ build.next > Len(build.states)
    BY <1>2 DEF BuildTable
  <2>3. /\ IsGrammar(grammar) /\ rec = Fresh /\ saved = << >> /\ reply = NoReply
        /\ text \in Seq(Byte) /\ NoReply.out # "internal"
    BY <2>2 DEF LalrInv, ConstructionInv, CallsInv, NoReply
  <2> HIDE DEF count
  <2>4. CASE build'.at \in {"limit", "unusable"}
    BY <2>1, <2>3, <2>4 DEF LalrInv, ConstructionInv, CallsInv
  <2>5. CASE TableIsBuilt(count)
    <3> DEFINE t == table'
    <3>1. /\ t.gotos = GotosOf(count) /\ t.actions = ActionsOf(t.gotos, count)
          /\ build'.at = "usable" /\ LexicallySafe(TerminalsOf(grammar))
      BY <2>5 DEF TableIsBuilt
    <3> HIDE DEF t
    <3>2. PICK M : IsAutomaton(grammar, t, M)
      BY <2>2, <3>1, BuiltIsAutomaton DEF LalrInv, count
    <3>3. Fresh \in Recognizers(grammar, t.gotos)
      BY <3>2, FreshResult DEF IsAutomaton
    <3>4. TableInv'
      BY <2>1, <2>3, <3>1, <3>2 DEF TableInv, t
    <3>5. rec' \in Recognizers(grammar', table'.gotos)
      BY <2>1, <2>3, <3>3 DEF t
    <3>6. saved' \in Seq([checkpoint : Recognizers(grammar', table'.gotos), text : Seq(Byte)])
      BY <2>1, <2>3
    <3>7. ConstructionInv'
      BY <2>1, <2>3, <3>1 DEF ConstructionInv
    <3>8. text' \in Seq(Byte) /\ reply'.out # "internal"
      BY <2>1, <2>3
    <3> QED BY <3>1, <3>4, <3>5, <3>6, <3>7, <3>8 DEF LalrInv, CallsInv
  <2> QED BY <2>1, <2>4, <2>5
<1> QED BY <1>1, <1>2 DEF Building

\* What a call leaves alone.
LEMMA CallKeeps ==
  ASSUME LalrInv, build.at = "usable", UNCHANGED <<grammar, limits, build, table>>,
         rec' \in Recognizers(grammar, table.gotos), text' \in Seq(Byte), reply'.out # "internal",
         saved' \in Seq([checkpoint : Recognizers(grammar, table.gotos), text : Seq(Byte)])
  PROVE  LalrInv'
<1>1. TableInv /\ ConstructionInv
  BY DEF LalrInv, CallsInv
<1>2. TableInv' /\ ConstructionInv'
  BY <1>1 DEF TableInv, ConstructionInv
<1> QED BY <1>2 DEF LalrInv, CallsInv

\* A chunk advances the recognizer along the automaton, or leaves it as it was.
LEMMA TryAdvanceResult ==
  ASSUME LalrInv, NEW chunk \in Seq(Byte), TryAdvance(chunk)
  PROVE  /\ UNCHANGED <<grammar, limits, build, table, saved>>
         /\ rec' \in Recognizers(grammar, table.gotos) /\ text' \in Seq(Byte)
         /\ reply'.out \in {"limit", "rejected", "live", "accepting"}
         /\ reply'.out \notin {"live", "accepting"} => rec' = rec
<1> DEFINE fed == AdvanceBytes(rec, chunk)
<1>1. /\ build.at = "usable" /\ UNCHANGED <<grammar, limits, build, table, saved>>
      /\ IF fed.out = "live"
         THEN /\ rec' = fed.rec /\ text' = text \o chunk
              /\ reply' = [chunk |-> chunk, out |-> IF IsAccepting(fed.rec) THEN "accepting" ELSE "live"]
         ELSE /\ rec' = Restore(Checkpoint(rec)) /\ text' = text
              /\ reply' = [chunk |-> chunk, out |-> fed.out]
  BY DEF TryAdvance
<1>2. TableInv /\ rec \in Recognizers(grammar, table.gotos) /\ text \in Seq(Byte)
  BY <1>1 DEF LalrInv, CallsInv
<1>3. fed.out \in {"limit", "rejected", "live"} /\ fed.rec \in Recognizers(grammar, table.gotos)
  BY <1>2, AdvanceBytesResult DEF Ends
<1>4. Restore(Checkpoint(rec)) = rec
  BY <1>2, CheckpointIsTheState
<1>5. text \o chunk \in Seq(Byte)
  BY <1>2
<1> HIDE DEF fed
<1>6. CASE fed.out = "live"
  <2>1. rec' = fed.rec /\ text' = text \o chunk /\ reply'.out \in {"live", "accepting"}
    BY <1>1, <1>6
  <2> QED BY <1>1, <1>3, <1>5, <2>1
<1>7. CASE fed.out # "live"
  <2>1. rec' = rec /\ text' = text /\ reply'.out = fed.out
    BY <1>1, <1>4, <1>7
  <2> QED BY <1>1, <1>2, <1>3, <1>7, <2>1
<1> QED BY <1>6, <1>7

\* Every call keeps the invariant.
LEMMA CallsKeep ==
  ASSUME LalrInv,
         \/ \E chunk \in Chunk : TryAdvance(chunk)
         \/ TakeCheckpoint
         \/ \E i \in 1..Len(saved) : RestoreCheckpoint(i)
  PROVE  LalrInv'
<1> DEFINE R == Recognizers(grammar, table.gotos)
<1>1. ASSUME NEW chunk \in Chunk, TryAdvance(chunk)
      PROVE  LalrInv'
  <2>1. chunk \in Seq(Byte)
    BY LalrAssumption
  <2>2. build.at = "usable"
    BY <1>1 DEF TryAdvance
  <2>3. saved \in Seq([checkpoint : R, text : Seq(Byte)])
    BY <2>2 DEF LalrInv, CallsInv
  <2>4. /\ UNCHANGED <<grammar, limits, build, table, saved>>
        /\ rec' \in R /\ text' \in Seq(Byte)
        /\ reply'.out \in {"limit", "rejected", "live", "accepting"}
    BY <1>1, <2>1, TryAdvanceResult
  <2> QED BY <2>2, <2>3, <2>4, CallKeeps
<1>2. CASE TakeCheckpoint
  <2>1. /\ build.at = "usable" /\ UNCHANGED <<grammar, limits, build, table, rec, text>>
        /\ saved' = Append(saved, [checkpoint |-> Checkpoint(rec), text |-> text])
        /\ reply' = NoReply
    BY <1>2 DEF TakeCheckpoint
  <2>2. rec \in R /\ text \in Seq(Byte) /\ saved \in Seq([checkpoint : R, text : Seq(Byte)])
    BY <2>1 DEF LalrInv, CallsInv
  <2>3. Checkpoint(rec) \in R
    BY <2>2, CheckpointIsTheState
  <2> HIDE DEF R
  <2>4. [checkpoint |-> Checkpoint(rec), text |-> text] \in [checkpoint : R, text : Seq(Byte)]
    BY <2>2, <2>3
  <2>5. saved' \in Seq([checkpoint : R, text : Seq(Byte)])
    BY <2>1, <2>2, <2>4
  <2>6. reply'.out # "internal"
    BY <2>1 DEF NoReply
  <2> QED BY <2>1, <2>2, <2>5, <2>6, CallKeeps DEF R
<1>3. ASSUME NEW i \in 1..Len(saved), RestoreCheckpoint(i)
      PROVE  LalrInv'
  <2>1. /\ rec' = Restore(saved[i].checkpoint) /\ text' = saved[i].text /\ reply' = NoReply
        /\ UNCHANGED <<grammar, limits, build, table, saved>>
    BY <1>3 DEF RestoreCheckpoint
  <2>2. build.at = "usable"
    <3>1. saved # << >>
      OBVIOUS
    <3> QED BY <3>1 DEF LalrInv, CallsInv
  <2>3. saved \in Seq([checkpoint : R, text : Seq(Byte)])
    BY <2>2 DEF LalrInv, CallsInv
  <2>4. saved[i].checkpoint \in R /\ saved[i].text \in Seq(Byte)
    <3> DEFINE T == [checkpoint : R, text : Seq(Byte)]
    <3>1. saved \in Seq(T) /\ \A x \in T : x.checkpoint \in R /\ x.text \in Seq(Byte)
      BY <2>3
    <3> HIDE DEF T
    <3>2. saved[i] \in T
      BY <3>1
    <3> QED BY <3>1, <3>2
  <2>5. rec' \in R
    BY <2>1, <2>4, CheckpointIsTheState
  <2>6. reply'.out # "internal"
    BY <2>1 DEF NoReply
  <2>7. text' \in Seq(Byte) /\ saved' \in Seq([checkpoint : R, text : Seq(Byte)])
    BY <2>1, <2>3, <2>4
  <2> QED BY <2>1, <2>2, <2>5, <2>6, <2>7, CallKeeps
<1> QED BY <1>1, <1>2, <1>3

\* What changes nothing keeps the invariant.
LEMMA StutteringKeeps ==
  ASSUME LalrInv, UNCHANGED vars
  PROVE  LalrInv'
BY DEF LalrInv, ConstructionInv, CallsInv, TableInv, vars

\* The table fits the cores it was built from, and the recognizer is on a path of it.
THEOREM LalrInvariant == Spec => []LalrInv
<1>1. Init => LalrInv
  BY InitConstruction, InitCalls DEF LalrInv
<1>2. LalrInv /\ [Next]_vars => LalrInv'
  BY BuildingKeeps, CallsKeep, StutteringKeeps DEF Next
<1> QED BY <1>1, <1>2, PTL DEF Spec

-----------------------------------------------------------------------------
(* The properties. *)

\* The invariant says what the runs check.
LEMMA InvariantGivesPaths ==
  ASSUME LalrInv
  PROVE  StacksArePaths
<1> DEFINE gotos == table.gotos
           IsPath(stack) == /\ Head(stack) = 1
                            /\ \A i \in 1..(Len(stack) - 1) : stack[i + 1] \in Range(gotos[stack[i]])
<1>1. NoInternalError
  BY DEF LalrInv, ConstructionInv, CallsInv, NoInternalError
<1>2. ASSUME NEW stack \in Paths(gotos)
      PROVE  IsPath(stack)
  <2>1. stack # << >> /\ stack[1] = 1 /\ stack \in Seq(DOMAIN gotos)
    BY DEF Paths
  <2>2. Head(stack) = stack[1]
    BY <2>1
  <2> QED BY <2>1, <2>2 DEF Paths
<1> HIDE DEF IsPath
<1>3. ASSUME build.at = "usable",
             NEW stack \in {rec.stack} \cup {Append(c.stack, c.shift) : c \in rec.candidates}
      PROVE  stack \in Paths(gotos)
  <2>1. rec.stack \in Paths(gotos) /\ rec.candidates \in SUBSET Candidates(grammar, gotos)
    BY <1>3 DEF LalrInv, CallsInv, Recognizers
  <2>2. ASSUME NEW c \in rec.candidates
        PROVE  Append(c.stack, c.shift) \in Paths(gotos)
    <3>1. /\ c.stack \in Paths(gotos) /\ c.terminal \in DOMAIN gotos[Last(c.stack)]
          /\ c.shift = gotos[Last(c.stack)][c.terminal] /\ c.shift \in DOMAIN gotos
      BY <2>1 DEF Candidates
    <3> QED BY <3>1, PathResult
  <2> QED BY <1>3, <2>1, <2>2
<1> QED BY <1>1, <1>2, <1>3 DEF StacksArePaths, IsPath

\* The recognizer's stack, and the stacks its candidates were reduced to, are paths of
\* the automaton, and what the code calls an internal error never happens: merging
\* states of one core never gives a symbol two targets, no reduction finds too short a
\* stack or no goto, and two terminals are never matched by the same bytes.
THEOREM StacksAlwaysPaths == Spec => []StacksArePaths
BY LalrInvariant, InvariantGivesPaths, PTL

\* try_advance_bytes changes nothing when it fails: what it drained or moved on the way
\* is as it was.
THEOREM FailedCallsRestore == Spec => FailedCallRestores
<1>1. ASSUME LalrInv, NEW chunk \in Chunk, TryAdvance(chunk), reply'.out \notin {"live", "accepting"}
      PROVE  rec' = rec
  <2>1. chunk \in Seq(Byte)
    BY LalrAssumption
  <2> QED BY <1>1, <2>1, TryAdvanceResult
<1>2. LalrInv /\ [Next]_vars =>
        [\A chunk \in Chunk : TryAdvance(chunk) /\ reply'.out \notin {"live", "accepting"} =>
           rec' = rec]_vars
  BY <1>1
<1> QED BY <1>2, LalrInvariant, PTL DEF Spec, FailedCallRestores

=============================================================================
