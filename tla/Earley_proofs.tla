----------------------------- MODULE Earley_proofs -----------------------------
(***************************************************************************)
(* Theorems about Earley, for every grammar, every set of limits and any   *)
(* number of bytes: a failed call leaves the recognizer it found; the      *)
(* budgets are what the chart holds; without Leo items every column is     *)
(* closed under completion, whatever order its agenda was worked off in;   *)
(* what an item claims to have read the grammar derives; and the answers   *)
(* are those of the grammar, with Leo items and without.                   *)
(***************************************************************************)
EXTENDS Earley, FoldLemmas, FiniteSetTheorems

Item == [rule : Nat, dot : Nat, origin : Nat]

Column == [items : Seq(Item), leo : UNION {[S -> Item] : S \in SUBSET Nonterminal}]

-----------------------------------------------------------------------------
(***************************************************************************)
(* What the folds of the module compute.                                   *)
(***************************************************************************)

\* The items that wait for X are those among the first n that expect it.
LEMMA WaitersResult ==
  ASSUME NEW r, NEW c, NEW n \in Nat, NEW X,
         r.chart[c + 1].items \in Seq(Item), n <= Len(r.chart[c + 1].items)
  PROVE  /\ Waiters(r, c, n, X) \in Seq(Item)
         /\ ToSet(Waiters(r, c, n, X))
              = {item \in ToSet(SubSeq(r.chart[c + 1].items, 1, n)) : Expects(item, X)}
<1> DEFINE A == Seq(Item)
           B == Item
           a == << >>
           s == SubSeq(r.chart[c + 1].items, 1, n)
           G == [item \in Item |-> IF Expects(item, X) THEN <<item>> ELSE << >>]
           F == Collects(B, Item, G)
           Equation(g) ==
             g = [T \in SUBSET DOMAIN s |->
                    IF T = {} THEN a
                    ELSE LET x == Max(T)
                         IN IF Expects(s[x], X) THEN Append(g[T \ {x}], s[x]) ELSE g[T \ {x}]]
           iter == CHOOSE g : Equation(g)
           p == Partial(F, a, s)
<1>0. a \in A /\ s \in Seq(B)
  OBVIOUS
<1>g. G \in [B -> Seq(Item)]
  OBVIOUS
<1>1. IsStep(F, A, B)
  <2> HIDE DEF G, s
  <2> QED BY <1>0, <1>g, FoldedCollects
<1>2. \A w \in A, item \in B : F[<<w, item>>] = IF Expects(item, X) THEN Append(w, item) ELSE w
  <2> SUFFICES ASSUME NEW w \in A, NEW item \in B
               PROVE  F[<<w, item>>] = IF Expects(item, X) THEN Append(w, item) ELSE w
    OBVIOUS
  <2>1. F[<<w, item>>] = w \o G[item]
    <3> HIDE DEF G
    <3> QED BY DEF Collects
  <2>2. w \o << >> = w /\ w \o <<item>> = Append(w, item)
    OBVIOUS
  <2> QED BY <2>1, <2>2
<1>4. DOMAIN s = 1..Len(s)
  BY <1>0
<1>5. Waiters(r, c, n, X) = iter[DOMAIN s]
  BY Zenon DEF Waiters, FoldLeft, MapThenFoldSet
<1>10. Folded(F, a, s) \in Seq(Item) /\ Gathers(Folded(F, a, s), G, s)
  <2> HIDE DEF G, s
  <2> QED BY <1>0, <1>g, FoldedCollects
<1>11. ASSUME NEW x
       PROVE  (\E i \in 1..Len(s) : x \in ToSet(G[s[i]])) <=> x \in ToSet(s) /\ Expects(x, X)
  <2>1. \A item \in Item : ToSet(G[item]) = IF Expects(item, X) THEN {item} ELSE {}
    <3>1. ToSet(<< >>) = {} /\ \A item : ToSet(<<item>>) = {item}
      BY DEF ToSet
    <3> QED BY <3>1
  <2>2. \A i \in 1..Len(s) : s[i] \in Item
    BY <1>0
  <2> HIDE DEF G, s
  <2> QED BY <1>4, <2>1, <2>2 DEF ToSet
<1> HIDE DEF A, B, F, a, s, G
<1>3. StepsAs(p, A, B, F, a, s)
  BY <1>0, <1>1, PartialSteps, Zenon
<1> HIDE DEF p
<1>6. Equation(p)
  BY <1>2, <1>3 DEF StepsAs
<1>7. Equation(iter)
  <2> HIDE DEF Equation
  <2> QED BY <1>6
<1> HIDE DEF iter
<1>8. StepAlike(iter, p, Len(s))
  <2>1. iter[{}] = a /\ p[{}] = a
    BY <1>4, <1>6, <1>7
  <2>2. ASSUME NEW T \in SUBSET (1..Len(s)), T # {}, iter[T \ {Max(T)}] = p[T \ {Max(T)}]
        PROVE  iter[T] = p[T]
    <3>1. iter[T] = IF Expects(s[Max(T)], X) THEN Append(iter[T \ {Max(T)}], s[Max(T)])
                    ELSE iter[T \ {Max(T)}]
      BY <1>4, <1>7, <2>2
    <3>2. p[T] = IF Expects(s[Max(T)], X) THEN Append(p[T \ {Max(T)}], s[Max(T)])
                 ELSE p[T \ {Max(T)}]
      BY <1>4, <1>6, <2>2
    <3> QED BY <2>2, <3>1, <3>2
  <2> QED BY <2>1, <2>2 DEF StepAlike
<1>9. FoldsTo(iter, F, a, s)
  BY <1>0, <1>1, <1>8, FoldsAlike, Zenon DEF p
<1>12. Waiters(r, c, n, X) = Folded(F, a, s)
  BY <1>4, <1>5, <1>9, Zenon DEF FoldsTo
<1>13. ToSet(Folded(F, a, s)) = {item \in ToSet(s) : Expects(item, X)}
  BY <1>10, <1>11 DEF Gathers
<1> QED BY <1>10, <1>12, <1>13 DEF s

\* All that wait for X in column c.
LEMMA AllWaitersResult ==
  ASSUME NEW r, NEW c, NEW X, r.chart[c + 1].items \in Seq(Item)
  PROVE  /\ AllWaiters(r, c, X) \in Seq(Item)
         /\ ToSet(AllWaiters(r, c, X)) = {item \in ToSet(r.chart[c + 1].items) : Expects(item, X)}
<1> DEFINE s == r.chart[c + 1].items
           n == Len(s)
<1>1. n \in Nat /\ n <= n /\ SubSeq(s, 1, n) = s
  OBVIOUS
<1> HIDE DEF n
<1>2. /\ Waiters(r, c, n, X) \in Seq(Item)
      /\ ToSet(Waiters(r, c, n, X)) = {item \in ToSet(SubSeq(s, 1, n)) : Expects(item, X)}
  BY <1>1, WaitersResult DEF n
<1> QED BY <1>1, <1>2 DEF AllWaiters, n

\* The dots of the items of s are moved, and nothing else.
LEMMA AdvanceAllResult ==
  ASSUME NEW s \in Seq(Item)
  PROVE  /\ AdvanceAll(s) \in Seq(Item)
         /\ ToSet(AdvanceAll(s)) = {Advanced(item) : item \in ToSet(s)}
<1>1. ASSUME NEW item \in Item
      PROVE  Advanced(item) \in Item
  <2>1. item.dot + 1 \in Nat
    BY DEF Item
  <2> QED BY <2>1 DEF Advanced, Item
<1>2. DOMAIN s = 1..Len(s) /\ Len(s) \in Nat /\ \A i \in 1..Len(s) : s[i] \in Item
  OBVIOUS
<1>3. AdvanceAll(s) \in Seq(Item)
  BY <1>1, <1>2 DEF AdvanceAll
<1>4. DOMAIN AdvanceAll(s) = 1..Len(s) /\ \A i \in 1..Len(s) : AdvanceAll(s)[i] = Advanced(s[i])
  BY <1>2 DEF AdvanceAll
<1> HIDE DEF Item
<1> QED BY <1>2, <1>3, <1>4 DEF ToSet

\* Predicted items begin rules, in column c.
LEMMA PredictedResult ==
  ASSUME IsGrammar(grammar), NEW X, NEW c \in Nat
  PROVE  /\ Predicted(X, c) \in Seq(Item)
         /\ ToSet(Predicted(X, c)) \subseteq {[rule |-> i, dot |-> 0, origin |-> c] : i \in 1..Len(Rules)}
         /\ \A x : x \in ToSet(Predicted(X, c)) <=>
              \E i \in 1..Len(Rules) : Rules[i].lhs = X /\ x = [rule |-> i, dot |-> 0, origin |-> c]
<1> DEFINE A == Seq(Item)
           B == Nat
           a == << >>
           s == [i \in 1..Len(Rules) |-> i]
           Begins(i) == Rules[i].lhs = X
           Start(i) == [rule |-> i, dot |-> 0, origin |-> c]
           G == [i \in Nat |-> IF Begins(i) THEN <<Start(i)>> ELSE << >>]
           F == Collects(B, Item, G)
           Equation(g) ==
             g = [T \in SUBSET DOMAIN s |->
                    IF T = {} THEN a
                    ELSE LET x == Max(T)
                         IN IF Begins(s[x])
                            THEN Append(g[T \ {x}], Start(s[x]))
                            ELSE g[T \ {x}]]
           iter == CHOOSE g : Equation(g)
           p == Partial(F, a, s)
<1>r. Len(Rules) \in Nat
  BY DEF Rules, IsGrammar
<1>0. a \in A /\ s \in Seq(B) /\ Len(s) = Len(Rules)
  BY <1>r
<1>s. \A i \in Nat : Start(i) \in Item
  BY DEF Item
<1>g. G \in [B -> Seq(Item)]
  <2> HIDE DEF Start
  <2> QED BY <1>s
<1>1. IsStep(F, A, B)
  <2> HIDE DEF G, s
  <2> QED BY <1>0, <1>g, FoldedCollects
<1>2. \A w \in A, i \in B : F[<<w, i>>] = IF Begins(i) THEN Append(w, Start(i)) ELSE w
  <2> SUFFICES ASSUME NEW w \in A, NEW i \in B
               PROVE  F[<<w, i>>] = IF Begins(i) THEN Append(w, Start(i)) ELSE w
    OBVIOUS
  <2>1. F[<<w, i>>] = w \o G[i]
    <3> HIDE DEF G
    <3> QED BY DEF Collects
  <2>2. w \o << >> = w /\ w \o <<Start(i)>> = Append(w, Start(i))
    <3> HIDE DEF Start
    <3> QED BY <1>s
  <2> HIDE DEF Start
  <2> QED BY <2>1, <2>2
<1>4. DOMAIN s = 1..Len(s)
  BY <1>0
<1>5. Predicted(X, c) = iter[DOMAIN s]
  BY Zenon DEF Predicted, FoldLeft, MapThenFoldSet
<1>10. Folded(F, a, s) \in Seq(Item) /\ Gathers(Folded(F, a, s), G, s)
  <2> HIDE DEF G, s
  <2> QED BY <1>0, <1>g, FoldedCollects
<1>11. ASSUME NEW i \in 1..Len(s)
       PROVE  i \in 1..Len(Rules) /\ \A x : x \in ToSet(G[s[i]]) <=> Begins(i) /\ x = Start(i)
  <2>1. \A y : ToSet(<<y>>) = {y}
    BY DEF ToSet
  <2>2. ToSet(<< >>) = {}
    BY DEF ToSet
  <2>3. s[i] = i /\ i \in 1..Len(Rules) /\ i \in Nat
    BY <1>0
  <2>4. G[i] = IF Begins(i) THEN <<Start(i)>> ELSE << >>
    BY <2>3
  <2> HIDE DEF Start, s, G, Begins
  <2> QED BY <2>1, <2>2, <2>3, <2>4
<1>l. Len(s) = Len(Rules)
  BY <1>0
<1> HIDE DEF A, B, F, a, s, G, Start, Begins
<1>3. StepsAs(p, A, B, F, a, s)
  BY <1>0, <1>1, PartialSteps, Zenon
<1> HIDE DEF p
<1>6. Equation(p)
  BY <1>2, <1>3 DEF StepsAs
<1>7. Equation(iter)
  <2> HIDE DEF Equation
  <2> QED BY <1>6
<1> HIDE DEF iter
<1>8. StepAlike(iter, p, Len(s))
  <2>1. iter[{}] = a /\ p[{}] = a
    BY <1>4, <1>6, <1>7
  <2>2. ASSUME NEW T \in SUBSET (1..Len(s)), T # {}, iter[T \ {Max(T)}] = p[T \ {Max(T)}]
        PROVE  iter[T] = p[T]
    <3>1. iter[T] = IF Begins(s[Max(T)]) THEN Append(iter[T \ {Max(T)}], Start(s[Max(T)]))
                    ELSE iter[T \ {Max(T)}]
      BY <1>4, <1>7, <2>2
    <3>2. p[T] = IF Begins(s[Max(T)]) THEN Append(p[T \ {Max(T)}], Start(s[Max(T)]))
                 ELSE p[T \ {Max(T)}]
      BY <1>4, <1>6, <2>2
    <3> QED BY <2>2, <3>1, <3>2
  <2> QED BY <2>1, <2>2 DEF StepAlike
<1>9. FoldsTo(iter, F, a, s)
  BY <1>0, <1>1, <1>8, FoldsAlike, Zenon DEF p
<1>12. Predicted(X, c) = Folded(F, a, s)
  BY <1>4, <1>5, <1>9, Zenon DEF FoldsTo
<1>13. \A x : x \in ToSet(Folded(F, a, s)) <=> \E i \in 1..Len(Rules) : Begins(i) /\ x = Start(i)
  BY <1>l, <1>10, <1>11 DEF Gathers
<1>14. ToSet(Folded(F, a, s)) \subseteq {Start(j) : j \in 1..Len(Rules)}
  BY <1>13
<1> QED BY <1>10, <1>12, <1>13, <1>14 DEF Start, Begins

\* What a terminal matched moves on are items that waited for it in the column in which
\* one of the scans began.
WaitedIn(r, scans, t, x) ==
  \E c \in 0..Len(r.chart) - 1 :
    /\ \E q \in scans : q.terminal = t /\ q.start = c /\ IsAcceptingCursor(t, q.cursor)
    /\ \E item \in ToSet(r.chart[c + 1].items) : Expects(item, t) /\ x = Advanced(item)

\* A matched terminal brings in the items that waited for it, and no other.
LEMMA MatchedResult ==
  ASSUME NEW r, r.chart \in Seq(Column), NEW scans, NEW t
  PROVE  /\ Matched(r, scans, t) \in Seq(Item)
         /\ \A x : x \in ToSet(Matched(r, scans, t)) <=> WaitedIn(r, scans, t, x)
<1> DEFINE A == Seq(Item)
           B == 0..Len(r.chart) - 1
           a == << >>
           s == [c \in 1..Len(r.chart) |-> c - 1]
           Ends(c) == \E q \in scans : q.terminal = t /\ q.start = c /\ IsAcceptingCursor(t, q.cursor)
           From(c, x) == \E item \in ToSet(r.chart[c + 1].items) : Expects(item, t) /\ x = Advanced(item)
           Moved(c) == AdvanceAll(AllWaiters(r, c, t))
           G == [c \in B |-> IF Ends(c) THEN Moved(c) ELSE << >>]
           F == Collects(B, Item, G)
           Equation(g) ==
             g = [T \in SUBSET DOMAIN s |->
                    IF T = {} THEN a
                    ELSE LET x == Max(T)
                         IN IF Ends(s[x]) THEN g[T \ {x}] \o Moved(s[x]) ELSE g[T \ {x}]]
           iter == CHOOSE g : Equation(g)
           p == Partial(F, a, s)
<1>0. a \in A /\ s \in Seq(B) /\ Len(s) = Len(r.chart)
  <2>1. Len(r.chart) \in Nat /\ \A c \in 1..Len(r.chart) : c - 1 \in B
    OBVIOUS
  <2> HIDE DEF B
  <2> QED BY <2>1
<1>m. \A c \in B : /\ Moved(c) \in Seq(Item)
                   /\ \A x : x \in ToSet(Moved(c)) <=> From(c, x)
  <2> SUFFICES ASSUME NEW c \in B
               PROVE  /\ Moved(c) \in Seq(Item)
                      /\ \A x : x \in ToSet(Moved(c)) <=> From(c, x)
    OBVIOUS
  <2>1. r.chart[c + 1].items \in Seq(Item)
    <3>1. c + 1 \in 1..Len(r.chart)
      OBVIOUS
    <3>2. r.chart[c + 1] \in Column
      BY <3>1
    <3> QED BY <3>2 DEF Column
  <2>2. /\ AllWaiters(r, c, t) \in Seq(Item)
        /\ ToSet(AllWaiters(r, c, t)) = {item \in ToSet(r.chart[c + 1].items) : Expects(item, t)}
    BY <2>1, AllWaitersResult, Zenon
  <2>3. /\ Moved(c) \in Seq(Item)
        /\ ToSet(Moved(c)) = {Advanced(item) : item \in ToSet(AllWaiters(r, c, t))}
    BY <2>2, AdvanceAllResult, Zenon
  <2> HIDE DEF Moved
  <2> QED BY <2>2, <2>3
<1>w. \A x : WaitedIn(r, scans, t, x) <=> \E c \in B : Ends(c) /\ From(c, x)
  BY DEF WaitedIn
<1>g. G \in [B -> Seq(Item)]
  <2> HIDE DEF Moved, B, Ends
  <2> QED BY <1>m
<1>1. IsStep(F, A, B)
  <2> HIDE DEF G, s, B
  <2> QED BY <1>0, <1>g, FoldedCollects
<1>2. \A w \in A, c \in B : F[<<w, c>>] = IF Ends(c) THEN w \o Moved(c) ELSE w
  <2> SUFFICES ASSUME NEW w \in A, NEW c \in B
               PROVE  F[<<w, c>>] = IF Ends(c) THEN w \o Moved(c) ELSE w
    OBVIOUS
  <2>1. F[<<w, c>>] = w \o G[c]
    <3> HIDE DEF G, B
    <3> QED BY DEF Collects
  <2>2. w \o << >> = w
    OBVIOUS
  <2>3. G[c] = IF Ends(c) THEN Moved(c) ELSE << >>
    <3> HIDE DEF Ends, Moved, B
    <3> QED OBVIOUS
  <2> HIDE DEF Ends, Moved, B, G
  <2> QED BY <2>1, <2>2, <2>3
<1>4. DOMAIN s = 1..Len(s)
  BY <1>0
<1>5. Matched(r, scans, t) = iter[DOMAIN s]
  BY Zenon DEF Matched, FoldLeft, MapThenFoldSet
<1>10. Folded(F, a, s) \in Seq(Item) /\ Gathers(Folded(F, a, s), G, s)
  <2> HIDE DEF G, s, B
  <2> QED BY <1>0, <1>g, FoldedCollects
<1>11. ASSUME NEW i \in 1..Len(s)
       PROVE  s[i] \in B /\ \A x : x \in ToSet(G[s[i]]) <=> Ends(s[i]) /\ From(s[i], x)
  <2>2. ToSet(<< >>) = {}
    BY DEF ToSet
  <2>3. s[i] \in B
    BY <1>0
  <2>4. G[s[i]] = IF Ends(s[i]) THEN Moved(s[i]) ELSE << >>
    <3> HIDE DEF Ends, Moved, B, s
    <3> QED BY <2>3
  <2> HIDE DEF Ends, Moved, B, s, G, From
  <2> QED BY <2>2, <2>3, <2>4, <1>m
<1>l. \A c \in B : \E i \in 1..Len(s) : s[i] = c
  <2> SUFFICES ASSUME NEW c \in B PROVE \E i \in 1..Len(s) : s[i] = c
    OBVIOUS
  <2>1. c + 1 \in 1..Len(s) /\ c + 1 \in 1..Len(r.chart) /\ (c + 1) - 1 = c
    BY <1>0
  <2>2. s[c + 1] = c
    BY <2>1
  <2> QED BY <2>1, <2>2
<1> HIDE DEF A, B, F, a, s, G, Ends, Moved, From
<1>3. StepsAs(p, A, B, F, a, s)
  BY <1>0, <1>1, PartialSteps, Zenon
<1> HIDE DEF p
<1>6. Equation(p)
  BY <1>2, <1>3 DEF StepsAs
<1>7. Equation(iter)
  <2> HIDE DEF Equation
  <2> QED BY <1>6
<1> HIDE DEF iter
<1>8. StepAlike(iter, p, Len(s))
  BY <1>4, <1>6, <1>7 DEF StepAlike
<1>9. FoldsTo(iter, F, a, s)
  BY <1>0, <1>1, <1>8, FoldsAlike, Zenon DEF p
<1>12. Matched(r, scans, t) = Folded(F, a, s)
  BY <1>4, <1>5, <1>9, Zenon DEF FoldsTo
<1>13. \A x : x \in ToSet(Folded(F, a, s)) <=> WaitedIn(r, scans, t, x)
  <2> SUFFICES ASSUME NEW x
               PROVE  x \in ToSet(Folded(F, a, s)) <=> WaitedIn(r, scans, t, x)
    OBVIOUS
  <2>1. x \in ToSet(Folded(F, a, s)) <=> \E i \in 1..Len(s) : x \in ToSet(G[s[i]])
    BY <1>10, Zenon DEF Gathers
  <2>2. (\E i \in 1..Len(s) : x \in ToSet(G[s[i]])) <=> \E i \in 1..Len(s) : Ends(s[i]) /\ From(s[i], x)
    BY <1>11, Zenon
  <2>3. (\E i \in 1..Len(s) : Ends(s[i]) /\ From(s[i], x)) <=> \E c \in B : Ends(c) /\ From(c, x)
    BY <1>11, <1>l
  <2> QED BY <1>w, <2>1, <2>2, <2>3
<1> QED BY <1>10, <1>12, <1>13

\* The items of a new column, before its agenda.
Found(r, b) ==
  FoldLeft(LAMBDA found, t : found \o Matched(r, Fed(r.scans, b), t), << >>, TerminalTable)

\* So does a byte, over all terminals.
LEMMA FoundResult ==
  ASSUME NEW r, r.chart \in Seq(Column), NEW b
  PROVE  /\ Found(r, b) \in Seq(Item)
         /\ \A x : x \in ToSet(Found(r, b)) <=> \E t \in Terminal : WaitedIn(r, Fed(r.scans, b), t, x)
<1> DEFINE A == Seq(Item)
           B == Terminal
           a == << >>
           s == TerminalTable
           Moved(t) == Matched(r, Fed(r.scans, b), t)
           G == [t \in B |-> Moved(t)]
           F == Collects(B, Item, G)
           Equation(g) ==
             g = [T \in SUBSET DOMAIN s |->
                    IF T = {} THEN a ELSE LET x == Max(T) IN g[T \ {x}] \o Moved(s[x])]
           iter == CHOOSE g : Equation(g)
           p == Partial(F, a, s)
<1>0. a \in A /\ s \in Seq(B)
  BY TerminalAssumption
<1>m. \A t \in B : /\ Moved(t) \in Seq(Item)
                   /\ \A x : x \in ToSet(Moved(t)) <=> WaitedIn(r, Fed(r.scans, b), t, x)
  BY MatchedResult, Zenon
<1>g. G \in [B -> Seq(Item)]
  <2> HIDE DEF Moved, B
  <2> QED BY <1>m
<1>1. IsStep(F, A, B)
  <2> HIDE DEF G, s, B
  <2> QED BY <1>0, <1>g, FoldedCollects
<1>2. \A w \in A, t \in B : F[<<w, t>>] = w \o Moved(t)
  <2> HIDE DEF Moved, B
  <2> QED BY DEF Collects
<1>4. DOMAIN s = 1..Len(s)
  BY <1>0
<1>5. Found(r, b) = iter[DOMAIN s]
  BY Zenon DEF Found, FoldLeft, MapThenFoldSet
<1>10. Folded(F, a, s) \in Seq(Item) /\ Gathers(Folded(F, a, s), G, s)
  <2> HIDE DEF G, s, B
  <2> QED BY <1>0, <1>g, FoldedCollects
<1>11. ASSUME NEW i \in 1..Len(s)
       PROVE  s[i] \in B /\ \A x : x \in ToSet(G[s[i]]) <=> WaitedIn(r, Fed(r.scans, b), s[i], x)
  <2>1. s[i] \in B
    BY <1>0
  <2>2. G[s[i]] = Moved(s[i])
    BY <2>1
  <2> HIDE DEF Moved, s, G
  <2> QED BY <2>1, <2>2, <1>m
<1>l. \A t \in B : \E i \in 1..Len(s) : s[i] = t
  BY DEF Terminal, ToSet
<1> HIDE DEF A, B, F, a, s, G, Moved
<1>3. StepsAs(p, A, B, F, a, s)
  BY <1>0, <1>1, PartialSteps, Zenon
<1> HIDE DEF p
<1>6. Equation(p)
  BY <1>2, <1>3 DEF StepsAs
<1>7. Equation(iter)
  <2> HIDE DEF Equation
  <2> QED BY <1>6
<1> HIDE DEF iter
<1>8. StepAlike(iter, p, Len(s))
  BY <1>4, <1>6, <1>7 DEF StepAlike
<1>9. FoldsTo(iter, F, a, s)
  BY <1>0, <1>1, <1>8, FoldsAlike, Zenon DEF p
<1>12. Found(r, b) = Folded(F, a, s)
  BY <1>4, <1>5, <1>9, Zenon DEF FoldsTo
<1>13. \A x : x \in ToSet(Folded(F, a, s)) <=> \E t \in B : WaitedIn(r, Fed(r.scans, b), t, x)
  <2> SUFFICES ASSUME NEW x
               PROVE  x \in ToSet(Folded(F, a, s)) <=> \E t \in B : WaitedIn(r, Fed(r.scans, b), t, x)
    OBVIOUS
  <2>1. x \in ToSet(Folded(F, a, s)) <=> \E i \in 1..Len(s) : x \in ToSet(G[s[i]])
    BY <1>10, Zenon DEF Gathers
  <2>2. (\E i \in 1..Len(s) : x \in ToSet(G[s[i]])) <=> \E i \in 1..Len(s) : WaitedIn(r, Fed(r.scans, b), s[i], x)
    BY <1>11, Zenon
  <2>3. (\E i \in 1..Len(s) : WaitedIn(r, Fed(r.scans, b), s[i], x)) <=> \E t \in B : WaitedIn(r, Fed(r.scans, b), t, x)
    BY <1>11, <1>l
  <2> QED BY <2>1, <2>2, <2>3
<1> QED BY <1>10, <1>12, <1>13 DEF B

\* v goes on from w.
Extends(v, w) == v \in Seq(Item) /\ Len(w) <= Len(v) /\ \A i \in 1..Len(w) : v[i] = w[i]

\* Insertion keeps the items of a column where they are, and adds those that are new.
LEMMA InsertedResult ==
  ASSUME NEW w \in Seq(Item), NEW items \in Seq(Item)
  PROVE  /\ Extends(FoldLeft(Inserted, w, items), w)
         /\ ToSet(FoldLeft(Inserted, w, items)) = ToSet(w) \cup ToSet(items)
<1> DEFINE A == Seq(Item)
           B == Item
           a == w
           s == items
           F == [q \in A \X B |-> Inserted(q[1], q[2])]
           Equation(g) ==
             g = [T \in SUBSET DOMAIN s |->
                    IF T = {} THEN a ELSE LET x == Max(T) IN Inserted(g[T \ {x}], s[x])]
           iter == CHOOSE g : Equation(g)
           p == Partial(F, a, s)
<1>0. a \in A /\ s \in Seq(B)
  OBVIOUS
<1>i. ASSUME NEW v \in Seq(Item), NEW item \in Item
      PROVE  /\ Inserted(v, item) \in Seq(Item)
             /\ Extends(Inserted(v, item), v)
             /\ ToSet(Inserted(v, item)) = ToSet(v) \cup {item}
  <2>1. CASE item \in ToSet(v)
    <3>1. Inserted(v, item) = v
      BY <2>1 DEF Inserted
    <3> QED BY <2>1, <3>1 DEF Extends
  <2>2. CASE item \notin ToSet(v)
    <3> DEFINE u == Append(v, item)
    <3>1. Inserted(v, item) = u
      BY <2>2 DEF Inserted
    <3>2. u \in Seq(Item) /\ Len(u) = Len(v) + 1 /\ u[Len(v) + 1] = item /\ \A i \in 1..Len(v) : u[i] = v[i]
      OBVIOUS
    <3>3. DOMAIN u = 1..Len(v) + 1 /\ DOMAIN v = 1..Len(v) /\ Len(v) \in Nat
      BY <3>2
    <3> HIDE DEF u
    <3>4. ToSet(u) = ToSet(v) \cup {item}
      <4>1. \A i : i \in DOMAIN u <=> i \in DOMAIN v \/ i = Len(v) + 1
        BY <3>3
      <4> QED BY <3>2, <3>3, <4>1 DEF ToSet
    <3>5. Extends(u, v)
      BY <3>2, <3>3 DEF Extends
    <3> QED BY <3>1, <3>2, <3>4, <3>5
  <2> QED BY <2>1, <2>2
<1>1. IsStep(F, A, B)
  BY <1>i DEF IsStep
<1>2. \A v \in A, item \in B : F[<<v, item>>] = Inserted(v, item)
  OBVIOUS
<1>4. DOMAIN s = 1..Len(s)
  BY <1>0
<1>5. FoldLeft(Inserted, w, items) = iter[DOMAIN s]
  BY Zenon DEF FoldLeft, MapThenFoldSet
<1> DEFINE firsts(k) == {items[i] : i \in 1..k}
           I == {q \in Nat \X A : Extends(q[2], w) /\ ToSet(q[2]) = ToSet(w) \cup firsts(q[1])}
<1>10. <<Len(s), Folded(F, a, s)>> \in I
  <2>1. <<0, a>> \in I
    <3>1. Extends(w, w) /\ firsts(0) = {}
      BY DEF Extends
    <3> QED BY <3>1
  <2>2. ASSUME NEW k \in 0..Len(s) - 1, NEW v \in A, <<k, v>> \in I
        PROVE  <<k + 1, F[<<v, s[k + 1]>>]>> \in I
    <3> DEFINE item == s[k + 1]
               u == Inserted(v, item)
    <3>1. item \in Item /\ k \in Nat /\ k + 1 \in Nat
      OBVIOUS
    <3>2. firsts(k + 1) = firsts(k) \cup {item}
      <4>1. \A i : i \in 1..k + 1 <=> i \in 1..k \/ i = k + 1
        BY <3>1
      <4> QED BY <4>1
    <3> HIDE DEF item, firsts
    <3>3. u \in Seq(Item) /\ Extends(u, v) /\ ToSet(u) = ToSet(v) \cup {item}
      BY <3>1, <1>i
    <3>4. F[<<v, item>>] = u
      BY <3>1
    <3> HIDE DEF u, F
    <3>5. Extends(v, w) /\ ToSet(v) = ToSet(w) \cup firsts(k)
      BY <2>2
    <3>6. Extends(u, w)
      <4>1. Len(w) \in Nat /\ Len(v) \in Nat /\ Len(u) \in Nat
        BY <3>3
      <4>2. \A i \in 1..Len(w) : i \in 1..Len(v)
        BY <3>5, <4>1 DEF Extends
      <4> QED BY <3>3, <3>5, <4>1, <4>2 DEF Extends
    <3> QED BY <3>1, <3>2, <3>3, <3>4, <3>5, <3>6 DEF item
  <2> HIDE DEF I, F
  <2> QED BY <1>0, <1>1, <2>1, <2>2, FoldedKeeps
<1>11. Extends(Folded(F, a, s), w) /\ ToSet(Folded(F, a, s)) = ToSet(w) \cup ToSet(items)
  <2>1. firsts(Len(items)) = ToSet(items)
    BY <1>4 DEF ToSet
  <2> HIDE DEF F, firsts
  <2> QED BY <1>10, <2>1
<1> HIDE DEF A, B, F, a, s
<1>3. StepsAs(p, A, B, F, a, s)
  BY <1>0, <1>1, PartialSteps, Zenon
<1> HIDE DEF p
<1>6. Equation(p)
  BY <1>2, <1>3 DEF StepsAs
<1>7. Equation(iter)
  <2> HIDE DEF Equation
  <2> QED BY <1>6
<1> HIDE DEF iter
<1>8. StepAlike(iter, p, Len(s))
  BY <1>4, <1>6, <1>7 DEF StepAlike
<1>9. FoldsTo(iter, F, a, s)
  BY <1>0, <1>1, <1>8, FoldsAlike, Zenon DEF p
<1>12. FoldLeft(Inserted, w, items) = Folded(F, a, s)
  BY <1>4, <1>5, <1>9, Zenon DEF FoldsTo
<1> QED BY <1>11, <1>12

-----------------------------------------------------------------------------
(***************************************************************************)
(* What a chart holds.                                                     *)
(***************************************************************************)

ItemTotal(chart) == FoldLeft(LAMBDA n, column : n + Len(column.items), 0, chart)
LeoTotal(chart) == FoldLeft(LAMBDA n, column : n + Cardinality(DOMAIN column.leo), 0, chart)

\* The same sums, of a weight for each column.
ItemWeight == [column \in Column |-> Len(column.items)]
LeoWeight == [column \in Column |-> Cardinality(DOMAIN column.leo)]
Sum(W) == [p \in Nat \X Column |-> p[1] + W[p[2]]]

\* Weights are naturals.
LEMMA ItemWeightType == ItemWeight \in [Column -> Nat]
<1>1. \A column \in Column : Len(column.items) \in Nat
  BY DEF Column
<1> QED BY <1>1 DEF ItemWeight

\* A column has finitely many Leo items, for there are finitely many nonterminals.
LEMMA LeoWeightType == LeoWeight \in [Column -> Nat]
<1>1. ASSUME NEW column \in Column
      PROVE  Cardinality(DOMAIN column.leo) \in Nat
  <2>1. DOMAIN column.leo \in SUBSET Nonterminal
    BY DEF Column
  <2> QED BY <2>1, TerminalAssumption, FS_Subset, FS_CardinalityType
<1> QED BY <1>1 DEF LeoWeight

\* Adding up a weight stays within the natural numbers.
LEMMA SumType ==
  ASSUME NEW W \in [Column -> Nat]
  PROVE  IsStep(Sum(W), Nat, Column)
<1>1. \A n \in Nat, column \in Column : n + W[column] \in Nat
  OBVIOUS
<1> QED BY <1>1 DEF IsStep, Sum

\* The budgets of the model are such sums.
LEMMA ItemTotalFolds ==
  ASSUME NEW chart \in Seq(Column)
  PROVE  ItemTotal(chart) = Folded(Sum(ItemWeight), 0, chart)
<1> DEFINE A == Nat
           B == Column
           a == 0
           s == chart
           F == Sum(ItemWeight)
           Equation(g) ==
             g = [T \in SUBSET DOMAIN s |->
                    IF T = {} THEN a ELSE LET x == Max(T) IN g[T \ {x}] + Len(s[x].items)]
           iter == CHOOSE g : Equation(g)
           p == Partial(F, a, s)
<1>0. a \in A /\ s \in Seq(B)
  OBVIOUS
<1>1. IsStep(F, A, B)
  BY ItemWeightType, SumType
<1>2. \A n \in A, column \in B : F[<<n, column>>] = n + Len(column.items)
  BY DEF Sum, ItemWeight
<1>4. DOMAIN s = 1..Len(s)
  BY <1>0
<1>5. ItemTotal(chart) = iter[DOMAIN s]
  BY Zenon DEF ItemTotal, FoldLeft, MapThenFoldSet
<1> HIDE DEF A, B, F, a, s
<1>3. StepsAs(p, A, B, F, a, s)
  BY <1>0, <1>1, PartialSteps, Zenon
<1> HIDE DEF p
<1>6. Equation(p)
  BY <1>2, <1>3 DEF StepsAs
<1>7. Equation(iter)
  <2> HIDE DEF Equation
  <2> QED BY <1>6
<1> HIDE DEF iter
<1>8. StepAlike(iter, p, Len(s))
  BY <1>4, <1>6, <1>7 DEF StepAlike
<1>9. FoldsTo(iter, F, a, s)
  BY <1>0, <1>1, <1>8, FoldsAlike, Zenon DEF p
<1> QED BY <1>4, <1>5, <1>9, Zenon DEF FoldsTo, F, a, s

\* The same for Leo items.
LEMMA LeoTotalFolds ==
  ASSUME NEW chart \in Seq(Column)
  PROVE  LeoTotal(chart) = Folded(Sum(LeoWeight), 0, chart)
<1> DEFINE A == Nat
           B == Column
           a == 0
           s == chart
           F == Sum(LeoWeight)
           Equation(g) ==
             g = [T \in SUBSET DOMAIN s |->
                    IF T = {} THEN a ELSE LET x == Max(T) IN g[T \ {x}] + Cardinality(DOMAIN s[x].leo)]
           iter == CHOOSE g : Equation(g)
           p == Partial(F, a, s)
<1>0. a \in A /\ s \in Seq(B)
  OBVIOUS
<1>1. IsStep(F, A, B)
  BY LeoWeightType, SumType
<1>2. \A n \in A, column \in B : F[<<n, column>>] = n + Cardinality(DOMAIN column.leo)
  BY DEF Sum, LeoWeight
<1>4. DOMAIN s = 1..Len(s)
  BY <1>0
<1>5. LeoTotal(chart) = iter[DOMAIN s]
  BY Zenon DEF LeoTotal, FoldLeft, MapThenFoldSet
<1> HIDE DEF A, B, F, a, s
<1>3. StepsAs(p, A, B, F, a, s)
  BY <1>0, <1>1, PartialSteps, Zenon
<1> HIDE DEF p
<1>6. Equation(p)
  BY <1>2, <1>3 DEF StepsAs
<1>7. Equation(iter)
  <2> HIDE DEF Equation
  <2> QED BY <1>6
<1> HIDE DEF iter
<1>8. StepAlike(iter, p, Len(s))
  BY <1>4, <1>6, <1>7 DEF StepAlike
<1>9. FoldsTo(iter, F, a, s)
  BY <1>0, <1>1, <1>8, FoldsAlike, Zenon DEF p
<1> QED BY <1>4, <1>5, <1>9, Zenon DEF FoldsTo, F, a, s

\* The sums of a chart with one more column.
LEMMA TotalsOfAppend ==
  ASSUME NEW chart \in Seq(Column), NEW column \in Column
  PROVE  /\ ItemTotal(chart) \in Nat
         /\ LeoTotal(chart) \in Nat
         /\ ItemTotal(Append(chart, column)) = ItemTotal(chart) + Len(column.items)
         /\ LeoTotal(Append(chart, column)) = LeoTotal(chart) + Cardinality(DOMAIN column.leo)
<1> DEFINE longer == Append(chart, column)
<1>1. longer \in Seq(Column)
  OBVIOUS
<1>2. 0 \in Nat
  OBVIOUS
<1>3. ASSUME NEW W \in [Column -> Nat]
      PROVE  /\ Folded(Sum(W), 0, chart) \in Nat
             /\ Folded(Sum(W), 0, longer) = Folded(Sum(W), 0, chart) + W[column]
  <2>1. IsStep(Sum(W), Nat, Column)
    BY SumType
  <2>2. Folded(Sum(W), 0, chart) \in Nat
    BY <2>1, <1>2, FoldedType, Zenon
  <2>3. Folded(Sum(W), 0, longer) = Sum(W)[<<Folded(Sum(W), 0, chart), column>>]
    <3> DEFINE F == Sum(W)
               A == Nat
               a == 0
    <3>1. IsStep(F, A, Column) /\ a \in A
      BY <2>1
    <3> HIDE DEF F, A, a
    <3>2. \A s \in Seq(Column), x \in Column :
            Folded(F, a, Append(s, x)) = F[<<Folded(F, a, s), x>>]
      BY <3>1, FoldedLast
    <3> QED BY <3>2, Zenon DEF F, a
  <2> QED BY <2>2, <2>3 DEF Sum
<1> HIDE DEF longer
<1>4. ItemTotal(longer) = Folded(Sum(ItemWeight), 0, longer) /\ LeoTotal(longer) = Folded(Sum(LeoWeight), 0, longer)
  BY <1>1, ItemTotalFolds, LeoTotalFolds
<1>5. ItemTotal(chart) = Folded(Sum(ItemWeight), 0, chart) /\ LeoTotal(chart) = Folded(Sum(LeoWeight), 0, chart)
  BY ItemTotalFolds, LeoTotalFolds
<1>6. ItemWeight[column] = Len(column.items) /\ LeoWeight[column] = Cardinality(DOMAIN column.leo)
  BY DEF ItemWeight, LeoWeight
<1> QED BY <1>3, <1>4, <1>5, <1>6, ItemWeightType, LeoWeightType DEF longer

\* The sums of the chart of one column.
LEMMA TotalsOfOne ==
  ASSUME NEW column \in Column
  PROVE  /\ ItemTotal(<<column>>) = Len(column.items)
         /\ LeoTotal(<<column>>) = Cardinality(DOMAIN column.leo)
<1>1. << >> \in Seq(Column) /\ Append(<< >>, column) = <<column>>
  OBVIOUS
<1>2. ASSUME NEW W \in [Column -> Nat]
      PROVE  Folded(Sum(W), 0, << >>) = 0
  <2>1. IsStep(Sum(W), Nat, Column) /\ 0 \in Nat
    BY SumType
  <2> QED BY <2>1, FoldedEmpty, Zenon
<1>3. ItemTotal(<< >>) = 0 /\ LeoTotal(<< >>) = 0
  BY <1>1, <1>2, ItemTotalFolds, LeoTotalFolds, ItemWeightType, LeoWeightType
<1>4. /\ ItemTotal(<<column>>) = 0 + Len(column.items)
      /\ LeoTotal(<<column>>) = 0 + Cardinality(DOMAIN column.leo)
  BY <1>1, <1>3, TotalsOfAppend
<1>5. Len(column.items) \in Nat /\ Cardinality(DOMAIN column.leo) \in Nat
  BY ItemWeightType, LeoWeightType DEF ItemWeight, LeoWeight
<1> QED BY <1>4, <1>5

-----------------------------------------------------------------------------
(***************************************************************************)
(* Nullable nonterminals.                                                  *)
(***************************************************************************)

\* Rounds over the rules find the least set that one more round would not enlarge:
\* each round adds a nonterminal or is the last that could.
LEMMA NullableResult ==
  ASSUME NEW g
  PROVE  /\ Nullable(g) \subseteq Nonterminal /\ Erased(g, Nullable(g)) \subseteq Nullable(g)
         /\ \A N \in SUBSET Nonterminal : Erased(g, N) \subseteq N => Nullable(g) \subseteq N
<1> DEFINE A == SUBSET Nonterminal
           B == Nat
           a == {}
           n == Cardinality(Nonterminal)
           s == [k \in 1..n |-> k]
           F == [q \in A \X B |-> Erased(g, q[1])]
           Equation(h) ==
             h = [T \in SUBSET DOMAIN s |->
                    IF T = {} THEN a ELSE LET x == Max(T) IN Erased(g, h[T \ {x}])]
           iter == CHOOSE h : Equation(h)
           p == Partial(F, a, s)
<1>n. n \in Nat /\ IsFiniteSet(Nonterminal)
  BY TerminalAssumption, FS_CardinalityType
<1>0. a \in A /\ s \in Seq(B) /\ Len(s) = n
  <2> HIDE DEF n
  <2> QED BY <1>n
<1>e. \A S : Erased(g, S) \in A
  BY DEF Erased
<1>m. \A S, T : S \subseteq T => Erased(g, S) \subseteq Erased(g, T)
  BY DEF Erased
<1>1. IsStep(F, A, B)
  BY <1>e DEF IsStep
<1>2. \A S \in A, k \in B : F[<<S, k>>] = Erased(g, S)
  OBVIOUS
<1>4. DOMAIN s = 1..Len(s)
  BY <1>0
<1>5. Nullable(g) = iter[DOMAIN s]
  BY Zenon DEF Nullable, FoldLeft, MapThenFoldSet
<1>c. \A S \in A : IsFiniteSet(S) /\ Cardinality(S) \in Nat /\ Cardinality(S) <= n
  <2> HIDE DEF n
  <2> QED BY <1>n, FS_Subset, FS_CardinalityType DEF n
<1> DEFINE Grown(k, S) == Erased(g, S) \subseteq S \/ Cardinality(S) >= k
           I == {q \in Nat \X A : q[2] \subseteq Erased(g, q[2]) /\ Grown(q[1], q[2])}
<1>10. <<Len(s), Folded(F, a, s)>> \in I
  <2>1. <<0, a>> \in I
    <3>1. Cardinality({}) = 0
      BY FS_EmptySet
    <3> QED BY <3>1
  <2>2. ASSUME NEW k \in 0..Len(s) - 1, NEW S \in A, <<k, S>> \in I
        PROVE  <<k + 1, F[<<S, s[k + 1]>>]>> \in I
    <3> DEFINE T == Erased(g, S)
               b == s[k + 1]
    <3>1. b \in B /\ k \in Nat /\ k + 1 \in Nat
      <4>1. Len(s) \in Nat /\ k + 1 \in 1..Len(s) /\ k \in Nat /\ k + 1 \in Nat
        <5>1. Len(s) \in Nat
          <6> HIDE DEF s, n
          <6> QED BY <1>0, <1>n
        <5> HIDE DEF s
        <5> QED BY <5>1
      <4> HIDE DEF s, B
      <4>2. s[k + 1] \in B
        BY <4>1, <1>0
      <4> QED BY <4>1, <4>2
    <3> HIDE DEF b
    <3>2. F[<<S, b>>] = T /\ T \in A
      BY <1>2, <1>e, <3>1
    <3>3. S \subseteq T /\ Grown(k, S)
      BY <2>2
    <3>4. T \subseteq Erased(g, T)
      BY <3>3, <1>m
    <3>5. Grown(k + 1, T)
      <4>1. CASE T \subseteq S
        <5>1. T = S
          BY <4>1, <3>3
        <5> QED BY <5>1, <4>1
      <4>2. CASE ~(T \subseteq S)
        <5>1. Cardinality(S) >= k
          BY <4>2, <3>3
        <5>2. Cardinality(S) # Cardinality(T) /\ Cardinality(S) <= Cardinality(T)
          <6>1. IsFiniteSet(T) /\ S \in SUBSET T /\ S # T
            BY <1>c, <3>2, <3>3, <4>2
          <6> HIDE DEF T
          <6> QED BY <6>1, FS_Subset
        <5>3. Cardinality(S) \in Nat /\ Cardinality(T) \in Nat
          BY <1>c, <3>2
        <5> HIDE DEF T
        <5> QED BY <3>1, <5>1, <5>2, <5>3
      <4> QED BY <4>1, <4>2
    <3> HIDE DEF T, F, Grown, A
    <3> QED BY <3>1, <3>2, <3>4, <3>5 DEF b
  <2> HIDE DEF I, F, A, s
  <2> QED BY <1>0, <1>1, <2>1, <2>2, FoldedKeeps
<1>11. Folded(F, a, s) \in A /\ Grown(n, Folded(F, a, s))
  <2> HIDE DEF F, Grown, s, n
  <2> QED BY <1>0, <1>10
<1>13. Erased(g, Folded(F, a, s)) \subseteq Folded(F, a, s)
  <2> DEFINE N == Folded(F, a, s)
  <2> HIDE DEF N
  <2>1. N \in A /\ Grown(n, N)
    BY <1>11 DEF N
  <2>2. CASE Cardinality(N) >= n
    <3>1. Cardinality(N) = n
      <4>1. Cardinality(N) \in Nat /\ Cardinality(N) <= n
        BY <2>1, <1>c
      <4> HIDE DEF n
      <4> QED BY <1>n, <2>2, <4>1
    <3>2. N = Nonterminal
      BY <1>n, <2>1, <3>1, FS_Subset
    <3> QED BY <3>2, <1>e DEF N
  <2> QED BY <2>1, <2>2 DEF N
<1>14. ASSUME NEW N \in A, Erased(g, N) \subseteq N
       PROVE  Folded(F, a, s) \subseteq N
  <2> DEFINE J == {q \in Nat \X A : q[2] \subseteq N}
  <2>1. <<0, a>> \in J
    OBVIOUS
  <2>2. ASSUME NEW k \in 0..Len(s) - 1, NEW S \in A, <<k, S>> \in J
        PROVE  <<k + 1, F[<<S, s[k + 1]>>]>> \in J
    <3> DEFINE b == s[k + 1]
    <3>1. b \in B /\ k + 1 \in Nat
      <4>1. Len(s) \in Nat
        <5> HIDE DEF s, n
        <5> QED BY <1>0, <1>n
      <4>2. k + 1 \in 1..Len(s) /\ k + 1 \in Nat
        <5> HIDE DEF s
        <5> QED BY <4>1
      <4> HIDE DEF s, B
      <4>3. s[k + 1] \in B
        BY <4>2, <1>0
      <4> QED BY <4>2, <4>3
    <3> HIDE DEF b
    <3>2. F[<<S, b>>] = Erased(g, S) /\ Erased(g, S) \in A
      BY <1>2, <1>e, <3>1
    <3>3. Erased(g, S) \subseteq N
      BY <1>14, <1>m, <2>2
    <3> HIDE DEF F
    <3> QED BY <3>1, <3>2, <3>3 DEF b
  <2> HIDE DEF J, F, A, s
  <2>3. <<Len(s), Folded(F, a, s)>> \in J
    BY <1>0, <1>1, <2>1, <2>2, FoldedKeeps
  <2> QED BY <2>3 DEF J
<1> HIDE DEF A, B, F, a, s
<1>3. StepsAs(p, A, B, F, a, s)
  BY <1>0, <1>1, PartialSteps, Zenon
<1> HIDE DEF p
<1>6. Equation(p)
  BY <1>2, <1>3 DEF StepsAs
<1>7. Equation(iter)
  <2> HIDE DEF Equation
  <2> QED BY <1>6
<1> HIDE DEF iter
<1>8. StepAlike(iter, p, Len(s))
  BY <1>4, <1>6, <1>7 DEF StepAlike
<1>9. FoldsTo(iter, F, a, s)
  BY <1>0, <1>1, <1>8, FoldsAlike, Zenon DEF p
<1>12. Nullable(g) = Folded(F, a, s)
  BY <1>4, <1>5, <1>9, Zenon DEF FoldsTo
<1>15. \A N \in A : Erased(g, N) \subseteq N => Folded(F, a, s) \subseteq N
  BY <1>14
<1> QED BY <1>11, <1>12, <1>13, <1>15 DEF A

-----------------------------------------------------------------------------
(***************************************************************************)
(* The invariant.                                                          *)
(***************************************************************************)

RulesIn(g) == Append(g.rules, [lhs |-> Augmented, rhs |-> <<g.start>>])

RhsIn(g, item) == RulesIn(g)[item.rule].rhs
LhsIn(g, item) == RulesIn(g)[item.rule].lhs
IsDone(g, item) == item.dot = Len(RhsIn(g, item))
Waits(g, item, X) == ~IsDone(g, item) /\ RhsIn(g, item)[item.dot + 1] = X

\* An item of grammar g that column c may hold.
MayHold(g, c, item) ==
  /\ item \in Item
  /\ item.rule \in 1..Len(RulesIn(g))
  /\ item.dot <= Len(RhsIn(g, item))
  /\ item.origin <= c

\* What an item has read in its own column is empty.
OwnIsEmpty(g, c, item) ==
  item.origin = c => \A k \in 1..item.dot : RhsIn(g, item)[k] \in Nullable(g)

\* lo: with Leo items, which skip the steps that the second fact is about.
Holds(g, lo, c, item) == MayHold(g, c, item) /\ (~lo => OwnIsEmpty(g, c, item))

IsColumn(g, lo, c, column) ==
  /\ \A item \in ToSet(column.items) : Holds(g, lo, c, item)
  /\ \A B \in DOMAIN column.leo : MayHold(g, c, column.leo[B])

IsChart(g, lo, chart) ==
  /\ chart \in Seq(Column) /\ Len(chart) >= 1
  /\ \A c \in 1..Len(chart) : IsColumn(g, lo, c - 1, chart[c])

Cursors == [terminal : Terminal, start : Nat, cursor : Seq(Byte)]

Recognizer ==
  [chart : Seq(Column), scans : SUBSET Cursors, position : Nat, total : Nat, leoItems : Nat,
   over : BOOLEAN]

\* The budgets are the sums, and within the limits lim.
InBudget(lim, r) ==
  /\ r.total = ItemTotal(r.chart)
  /\ r.leoItems = LeoTotal(r.chart)
  /\ r.total <= lim.items
  /\ r.leoItems <= lim.leo
  /\ Cardinality(r.scans) <= lim.scans

Begun(scans, n) == IsFiniteSet(scans) /\ \A q \in scans : q.start < n

Core(g, lo, lim, r) ==
  /\ r \in Recognizer
  /\ ~r.over
  /\ IsChart(g, lo, r.chart)
  /\ Begun(r.scans, Len(r.chart))
  /\ InBudget(lim, r)

LimitSet == [columns : Nat, columnItems : Nat, items : Nat, scans : Nat, leo : Nat]

\* q is r with more items in its last column.
Grows(q, r) ==
  LET n == Len(r.chart)
  IN /\ Len(q.chart) = n
     /\ \A c \in 1..n - 1 : q.chart[c] = r.chart[c]
     /\ q.chart[n].leo = r.chart[n].leo
     /\ Extends(q.chart[n].items, r.chart[n].items)

\* The rules of the module.
LEMMA RuleTypes ==
  ASSUME IsGrammar(grammar)
  PROVE  /\ Rules = RulesIn(grammar)
         /\ Rules \in Seq([lhs : Nonterminal \cup {Augmented}, rhs : Seq(Nonterminal \cup Terminal)])
         /\ Len(Rules) \in Nat /\ Len(Rules) >= 1
         /\ \A i \in 1..Len(Rules) : i # Len(Rules) => Rules[i] \in ToSet(grammar.rules)
         /\ Rules[Len(Rules)] = [lhs |-> Augmented, rhs |-> <<grammar.start>>]
<1> DEFINE R == grammar.rules
           last == [lhs |-> Augmented, rhs |-> <<grammar.start>>]
           T == [lhs : Nonterminal \cup {Augmented}, rhs : Seq(Nonterminal \cup Terminal)]
           S == [lhs : Nonterminal, rhs : Seq(Nonterminal \cup Terminal)]
<1>1. R \in Seq(S) /\ grammar.start \in Nonterminal
  BY DEF IsGrammar
<1>2. last \in T
  BY <1>1
<1>3. \A rule \in S : rule \in T
  OBVIOUS
<1>4. Rules = Append(R, last) /\ Rules = RulesIn(grammar)
  BY DEF Rules, RulesIn
<1> HIDE DEF R, last, S, T
<1>5. R \in Seq(T)
  BY <1>1, <1>3
<1>6. /\ Rules \in Seq(T) /\ Len(Rules) = Len(R) + 1 /\ Rules[Len(R) + 1] = last
      /\ \A i \in 1..Len(R) : Rules[i] = R[i]
  <2>1. Append(R, last) \in Seq(T) /\ Len(Append(R, last)) = Len(R) + 1
    BY <1>2, <1>5
  <2>2. Append(R, last)[Len(R) + 1] = last /\ \A i \in 1..Len(R) : Append(R, last)[i] = R[i]
    BY <1>2, <1>5
  <2> QED BY <1>4, <2>1, <2>2
<1>7. \A i \in 1..Len(R) : R[i] \in ToSet(R)
  BY <1>5 DEF ToSet
<1>8. Len(R) \in Nat
  BY <1>5
<1>9. \A i \in 1..Len(Rules) : i # Len(Rules) => i \in 1..Len(R)
  BY <1>6, <1>8
<1>10. Len(Rules) \in Nat /\ Len(Rules) >= 1
  BY <1>6, <1>8
<1>11. \A i \in 1..Len(Rules) : i # Len(Rules) => Rules[i] \in ToSet(R)
  BY <1>6, <1>7, <1>9
<1>12. Rules[Len(Rules)] = last
  BY <1>6
<1> QED BY <1>4, <1>6, <1>10, <1>11, <1>12 DEF R, T, last

TotalsMove(chart, n, column, other) ==
  /\ ItemTotal(other) = ItemTotal(chart) - Len(chart[n].items) + Len(column.items)
  /\ LeoTotal(other)
       = LeoTotal(chart) - Cardinality(DOMAIN chart[n].leo) + Cardinality(DOMAIN column.leo)

\* The sums of a chart whose last column is replaced.
LEMMA TotalsOfLast ==
  ASSUME NEW chart \in Seq(Column), Len(chart) >= 1, NEW column \in Column
  PROVE  LET n == Len(chart)
             other == [chart EXCEPT ![n] = column]
         IN /\ other \in Seq(Column)
            /\ Len(other) = n
            /\ other[n] = column
            /\ \A c \in 1..n - 1 : other[c] = chart[c]
            /\ TotalsMove(chart, n, column, other)
<1> DEFINE n == Len(chart)
           other == [chart EXCEPT ![n] = column]
           front == SubSeq(chart, 1, n - 1)
           last == chart[n]
<1>1. n \in Nat /\ n \in 1..n
  OBVIOUS
<1>2. last \in Column /\ front \in Seq(Column)
  BY <1>1
<1>3. chart = Append(front, last)
  BY <1>1
<1>4. other \in Seq(Column) /\ Len(other) = n /\ other[n] = column /\ \A c \in 1..n - 1 : other[c] = chart[c]
  OBVIOUS
<1>5. other = Append(front, column)
  <2>0. Len(front) = n - 1 /\ \A c \in 1..n - 1 : front[c] = chart[c]
    <3> DEFINE m == n - 1
    <3>1. m \in Nat /\ m <= Len(chart)
      BY <1>1
    <3> HIDE DEF m
    <3>2. Len(SubSeq(chart, 1, m)) = m /\ \A c \in 1..m : SubSeq(chart, 1, m)[c] = chart[c]
      BY <3>1
    <3> QED BY <3>2 DEF m
  <2>1. Append(front, column) \in Seq(Column) /\ Len(Append(front, column)) = n
    <3> HIDE DEF front, n
    <3> QED BY <1>1, <1>2, <2>0
  <2>2. \A c \in 1..n : Append(front, column)[c] = other[c]
    <3>1. \A c \in 1..n - 1 : Append(front, column)[c] = chart[c]
      <4> HIDE DEF front, n
      <4> QED BY <1>1, <1>2, <2>0
    <3>2. Append(front, column)[n] = column
      <4> HIDE DEF front, n
      <4>1. Append(front, column)[Len(front) + 1] = column
        BY <1>2
      <4> QED BY <1>1, <2>0, <4>1
    <3>3. \A c \in 1..n : c \in 1..n - 1 \/ c = n
      BY <1>1
    <3> HIDE DEF front, other, n
    <3> QED BY <1>4, <3>1, <3>2, <3>3
  <2> HIDE DEF other, front, n
  <2> QED BY <1>4, <2>1, <2>2
<1> DEFINE i == Len(last.items)
           l == Cardinality(DOMAIN last.leo)
           f == ItemTotal(front)
           h == LeoTotal(front)
<1>6. i \in Nat /\ l \in Nat /\ Len(column.items) \in Nat /\ Cardinality(DOMAIN column.leo) \in Nat
  BY <1>2, ItemWeightType, LeoWeightType DEF ItemWeight, LeoWeight
<1>7. f \in Nat /\ h \in Nat
  BY <1>2, TotalsOfAppend
<1>8. ItemTotal(chart) = f + i /\ LeoTotal(chart) = h + l
  BY <1>2, <1>3, TotalsOfAppend
<1>9. ItemTotal(other) = f + Len(column.items) /\ LeoTotal(other) = h + Cardinality(DOMAIN column.leo)
  BY <1>2, <1>5, TotalsOfAppend
<1> HIDE DEF f, h, other
<1>10. ItemTotal(other) = ItemTotal(chart) - i + Len(column.items)
  <2> DEFINE j == Len(column.items)
  <2> HIDE DEF i, j
  <2> QED BY <1>6, <1>7, <1>8, <1>9 DEF j
<1>11. LeoTotal(other) = LeoTotal(chart) - l + Cardinality(DOMAIN column.leo)
  <2> DEFINE j == Cardinality(DOMAIN column.leo)
  <2> HIDE DEF l, j
  <2> QED BY <1>6, <1>7, <1>8, <1>9 DEF j
<1> QED BY <1>4, <1>10, <1>11 DEF other, TotalsMove

Replaced(chart, n, column, other) ==
  /\ other \in Seq(Column) /\ Len(other) = n /\ other[n] = column
  /\ \A c \in 1..n - 1 : other[c] = chart[c]
  /\ TotalsMove(chart, n, column, other)

\* The same of a chart that is known to be the other.
LEMMA LastReplaced ==
  ASSUME NEW all \in Seq(Column), Len(all) >= 1, NEW column \in Column,
         NEW n, n = Len(all), NEW chart, chart = [all EXCEPT ![Len(all)] = column]
  PROVE  Replaced(all, n, column, chart)
<1>1. /\ chart \in Seq(Column) /\ Len(chart) = n /\ chart[n] = column
      /\ \A c \in 1..n - 1 : chart[c] = all[c]
  BY TotalsOfLast
<1>2. TotalsMove(all, n, column, chart)
  BY TotalsOfLast, Zenon
<1> QED BY <1>1, <1>2 DEF Replaced

\* What insertion does to a recognizer, unless it exceeds a limit.
LEMMA InsertAllKeeps ==
  ASSUME limits \in LimitSet, NEW r, Core(grammar, leo, limits, r),
         NEW items \in Seq(Item),
         \A x \in ToSet(items) : Holds(grammar, leo, Len(r.chart) - 1, x),
         ~InsertAll(r, items).over
  PROVE  LET q == InsertAll(r, items)
             n == Len(r.chart)
         IN /\ Core(grammar, leo, limits, q)
            /\ Grows(q, r)
            /\ q.scans = r.scans
            /\ ToSet(q.chart[n].items) = ToSet(r.chart[n].items) \cup ToSet(items)
<1> DEFINE q == InsertAll(r, items)
           n == Len(r.chart)
           old == r.chart[n].items
           inserted == FoldLeft(Inserted, Last(r.chart).items, items)
           column == [items |-> inserted, leo |-> r.chart[n].leo]
           chart == [r.chart EXCEPT ![n] = column]
           total == r.total + (Len(inserted) - Len(old))
<1>1. r \in Recognizer /\ IsChart(grammar, leo, r.chart) /\ InBudget(limits, r) /\ Begun(r.scans, n)
  BY DEF Core
<1>2. r.chart \in Seq(Column) /\ n \in Nat /\ n >= 1 /\ n \in 1..n /\ Last(r.chart) = r.chart[n]
  BY <1>1 DEF IsChart, Last
<1>3. r.chart[n] \in Column /\ old \in Seq(Item)
  <2>1. r.chart[n] \in Column
    <3> DEFINE all == r.chart
    <3>1. all \in Seq(Column) /\ Len(all) \in 1..Len(all)
      BY <1>2
    <3> HIDE DEF all
    <3>2. all[Len(all)] \in Column
      BY <3>1
    <3> QED BY <3>2 DEF all
  <2> QED BY <2>1 DEF Column
<1>4. Extends(inserted, old) /\ ToSet(inserted) = ToSet(old) \cup ToSet(items)
  BY <1>2, <1>3, InsertedResult
<1>5. inserted \in Seq(Item) /\ Len(inserted) \in Nat /\ Len(old) \in Nat /\ Len(old) <= Len(inserted)
  BY <1>3, <1>4 DEF Extends
<1> HIDE DEF inserted
<1>6. column \in Column
  BY <1>3, <1>5 DEF Column
<1>7. /\ chart \in Seq(Column) /\ Len(chart) = n /\ chart[n] = column
      /\ \A c \in 1..n - 1 : chart[c] = r.chart[c]
      /\ ItemTotal(chart) = ItemTotal(r.chart) - Len(old) + Len(inserted)
      /\ LeoTotal(chart) = LeoTotal(r.chart) - Cardinality(DOMAIN r.chart[n].leo) + Cardinality(DOMAIN column.leo)
  <2> DEFINE all == r.chart
  <2>1. all \in Seq(Column) /\ n = Len(all) /\ Len(all) >= 1 /\ chart = [all EXCEPT ![Len(all)] = column]
    BY <1>2
  <2>2. Len(column.items) = Len(inserted) /\ DOMAIN column.leo = DOMAIN r.chart[n].leo
    OBVIOUS
  <2> HIDE DEF all, chart, n, column
  <2>3. Replaced(all, n, column, chart)
    BY <1>6, <2>1, LastReplaced, Zenon
  <2> QED BY <2>2, <2>3 DEF all, Replaced, TotalsMove
<1>8. /\ ~(total > limits.items)
      /\ q = [r EXCEPT !.chart[n].items = inserted, !.total = total]
  <2>1. r.over \in BOOLEAN /\ [r EXCEPT !.over = TRUE].over = TRUE
    BY <1>1 DEF Recognizer
  <2>2. q = IF Len(inserted) > limits.columnItems \/ total > limits.items THEN [r EXCEPT !.over = TRUE]
            ELSE [r EXCEPT !.chart[n].items = inserted, !.total = total]
    BY <1>2, Zenon DEF InsertAll, inserted
  <2> QED BY <2>1, <2>2
<1>9. /\ q = [chart |-> chart, scans |-> r.scans, position |-> r.position, total |-> total,
              leoItems |-> r.leoItems, over |-> r.over]
  <2>1. [r.chart EXCEPT ![n].items = inserted] = chart
    BY <1>2, <1>3 DEF Column
  <2> HIDE DEF total, chart, q
  <2> QED BY <1>1, <1>8, <2>1 DEF Recognizer
<1> HIDE DEF q
<1>10. q.chart = chart /\ q.scans = r.scans /\ q.total = total /\ q.leoItems = r.leoItems /\ q.over = r.over
  BY <1>9
<1>11. total \in Nat /\ total <= limits.items /\ total = ItemTotal(chart)
  <2> DEFINE x == r.total
             y == Len(inserted)
             z == Len(old)
             w == limits.items
  <2>1. x \in Nat /\ y \in Nat /\ z \in Nat /\ w \in Nat /\ z <= y
    BY <1>1, <1>5 DEF Recognizer, LimitSet
  <2>2. total = x + (y - z) /\ ItemTotal(chart) = x - z + y /\ ~(total > w)
    BY <1>1, <1>7, <1>8 DEF InBudget
  <2> HIDE DEF x, y, z, w, total, chart
  <2> QED BY <2>1, <2>2 DEF w
<1>12. LeoTotal(chart) = LeoTotal(r.chart)
  <2>1. Cardinality(DOMAIN r.chart[n].leo) \in Nat /\ LeoTotal(r.chart) \in Nat
    BY <1>2, <1>3, LeoWeightType, TotalsOfAppend DEF LeoWeight
  <2>2. DOMAIN column.leo = DOMAIN r.chart[n].leo
    OBVIOUS
  <2> DEFINE x == LeoTotal(r.chart)
             y == Cardinality(DOMAIN r.chart[n].leo)
  <2>3. LeoTotal(chart) = x - y + y
    BY <1>7, <2>2
  <2> HIDE DEF x, y, chart
  <2> QED BY <2>1, <2>3 DEF x, y
<1>13. IsChart(grammar, leo, chart)
  <2>1. IsColumn(grammar, leo, n - 1, column)
    <3>1. IsColumn(grammar, leo, n - 1, r.chart[n])
      BY <1>1, <1>2 DEF IsChart
    <3> QED BY <1>4, <3>1 DEF IsColumn
  <2>2. ASSUME NEW c \in 1..n
        PROVE  IsColumn(grammar, leo, c - 1, chart[c])
    <3>1. CASE c = n
      BY <2>1, <3>1, <1>7
    <3>2. CASE c # n
      <4>1. c \in 1..n - 1
        BY <1>2, <3>2
      <4> HIDE DEF chart
      <4> QED BY <1>1, <4>1, <1>7 DEF IsChart
    <3> QED BY <3>1, <3>2
  <2> HIDE DEF chart
  <2> QED BY <1>2, <1>7, <2>2 DEF IsChart
<1> HIDE DEF total, chart
<1>14. q \in Recognizer
  BY <1>1, <1>7, <1>9, <1>11 DEF Recognizer
<1>15. InBudget(limits, q)
  BY <1>1, <1>10, <1>11, <1>12 DEF InBudget
<1>16. Core(grammar, leo, limits, q)
  BY <1>1, <1>7, <1>10, <1>13, <1>14, <1>15 DEF Core
<1>17. Grows(q, r)
  BY <1>4, <1>7, <1>10 DEF Grows
<1> QED BY <1>4, <1>7, <1>10, <1>16, <1>17 DEF q

\* The module's operators on items, of the grammar as a constant.
LEMMA ItemOperators ==
  ASSUME IsGrammar(grammar), NEW item, NEW X
  PROVE  /\ Rhs(item) = RhsIn(grammar, item)
         /\ Lhs(item) = LhsIn(grammar, item)
         /\ IsComplete(item) <=> IsDone(grammar, item)
         /\ Expects(item, X) <=> Waits(grammar, item, X)
  BY RuleTypes DEF Rhs, Lhs, IsComplete, Expects, RhsIn, LhsIn, IsDone, Waits

\* The right-hand side of an item, and what it can wait for.
LEMMA ItemTypes ==
  ASSUME IsGrammar(grammar), NEW c \in Nat, NEW item, MayHold(grammar, c, item)
  PROVE  /\ RhsIn(grammar, item) \in Seq(Nonterminal \cup Terminal)
         /\ Len(RhsIn(grammar, item)) \in Nat
         /\ item.dot \in Nat /\ item.origin \in Nat /\ item.rule \in Nat
         /\ \A X : Waits(grammar, item, X) =>
              /\ item.dot + 1 \in 1..Len(RhsIn(grammar, item))
              /\ X \in Nonterminal \cup Terminal
<1> DEFINE rhs == RhsIn(grammar, item)
           V == Nonterminal \cup Terminal
<1>1. rhs \in Seq(V)
  <2> DEFINE T == [lhs : Nonterminal \cup {Augmented}, rhs : Seq(V)]
             i == item.rule
  <2>1. RulesIn(grammar) \in Seq(T) /\ i \in 1..Len(RulesIn(grammar))
    BY RuleTypes DEF MayHold
  <2>2. RulesIn(grammar)[i] \in T
    <3> HIDE DEF T, i
    <3> QED BY <2>1
  <2> HIDE DEF V
  <2> QED BY <2>2 DEF RhsIn
<1>2. Len(rhs) \in Nat /\ item.dot \in Nat /\ item.origin \in Nat /\ item.rule \in Nat /\ item.dot <= Len(rhs)
  <2>1. item \in Item /\ item.dot <= Len(rhs)
    BY DEF MayHold
  <2> HIDE DEF rhs, V
  <2> QED BY <1>1, <2>1 DEF Item
<1>3. ASSUME NEW X, Waits(grammar, item, X)
      PROVE  item.dot + 1 \in 1..Len(rhs) /\ X \in V
  <2>1. item.dot # Len(rhs) /\ X = rhs[item.dot + 1]
    BY <1>3 DEF Waits, IsDone
  <2> DEFINE d == item.dot
  <2> HIDE DEF rhs, d, V
  <2>2. d \in Nat /\ Len(rhs) \in Nat /\ d <= Len(rhs) /\ d # Len(rhs)
    BY <1>2, <2>1 DEF d
  <2>3. d + 1 \in 1..Len(rhs)
    BY <2>2
  <2>4. rhs[d + 1] \in V
    BY <1>1, <2>3
  <2> QED BY <2>1, <2>3, <2>4 DEF d
<1> QED BY <1>1, <1>2, <1>3

\* Nothing waits for the added start symbol.
LEMMA NothingWaitsForStart ==
  ASSUME IsGrammar(grammar), NEW c \in Nat, NEW item, MayHold(grammar, c, item)
  PROVE  ~Waits(grammar, item, Augmented)
  BY ItemTypes, EarleyAssumption

\* A complete item that began in its own column has a nullable left-hand side, or is
\* the start's.
LEMMA EmptyIsNullable ==
  ASSUME IsGrammar(grammar), NEW c \in Nat, NEW item, MayHold(grammar, c, item),
         OwnIsEmpty(grammar, c, item), item.origin = c, IsDone(grammar, item)
  PROVE  \/ LhsIn(grammar, item) \in Nullable(grammar)
         \/ LhsIn(grammar, item) = Augmented
<1>1. CASE item.rule = Len(Rules)
  BY <1>1, RuleTypes DEF LhsIn
<1>2. CASE item.rule # Len(Rules)
  <2> DEFINE rule == Rules[item.rule]
  <2>1. rule \in ToSet(grammar.rules)
    BY <1>2, RuleTypes DEF MayHold
  <2>2. rule.lhs \in Nonterminal /\ rule.rhs \in Seq(Nonterminal \cup Terminal)
    <3> DEFINE S == [lhs : Nonterminal, rhs : Seq(Nonterminal \cup Terminal)]
               R == grammar.rules
    <3>1. R \in Seq(S)
      BY DEF IsGrammar
    <3> HIDE DEF S, R, rule
    <3>2. rule \in S
      BY <3>1, <2>1 DEF ToSet, R
    <3> QED BY <3>2 DEF S
  <2>3. rule.rhs = RhsIn(grammar, item) /\ rule.lhs = LhsIn(grammar, item)
    BY RuleTypes DEF RhsIn, LhsIn
  <2>4. \A k \in 1..Len(rule.rhs) : rule.rhs[k] \in Nullable(grammar)
    BY <2>3 DEF OwnIsEmpty, IsDone
  <2>5. ToSet(rule.rhs) \subseteq Nullable(grammar)
    <3> DEFINE rhs == rule.rhs
    <3> HIDE DEF rhs, rule
    <3>1. DOMAIN rhs = 1..Len(rhs)
      BY <2>2 DEF rhs
    <3> QED BY <2>4, <3>1 DEF ToSet, rhs
  <2>6. rule.lhs \in Erased(grammar, Nullable(grammar))
    BY <2>1, <2>2, <2>5 DEF Erased, RulesOf
  <2> QED BY <2>3, <2>6, NullableResult
<1> QED BY <1>1, <1>2

\* An item past the symbol it waited for, in a later column or the same.
LEMMA AdvancedHolds ==
  ASSUME IsGrammar(grammar), NEW b \in Nat, NEW c \in Nat, b <= c, NEW lo, NEW item, NEW X,
         MayHold(grammar, b, item), Waits(grammar, item, X),
         ~lo /\ item.origin = c => OwnIsEmpty(grammar, c, item) /\ X \in Nullable(grammar)
  PROVE  Holds(grammar, lo, c, Advanced(item))
<1> DEFINE rhs == RhsIn(grammar, item)
           d == item.dot
           moved == Advanced(item)
<1>0. item \in Item /\ item.rule \in 1..Len(RulesIn(grammar)) /\ item.origin <= b
  BY DEF MayHold
<1>1. d + 1 \in 1..Len(rhs) /\ d \in Nat /\ Len(rhs) \in Nat /\ item.origin \in Nat
  BY ItemTypes
<1>2. moved = [rule |-> item.rule, dot |-> d + 1, origin |-> item.origin]
  BY <1>0 DEF Item, Advanced
<1>3. RhsIn(grammar, moved) = rhs
  BY <1>2 DEF RhsIn
<1>4. moved \in Item
  <2>1. d + 1 \in Nat
    BY <1>1
  <2> QED BY <1>0, <1>2, <2>1 DEF Item
<1>5. MayHold(grammar, c, moved)
  <2>1. d + 1 <= Len(rhs)
    BY <1>1
  <2>2. item.origin <= c
    <3> DEFINE o == item.origin
    <3>1. o \in Nat /\ o <= b
      BY <1>0, <1>1
    <3> HIDE DEF o
    <3> QED BY <3>1 DEF o
  <2> HIDE DEF rhs
  <2> QED BY <1>0, <1>2, <1>3, <1>4, <2>1, <2>2 DEF MayHold
<1>6. ASSUME ~lo
      PROVE  OwnIsEmpty(grammar, c, moved)
  <2> SUFFICES ASSUME item.origin = c, NEW k \in 1..d + 1
               PROVE  rhs[k] \in Nullable(grammar)
    BY <1>2, <1>3 DEF OwnIsEmpty
  <2>1. OwnIsEmpty(grammar, c, item) /\ X \in Nullable(grammar)
    BY <1>6
  <2>2. X = rhs[d + 1]
    BY DEF Waits
  <2>3. k \in 1..d \/ k = d + 1
    BY <1>1
  <2> QED BY <2>1, <2>2, <2>3 DEF OwnIsEmpty
<1> QED BY <1>5, <1>6 DEF Holds

\* Predicted items belong into their column.
LEMMA PredictedHolds ==
  ASSUME IsGrammar(grammar), NEW X, NEW c \in Nat, NEW lo
  PROVE  \A x \in ToSet(Predicted(X, c)) : Holds(grammar, lo, c, x)
<1> SUFFICES ASSUME NEW i \in 1..Len(Rules)
             PROVE  Holds(grammar, lo, c, [rule |-> i, dot |-> 0, origin |-> c])
  BY PredictedResult
<1> DEFINE x == [rule |-> i, dot |-> 0, origin |-> c]
<1>1. i \in Nat /\ Len(Rules) \in Nat
  BY RuleTypes
<1>2. x \in Item
  BY <1>1 DEF Item
<1>3. RhsIn(grammar, x) \in Seq(Nonterminal \cup Terminal)
  <2> DEFINE T == [lhs : Nonterminal \cup {Augmented}, rhs : Seq(Nonterminal \cup Terminal)]
             R == Rules
  <2>1. R \in Seq(T) /\ RulesIn(grammar) = R
    BY RuleTypes
  <2>2. i \in 1..Len(R)
    OBVIOUS
  <2> HIDE DEF T, R
  <2>3. R[i] \in T
    BY <2>1, <2>2
  <2> QED BY <2>1, <2>3 DEF RhsIn, T
<1>4. 0 <= Len(RhsIn(grammar, x))
  <2> DEFINE rhs == RhsIn(grammar, x)
             V == Nonterminal \cup Terminal
  <2>1. rhs \in Seq(V)
    BY <1>3
  <2> HIDE DEF rhs, V
  <2> QED BY <2>1 DEF rhs
<1>5. MayHold(grammar, c, x)
  BY <1>2, <1>4, RuleTypes DEF MayHold
<1>6. OwnIsEmpty(grammar, c, x)
  BY DEF OwnIsEmpty
<1> QED BY <1>5, <1>6 DEF Holds

\* What the n-th item of the last column of r does to q: a completion moves the items
\* that wait for it, those of an earlier column or, of its own, the first n; and an
\* item that waits for a nullable nonterminal is moved.
Effects(g, r, n, q) ==
  LET N == Len(r.chart)
      items == r.chart[N].items
      item == items[n]
      added == ToSet(q.chart[N].items)
  IN /\ IsDone(g, item) /\ item.origin < N - 1 =>
          \A w \in ToSet(r.chart[item.origin + 1].items) :
            Waits(g, w, LhsIn(g, item)) => Advanced(w) \in added
     /\ IsDone(g, item) /\ item.origin = N - 1 =>
          \A j \in 1..n : Waits(g, items[j], LhsIn(g, item)) => Advanced(items[j]) \in added
     /\ \A X \in Nullable(g) : Waits(g, item, X) => Advanced(item) \in added

\* Column k has what is past a B that began in column o and ends there: the Leo item of
\* B in that column or, if there is none, every item that waits for B there, moved.
Completes(g, chart, k, B, o) ==
  LET items == ToSet(chart[k].items)
      from == chart[o + 1]
  IN IF B \in DOMAIN from.leo THEN from.leo[B] \in items
     ELSE \A w \in ToSet(from.items) : Waits(g, w, B) => Advanced(w) \in items

\* Column o + 1 has the items that begin the rules of B.
BeginsAt(g, chart, o, B) ==
  \A i \in 1..Len(RulesIn(g)) : RulesIn(g)[i].lhs = B =>
    [rule |-> i, dot |-> 0, origin |-> o] \in ToSet(chart[o + 1].items)

\* What the agenda does for an item x of column k: what x completes is moved, if x began
\* before the column, and what x waits for is begun, and passed over if it is nullable.
WorkedAt(g, chart, k, x) ==
  /\ IsDone(g, x) /\ x.rule # Len(RulesIn(g)) /\ x.origin < k - 1 =>
       Completes(g, chart, k, LhsIn(g, x), x.origin)
  /\ \A B \in Nonterminal : Waits(g, x, B) =>
       /\ BeginsAt(g, chart, k - 1, B)
       /\ B \in Nullable(g) => Advanced(x) \in ToSet(chart[k].items)

\* Without Leo there are no Leo items.
LeoOnlyIf(lo, chart) == lo \/ \A k \in 1..Len(chart) : DOMAIN chart[k].leo = {}

\* What may be concluded from the items and Leo items of r for its last column: an item
\* that begins a rule there of what one waits for, one past a nonterminal that is
\* nullable, one past a nonterminal completed there, and the Leo item of that nonterminal.
Follows(g, r, x) ==
  LET N == Len(r.chart)
      items == ToSet(r.chart[N].items)
      Completed(item) == IsDone(g, item) /\ item.rule # Len(RulesIn(g))
  IN \/ x.dot = 0 /\ x.origin = N - 1 /\ \E item \in items : Waits(g, item, LhsIn(g, x))
     \/ \E item \in items : \E X \in Nullable(g) : Waits(g, item, X) /\ x = Advanced(item)
     \/ \E item \in items :
          /\ Completed(item)
          /\ \E w \in ToSet(r.chart[item.origin + 1].items) :
               Waits(g, w, LhsIn(g, item)) /\ x = Advanced(w)
     \/ \E item \in items :
          /\ Completed(item)
          /\ LhsIn(g, item) \in DOMAIN r.chart[item.origin + 1].leo
          /\ x = r.chart[item.origin + 1].leo[LhsIn(g, item)]

\* The n-th item of the agenda.
LEMMA ProcessedKeeps ==
  ASSUME IsGrammar(grammar), leo \in BOOLEAN, limits \in LimitSet,
         NEW r, Core(grammar, leo, limits, r),
         NEW n \in 1..Len(r.chart[Len(r.chart)].items), ~Processed(r, n).over
  PROVE  LET q == Processed(r, n)
         IN /\ Core(grammar, leo, limits, q)
            /\ Grows(q, r)
            /\ q.scans = r.scans
            /\ ~leo => Effects(grammar, r, n, q)
            /\ LeoOnlyIf(leo, r.chart) =>
                 WorkedAt(grammar, q.chart, Len(r.chart), r.chart[Len(r.chart)].items[n])
            /\ \A x \in ToSet(q.chart[Len(r.chart)].items) :
                 x \in ToSet(r.chart[Len(r.chart)].items) \/ Follows(grammar, r, x)
<1> DEFINE N == Len(r.chart)
           c == N - 1
           items == r.chart[N].items
           item == items[n]
           o == item.origin
           lhs == LhsIn(grammar, item)
           q == Processed(r, n)
           Justified == \A x \in ToSet(q.chart[N].items) : x \in ToSet(items) \/ Follows(grammar, r, x)
           Worked == LeoOnlyIf(leo, r.chart) => WorkedAt(grammar, q.chart, N, item)
<1>1. r.chart \in Seq(Column) /\ N \in Nat /\ N >= 1 /\ c \in Nat /\ N = c + 1
  BY DEF Core, IsChart
<1>2. \A k \in 1..N : IsColumn(grammar, leo, k - 1, r.chart[k]) /\ r.chart[k].items \in Seq(Item)
  <2> SUFFICES ASSUME NEW k \in 1..N
               PROVE  IsColumn(grammar, leo, k - 1, r.chart[k]) /\ r.chart[k].items \in Seq(Item)
    OBVIOUS
  <2>1. r.chart[k] \in Column
    BY <1>1
  <2> QED BY <2>1 DEF Core, IsChart, Column
<1>3. items \in Seq(Item) /\ \A j \in 1..Len(items) : items[j] \in ToSet(items)
  <2>1. N \in 1..N
    BY <1>1
  <2>2. items \in Seq(Item)
    BY <1>2, <2>1
  <2> HIDE DEF items
  <2> QED BY <2>2 DEF ToSet
<1>4. \A x \in ToSet(items) : Holds(grammar, leo, c, x)
  <2>1. N \in 1..N
    BY <1>1
  <2> QED BY <1>2, <2>1 DEF IsColumn
<1>5. Last(r.chart) = r.chart[N] /\ LastColumn(r) = c
  BY <1>1 DEF Last, LastColumn
<1>6. item \in ToSet(items) /\ Holds(grammar, leo, c, item) /\ MayHold(grammar, c, item)
  BY <1>3, <1>4 DEF Holds
<1>7. o \in Nat /\ o <= c /\ o + 1 \in 1..N
  <2>1. o \in Nat /\ o <= c
    BY <1>1, <1>6, ItemTypes DEF MayHold
  <2> HIDE DEF o, c, N
  <2> QED BY <1>1, <2>1
<1>8. /\ IsComplete(item) <=> IsDone(grammar, item)
      /\ \A w, X : Expects(w, X) <=> Waits(grammar, w, X)
      /\ Lhs(item) = lhs /\ Rhs(item) = RhsIn(grammar, item)
  BY ItemOperators
<1>9. \A x \in ToSet(r.chart[o + 1].items) : Holds(grammar, leo, o, x) /\ MayHold(grammar, o, x)
  <2> DEFINE k == o + 1
  <2>1. k \in 1..N
    BY <1>7
  <2>2. k - 1 = o
    <3> HIDE DEF o
    <3> QED BY <1>7
  <2>3. IsColumn(grammar, leo, k - 1, r.chart[k])
    <3> HIDE DEF k, N
    <3> QED BY <1>2, <2>1
  <2>4. IsColumn(grammar, leo, o, r.chart[k])
    <3> HIDE DEF k, o
    <3> QED BY <2>2, <2>3
  <2> QED BY <2>4 DEF IsColumn, Holds
<1>10. ASSUME q = r
       PROVE  Core(grammar, leo, limits, q) /\ Grows(q, r) /\ q.scans = r.scans /\ Justified
  <2>1. Extends(items, items)
    BY <1>3 DEF Extends
  <2>2. Grows(r, r)
    BY <2>1 DEF Grows
  <2> QED BY <1>10, <2>2
<1>11. ASSUME NEW more \in Seq(Item), q = InsertAll(r, more),
              \A x \in ToSet(more) : Holds(grammar, leo, c, x)
       PROVE  /\ Core(grammar, leo, limits, q) /\ Grows(q, r) /\ q.scans = r.scans
              /\ ToSet(more) \subseteq ToSet(q.chart[N].items)
              /\ (\A x \in ToSet(more) : Follows(grammar, r, x)) => Justified
  <2>1. ~InsertAll(r, more).over
    BY <1>11
  <2> QED BY <1>11, <2>1, InsertAllKeeps
<1> DEFINE B == Rhs(item)[item.dot + 1]
           passed == IF o = c THEN n ELSE Len(r.chart[o + 1].items)
           leoed == leo /\ lhs \in DOMAIN r.chart[o + 1].leo
           waiting == Waiters(r, o, passed, lhs)
<1>12. q = IF IsDone(grammar, item)
           THEN IF item.rule = Len(Rules) THEN r
                ELSE IF leoed THEN InsertAll(r, <<r.chart[o + 1].leo[lhs]>>)
                ELSE InsertAll(r, AdvanceAll(waiting))
           ELSE IF B \in Terminal THEN r
           ELSE IF B \in Nullable(grammar) THEN InsertAll(r, Append(Predicted(B, c), Advanced(item)))
           ELSE InsertAll(r, Predicted(B, c))
  <2> HIDE DEF c, N
  <2> QED BY <1>5, <1>8 DEF Processed, NullableNow, N
<1>17. RulesIn(grammar) = Rules
  BY RuleTypes
<1>j. Justified <=> \A x \in ToSet(q.chart[Len(r.chart)].items) :
                      x \in ToSet(r.chart[Len(r.chart)].items) \/ Follows(grammar, r, x)
  OBVIOUS
<1>w. Worked <=> (LeoOnlyIf(leo, r.chart) =>
                    WorkedAt(grammar, q.chart, Len(r.chart), r.chart[Len(r.chart)].items[n]))
  OBVIOUS
<1>w1. IsDone(grammar, item) /\ item.rule = Len(Rules) => Worked
  BY <1>17 DEF WorkedAt, Waits
<1>w2. ASSUME IsDone(grammar, item),
              LeoOnlyIf(leo, r.chart) /\ o < c => Completes(grammar, q.chart, N, lhs, o)
       PROVE  Worked
  BY <1>w2 DEF WorkedAt, Waits
<1>w3. ASSUME ~IsDone(grammar, item), NEW X, \A A \in Nonterminal : Waits(grammar, item, A) => A = X,
              X \in Nonterminal => /\ BeginsAt(grammar, q.chart, c, X)
                                   /\ X \in Nullable(grammar) => Advanced(item) \in ToSet(q.chart[N].items)
       PROVE  Worked
  BY <1>w3 DEF WorkedAt
<1>f. \A x : Follows(grammar, r, x) <=>
        \/ x.dot = 0 /\ x.origin = c /\ \E y \in ToSet(items) : Waits(grammar, y, LhsIn(grammar, x))
        \/ \E y \in ToSet(items) : \E X \in Nullable(grammar) : Waits(grammar, y, X) /\ x = Advanced(y)
        \/ \E y \in ToSet(items) :
             /\ IsDone(grammar, y) /\ y.rule # Len(Rules)
             /\ \E w \in ToSet(r.chart[y.origin + 1].items) :
                  Waits(grammar, w, LhsIn(grammar, y)) /\ x = Advanced(w)
        \/ \E y \in ToSet(items) :
             /\ IsDone(grammar, y) /\ y.rule # Len(Rules)
             /\ LhsIn(grammar, y) \in DOMAIN r.chart[y.origin + 1].leo
             /\ x = r.chart[y.origin + 1].leo[LhsIn(grammar, y)]
  BY <1>17 DEF Follows
<1> HIDE DEF Justified, Worked
<1>o. o < c => Len(r.chart[o + 1].items) \in Nat /\ o + 1 \in 1..N - 1
  <2>1. r.chart[o + 1].items \in Seq(Item)
    BY <1>2, <1>7
  <2> DEFINE there == r.chart[o + 1].items
  <2> HIDE DEF there, o, N, c
  <2>2. Len(there) \in Nat
    BY <2>1 DEF there
  <2> QED BY <1>1, <1>7, <2>2 DEF there
<1> HIDE DEF q, c, N, items, item, o, lhs, leoed, waiting, B
<1>k. Grows(q, r) /\ o < c => q.chart[o + 1] = r.chart[o + 1]
  BY <1>o DEF Grows, N
<1>c1. CASE IsDone(grammar, item) /\ item.rule = Len(Rules)
  <2>1. q = r
    BY <1>12, <1>c1
  <2>2. lhs = Augmented
    BY <1>c1, RuleTypes DEF LhsIn, lhs
  <2>3. Effects(grammar, r, n, q)
    <3>1. \A w \in ToSet(items) : ~Waits(grammar, w, lhs)
      BY <1>1, <1>4, <2>2, NothingWaitsForStart DEF Holds
    <3>2. \A w \in ToSet(r.chart[o + 1].items) : ~Waits(grammar, w, lhs)
      BY <1>7, <1>9, <2>2, NothingWaitsForStart
    <3>3. \A X : ~Waits(grammar, item, X)
      BY <1>c1 DEF Waits
    <3>4. \A j \in 1..n : items[j] \in ToSet(items)
      <4>1. \A j \in 1..n : j \in 1..Len(items)
        BY <1>3 DEF items, N
      <4> QED BY <4>1, <1>3
    <3> QED BY <3>1, <3>2, <3>3, <3>4, <1>1 DEF Effects, N, c, items, item, o, lhs
  <2> QED BY <1>10, <1>j, <1>w, <1>w1, <1>c1, <2>1, <2>3 DEF q
<1>c2. CASE IsDone(grammar, item) /\ item.rule # Len(Rules) /\ leoed
  <2> DEFINE x == r.chart[o + 1].leo[lhs]
  <2>1. q = InsertAll(r, <<x>>)
    BY <1>12, <1>c2
  <2>2. MayHold(grammar, o, x)
    <3>1. IsColumn(grammar, leo, o + 1 - 1, r.chart[o + 1]) /\ o + 1 - 1 = o
      BY <1>2, <1>7
    <3> QED BY <1>c2, <3>1 DEF IsColumn, leoed
  <2> HIDE DEF x
  <2>3. MayHold(grammar, c, x)
    <3>1. x.origin \in Nat
      BY <2>2, <1>7, ItemTypes
    <3> DEFINE k == x.origin
    <3>2. k <= o
      BY <2>2 DEF MayHold
    <3> HIDE DEF k
    <3>3. k <= c
      BY <1>1, <1>7, <3>1, <3>2 DEF k
    <3> QED BY <2>2, <3>3 DEF MayHold, k
  <2>4. Holds(grammar, leo, c, x) /\ x \in Item
    BY <1>c2, <2>3 DEF Holds, leoed, MayHold
  <2>5. <<x>> \in Seq(Item) /\ ToSet(<<x>>) = {x}
    BY <2>4 DEF ToSet
  <2>6. leo
    BY <1>c2 DEF leoed
  <2>7. Follows(grammar, r, x)
    <3>1. lhs \in DOMAIN r.chart[o + 1].leo
      BY <1>c2 DEF leoed
    <3> QED BY <1>6, <1>c2, <1>f, <3>1 DEF x, lhs, o
  <2>8. /\ Core(grammar, leo, limits, q) /\ Grows(q, r) /\ q.scans = r.scans
        /\ x \in ToSet(q.chart[N].items) /\ Justified
    BY <1>11, <2>1, <2>4, <2>5, <2>7
  <2>9. Worked
    <3>1. o < c => Completes(grammar, q.chart, N, lhs, o)
      BY <1>k, <1>c2, <2>8 DEF Completes, x, leoed
    <3> QED BY <1>w2, <1>c2, <3>1
  <2> QED BY <1>j, <1>w, <2>6, <2>8, <2>9 DEF q
<1>c3. CASE IsDone(grammar, item) /\ item.rule # Len(Rules) /\ ~leoed
  <2> DEFINE there == r.chart[o + 1].items
             more == AdvanceAll(waiting)
  <2>1. q = InsertAll(r, more)
    BY <1>12, <1>c3
  <2>2. there \in Seq(Item) /\ passed \in Nat /\ passed <= Len(there)
    <3>1. there \in Seq(Item)
      BY <1>2, <1>7
    <3>2. o = c => there = items
      BY <1>1 DEF items, N
    <3>3. n \in Nat /\ n <= Len(items)
      BY <1>3 DEF items, N
    <3> HIDE DEF there
    <3> QED BY <3>1, <3>2, <3>3 DEF there
  <2>3. /\ waiting \in Seq(Item)
        /\ ToSet(waiting) = {w \in ToSet(SubSeq(there, 1, passed)) : Expects(w, lhs)}
    BY <2>2, <1>7, WaitersResult DEF waiting
  <2>4. \A w : w \in ToSet(SubSeq(there, 1, passed)) <=> \E j \in 1..passed : w = there[j]
    <3> DEFINE first == SubSeq(there, 1, passed)
    <3> HIDE DEF there, passed
    <3>1. DOMAIN first = 1..passed /\ \A j \in 1..passed : first[j] = there[j]
      BY <2>2
    <3> HIDE DEF first
    <3>2. \A w : w \in ToSet(first) <=> \E j \in 1..passed : w = there[j]
      BY <3>1 DEF ToSet
    <3> QED BY <3>2 DEF first
  <2>5. \A w \in ToSet(SubSeq(there, 1, passed)) : w \in ToSet(there)
    <3> HIDE DEF there, passed
    <3> QED BY <2>2, <2>4 DEF ToSet
  <2>6. more \in Seq(Item) /\ ToSet(more) = {Advanced(w) : w \in ToSet(waiting)}
    BY <2>3, AdvanceAllResult
  <2>7. ASSUME NEW w \in ToSet(waiting)
        PROVE  Holds(grammar, leo, c, Advanced(w))
    <3>1. w \in ToSet(there) /\ Waits(grammar, w, lhs)
      BY <2>3, <2>5, <1>8
    <3>2. MayHold(grammar, o, w) /\ Holds(grammar, leo, o, w)
      BY <3>1, <1>9
    <3>3. ASSUME ~leo, w.origin = c
          PROVE  OwnIsEmpty(grammar, c, w) /\ lhs \in Nullable(grammar)
      <4>1. o = c
        <5> DEFINE k == w.origin
        <5>1. k <= o /\ k = c
          BY <3>2, <3>3 DEF MayHold
        <5> HIDE DEF k
        <5> QED BY <1>1, <1>7, <5>1
      <4>2. OwnIsEmpty(grammar, c, w)
        BY <3>2, <3>3, <4>1 DEF Holds
      <4>3. OwnIsEmpty(grammar, c, item)
        BY <1>6, <3>3 DEF Holds
      <4>4. lhs \in Nullable(grammar) \/ lhs = Augmented
        BY <1>1, <1>6, <1>c3, <4>1, <4>3, EmptyIsNullable DEF o, lhs
      <4>5. lhs # Augmented
        BY <3>1, <3>2, <1>7, NothingWaitsForStart
      <4> QED BY <4>2, <4>4, <4>5
    <3> QED BY <1>1, <1>7, <3>1, <3>2, <3>3, AdvancedHolds
  <2>8. \A x \in ToSet(more) : Holds(grammar, leo, c, x)
    BY <2>6, <2>7
  <2>11. \A x \in ToSet(more) : Follows(grammar, r, x)
    <3> SUFFICES ASSUME NEW w \in ToSet(waiting)
                 PROVE  Follows(grammar, r, Advanced(w))
      BY <2>6
    <3>1. w \in ToSet(there) /\ Waits(grammar, w, lhs)
      BY <2>3, <2>5, <1>8
    <3> QED BY <1>6, <1>c3, <1>f, <3>1 DEF lhs, o
  <2> HIDE DEF more, passed
  <2>9. /\ Core(grammar, leo, limits, q) /\ Grows(q, r) /\ q.scans = r.scans
        /\ ToSet(more) \subseteq ToSet(q.chart[N].items) /\ Justified
    BY <1>11, <2>1, <2>6, <2>8, <2>11
  <2>10. Effects(grammar, r, n, q)
    <3> DEFINE added == ToSet(q.chart[N].items)
    <3>1. \A j \in 1..passed : Waits(grammar, there[j], lhs) => Advanced(there[j]) \in added
      BY <2>3, <2>4, <2>6, <2>9, <1>8
    <3>2. \A X : ~Waits(grammar, item, X)
      BY <1>c3 DEF Waits
    <3>3. o < c => \A w \in ToSet(there) : Waits(grammar, w, lhs) => Advanced(w) \in added
      <4> SUFFICES ASSUME o < c, NEW w \in ToSet(there), Waits(grammar, w, lhs)
                   PROVE  Advanced(w) \in added
        OBVIOUS
      <4>1. passed = Len(there)
        BY <1>1, <1>7 DEF passed
      <4>2. \E j \in 1..Len(there) : w = there[j]
        <5> HIDE DEF there
        <5> QED BY <2>2 DEF ToSet
      <4> QED BY <3>1, <4>1, <4>2
    <3>4. o = c => passed = n /\ there = items
      BY <1>1 DEF passed, items, N
    <3>5. o = c => \A j \in 1..n : Waits(grammar, items[j], lhs) => Advanced(items[j]) \in added
      <4> HIDE DEF there, added
      <4> QED BY <3>1, <3>4
    <3> QED BY <3>2, <3>3, <3>5 DEF Effects, N, c, items, item, o, lhs
  <2>12. Worked
    <3>1. ASSUME LeoOnlyIf(leo, r.chart), o < c
          PROVE  Completes(grammar, q.chart, N, lhs, o)
      <4>1. q.chart[o + 1] = r.chart[o + 1]
        BY <1>k, <2>9, <3>1
      <4>2. lhs \notin DOMAIN r.chart[o + 1].leo
        BY <1>7, <1>c3, <3>1 DEF leoed, LeoOnlyIf, N
      <4>3. \A w \in ToSet(there) : w \in ToSet(waiting) <=> Waits(grammar, w, lhs)
        <5>1. passed = Len(there)
          BY <1>1, <1>7, <3>1 DEF passed
        <5>2. \A w \in ToSet(there) : w \in ToSet(SubSeq(there, 1, passed))
          <6> HIDE DEF there
          <6> QED BY <2>2, <2>4, <5>1 DEF ToSet
        <5> QED BY <2>3, <5>2, <1>8
      <4>4. \A w \in ToSet(there) : Waits(grammar, w, lhs) => Advanced(w) \in ToSet(q.chart[N].items)
        BY <2>6, <2>9, <4>3
      <4> QED BY <4>1, <4>2, <4>4 DEF Completes
    <3> QED BY <1>w2, <1>c3, <3>1
  <2> QED BY <1>j, <1>w, <2>9, <2>10, <2>12 DEF q
<1>13. ASSUME ~IsDone(grammar, item), NEW X, Waits(grammar, item, X)
       PROVE  X = B
  BY <1>13, <1>8 DEF Waits, B
<1>14. ASSUME ~IsDone(grammar, item)
       PROVE  Waits(grammar, item, B)
  BY <1>14, <1>8 DEF Waits, B
<1>15. \A x \in ToSet(Predicted(B, c)) : Holds(grammar, leo, c, x)
  BY <1>1, PredictedHolds
<1>16. /\ Predicted(B, c) \in Seq(Item)
       /\ ~IsDone(grammar, item) => \A x \in ToSet(Predicted(B, c)) : Follows(grammar, r, x)
       /\ ToSet(Predicted(B, c)) \subseteq ToSet(q.chart[N].items) => BeginsAt(grammar, q.chart, c, B)
  <2>1. Predicted(B, c) \in Seq(Item)
    BY <1>1, PredictedResult
  <2>2. \A x : x \in ToSet(Predicted(B, c)) <=>
          \E i \in 1..Len(Rules) : Rules[i].lhs = B /\ x = [rule |-> i, dot |-> 0, origin |-> c]
    BY <1>1, PredictedResult
  <2>3. ASSUME ~IsDone(grammar, item), NEW x \in ToSet(Predicted(B, c))
        PROVE  Follows(grammar, r, x)
    <3>1. PICK i \in 1..Len(Rules) : Rules[i].lhs = B /\ x = [rule |-> i, dot |-> 0, origin |-> c]
      BY <2>2, <2>3
    <3>2. x.dot = 0 /\ x.origin = c /\ LhsIn(grammar, x) = B
      BY <3>1, <1>17 DEF LhsIn
    <3>3. Waits(grammar, item, LhsIn(grammar, x))
      BY <1>14, <2>3, <3>2
    <3> QED BY <1>6, <1>f, <3>2, <3>3
  <2>4. ASSUME ToSet(Predicted(B, c)) \subseteq ToSet(q.chart[N].items)
        PROVE  BeginsAt(grammar, q.chart, c, B)
    BY <1>1, <1>17, <2>2, <2>4 DEF BeginsAt
  <2> QED BY <2>1, <2>3, <2>4
<1>c4. CASE ~IsDone(grammar, item) /\ B \in Terminal
  <2>1. q = r
    BY <1>12, <1>c4
  <2>2. B \notin Nullable(grammar)
    BY <1>c4, NullableResult, TerminalAssumption
  <2>3. Effects(grammar, r, n, q)
    BY <1>13, <1>c4, <2>2 DEF Effects, N, items, item
  <2>4. Worked
    BY <1>13, <1>c4, <1>w3, TerminalAssumption
  <2> QED BY <1>10, <1>j, <1>w, <2>1, <2>3, <2>4 DEF q
<1>c5. CASE ~IsDone(grammar, item) /\ B \notin Terminal /\ B \in Nullable(grammar)
  <2> DEFINE begun == Predicted(B, c)
             x == Advanced(item)
             more == Append(begun, x)
  <2>1. q = InsertAll(r, more)
    BY <1>12, <1>c5
  <2>2. Holds(grammar, leo, c, x)
    <3>1. Waits(grammar, item, B)
      BY <1>c5, <1>14
    <3>2. c <= c
      BY <1>1
    <3>3. ~leo => OwnIsEmpty(grammar, c, item)
      BY <1>6 DEF Holds
    <3> QED BY <1>1, <1>6, <1>c5, <3>1, <3>2, <3>3, AdvancedHolds
  <2> HIDE DEF begun, x
  <2>3. begun \in Seq(Item) /\ x \in Item
    BY <1>16, <2>2 DEF begun, Holds, MayHold
  <2>4. more \in Seq(Item) /\ ToSet(more) = ToSet(begun) \cup {x}
    <3>1. more \in Seq(Item) /\ Len(more) = Len(begun) + 1 /\ more[Len(begun) + 1] = x
      BY <2>3
    <3>2. \A i \in 1..Len(begun) : more[i] = begun[i]
      BY <2>3
    <3>3. DOMAIN more = 1..Len(begun) + 1 /\ DOMAIN begun = 1..Len(begun) /\ Len(begun) \in Nat
      BY <2>3, <3>1
    <3> HIDE DEF more
    <3>4. \A i : i \in DOMAIN more <=> i \in DOMAIN begun \/ i = Len(begun) + 1
      BY <3>3
    <3> QED BY <3>1, <3>2, <3>3, <3>4 DEF ToSet
  <2> HIDE DEF more
  <2>5. \A y \in ToSet(more) : Holds(grammar, leo, c, y)
    BY <1>15, <2>2, <2>4 DEF begun
  <2>9. Follows(grammar, r, x)
    <3>1. Waits(grammar, item, B)
      BY <1>c5, <1>14
    <3> QED BY <1>6, <1>c5, <1>f, <3>1 DEF x
  <2>10. \A y \in ToSet(more) : Follows(grammar, r, y)
    BY <1>16, <1>c5, <2>4, <2>9 DEF begun
  <2>6. /\ Core(grammar, leo, limits, q) /\ Grows(q, r) /\ q.scans = r.scans
        /\ ToSet(more) \subseteq ToSet(q.chart[N].items) /\ Justified
    BY <1>11, <2>1, <2>4, <2>5, <2>10
  <2>7. x \in ToSet(q.chart[N].items)
    BY <2>4, <2>6
  <2>8. Effects(grammar, r, n, q)
    BY <1>c5, <2>7 DEF Effects, N, items, item, x
  <2>11. Worked
    <3>1. BeginsAt(grammar, q.chart, c, B)
      BY <1>16, <2>4, <2>6 DEF begun
    <3> QED BY <1>13, <1>c5, <1>w3, <2>7, <3>1 DEF x
  <2> QED BY <1>j, <1>w, <2>6, <2>8, <2>11 DEF q
<1>c6. CASE ~IsDone(grammar, item) /\ B \notin Terminal /\ B \notin Nullable(grammar)
  <2>1. q = InsertAll(r, Predicted(B, c))
    BY <1>12, <1>c6
  <2>2. /\ Core(grammar, leo, limits, q) /\ Grows(q, r) /\ q.scans = r.scans /\ Justified
        /\ ToSet(Predicted(B, c)) \subseteq ToSet(q.chart[N].items)
    BY <1>11, <1>15, <1>16, <1>c6, <2>1
  <2>3. Effects(grammar, r, n, q)
    BY <1>13, <1>c6 DEF Effects, N, items, item
  <2>4. Worked
    BY <1>13, <1>16, <1>c6, <1>w3, <2>2
  <2> QED BY <1>j, <1>w, <2>2, <2>3, <2>4 DEF q
<1> QED BY <1>c1, <1>c2, <1>c3, <1>c4, <1>c5, <1>c6

\* An empty column.
LEMMA NewColumnType == NewColumn \in Column /\ Len(NewColumn.items) = 0 /\ Cardinality(DOMAIN NewColumn.leo) = 0
<1>1. << >> \in [{} -> Item] /\ {} \in SUBSET Nonterminal
  OBVIOUS
<1>2. NewColumn \in Column
  <2>1. << >> \in Seq(Item) /\ << >> \in UNION {[S -> Item] : S \in SUBSET Nonterminal}
    BY <1>1
  <2> QED BY <2>1 DEF NewColumn, Column
<1>3. DOMAIN NewColumn.leo = {} /\ Len(NewColumn.items) = 0
  BY DEF NewColumn
<1> QED BY <1>2, <1>3, FS_EmptySet

\* The recognizer that is being constructed, before its start item.
LEMMA BlankCore ==
  ASSUME limits \in LimitSet
  PROVE  Core(grammar, leo, limits, Blank)
<1>1. Blank.chart = <<NewColumn>> /\ Blank.chart \in Seq(Column) /\ Len(Blank.chart) = 1
  BY NewColumnType DEF Blank
<1>2. Blank \in Recognizer
  BY <1>1 DEF Blank, Recognizer
<1>3. IsColumn(grammar, leo, 0, NewColumn)
  BY DEF IsColumn, NewColumn, ToSet
<1>4. IsChart(grammar, leo, Blank.chart)
  <2>1. \A c \in 1..1 : c - 1 = 0 /\ Blank.chart[c] = NewColumn
    BY <1>1
  <2> QED BY <1>1, <1>3, <2>1 DEF IsChart
<1>5. ItemTotal(Blank.chart) = 0 /\ LeoTotal(Blank.chart) = 0
  BY <1>1, NewColumnType, TotalsOfOne
<1>6. Cardinality(Blank.scans) = 0 /\ Blank.scans = {}
  BY FS_EmptySet DEF Blank
<1>7. InBudget(limits, Blank)
  <2>1. Blank.total = 0 /\ Blank.leoItems = 0
    BY DEF Blank
  <2>2. limits.items >= 0 /\ limits.leo >= 0 /\ limits.scans >= 0
    BY DEF LimitSet
  <2> QED BY <1>5, <1>6, <2>1, <2>2 DEF InBudget
<1>8. ~Blank.over
  BY DEF Blank
<1> QED BY <1>2, <1>4, <1>6, <1>7, <1>8, FS_EmptySet DEF Core, Begun

\* The start item begins column 0.
LEMMA StartHolds ==
  ASSUME IsGrammar(grammar)
  PROVE  StartItem \in Item /\ Holds(grammar, leo, 0, StartItem)
<1>1. Len(Rules) \in Nat /\ Len(Rules) >= 1
  BY RuleTypes
<1>2. StartItem \in Item
  BY <1>1 DEF StartItem, Item
<1>3. RhsIn(grammar, StartItem) = <<grammar.start>>
  BY RuleTypes DEF RhsIn, StartItem
<1>4. StartItem.rule = Len(Rules) /\ StartItem.dot = 0 /\ StartItem.origin = 0
  BY DEF StartItem
<1>5. 0 <= Len(<<grammar.start>>) /\ Len(Rules) \in 1..Len(Rules)
  BY <1>1
<1>6. MayHold(grammar, 0, StartItem)
  BY <1>2, <1>3, <1>4, <1>5, RuleTypes DEF MayHold
<1>7. OwnIsEmpty(grammar, 0, StartItem)
  BY <1>4 DEF OwnIsEmpty
<1> QED BY <1>2, <1>6, <1>7 DEF Holds

\* Two recognizers have the same first m columns.
AgreeTo(q, r, m) ==
  m <= Len(q.chart) /\ m <= Len(r.chart) /\ \A c \in 1..m : q.chart[c] = r.chart[c]

\* The new column of a byte holds what the scans have matched, and belongs there.
LEMMA ScannedKeeps ==
  ASSUME IsGrammar(grammar), leo \in BOOLEAN, limits \in LimitSet,
         NEW r, Core(grammar, leo, limits, r), NEW b, ~Scanned(r, b).over
  PROVE  LET q == Scanned(r, b)
             n == Len(r.chart)
         IN /\ Core(grammar, leo, limits, q)
            /\ Len(q.chart) = n + 1
            /\ AgreeTo(q, r, n)
            /\ q.chart[n + 1].leo = << >>
            /\ \A y : y \in ToSet(q.chart[n + 1].items) <=>
                 \E t \in Terminal : WaitedIn(r, Fed(r.scans, b), t, y)
<1> DEFINE n == Len(r.chart)
           all == r.chart
           longer == Append(all, NewColumn)
           x == [r EXCEPT !.chart = Append(@, NewColumn), !.scans = {}]
           q == Scanned(r, b)
<1>1. r \in Recognizer /\ all \in Seq(Column) /\ n \in Nat /\ n >= 1
  BY DEF Core, IsChart
<1>2. /\ longer \in Seq(Column) /\ Len(longer) = n + 1 /\ longer[n + 1] = NewColumn
      /\ \A c \in 1..n : longer[c] = all[c]
  <2> HIDE DEF all
  <2> QED BY <1>1, NewColumnType DEF all
<1>3. x = [chart |-> longer, scans |-> {}, position |-> r.position, total |-> r.total,
           leoItems |-> r.leoItems, over |-> r.over]
  <2>1. Append(r.chart, NewColumn) = longer
    OBVIOUS
  <2> DEFINE y == [r EXCEPT !.chart = longer]
             z == [y EXCEPT !.scans = {}]
  <2>2. x = z
    OBVIOUS
  <2> HIDE DEF longer, x
  <2>3. y = [chart |-> longer, scans |-> r.scans, position |-> r.position, total |-> r.total,
             leoItems |-> r.leoItems, over |-> r.over]
    BY <1>1 DEF Recognizer
  <2> HIDE DEF y
  <2>4. z = [chart |-> longer, scans |-> {}, position |-> r.position, total |-> r.total,
             leoItems |-> r.leoItems, over |-> r.over]
    BY <2>3
  <2> QED BY <2>2, <2>4
<1> HIDE DEF x
<1>4. x \in Recognizer
  <2> HIDE DEF longer
  <2> QED BY <1>1, <1>2, <1>3 DEF Recognizer
<1>5. IsChart(grammar, leo, longer)
  <2>1. IsColumn(grammar, leo, n, NewColumn)
    BY DEF IsColumn, NewColumn, ToSet
  <2>2. ASSUME NEW c \in 1..n + 1
        PROVE  IsColumn(grammar, leo, c - 1, longer[c])
    <3>1. CASE c = n + 1
      <4>1. c - 1 = n
        BY <1>1, <3>1
      <4> HIDE DEF n, longer
      <4> QED BY <2>1, <3>1, <1>2, <4>1
    <3>2. CASE c # n + 1
      <4>1. c \in 1..n
        BY <1>1, <3>2
      <4>2. longer[c] = all[c]
        BY <1>2, <4>1
      <4> QED BY <4>1, <4>2 DEF Core, IsChart
    <3> QED BY <3>1, <3>2
  <2>3. n + 1 >= 1
    BY <1>1
  <2> HIDE DEF longer
  <2> QED BY <1>2, <2>2, <2>3 DEF IsChart
<1>6. InBudget(limits, x)
  <2>1. ItemTotal(longer) = ItemTotal(all) + 0 /\ LeoTotal(longer) = LeoTotal(all) + 0
    BY <1>1, NewColumnType, TotalsOfAppend
  <2>2. ItemTotal(all) \in Nat /\ LeoTotal(all) \in Nat
    BY <1>1, NewColumnType, TotalsOfAppend
  <2>3. ItemTotal(longer) = ItemTotal(all) /\ LeoTotal(longer) = LeoTotal(all)
    <3> HIDE DEF longer
    <3> QED BY <2>1, <2>2
  <2>4. Cardinality({}) = 0 /\ limits.scans \in Nat
    BY FS_EmptySet DEF LimitSet
  <2>5. InBudget(limits, r)
    BY DEF Core
  <2> HIDE DEF longer
  <2> QED BY <1>3, <2>3, <2>4, <2>5 DEF InBudget
<1>7. Core(grammar, leo, limits, x)
  <2>1. ~r.over
    BY DEF Core
  <2> HIDE DEF longer
  <2> QED BY <1>3, <1>4, <1>5, <1>6, <2>1, FS_EmptySet DEF Core, Begun
<1>8. q = InsertAll(x, Found(r, b))
  BY DEF Scanned, Found, x
<1>9. /\ Found(r, b) \in Seq(Item)
      /\ \A y : y \in ToSet(Found(r, b)) <=> \E t \in Terminal : WaitedIn(r, Fed(r.scans, b), t, y)
  BY <1>1, FoundResult
<1>10. ASSUME NEW y \in ToSet(Found(r, b))
       PROVE  Holds(grammar, leo, n, y)
  <2>0. PICK t \in Terminal, c \in 0..n - 1 :
          \E item \in ToSet(r.chart[c + 1].items) : Expects(item, t) /\ y = Advanced(item)
    BY <1>9 DEF WaitedIn
  <2>1. PICK item \in ToSet(r.chart[c + 1].items) : Expects(item, t) /\ y = Advanced(item)
    BY <2>0
  <2>2. c + 1 \in 1..n /\ c + 1 - 1 = c /\ c \in Nat /\ c < n
    BY <1>1
  <2>3. MayHold(grammar, c, item)
    <3>1. IsColumn(grammar, leo, c + 1 - 1, r.chart[c + 1])
      BY <2>2 DEF Core, IsChart
    <3> QED BY <2>2, <3>1 DEF IsColumn, Holds
  <2>4. Waits(grammar, item, t)
    BY <2>1, ItemOperators
  <2>5. item.origin # n
    <3>1. item.origin \in Nat /\ item.origin <= c
      BY <2>2, <2>3, ItemTypes DEF MayHold
    <3> DEFINE o == item.origin
    <3> HIDE DEF o, n
    <3> QED BY <1>1, <2>2, <3>1 DEF o
  <2>6. c <= n
    BY <1>1, <2>2
  <2> HIDE DEF n
  <2> QED BY <1>1, <2>1, <2>2, <2>3, <2>4, <2>5, <2>6, AdvancedHolds
<1>11. Len(x.chart) = n + 1 /\ Len(x.chart) - 1 = n
  <2>1. Len(x.chart) = n + 1
    BY <1>2, <1>3
  <2> HIDE DEF n
  <2> QED BY <1>1, <2>1
<1>12. /\ Core(grammar, leo, limits, q) /\ Grows(q, x)
       /\ ToSet(q.chart[n + 1].items) = ToSet(x.chart[n + 1].items) \cup ToSet(Found(r, b))
  <2>1. ~InsertAll(x, Found(r, b)).over
    BY <1>8
  <2> DEFINE f == Found(r, b)
             k == Len(x.chart)
  <2>2. f \in Seq(Item) /\ k = n + 1 /\ \A y \in ToSet(f) : Holds(grammar, leo, k - 1, y)
    BY <1>9, <1>10, <1>11
  <2> HIDE DEF n, q, f
  <2>3. /\ Core(grammar, leo, limits, InsertAll(x, f)) /\ Grows(InsertAll(x, f), x)
        /\ ToSet(InsertAll(x, f).chart[k].items) = ToSet(x.chart[k].items) \cup ToSet(f)
    BY <1>7, <1>8, <2>1, <2>2, InsertAllKeeps DEF f
  <2> HIDE DEF k
  <2> QED BY <1>8, <2>2, <2>3 DEF f
<1>13. x.chart = longer
  BY <1>3
<1>16. x.chart[n + 1].items = << >> /\ ToSet(<< >>) = {}
  BY <1>2, <1>13 DEF NewColumn, ToSet
<1>17. \A y : y \in ToSet(q.chart[n + 1].items) <=> \E t \in Terminal : WaitedIn(r, Fed(r.scans, b), t, y)
  <2>1. \A y : y \in ToSet(q.chart[n + 1].items) <=> y \in ToSet(Found(r, b))
    <3> HIDE DEF q, longer, n, all
    <3> QED BY <1>12, <1>16
  <2> HIDE DEF q, longer, n, all
  <2> QED BY <1>9, <2>1, Zenon
<1> HIDE DEF q, longer, n, all
<1>14. Len(q.chart) = n + 1 /\ q.chart[n + 1].leo = << >>
  BY <1>2, <1>11, <1>12, <1>13 DEF Grows, NewColumn
<1>15. AgreeTo(q, r, n)
  <2>1. \A c \in 1..n : q.chart[c] = longer[c]
    <3>1. \A c \in 1..n : c \in 1..(n + 1) - 1
      BY <1>1
    <3> QED BY <3>1, <1>11, <1>12, <1>13 DEF Grows
  <2>2. n <= n + 1 /\ n <= n
    BY <1>1
  <2> QED BY <1>2, <1>14, <2>1, <2>2 DEF AgreeTo, n, all
<1> QED BY <1>12, <1>14, <1>15, <1>17 DEF q, n

\* What an earlier column may hold, a later one may.
LEMMA MayHoldLater ==
  ASSUME IsGrammar(grammar), NEW b \in Nat, NEW c \in Nat, b <= c, NEW item, MayHold(grammar, b, item)
  PROVE  MayHold(grammar, c, item)
<1> DEFINE o == item.origin
<1>1. o \in Nat /\ o <= b
  BY ItemTypes DEF MayHold
<1> HIDE DEF o
<1>2. o <= c
  BY <1>1
<1> QED BY <1>2 DEF MayHold, o

\* There are finitely many terminals.
LEMMA TerminalsAreFinite == IsFiniteSet(Terminal)
<1> DEFINE n == Len(TerminalTable)
<1>1. n \in Nat /\ TerminalTable \in Seq(Terminal) /\ DOMAIN TerminalTable = 1..n
  BY TerminalAssumption
<1>2. TerminalTable \in Surjection(1..n, Terminal)
  <2>1. \A t \in Terminal : \E i \in 1..n : TerminalTable[i] = t
    BY <1>1 DEF Terminal, ToSet
  <2>2. TerminalTable \in [1..n -> Terminal]
    BY <1>1
  <2> QED BY <2>1, <2>2 DEF Surjection
<1>3. IsFiniteSet(1..n)
  <2> HIDE DEF n
  <2> QED BY <1>1, FS_Interval
<1> HIDE DEF n
<1> QED BY <1>2, <1>3, FS_Surjection

\* A Leo item x of B is past the one item of column k that waits for B, or it is that of
\* the left-hand side this item completes.
LeoStep(g, chart, k, B, x) ==
  \E w \in ToSet(chart[k].items) :
    /\ Waits(g, w, B) /\ IsDone(g, Advanced(w))
    /\ \A y \in ToSet(chart[k].items) : Waits(g, y, B) => y = w
    /\ \/ x = Advanced(w)
       \/ /\ w.origin < k - 1
          /\ LhsIn(g, w) \in DOMAIN chart[w.origin + 1].leo
          /\ x = chart[w.origin + 1].leo[LhsIn(g, w)]

\* The Leo items of a column are items it may hold.
LEMMA LeoItemsResult ==
  ASSUME IsGrammar(grammar), NEW r, Core(grammar, leo, limits, r)
  PROVE  /\ LeoItems(r) \in UNION {[S -> Item] : S \in SUBSET Nonterminal}
         /\ \A B \in DOMAIN LeoItems(r) : MayHold(grammar, Len(r.chart) - 1, LeoItems(r)[B])
         /\ \A B \in DOMAIN LeoItems(r) : LeoStep(grammar, r.chart, Len(r.chart), B, LeoItems(r)[B])
<1> DEFINE n == Len(r.chart)
           c == n - 1
           eligible == {B \in Nonterminal : /\ Len(AllWaiters(r, c, B)) = 1
                                            /\ IsComplete(Advanced(AllWaiters(r, c, B)[1]))}
           top(item) ==
             IF item.origin < c /\ Lhs(item) \in DOMAIN r.chart[item.origin + 1].leo
             THEN r.chart[item.origin + 1].leo[Lhs(item)] ELSE item
           found == [B \in eligible |-> top(Advanced(AllWaiters(r, c, B)[1]))]
<1>1. r.chart \in Seq(Column) /\ n \in Nat /\ n >= 1 /\ c \in Nat /\ c + 1 = n /\ n \in 1..n
  BY DEF Core, IsChart
<1>2. LeoItems(r) = found
  BY DEF LeoItems, LastColumn
<1>3. \A k \in 1..n : IsColumn(grammar, leo, k - 1, r.chart[k])
  BY DEF Core, IsChart
<1>4. ASSUME NEW B \in eligible
      PROVE  /\ MayHold(grammar, c, top(Advanced(AllWaiters(r, c, B)[1])))
             /\ LeoStep(grammar, r.chart, n, B, top(Advanced(AllWaiters(r, c, B)[1])))
  <2> DEFINE waiting == AllWaiters(r, c, B)
             w == waiting[1]
             item == Advanced(w)
             o == item.origin
             x == r.chart[o + 1].leo[Lhs(item)]
  <2>1. r.chart[c + 1].items \in Seq(Item)
    <3>1. r.chart[c + 1] \in Column
      <4> DEFINE all == r.chart
      <4> HIDE DEF all, c, n
      <4>1. all \in Seq(Column) /\ c + 1 \in 1..Len(all)
        BY <1>1 DEF all, n
      <4>2. all[c + 1] \in Column
        <5> DEFINE k == c + 1
        <5> HIDE DEF k
        <5> QED BY <4>1 DEF k
      <4> QED BY <4>2 DEF all
    <3> QED BY <3>1 DEF Column
  <2>2. /\ waiting \in Seq(Item) /\ Len(waiting) = 1
        /\ ToSet(waiting) = {y \in ToSet(r.chart[c + 1].items) : Expects(y, B)}
    BY <2>1, AllWaitersResult
  <2>3. w \in ToSet(waiting)
    <3> HIDE DEF waiting
    <3> QED BY <2>2 DEF ToSet
  <2>4. w \in ToSet(r.chart[n].items) /\ Waits(grammar, w, B)
    BY <1>1, <2>2, <2>3, ItemOperators
  <2>5. MayHold(grammar, c, w)
    BY <1>1, <1>3, <2>4 DEF IsColumn, Holds
  <2>6. MayHold(grammar, c, item)
    <3>1. Holds(grammar, TRUE, c, item)
      <4>1. c <= c
        BY <1>1
      <4> HIDE DEF c, w
      <4> QED BY <1>1, <2>4, <2>5, <4>1, AdvancedHolds
    <3> QED BY <3>1 DEF Holds
  <2> HIDE DEF item
  <2>9. \A y \in ToSet(r.chart[n].items) : Waits(grammar, y, B) => y = w
    <3>1. ToSet(waiting) = {w}
      <4> HIDE DEF waiting
      <4> QED BY <2>2 DEF ToSet
    <3>2. \A y : Expects(y, B) <=> Waits(grammar, y, B)
      BY ItemOperators
    <3> QED BY <1>1, <2>2, <3>1, <3>2
  <2>10. IsDone(grammar, item)
    BY ItemOperators DEF item
  <2>11. w.origin = o /\ LhsIn(grammar, w) = LhsIn(grammar, item) /\ Lhs(item) = LhsIn(grammar, item)
    <3>1. w \in Item
      BY <2>5 DEF MayHold
    <3>2. Advanced(w).origin = w.origin /\ Advanced(w).rule = w.rule
      <4> HIDE DEF w
      <4> QED BY <3>1 DEF Advanced, Item
    <3> QED BY <3>2, ItemOperators DEF item, LhsIn
  <2>12. ASSUME NEW z, \/ z = item
                       \/ /\ o < c /\ LhsIn(grammar, item) \in DOMAIN r.chart[o + 1].leo
                          /\ z = r.chart[o + 1].leo[LhsIn(grammar, item)]
         PROVE  LeoStep(grammar, r.chart, n, B, z)
    <3> HIDE DEF w
    <3> QED BY <2>4, <2>9, <2>10, <2>11, <2>12, Zenon DEF LeoStep, item, c
  <2>7. CASE o < c /\ Lhs(item) \in DOMAIN r.chart[o + 1].leo
    <3>7. LeoStep(grammar, r.chart, n, B, x)
      BY <2>7, <2>11, <2>12
    <3>1. o \in Nat
      BY <1>1, <2>6, ItemTypes
    <3> HIDE DEF o, c, n
    <3>2. o + 1 \in 1..n /\ o + 1 - 1 = o /\ o <= c
      BY <1>1, <2>7, <3>1
    <3>4. PICK k : k = o + 1
      OBVIOUS
    <3>5. IsColumn(grammar, leo, o, r.chart[o + 1])
      <4>1. k \in 1..n /\ k - 1 = o
        BY <3>1, <3>2, <3>4
      <4>2. IsColumn(grammar, leo, k - 1, r.chart[k])
        BY <1>3, <4>1
      <4> QED BY <3>4, <4>1, <4>2
    <3>3. MayHold(grammar, o, x)
      BY <2>7, <3>5 DEF IsColumn
    <3>6. MayHold(grammar, c, x)
      BY <1>1, <3>1, <3>2, <3>3, MayHoldLater
    <3> QED BY <2>7, <3>6, <3>7 DEF item, o, n
  <2>8. CASE ~(o < c /\ Lhs(item) \in DOMAIN r.chart[o + 1].leo)
    BY <2>6, <2>8, <2>12 DEF item
  <2> QED BY <2>7, <2>8
<1> HIDE DEF top, c
<1>5. \A B \in eligible : top(Advanced(AllWaiters(r, c, B)[1])) \in Item
  BY <1>4 DEF MayHold
<1>6. eligible \in SUBSET Nonterminal
  OBVIOUS
<1> HIDE DEF eligible
<1>7. found \in [eligible -> Item] /\ DOMAIN found = eligible
  BY <1>5
<1>8. \A B \in eligible : MayHold(grammar, c, found[B]) /\ LeoStep(grammar, r.chart, n, B, found[B])
  BY <1>4
<1> HIDE DEF found
<1>9. found \in UNION {[S -> Item] : S \in SUBSET Nonterminal}
  BY <1>6, <1>7
<1> QED BY <1>2, <1>7, <1>8, <1>9 DEF c

\* A scan of what an item of column k waits for starts with the column.
Starts(g, chart, k, s) ==
  \E t \in Terminal : \E w \in ToSet(chart[k].items) :
    Waits(g, w, t) /\ s = [terminal |-> t, start |-> k - 1, cursor |-> << >>]

\* The end of a column adds its Leo items and starts its scans; the items stay.
LEMMA FinishedKeeps ==
  ASSUME IsGrammar(grammar), leo \in BOOLEAN, limits \in LimitSet,
         NEW r, Core(grammar, leo, limits, r), r.chart[Len(r.chart)].leo = << >>,
         NEW running \in SUBSET Cursors, Begun(running, Len(r.chart)),
         ~Finished(r, running).over
  PROVE  LET q == Finished(r, running)
             n == Len(r.chart)
         IN /\ Core(grammar, leo, limits, q)
            /\ Len(q.chart) = n
            /\ AgreeTo(q, r, n - 1)
            /\ q.chart[n].items = r.chart[n].items
            /\ q.chart[n].leo = (IF leo THEN LeoItems(r) ELSE << >>)
            /\ q.position = n - 1
            /\ \A s \in q.scans : s \in running \/ (s.start = n - 1 /\ s.cursor = << >>)
            /\ \A s : s \in q.scans <=> s \in running \/ Starts(grammar, r.chart, n, s)
<1> DEFINE n == Len(r.chart)
           c == n - 1
           q == Finished(r, running)
           found == IF leo THEN LeoItems(r) ELSE << >>
           size == Cardinality(DOMAIN found)
           count == r.leoItems + size
           created == {[terminal |-> t, start |-> c, cursor |-> << >>] :
                         t \in {t \in Terminal : AllWaiters(r, c, t) # << >>}}
           scans == running \cup created
           column == [items |-> r.chart[n].items, leo |-> found]
           chart == [r.chart EXCEPT ![n] = column]
<1>1. r \in Recognizer /\ ~r.over /\ r.chart \in Seq(Column) /\ n \in Nat /\ n >= 1 /\ n \in 1..n
  BY DEF Core, IsChart
<1>2. r.chart[n] \in Column
  <2> DEFINE all == r.chart
  <2>1. all \in Seq(Column) /\ Len(all) \in 1..Len(all)
    BY <1>1
  <2> HIDE DEF all
  <2>2. all[Len(all)] \in Column
    BY <2>1
  <2> QED BY <2>2 DEF all
<1>3. /\ found \in UNION {[S -> Item] : S \in SUBSET Nonterminal}
      /\ \A B \in DOMAIN found : MayHold(grammar, c, found[B])
  <2>1. CASE leo
    BY <2>1, LeoItemsResult
  <2>2. CASE ~leo
    <3>1. << >> \in [{} -> Item] /\ {} \in SUBSET Nonterminal
      OBVIOUS
    <3>2. found = << >> /\ DOMAIN << >> = {}
      BY <2>2
    <3> HIDE DEF found
    <3> QED BY <3>1, <3>2
  <2> QED BY <2>1, <2>2
<1>4. /\ ~(count > limits.leo) /\ ~(Cardinality(scans) > limits.scans)
      /\ q = [r EXCEPT !.chart[n].leo = found, !.leoItems = count, !.scans = scans, !.position = c]
  <2>1. q = IF count > limits.leo \/ Cardinality(scans) > limits.scans THEN [r EXCEPT !.over = TRUE]
            ELSE [r EXCEPT !.chart[n].leo = found, !.leoItems = count, !.scans = scans, !.position = c]
    BY Zenon DEF Finished, LastColumn
  <2>2. [r EXCEPT !.over = TRUE].over = TRUE
    BY <1>1 DEF Recognizer
  <2> HIDE DEF q, count, scans, found, c, n
  <2> QED BY <2>1, <2>2 DEF q
<1>20. found = (IF leo THEN LeoItems(r) ELSE << >>)
  OBVIOUS
<1>21. \A s \in scans : s \in running \/ (s.start = c /\ s.cursor = << >>)
  OBVIOUS
<1>22. c = n - 1
  OBVIOUS
<1>23. \A s : s \in created <=> Starts(grammar, r.chart, n, s)
  <2>1. ASSUME NEW t
        PROVE  AllWaiters(r, c, t) # << >> <=> \E w \in ToSet(r.chart[n].items) : Waits(grammar, w, t)
    <3>1. r.chart[c + 1].items \in Seq(Item) /\ c + 1 = n
      BY <1>1, <1>2 DEF Column
    <3> DEFINE waiting == AllWaiters(r, c, t)
    <3>2. waiting \in Seq(Item) /\ ToSet(waiting) = {w \in ToSet(r.chart[c + 1].items) : Expects(w, t)}
      BY <3>1, AllWaitersResult
    <3>3. waiting # << >> <=> ToSet(waiting) # {}
      <4> HIDE DEF waiting
      <4> QED BY <3>2 DEF ToSet
    <3> HIDE DEF waiting
    <3>4. \A w : Expects(w, t) <=> Waits(grammar, w, t)
      BY ItemOperators
    <3> QED BY <3>1, <3>2, <3>3, <3>4 DEF waiting
  <2>2. \A s : s \in created <=> \E t \in Terminal :
          AllWaiters(r, c, t) # << >> /\ s = [terminal |-> t, start |-> c, cursor |-> << >>]
    BY Zenon
  <2> HIDE DEF created
  <2> QED BY <2>1, <2>2, Zenon DEF Starts
<1>24. \A s : s \in scans <=> s \in running \/ Starts(grammar, r.chart, n, s)
  <2> HIDE DEF created
  <2> QED BY <1>23
<1> HIDE DEF found
<1>5. column \in Column /\ column.items = r.chart[n].items /\ column.leo = found
  BY <1>2, <1>3 DEF Column
<1>6. /\ chart \in Seq(Column) /\ Len(chart) = n /\ chart[n] = column
      /\ \A k \in 1..n - 1 : chart[k] = r.chart[k]
      /\ ItemTotal(chart) = ItemTotal(r.chart) - Len(r.chart[n].items) + Len(column.items)
      /\ LeoTotal(chart) = LeoTotal(r.chart) - Cardinality(DOMAIN r.chart[n].leo) + Cardinality(DOMAIN column.leo)
  <2> DEFINE all == r.chart
  <2>1. all \in Seq(Column) /\ n = Len(all) /\ Len(all) >= 1 /\ chart = [all EXCEPT ![Len(all)] = column]
    BY <1>1
  <2> HIDE DEF all, chart, n, column
  <2>2. Replaced(all, n, column, chart)
    BY <1>5, <2>1, LastReplaced, Zenon
  <2> QED BY <2>2 DEF all, Replaced, TotalsMove
<1>7. ItemTotal(chart) = ItemTotal(r.chart) /\ LeoTotal(chart) = LeoTotal(r.chart) + size
  <2> DEFINE x == ItemTotal(r.chart)
             y == LeoTotal(r.chart)
             z == Len(r.chart[n].items)
  <2>1. x \in Nat /\ y \in Nat /\ z \in Nat /\ size \in Nat
    <3>1. x \in Nat /\ y \in Nat
      BY <1>1, <1>5, TotalsOfAppend
    <3>2. z \in Nat
      BY <1>2, ItemWeightType DEF ItemWeight
    <3>3. size \in Nat
      <4>1. LeoWeight[column] = size
        BY <1>5 DEF LeoWeight
      <4> HIDE DEF size, column
      <4> QED BY <1>5, <4>1, LeoWeightType
    <3> QED BY <3>1, <3>2, <3>3
  <2>2. Cardinality(DOMAIN r.chart[n].leo) = 0
    <3>1. DOMAIN << >> = {}
      OBVIOUS
    <3> QED BY <3>1, FS_EmptySet
  <2>3. ItemTotal(chart) = x - z + z /\ LeoTotal(chart) = y - 0 + size
    BY <1>5, <1>6, <2>2
  <2> HIDE DEF x, y, z, size, chart
  <2> QED BY <2>1, <2>3 DEF x, y
<1>8. q = [chart |-> chart, scans |-> scans, position |-> c, total |-> r.total,
           leoItems |-> count, over |-> r.over]
  <2> DEFINE r1 == [r EXCEPT !.chart[n].leo = found]
             r2 == [r1 EXCEPT !.leoItems = count]
             r3 == [r2 EXCEPT !.scans = scans]
             r4 == [r3 EXCEPT !.position = c]
  <2>1. q = r4
    BY <1>4
  <2>2. [r.chart EXCEPT ![n].leo = found] = chart
    <3> DEFINE last == r.chart[n]
    <3>1. last = [items |-> last.items, leo |-> last.leo]
      BY <1>2 DEF Column
    <3> HIDE DEF last
    <3>2. [last EXCEPT !.leo = found] = [items |-> last.items, leo |-> found]
      BY <3>1
    <3> QED BY <3>2 DEF last
  <2> HIDE DEF q, chart, scans, count, c, created
  <2>7. r1 = [r EXCEPT !.chart = [r.chart EXCEPT ![n].leo = found]]
    OBVIOUS
  <2> HIDE DEF r1
  <2>3. r1 = [chart |-> chart, scans |-> r.scans, position |-> r.position, total |-> r.total,
              leoItems |-> r.leoItems, over |-> r.over]
    BY <1>1, <2>2, <2>7 DEF Recognizer
  <2>4. r2 = [chart |-> chart, scans |-> r.scans, position |-> r.position, total |-> r.total,
              leoItems |-> count, over |-> r.over]
    BY <2>3
  <2> HIDE DEF r2
  <2>5. r3 = [chart |-> chart, scans |-> scans, position |-> r.position, total |-> r.total,
              leoItems |-> count, over |-> r.over]
    BY <2>4
  <2> HIDE DEF r3
  <2>6. r4 = [chart |-> chart, scans |-> scans, position |-> c, total |-> r.total,
              leoItems |-> count, over |-> r.over]
    BY <2>5
  <2> QED BY <2>1, <2>6
<1> HIDE DEF q
<1>9. q.chart = chart /\ q.scans = scans /\ q.position = c /\ q.total = r.total
      /\ q.leoItems = count /\ q.over = r.over
  BY <1>8
<1>10. scans \in SUBSET Cursors /\ Begun(scans, n)
  <2>1. c \in Nat /\ c < n /\ << >> \in Seq(Byte)
    BY <1>1
  <2>2. \A t \in Terminal : [terminal |-> t, start |-> c, cursor |-> << >>] \in Cursors
    BY <2>1 DEF Cursors
  <2>3. \A s \in created : s \in Cursors /\ s.start < n
    BY <2>1, <2>2
  <2>4. IsFiniteSet(created)
    <3> DEFINE W == {t \in Terminal : AllWaiters(r, c, t) # << >>}
               start(t) == [terminal |-> t, start |-> c, cursor |-> << >>]
               f == [t \in W |-> start(t)]
    <3>1. IsFiniteSet(W)
      BY TerminalsAreFinite, FS_Subset
    <3>2. f \in Surjection(W, created)
      <4>1. created = {start(t) : t \in W}
        OBVIOUS
      <4> HIDE DEF W, start, created
      <4> QED BY <4>1 DEF Surjection
    <3> HIDE DEF W, f, created
    <3> QED BY <3>1, <3>2, FS_Surjection
  <2>5. IsFiniteSet(scans)
    <3> HIDE DEF created
    <3> QED BY <2>4, FS_Union DEF Begun
  <2> HIDE DEF created, n
  <2> QED BY <2>3, <2>5 DEF Begun, n
<1>11. count \in Nat /\ count <= limits.leo /\ count = LeoTotal(chart)
  <2> DEFINE x == r.leoItems
             w == limits.leo
             y == LeoTotal(chart)
  <2>1. x \in Nat /\ w \in Nat /\ x = LeoTotal(r.chart)
    BY <1>1 DEF Recognizer, LimitSet, Core, InBudget
  <2>2. count = y
    BY <1>7, <2>1
  <2>3. y \in Nat
    <3> HIDE DEF chart
    <3> QED BY <1>5, <1>6, TotalsOfAppend
  <2> HIDE DEF x, y, w, count
  <2> QED BY <1>4, <2>1, <2>2, <2>3 DEF w, y
<1>12. IsChart(grammar, leo, chart)
  <2>1. IsColumn(grammar, leo, n - 1, column)
    <3>1. IsColumn(grammar, leo, n - 1, r.chart[n])
      BY <1>1 DEF Core, IsChart
    <3> QED BY <1>3, <1>5, <3>1 DEF IsColumn
  <2>2. ASSUME NEW k \in 1..n
        PROVE  IsColumn(grammar, leo, k - 1, chart[k])
    <3>1. CASE k = n
      BY <2>1, <3>1, <1>6
    <3>2. CASE k # n
      <4>1. k \in 1..n - 1
        BY <1>1, <3>2
      <4> HIDE DEF chart
      <4> QED BY <4>1, <1>6 DEF Core, IsChart
    <3> QED BY <3>1, <3>2
  <2> HIDE DEF chart
  <2> QED BY <1>1, <1>6, <2>2 DEF IsChart
<1>13. c \in Nat /\ r.total \in Nat /\ r.over \in BOOLEAN
  BY <1>1 DEF Recognizer
<1>14. Cardinality(scans) <= limits.scans
  <2> DEFINE x == Cardinality(scans)
             w == limits.scans
  <2>1. x \in Nat /\ w \in Nat /\ ~(x > w)
    <3>1. IsFiniteSet(scans)
      BY <1>10 DEF Begun
    <3>2. x \in Nat
      BY <3>1, FS_CardinalityType
    <3> QED BY <3>2, <1>4 DEF LimitSet
  <2> HIDE DEF x, w
  <2>2. x <= w
    BY <2>1
  <2> QED BY <2>2 DEF x, w
<1> HIDE DEF chart, scans, count, c
<1>15. q \in Recognizer
  BY <1>6, <1>8, <1>10, <1>11, <1>13 DEF Recognizer
<1>16. InBudget(limits, q)
  BY <1>7, <1>9, <1>11, <1>14 DEF InBudget, Core
<1>17. Core(grammar, leo, limits, q)
  BY <1>1, <1>6, <1>9, <1>10, <1>12, <1>15, <1>16 DEF Core
<1>18. AgreeTo(q, r, n - 1)
  <2>1. n - 1 <= n
    BY <1>1
  <2> QED BY <1>6, <1>9, <2>1 DEF AgreeTo
<1>19. q.chart[n].items = r.chart[n].items /\ q.chart[n].leo = found
  BY <1>5, <1>6, <1>9
<1> QED BY <1>6, <1>9, <1>17, <1>18, <1>19, <1>20, <1>21, <1>22, <1>24 DEF q

\* The completed items of the k-th column have moved all that waited for them.
ClosedAt(g, chart, k) ==
  \A item \in ToSet(chart[k].items) :
    IsDone(g, item) =>
      \A w \in ToSet(chart[item.origin + 1].items) :
        Waits(g, w, LhsIn(g, item)) => Advanced(w) \in ToSet(chart[k].items)

\* Of the last column the first n items have been worked off.  A completion that
\* began in this column has moved those of them that wait for it, and not yet the
\* items that come later.
PassedAt(g, chart, n, i) ==
  LET N == Len(chart)
      items == chart[N].items
      item == items[i]
      added == ToSet(items)
  IN IsDone(g, item) =>
       /\ item.origin < N - 1 =>
            \A w \in ToSet(chart[item.origin + 1].items) :
              Waits(g, w, LhsIn(g, item)) => Advanced(w) \in added
       /\ item.origin = N - 1 =>
            \A j \in 1..n : Waits(g, items[j], LhsIn(g, item)) => Advanced(items[j]) \in added

Passed(g, chart, n) == \A i \in 1..n : PassedAt(g, chart, n, i)

\* Columns before q's are r's, and what is said of a column looks no further.
LEMMA ClosedKept ==
  ASSUME IsGrammar(grammar), NEW r, NEW q, NEW lo, IsChart(grammar, lo, r.chart),
         NEW m \in Nat, AgreeTo(q, r, m),
         NEW k \in 1..m, ClosedAt(grammar, r.chart, k)
  PROVE  ClosedAt(grammar, q.chart, k)
<1>1. q.chart[k] = r.chart[k] /\ k \in Nat /\ k - 1 \in Nat /\ k \in 1..Len(r.chart)
  <2> DEFINE n == Len(r.chart)
  <2>1. n \in Nat /\ m <= n
    BY DEF IsChart, AgreeTo
  <2> HIDE DEF n
  <2>2. k \in 1..n
    BY <2>1
  <2> QED BY <2>2 DEF AgreeTo, n
<1>2. ASSUME NEW item \in ToSet(r.chart[k].items)
      PROVE  q.chart[item.origin + 1] = r.chart[item.origin + 1]
  <2> DEFINE o == item.origin
  <2>1. MayHold(grammar, k - 1, item)
    BY <1>1 DEF IsChart, IsColumn, Holds
  <2>2. o \in Nat /\ o <= k - 1
    BY <1>1, <2>1, ItemTypes DEF MayHold
  <2> HIDE DEF o
  <2>3. o + 1 \in 1..m
    BY <1>1, <2>2
  <2>4. q.chart[o + 1] = r.chart[o + 1]
    BY <2>3 DEF AgreeTo
  <2> QED BY <2>4 DEF o
<1> QED BY <1>1, <1>2 DEF ClosedAt

\* When all are worked off the column is closed.
LEMMA PassedAll ==
  ASSUME IsGrammar(grammar), NEW r, NEW lo, IsChart(grammar, lo, r.chart),
         Passed(grammar, r.chart, Len(r.chart[Len(r.chart)].items))
  PROVE  ClosedAt(grammar, r.chart, Len(r.chart))
<1> DEFINE N == Len(r.chart)
           items == r.chart[N].items
           n == Len(items)
<1>1. N \in Nat /\ N >= 1 /\ N \in 1..N /\ r.chart \in Seq(Column)
  BY DEF IsChart
<1>2. items \in Seq(Item)
  <2> DEFINE all == r.chart
  <2>1. all \in Seq(Column) /\ Len(all) \in 1..Len(all)
    BY <1>1
  <2> HIDE DEF all
  <2>2. all[Len(all)] \in Column
    BY <2>1
  <2> QED BY <2>2 DEF all, Column
<1>3. \A w : w \in ToSet(items) <=> \E i \in 1..n : w = items[i]
  <2> HIDE DEF items
  <2>1. DOMAIN items = 1..n
    BY <1>2
  <2> QED BY <2>1 DEF ToSet
<1>4. ASSUME NEW i \in 1..n, IsDone(grammar, items[i]),
             NEW w \in ToSet(r.chart[items[i].origin + 1].items),
             Waits(grammar, w, LhsIn(grammar, items[i]))
      PROVE  Advanced(w) \in ToSet(items)
  <2> DEFINE item == items[i]
             o == item.origin
  <2>1. item \in ToSet(items)
    BY <1>3
  <2>2. MayHold(grammar, N - 1, item) /\ N - 1 \in Nat
    BY <1>1, <2>1 DEF IsChart, IsColumn, Holds
  <2>3. o \in Nat /\ o <= N - 1
    BY <2>2, ItemTypes DEF MayHold
  <2>4. PassedAt(grammar, r.chart, n, i)
    BY DEF Passed
  <2>5. CASE o < N - 1
    BY <1>4, <2>4, <2>5 DEF PassedAt
  <2>6. CASE o = N - 1
    <3>1. r.chart[o + 1].items = items
      BY <1>1, <2>6
    <3>2. \E j \in 1..n : w = items[j]
      BY <1>3, <1>4, <3>1
    <3> QED BY <1>4, <2>4, <2>6, <3>2 DEF PassedAt
  <2>7. o < N - 1 \/ o = N - 1
    <3> HIDE DEF o, N
    <3> QED BY <1>1, <2>3
  <2> QED BY <2>5, <2>6, <2>7
<1> HIDE DEF items, n
<1> QED BY <1>3, <1>4 DEF ClosedAt, items

\* The next item of the agenda.  Of the completions before it that began in this
\* column each is empty, so that an item that waits for one waits for a nullable
\* nonterminal, and moves by itself.
LEMMA PassedNext ==
  ASSUME IsGrammar(grammar), NEW r, Core(grammar, FALSE, limits, r), NEW q,
         NEW n \in Nat, n + 1 <= Len(r.chart[Len(r.chart)].items),
         Passed(grammar, r.chart, n), Grows(q, r), Effects(grammar, r, n + 1, q)
  PROVE  Passed(grammar, q.chart, n + 1)
<1> DEFINE N == Len(r.chart)
           c == N - 1
           items == r.chart[N].items
           more == q.chart[N].items
           L == Len(items)
<1>1. N \in Nat /\ N >= 1 /\ N \in 1..N /\ r.chart \in Seq(Column) /\ c \in Nat /\ c + 1 = N
  BY DEF Core, IsChart
<1>2. items \in Seq(Item)
  <2> DEFINE all == r.chart
  <2>1. all \in Seq(Column) /\ Len(all) \in 1..Len(all)
    BY <1>1
  <2> HIDE DEF all
  <2>2. all[Len(all)] \in Column
    BY <2>1
  <2> QED BY <2>2 DEF all, Column
<1>3. /\ Len(q.chart) = N
      /\ \A k \in 1..N - 1 : q.chart[k] = r.chart[k]
      /\ Extends(more, items)
  BY DEF Grows
<1>4. L \in Nat /\ n + 1 <= L /\ (n + 1) \in 1..L /\ \A i \in 1..n : i \in 1..L
  <2>1. L \in Nat /\ n + 1 <= L
    BY <1>2
  <2> HIDE DEF L
  <2> QED BY <2>1
<1>5. \A i \in 1..L : more[i] = items[i]
  BY <1>3 DEF Extends
<1>6. ToSet(items) \subseteq ToSet(more)
  <2>1. more \in Seq(Item) /\ L <= Len(more)
    BY <1>3 DEF Extends
  <2> HIDE DEF items, more, L
  <2>2. DOMAIN items = 1..L /\ DOMAIN more = 1..Len(more) /\ Len(more) \in Nat
    BY <1>2, <2>1 DEF L
  <2>3. \A i \in 1..L : i \in 1..Len(more)
    BY <1>4, <2>1, <2>2
  <2> QED BY <1>5, <2>2, <2>3 DEF ToSet
<1>7. ASSUME NEW i \in 1..L
      PROVE  /\ items[i] \in ToSet(items)
             /\ MayHold(grammar, c, items[i]) /\ OwnIsEmpty(grammar, c, items[i])
             /\ items[i].origin \in Nat /\ items[i].origin <= c
  <2>1. items[i] \in ToSet(items)
    <3> HIDE DEF items
    <3> QED BY <1>2 DEF ToSet, L
  <2>2. Holds(grammar, FALSE, c, items[i])
    BY <1>1, <2>1 DEF Core, IsChart, IsColumn
  <2>3. MayHold(grammar, c, items[i]) /\ OwnIsEmpty(grammar, c, items[i])
    BY <2>2 DEF Holds
  <2> HIDE DEF c, items
  <2> QED BY <1>1, <2>1, <2>3, ItemTypes DEF MayHold
<1>8. \A i \in 1..L : items[i].origin < N - 1 =>
        q.chart[items[i].origin + 1] = r.chart[items[i].origin + 1]
  <2> SUFFICES ASSUME NEW i \in 1..L, items[i].origin < N - 1
               PROVE  q.chart[items[i].origin + 1] = r.chart[items[i].origin + 1]
    OBVIOUS
  <2> DEFINE o == items[i].origin
  <2>1. o \in Nat /\ o < N - 1
    BY <1>7
  <2> HIDE DEF o, N
  <2>2. o + 1 \in 1..N - 1
    BY <1>1, <2>1
  <2>3. q.chart[o + 1] = r.chart[o + 1]
    BY <1>3, <2>2
  <2> QED BY <2>3 DEF o
\* An item that the completion i of this column completes.
<1>9. ASSUME NEW i \in 1..n, IsDone(grammar, items[i]), items[i].origin = c,
             Waits(grammar, items[n + 1], LhsIn(grammar, items[i]))
      PROVE  Advanced(items[n + 1]) \in ToSet(more)
  <2> DEFINE lhs == LhsIn(grammar, items[i])
  <2>1. lhs \in Nullable(grammar) \/ lhs = Augmented
    BY <1>1, <1>4, <1>7, <1>9, EmptyIsNullable
  <2>2. lhs # Augmented
    BY <1>1, <1>4, <1>7, <1>9, NothingWaitsForStart
  <2>3. \A X \in Nullable(grammar) : Waits(grammar, items[n + 1], X) => Advanced(items[n + 1]) \in ToSet(more)
    BY DEF Effects
  <2> QED BY <1>9, <2>1, <2>2, <2>3
<1>10. \A j \in 1..n + 1 : j \in 1..n \/ j = n + 1
  OBVIOUS
<1> HIDE DEF L
<1>11. ASSUME NEW i \in 1..n
       PROVE  PassedAt(grammar, q.chart, n + 1, i)
  <2>1. PassedAt(grammar, r.chart, n, i)
    BY DEF Passed
  <2>2. i \in 1..L /\ more[i] = items[i] /\ \A j \in 1..n + 1 : more[j] = items[j]
    BY <1>4, <1>5, <1>10
  <2> DEFINE item == items[i]
             lhs == LhsIn(grammar, item)
  <2>3. ASSUME IsDone(grammar, item), item.origin < N - 1,
               NEW w \in ToSet(r.chart[item.origin + 1].items), Waits(grammar, w, lhs)
        PROVE  Advanced(w) \in ToSet(more)
    BY <2>1, <2>3, <1>6 DEF PassedAt
  <2>4. ASSUME IsDone(grammar, item), item.origin = N - 1,
               NEW j \in 1..n + 1, Waits(grammar, items[j], lhs)
        PROVE  Advanced(items[j]) \in ToSet(more)
    <3>1. CASE j \in 1..n
      <4>1. Advanced(items[j]) \in ToSet(items)
        BY <2>1, <2>4, <3>1 DEF PassedAt
      <4> QED BY <4>1, <1>6
    <3>2. CASE j = n + 1
      BY <2>4, <3>2, <1>9
    <3> QED BY <3>1, <3>2, <1>10
  <2> HIDE DEF items, more, N
  <2> QED BY <2>2, <2>3, <2>4, <1>3, <1>8 DEF PassedAt, more
<1>12. PassedAt(grammar, q.chart, n + 1, n + 1)
  <2>1. n + 1 \in 1..L /\ more[n + 1] = items[n + 1] /\ \A j \in 1..n + 1 : more[j] = items[j]
    BY <1>4, <1>5, <1>10
  <2> DEFINE item == items[n + 1]
             lhs == LhsIn(grammar, item)
  <2>3. ASSUME IsDone(grammar, item), item.origin < N - 1,
               NEW w \in ToSet(r.chart[item.origin + 1].items), Waits(grammar, w, lhs)
        PROVE  Advanced(w) \in ToSet(more)
    BY <2>3 DEF Effects
  <2>4. ASSUME IsDone(grammar, item), item.origin = N - 1,
               NEW j \in 1..n + 1, Waits(grammar, items[j], lhs)
        PROVE  Advanced(items[j]) \in ToSet(more)
    BY <2>4 DEF Effects
  <2> HIDE DEF items, more, N
  <2> QED BY <2>1, <2>3, <2>4, <1>3, <1>8 DEF PassedAt, more
<1> QED BY <1>10, <1>11, <1>12 DEF Passed

-----------------------------------------------------------------------------
(***************************************************************************)
(* Between calls, and within one.                                          *)
(***************************************************************************)

\* Every column is worked off.
Settled(g, lo, lim, r) ==
  /\ Core(g, lo, lim, r)
  /\ ~lo => \A k \in 1..Len(r.chart) : ClosedAt(g, r.chart, k)

\* Every column but the last, of which the first n items are.
Filling(g, lo, lim, r, n) ==
  LET last == r.chart[Len(r.chart)]
  IN /\ Core(g, lo, lim, r)
     /\ last.leo = << >>
     /\ n <= Len(last.items)
     /\ ~lo => /\ \A k \in 1..Len(r.chart) - 1 : ClosedAt(g, r.chart, k)
               /\ Passed(g, r.chart, n)

Checkpoints == [columns : Nat, scans : SUBSET Cursors, position : Nat, total : Nat, leoItems : Nat]

\* The caller's checkpoints, of which the last is of at most m columns, each lead r
\* back to a recognizer between calls; a later one keeps what an earlier one needs.
AreSaved(g, lo, lim, checkpoints, r, m) ==
  /\ checkpoints \in Seq([checkpoint : Checkpoints, text : Seq(Byte)])
  /\ \A i \in 1..Len(checkpoints) :
       /\ checkpoints[i].checkpoint.columns <= m
       /\ Settled(g, lo, lim, Restore(r, checkpoints[i].checkpoint))
       /\ \A j \in 1..i : checkpoints[j].checkpoint.columns <= checkpoints[i].checkpoint.columns

Calls ==
  [at : {"byte", "saturate"}, agenda : Nat, running : SUBSET Cursors, rest : Seq(Byte),
   chunk : Seq(Byte), entry : Seq(Checkpoints), before : Recognizer \cup {<< >>}]

\* The call x under way, of which r is the recognizer.
InCall(g, lo, lim, checkpoints, r, x) ==
  /\ x \in Calls
  /\ x.at = "byte" => Settled(g, lo, lim, r)
  /\ x.at = "saturate" => Filling(g, lo, lim, r, x.agenda) /\ Begun(x.running, Len(r.chart))
  /\ IF x.entry = << >> THEN x.at = "saturate" /\ checkpoints = << >>
     ELSE LET m == Len(x.before.chart)
          IN /\ x.entry = <<Checkpoint(x.before)>>
             /\ Settled(g, lo, lim, x.before)
             /\ AgreeTo(x.before, r, m)
             /\ x.at = "saturate" => m < Len(r.chart)
             /\ AreSaved(g, lo, lim, checkpoints, r, m)

Refused == [at |-> "refused"]

EarleyInv ==
  /\ grammar \in Grammars /\ leo \in BOOLEAN /\ limits \in Limits
  /\ text \in Seq(Byte)
  /\ reply \in {"none", "live", "accepting", "rejected", "limit"}
  /\ \/ call = Idle /\ Settled(grammar, leo, limits, rec)
                    /\ AreSaved(grammar, leo, limits, saved, rec, Len(rec.chart))
     \/ call = Refused /\ Core(grammar, leo, limits, rec)
     \/ InCall(grammar, leo, limits, saved, rec, call)

\* The constants' assumptions.
LEMMA Assumed ==
  ASSUME grammar \in Grammars, limits \in Limits
  PROVE  IsGrammar(grammar) /\ limits \in LimitSet
  BY EarleyAssumption DEF LimitSet

\* A recognizer goes back to what it was when the checkpoint was taken.
LEMMA RestoreOwn ==
  ASSUME NEW r \in Recognizer, ~r.over
  PROVE  /\ Restore(r, Checkpoint(r)) = r
         /\ Checkpoint(r) \in Checkpoints
         /\ Checkpoint(r).columns = Len(r.chart)
<1> DEFINE all == r.chart
<1>1. all \in Seq(Column) /\ Len(all) \in Nat /\ SubSeq(all, 1, Len(all)) = all
  BY DEF Recognizer
<1>2. r = [chart |-> all, scans |-> r.scans, position |-> r.position, total |-> r.total,
           leoItems |-> r.leoItems, over |-> FALSE]
  <2>1. r.over = FALSE
    BY DEF Recognizer
  <2> QED BY <2>1 DEF Recognizer
<1>3. Checkpoint(r) = [columns |-> Len(all), scans |-> r.scans, position |-> r.position,
                       total |-> r.total, leoItems |-> r.leoItems]
  BY DEF Checkpoint
<1>4. Checkpoint(r) \in Checkpoints
  BY <1>1, <1>3 DEF Checkpoints, Recognizer
<1> HIDE DEF all
<1>5. Restore(r, Checkpoint(r)) = r
  BY <1>1, <1>2, <1>3 DEF Restore, all
<1> QED BY <1>3, <1>4, <1>5 DEF all

\* A checkpoint of no more columns than two recognizers share leads both to the same.
LEMMA RestoreAgrees ==
  ASSUME NEW q, NEW r, q.chart \in Seq(Column), r.chart \in Seq(Column),
         NEW m \in Nat, AgreeTo(q, r, m), NEW x, x.columns \in Nat, x.columns <= m
  PROVE  Restore(q, x) = Restore(r, x)
<1> DEFINE a == q.chart
           b == r.chart
           k == x.columns
<1>1. /\ a \in Seq(Column) /\ b \in Seq(Column) /\ k \in Nat /\ k <= Len(a) /\ k <= Len(b)
      /\ \A c \in 1..k : a[c] = b[c]
  <2>1. m <= Len(a) /\ m <= Len(b) /\ \A c \in 1..m : a[c] = b[c]
    BY DEF AgreeTo
  <2>2. a \in Seq(Column) /\ b \in Seq(Column) /\ k \in Nat /\ k <= m
    OBVIOUS
  <2> HIDE DEF a, b, k
  <2>3. \A c \in 1..k : c \in 1..m
    BY <2>2
  <2> QED BY <2>1, <2>2, <2>3
<1> HIDE DEF a, b, k
<1>2. SubSeq(a, 1, k) = SubSeq(b, 1, k)
  <2>1. /\ SubSeq(a, 1, k) \in Seq(Column) /\ Len(SubSeq(a, 1, k)) = k
        /\ \A c \in 1..k : SubSeq(a, 1, k)[c] = a[c]
    BY <1>1
  <2>2. /\ SubSeq(b, 1, k) \in Seq(Column) /\ Len(SubSeq(b, 1, k)) = k
        /\ \A c \in 1..k : SubSeq(b, 1, k)[c] = b[c]
    BY <1>1
  <2> DEFINE s == SubSeq(a, 1, k)
             t == SubSeq(b, 1, k)
  <2>3. \A c \in 1..k : s[c] = t[c]
    BY <2>1, <2>2, <1>1
  <2> HIDE DEF s, t
  <2>4. s = t
    BY <2>1, <2>2, <2>3 DEF s, t
  <2> QED BY <2>4 DEF s, t
<1> QED BY <1>2 DEF Restore, a, b, k

\* So saved checkpoints stay good while the columns they need stay.
LEMMA SavedAgree ==
  ASSUME NEW g, NEW lo, NEW lim, NEW checkpoints, NEW q, NEW r,
         q.chart \in Seq(Column), r.chart \in Seq(Column), NEW m \in Nat, AgreeTo(q, r, m),
         AreSaved(g, lo, lim, checkpoints, r, m)
  PROVE  AreSaved(g, lo, lim, checkpoints, q, m)
<1>1. ASSUME NEW i \in 1..Len(checkpoints)
      PROVE  Settled(g, lo, lim, Restore(q, checkpoints[i].checkpoint))
  <2> DEFINE x == checkpoints[i].checkpoint
  <2>1. x \in Checkpoints
    <3> DEFINE T == [checkpoint : Checkpoints, text : Seq(Byte)]
    <3>1. checkpoints \in Seq(T)
      BY DEF AreSaved
    <3>2. checkpoints[i] \in T
      <4> HIDE DEF T
      <4> QED BY <3>1
    <3> QED BY <3>2
  <2>2. x.columns \in Nat /\ x.columns <= m
    BY <2>1 DEF AreSaved, Checkpoints
  <2>3. Settled(g, lo, lim, Restore(r, x))
    BY DEF AreSaved
  <2> HIDE DEF x
  <2>4. Restore(q, x) = Restore(r, x)
    BY <2>2, RestoreAgrees
  <2> QED BY <2>3, <2>4 DEF x
<1> QED BY <1>1 DEF AreSaved

\* What a checkpoint leads to, in the columns it needs.
LEMMA RestoreShares ==
  ASSUME NEW r, r.chart \in Seq(Column), NEW x \in Checkpoints, x.columns <= Len(r.chart)
  PROVE  AgreeTo(Restore(r, x), r, x.columns) /\ Len(Restore(r, x).chart) = x.columns
<1> DEFINE a == r.chart
           k == x.columns
<1>1. a \in Seq(Column) /\ k \in Nat /\ k <= Len(a)
  BY DEF Checkpoints
<1>2. Restore(r, x).chart = SubSeq(a, 1, k)
  BY DEF Restore
<1> HIDE DEF a, k
<1>3. Len(SubSeq(a, 1, k)) = k /\ \A c \in 1..k : SubSeq(a, 1, k)[c] = a[c]
  BY <1>1
<1>4. k <= k
  BY <1>1
<1> QED BY <1>1, <1>2, <1>3, <1>4 DEF AgreeTo, a, k

\* Fewer columns are shared too.
LEMMA AgreeLess ==
  ASSUME NEW q, NEW r, q.chart \in Seq(Column), r.chart \in Seq(Column),
         NEW k \in Nat, AgreeTo(q, r, k), NEW m \in Nat, m <= k
  PROVE  AgreeTo(q, r, m)
<1> DEFINE a == Len(q.chart)
           b == Len(r.chart)
<1>1. a \in Nat /\ b \in Nat /\ k <= a /\ k <= b
  BY DEF AgreeTo
<1> HIDE DEF a, b
<1>2. m <= a /\ m <= b /\ \A c \in 1..m : c \in 1..k
  BY <1>1
<1> QED BY <1>2 DEF AgreeTo, a, b

\* Within a call the recognizer has what the budgets and the chart promise.
LEMMA InCallCore ==
  ASSUME InCall(grammar, leo, limits, saved, rec, call)
  PROVE  /\ Core(grammar, leo, limits, rec) /\ rec \in Recognizer
         /\ rec.chart \in Seq(Column) /\ Len(rec.chart) \in Nat /\ Len(rec.chart) >= 1
         /\ call \in Calls /\ call.at \in {"byte", "saturate"}
<1>1. call \in Calls /\ call.at \in {"byte", "saturate"}
  BY DEF InCall, Calls
<1>2. Core(grammar, leo, limits, rec)
  BY <1>1 DEF InCall, Settled, Filling
<1> QED BY <1>1, <1>2 DEF Core, IsChart

\* A step within a call that leaves the first k columns as they are.
LEMMA GoesOn ==
  ASSUME InCall(grammar, leo, limits, saved, rec, call),
         NEW q \in Recognizer, NEW k \in Nat, AgreeTo(q, rec, k),
         call.at = "byte" => k = Len(rec.chart),
         call.at = "saturate" => k = Len(rec.chart) - 1,
         NEW y \in Calls, y.entry = call.entry, y.before = call.before,
         y.at = "byte" => Settled(grammar, leo, limits, q) /\ y.entry # << >>,
         y.at = "saturate" => /\ Filling(grammar, leo, limits, q, y.agenda)
                              /\ Begun(y.running, Len(q.chart))
                              /\ k < Len(q.chart)
  PROVE  InCall(grammar, leo, limits, saved, q, y)
<1>1. /\ rec.chart \in Seq(Column) /\ Len(rec.chart) \in Nat
      /\ call.at \in {"byte", "saturate"} /\ y.at \in {"byte", "saturate"}
  BY InCallCore DEF Calls
<1>2. q.chart \in Seq(Column) /\ Len(q.chart) \in Nat
  BY DEF Recognizer
<1>3. CASE y.entry = << >>
  BY <1>1, <1>3 DEF InCall
<1>4. CASE y.entry # << >>
  <2> DEFINE m == Len(call.before.chart)
             n == Len(rec.chart)
  <2>1. /\ call.entry = <<Checkpoint(call.before)>>
        /\ Settled(grammar, leo, limits, call.before)
        /\ AgreeTo(call.before, rec, m)
        /\ call.at = "saturate" => m < n
        /\ AreSaved(grammar, leo, limits, saved, rec, m)
    BY <1>4 DEF InCall
  <2>2. call.before.chart \in Seq(Column) /\ m \in Nat
    BY <2>1 DEF Settled, Core, Recognizer
  <2>3. m <= n
    BY <2>1 DEF AgreeTo
  <2>4. m <= k
    <3> HIDE DEF m, n
    <3>1. call.at = "byte" => k = n
      BY DEF n
    <3>2. call.at = "saturate" => k = n - 1
      BY DEF n
    <3>3. n \in Nat
      BY <1>1 DEF n
    <3> QED BY <1>1, <2>1, <2>2, <2>3, <3>1, <3>2, <3>3
  <2>5. AgreeTo(q, rec, m)
    <3> HIDE DEF m
    <3> QED BY <1>1, <1>2, <2>2, <2>4, AgreeLess
  <2>6. AgreeTo(call.before, q, m)
    BY <2>1, <2>5 DEF AgreeTo
  <2>7. AreSaved(grammar, leo, limits, saved, q, m)
    <3> HIDE DEF m
    <3> QED BY <1>1, <1>2, <2>1, <2>2, <2>5, SavedAgree
  <2>8. y.at = "saturate" => m < Len(q.chart)
    <3> DEFINE l == Len(q.chart)
    <3>1. l \in Nat /\ (y.at = "saturate" => k < l)
      BY <1>2
    <3> HIDE DEF m, l
    <3>2. y.at = "saturate" => m < l
      BY <2>2, <2>4, <3>1
    <3> QED BY <3>2 DEF l
  <2> QED BY <1>1, <1>4, <2>1, <2>6, <2>7, <2>8 DEF InCall
<1> QED BY <1>3, <1>4

\* The construction begins.
LEMMA InitKeeps == Init => EarleyInv
<1> SUFFICES ASSUME Init
             PROVE  EarleyInv
  OBVIOUS
<1> DEFINE r == InsertAll(Blank, <<StartItem>>)
           refused == limits.columns < 1 \/ r.over
           begun == [at |-> "saturate", agenda |-> 0, running |-> {}, rest |-> << >>,
                     chunk |-> << >>, entry |-> << >>, before |-> << >>]
<1>1. /\ grammar \in Grammars /\ leo \in BOOLEAN /\ limits \in Limits
      /\ rec = (IF refused THEN Blank ELSE r)
      /\ call = (IF refused THEN Refused ELSE begun)
      /\ reply = (IF refused THEN "limit" ELSE "none")
      /\ text = << >> /\ saved = << >>
  BY DEF Init, Refused
<1>2. IsGrammar(grammar) /\ limits \in LimitSet
  BY <1>1, Assumed
<1>3. text \in Seq(Byte) /\ reply \in {"none", "live", "accepting", "rejected", "limit"}
  <2> HIDE DEF refused
  <2> QED BY <1>1
<1>4. Core(grammar, leo, limits, Blank)
  BY <1>2, BlankCore
<1>5. CASE refused
  BY <1>1, <1>3, <1>4, <1>5 DEF EarleyInv
<1>6. CASE ~refused
  <2>1. StartItem \in Item /\ Holds(grammar, leo, 0, StartItem)
    BY <1>2, StartHolds
  <2>2. /\ Len(Blank.chart) = 1 /\ Blank.chart[1] = NewColumn
        /\ NewColumn.leo = << >>
    BY DEF Blank, NewColumn
  <2> HIDE DEF r
  <2>3. Core(grammar, leo, limits, r) /\ Grows(r, Blank)
    <3>1. <<StartItem>> \in Seq(Item) /\ ToSet(<<StartItem>>) = {StartItem}
      BY <2>1 DEF ToSet
    <3>2. \A x \in ToSet(<<StartItem>>) : Holds(grammar, leo, Len(Blank.chart) - 1, x)
      BY <2>1, <2>2, <3>1
    <3>3. ~InsertAll(Blank, <<StartItem>>).over
      BY <1>6 DEF r
    <3> QED BY <1>2, <1>4, <3>1, <3>2, <3>3, InsertAllKeeps DEF r
  <2>4. Len(r.chart) = 1 /\ r.chart[1].leo = << >> /\ r.chart[1].items \in Seq(Item)
    BY <2>2, <2>3 DEF Grows, Extends
  <2>5. Filling(grammar, leo, limits, r, 0)
    <3> DEFINE items == r.chart[1].items
    <3>1. 0 <= Len(items)
      <4>1. items \in Seq(Item)
        BY <2>4
      <4> HIDE DEF items
      <4> QED BY <4>1
    <3>2. \A k \in 1..1 - 1 : FALSE
      OBVIOUS
    <3>3. Passed(grammar, r.chart, 0)
      BY DEF Passed
    <3> QED BY <2>3, <2>4, <3>1, <3>2, <3>3 DEF Filling
  <2>6. begun \in Calls /\ Begun({}, 1)
    BY FS_EmptySet DEF Calls, Begun
  <2>7. InCall(grammar, leo, limits, saved, r, begun)
    BY <1>1, <2>4, <2>5, <2>6 DEF InCall
  <2> QED BY <1>1, <1>3, <1>6, <2>7 DEF EarleyInv
<1> QED BY <1>5, <1>6

\* A call begins.
LEMMA TryAdvanceKeeps ==
  ASSUME EarleyInv, NEW chunk \in Chunk, TryAdvance(chunk)
  PROVE  EarleyInv'
<1> DEFINE y == [at |-> "byte", agenda |-> 0, running |-> {}, rest |-> chunk,
                 chunk |-> chunk, entry |-> <<Checkpoint(rec)>>, before |-> rec]
<1>1. /\ call = Idle /\ call' = y /\ reply' = "none"
      /\ UNCHANGED <<grammar, leo, limits, rec, text, saved>>
  BY DEF TryAdvance
<1>2. /\ Settled(grammar, leo, limits, rec)
      /\ AreSaved(grammar, leo, limits, saved, rec, Len(rec.chart))
  BY <1>1 DEF EarleyInv, Idle, Refused, InCall, Calls
<1>3. rec \in Recognizer /\ ~rec.over /\ rec.chart \in Seq(Column) /\ Len(rec.chart) \in Nat
  BY <1>2 DEF Settled, Core, IsChart
<1>4. chunk \in Seq(Byte)
  BY EarleyAssumption
<1>5. y \in Calls
  BY <1>3, <1>4, RestoreOwn DEF Calls
<1>6. AgreeTo(rec, rec, Len(rec.chart))
  BY <1>3 DEF AgreeTo
<1>7. InCall(grammar, leo, limits, saved, rec, y)
  BY <1>2, <1>5, <1>6 DEF InCall
<1> QED BY <1>1, <1>7 DEF EarleyInv

\* A failed call goes back to the recognizer it found, or refuses construction.
LEMMA FailRestores ==
  ASSUME InCall(grammar, leo, limits, saved, rec, call), NEW out, Fail(out)
  PROVE  IF call.entry = << >> THEN rec' = rec /\ call' = Refused
         ELSE rec' = call.before /\ call' = Idle
<1>1. CASE call.entry = << >>
  BY <1>1 DEF Fail, Refused
<1>2. CASE call.entry # << >>
  <2> DEFINE b == call.before
             x == Checkpoint(b)
             m == Len(b.chart)
  <2>1. /\ call.entry = <<x>> /\ Settled(grammar, leo, limits, b) /\ AgreeTo(b, rec, m)
    BY <1>2 DEF InCall
  <2>2. b \in Recognizer /\ ~b.over /\ b.chart \in Seq(Column) /\ m \in Nat
    BY <2>1 DEF Settled, Core, IsChart
  <2>3. rec.chart \in Seq(Column)
    BY InCallCore
  <2>4. Restore(b, x) = b /\ x.columns = m
    BY <2>2, RestoreOwn
  <2>5. Restore(b, x) = Restore(rec, x)
    <3>1. x.columns \in Nat /\ x.columns <= m
      BY <2>2, <2>4
    <3> HIDE DEF b, x, m
    <3> QED BY <2>1, <2>2, <2>3, <3>1, RestoreAgrees
  <2>6. rec' = Restore(rec, x) /\ call' = Idle
    BY <1>2, <2>1 DEF Fail
  <2> QED BY <1>2, <2>4, <2>5, <2>6
<1> QED BY <1>1, <1>2

\* A failed call leaves a recognizer at rest, or refused.
LEMMA FailKeeps ==
  ASSUME EarleyInv, InCall(grammar, leo, limits, saved, rec, call),
         NEW out \in {"rejected", "limit"}, Fail(out)
  PROVE  EarleyInv'
<1>1. UNCHANGED <<grammar, leo, limits, text, saved>> /\ reply' = out
  BY DEF Fail
<1>2. CASE call.entry = << >>
  <2>1. rec' = rec /\ call' = Refused
    BY <1>2, FailRestores
  <2>2. Core(grammar, leo, limits, rec)
    BY InCallCore
  <2> QED BY <1>1, <2>1, <2>2 DEF EarleyInv
<1>3. CASE call.entry # << >>
  <2> DEFINE b == call.before
             m == Len(b.chart)
  <2>1. rec' = b /\ call' = Idle
    BY <1>3, FailRestores
  <2>2. /\ Settled(grammar, leo, limits, b) /\ AgreeTo(b, rec, m)
        /\ AreSaved(grammar, leo, limits, saved, rec, m)
    BY <1>3 DEF InCall
  <2>3. b.chart \in Seq(Column) /\ m \in Nat /\ rec.chart \in Seq(Column)
    BY <2>2, InCallCore DEF Settled, Core, IsChart
  <2>4. AreSaved(grammar, leo, limits, saved, b, m)
    <3> HIDE DEF b, m
    <3> QED BY <2>2, <2>3, SavedAgree
  <2> QED BY <1>1, <2>1, <2>2, <2>4 DEF EarleyInv
<1> QED BY <1>2, <1>3

\* What Continue makes of the call under way.
LEMMA ContinueResult ==
  ASSUME call \in Calls, NEW r, NEW at \in {"byte", "saturate"}, NEW agenda \in Nat,
         NEW running \in SUBSET Cursors, NEW rest \in Seq(Byte),
         Continue(r, at, agenda, running, rest)
  PROVE  /\ rec' = r
         /\ UNCHANGED <<grammar, leo, limits, reply, text, saved>>
         /\ call' \in Calls
         /\ call'.at = at /\ call'.agenda = agenda /\ call'.running = running
         /\ call'.entry = call.entry /\ call'.before = call.before
         /\ call'.chunk = call.chunk /\ call'.rest = rest
<1>1. call' = [call EXCEPT !.at = at, !.agenda = agenda, !.running = running, !.rest = rest]
  BY DEF Continue
<1> DEFINE y == [at |-> at, agenda |-> agenda, running |-> running, rest |-> rest,
                 chunk |-> call.chunk, entry |-> call.entry, before |-> call.before]
           a == [call EXCEPT !.at = at]
           b == [a EXCEPT !.agenda = agenda]
           c == [b EXCEPT !.running = running]
           d == [c EXCEPT !.rest = rest]
<1>2. call' = d
  BY <1>1
<1>3. a = [at |-> at, agenda |-> call.agenda, running |-> call.running, rest |-> call.rest,
           chunk |-> call.chunk, entry |-> call.entry, before |-> call.before]
  BY DEF Calls
<1> HIDE DEF a
<1>4. b = [at |-> at, agenda |-> agenda, running |-> call.running, rest |-> call.rest,
           chunk |-> call.chunk, entry |-> call.entry, before |-> call.before]
  BY <1>3
<1> HIDE DEF b
<1>5. c = [at |-> at, agenda |-> agenda, running |-> running, rest |-> call.rest,
           chunk |-> call.chunk, entry |-> call.entry, before |-> call.before]
  BY <1>4
<1> HIDE DEF c
<1>6. d = y
  BY <1>5
<1>7. y \in Calls
  BY DEF Calls
<1>8. /\ y.at = at /\ y.agenda = agenda /\ y.running = running
      /\ y.entry = call.entry /\ y.before = call.before
      /\ y.chunk = call.chunk /\ y.rest = rest
  OBVIOUS
<1>9. call' = y
  BY <1>2, <1>6
<1> HIDE DEF y
<1> QED BY <1>7, <1>8, <1>9 DEF Continue

\* The cursors of the scans that a byte feeds.
LEMMA FedTypes ==
  ASSUME NEW scans \in SUBSET Cursors, NEW n, Begun(scans, n), NEW b \in Byte
  PROVE  Fed(scans, b) \subseteq Cursors /\ Begun(Fed(scans, b), n)
<1> DEFINE fed == {s \in scans : CanAdvance(s.terminal, s.cursor, b)}
           moved(s) == [s EXCEPT !.cursor = Append(@, b)]
           f == [s \in fed |-> moved(s)]
<1>1. Fed(scans, b) = {moved(s) : s \in fed}
  BY DEF Fed
<1>2. ASSUME NEW s \in scans
      PROVE  moved(s) \in Cursors /\ moved(s).start = s.start
  <2>1. s \in Cursors
    OBVIOUS
  <2>2. Append(s.cursor, b) \in Seq(Byte)
    BY <2>1 DEF Cursors
  <2> QED BY <2>1, <2>2 DEF Cursors
<1>3. IsFiniteSet(fed)
  BY FS_Subset DEF Begun
<1>4. f \in Surjection(fed, Fed(scans, b))
  <2> HIDE DEF fed, moved
  <2> QED BY <1>1 DEF Surjection
<1> HIDE DEF f
<1>5. IsFiniteSet(Fed(scans, b))
  <2> HIDE DEF fed
  <2> QED BY <1>3, <1>4, FS_Surjection
<1> HIDE DEF moved
<1> QED BY <1>1, <1>2, <1>5 DEF Begun

\* The beginning of a byte, or the end of the call.
LEMMA ScanKeeps ==
  ASSUME EarleyInv, InCall(grammar, leo, limits, saved, rec, call), Scan
  PROVE  EarleyInv'
<1> DEFINE n == Len(rec.chart)
<1>1. /\ grammar \in Grammars /\ leo \in BOOLEAN /\ limits \in Limits
      /\ text \in Seq(Byte) /\ reply \in {"none", "live", "accepting", "rejected", "limit"}
  BY DEF EarleyInv
<1>2. IsGrammar(grammar) /\ limits \in LimitSet
  BY <1>1, Assumed
<1>3. /\ Core(grammar, leo, limits, rec) /\ rec \in Recognizer /\ rec.chart \in Seq(Column)
      /\ n \in Nat /\ n >= 1 /\ call \in Calls
  BY InCallCore
<1>4. call.at = "byte"
  BY DEF Scan
<1>5. Settled(grammar, leo, limits, rec) /\ call.entry # << >>
  BY <1>4 DEF InCall
<1>c1. CASE call.rest = << >>
  <2>1. Succeed(rec)
    BY <1>4, <1>c1 DEF Scan
  <2>2. /\ rec' = rec /\ call' = Idle /\ text' = text \o call.chunk
        /\ reply' \in {"live", "accepting"}
        /\ UNCHANGED <<grammar, leo, limits, saved>>
    BY <2>1 DEF Succeed
  <2>3. text' \in Seq(Byte)
    <3>1. call.chunk \in Seq(Byte)
      BY <1>3 DEF Calls
    <3> QED BY <1>1, <2>2, <3>1
  <2>4. AreSaved(grammar, leo, limits, saved, rec, n)
    <3> DEFINE m == Len(call.before.chart)
    <3>1. AreSaved(grammar, leo, limits, saved, rec, m) /\ m <= n /\ m \in Nat
      BY <1>5 DEF InCall, Settled, Core, IsChart, AgreeTo
    <3> HIDE DEF m
    <3>2. \A i \in 1..Len(saved) : saved[i].checkpoint.columns <= n
      <4> SUFFICES ASSUME NEW i \in 1..Len(saved)
                   PROVE  saved[i].checkpoint.columns <= n
        OBVIOUS
      <4> DEFINE k == saved[i].checkpoint.columns
      <4>1. k <= m
        BY <3>1 DEF AreSaved
      <4>2. k \in Nat
        <5> DEFINE T == [checkpoint : Checkpoints, text : Seq(Byte)]
        <5>1. saved \in Seq(T)
          BY <3>1 DEF AreSaved
        <5>2. saved[i] \in T
          <6> HIDE DEF T
          <6> QED BY <5>1
        <5> QED BY <5>2 DEF Checkpoints
      <4> HIDE DEF k, n
      <4>3. k <= n
        BY <1>3, <3>1, <4>1, <4>2
      <4> QED BY <4>3 DEF k
    <3> QED BY <3>1, <3>2 DEF AreSaved
  <2> QED BY <1>1, <1>5, <2>2, <2>3, <2>4 DEF EarleyInv
<1>c2. CASE call.rest # << >>
  <2> DEFINE b == Head(call.rest)
             r == Scanned(rec, b)
             running == {s \in Fed(rec.scans, b) : IsLiveCursor(s.terminal, s.cursor)}
  <2>1. IF ~Fits(rec) \/ r.over THEN Fail("limit")
        ELSE Continue(r, "saturate", 0, running, Tail(call.rest))
    BY <1>c2 DEF Scan
  <2>2. CASE ~Fits(rec) \/ r.over
    <3>1. Fail("limit")
      BY <2>1, <2>2
    <3> QED BY <3>1, FailKeeps
  <2>3. CASE ~(~Fits(rec) \/ r.over)
    <3>1. b \in Byte /\ Tail(call.rest) \in Seq(Byte)
      <4> DEFINE rest == call.rest
      <4>1. rest \in Seq(Byte) /\ rest # << >>
        BY <1>3, <1>c2 DEF Calls
      <4> HIDE DEF rest
      <4>2. Head(rest) \in Byte /\ Tail(rest) \in Seq(Byte)
        BY <4>1
      <4> QED BY <4>2 DEF rest
    <3>2. /\ Core(grammar, leo, limits, r) /\ Len(r.chart) = n + 1
          /\ AgreeTo(r, rec, n) /\ r.chart[n + 1].leo = << >>
      BY <1>1, <1>2, <1>3, <2>3, ScannedKeeps
    <3>3. running \in SUBSET Cursors /\ Begun(running, n + 1)
      <4>1. rec.scans \in SUBSET Cursors /\ Begun(rec.scans, n)
        BY <1>3 DEF Core, Recognizer
      <4>2. Fed(rec.scans, b) \subseteq Cursors /\ Begun(Fed(rec.scans, b), n)
        BY <3>1, <4>1, FedTypes
      <4>3. IsFiniteSet(running)
        BY <4>2, FS_Subset DEF Begun
      <4>4. \A s \in running : s \in Cursors /\ s.start < n
        BY <4>2 DEF Begun
      <4> HIDE DEF running, n
      <4>5. \A s \in running : s.start < n + 1
        <5> SUFFICES ASSUME NEW s \in running
                     PROVE  s.start < n + 1
          OBVIOUS
        <5>1. s.start \in Nat /\ s.start < n
          BY <4>4 DEF Cursors
        <5> DEFINE k == s.start
        <5> HIDE DEF k
        <5>2. k < n + 1
          BY <1>3, <5>1 DEF k
        <5> QED BY <5>2 DEF k
      <4> QED BY <4>3, <4>4, <4>5 DEF Begun
    <3>4. Continue(r, "saturate", 0, running, Tail(call.rest))
      BY <2>1, <2>3
    <3> HIDE DEF r, running, b
    <3>5. r.chart \in Seq(Column) /\ r \in Recognizer
      BY <3>2 DEF Core, IsChart
    <3>6. Filling(grammar, leo, limits, r, 0)
      <4>1. 0 <= Len(r.chart[Len(r.chart)].items)
        <5> DEFINE all == r.chart
                   N == Len(all)
        <5>1. all \in Seq(Column) /\ N \in 1..Len(all)
          BY <1>3, <3>2, <3>5
        <5> HIDE DEF all
        <5>2. all[Len(all)] \in Column
          BY <5>1
        <5>3. Len(all[Len(all)].items) \in Nat
          BY <5>2 DEF Column
        <5> QED BY <5>3 DEF all
      <4>2. Passed(grammar, r.chart, 0)
        BY DEF Passed
      <4>3. ASSUME ~leo, NEW k \in 1..n
            PROVE  ClosedAt(grammar, r.chart, k)
        <5>1. ClosedAt(grammar, rec.chart, k)
          BY <1>5, <4>3 DEF Settled
        <5>2. IsChart(grammar, leo, rec.chart)
          BY <1>3 DEF Core
        <5> HIDE DEF n
        <5> QED BY <1>2, <1>3, <3>2, <5>1, <5>2, ClosedKept
      <4>4. Len(r.chart) - 1 = n
        <5> HIDE DEF n
        <5> QED BY <1>3, <3>2
      <4> HIDE DEF n
      <4> QED BY <3>2, <4>1, <4>2, <4>3, <4>4 DEF Filling
    <3>7. /\ rec' = r /\ UNCHANGED <<grammar, leo, limits, reply, text, saved>>
          /\ call' \in Calls /\ call'.at = "saturate" /\ call'.agenda = 0 /\ call'.running = running
          /\ call'.entry = call.entry /\ call'.before = call.before
      BY <1>3, <3>1, <3>3, <3>4, ContinueResult
    <3>8. InCall(grammar, leo, limits, saved, r, call')
      <4>1. n < n + 1
        BY <1>3
      <4> HIDE DEF n
      <4>2. n = Len(rec.chart)
        BY DEF n
      <4> DEFINE y == call'
      <4>3. y.at = "saturate" /\ y.at # "byte" /\ call.at # "saturate"
        BY <1>4, <3>7
      <4> QED BY <1>3, <1>4, <3>2, <3>3, <3>5, <3>6, <3>7, <4>1, <4>2, <4>3, GoesOn
    <3> QED BY <1>1, <3>7, <3>8 DEF EarleyInv
  <2> QED BY <2>2, <2>3
<1> QED BY <1>c1, <1>c2

\* One turn of the agenda.
LEMMA ProcessItemKeeps ==
  ASSUME EarleyInv, InCall(grammar, leo, limits, saved, rec, call), ProcessItem
  PROVE  EarleyInv'
<1> DEFINE N == Len(rec.chart)
           items == rec.chart[N].items
           n == call.agenda + 1
           r == Processed(rec, n)
<1>1. /\ grammar \in Grammars /\ leo \in BOOLEAN /\ limits \in Limits
      /\ text \in Seq(Byte) /\ reply \in {"none", "live", "accepting", "rejected", "limit"}
  BY DEF EarleyInv
<1>2. IsGrammar(grammar) /\ limits \in LimitSet
  BY <1>1, Assumed
<1>3. /\ Core(grammar, leo, limits, rec) /\ rec \in Recognizer /\ rec.chart \in Seq(Column)
      /\ N \in Nat /\ N >= 1 /\ call \in Calls
  BY InCallCore
<1>4. /\ call.at = "saturate" /\ call.agenda < Len(items)
      /\ IF r.over THEN Fail("limit") ELSE Continue(r, "saturate", n, call.running, call.rest)
  BY DEF ProcessItem, Last
<1>5. Filling(grammar, leo, limits, rec, call.agenda) /\ Begun(call.running, N)
  BY <1>4 DEF InCall
<1>c1. CASE r.over
  <2>1. Fail("limit")
    BY <1>4, <1>c1
  <2> QED BY <2>1, FailKeeps
<1>c2. CASE ~r.over
  <2>1. call.agenda \in Nat /\ n \in Nat /\ n <= Len(items) /\ n \in 1..Len(items)
    <3>1. call.agenda \in Nat
      BY <1>3 DEF Calls
    <3>2. Len(items) \in Nat
      <4> DEFINE all == rec.chart
      <4>1. all \in Seq(Column) /\ Len(all) \in 1..Len(all)
        BY <1>3
      <4> HIDE DEF all
      <4>2. all[Len(all)] \in Column
        BY <4>1
      <4>3. Len(all[Len(all)].items) \in Nat
        BY <4>2 DEF Column
      <4> QED BY <4>3 DEF all
    <3> DEFINE k == call.agenda
               L == Len(items)
    <3>3. k < L
      BY <1>4
    <3> HIDE DEF k, L
    <3>4. k + 1 \in Nat /\ k + 1 <= L /\ k + 1 \in 1..L
      BY <3>1, <3>2, <3>3 DEF k, L
    <3> QED BY <3>1, <3>4 DEF k, L
  <2>2. /\ Core(grammar, leo, limits, r) /\ Grows(r, rec)
        /\ ~leo => Effects(grammar, rec, n, r)
    <3> HIDE DEF n
    <3> QED BY <1>1, <1>2, <1>3, <1>c2, <2>1, ProcessedKeeps
  <2> HIDE DEF r
  <2>3. /\ Len(r.chart) = N /\ r.chart[N].leo = << >> /\ Extends(r.chart[N].items, items)
        /\ AgreeTo(r, rec, N - 1) /\ N - 1 \in Nat
    <3>1. N - 1 <= N /\ N - 1 \in Nat
      BY <1>3
    <3> QED BY <1>5, <2>2, <3>1 DEF Grows, Filling, AgreeTo
  <2>4. n <= Len(r.chart[N].items)
    <3> DEFINE L == Len(items)
               M == Len(r.chart[N].items)
    <3>1. L <= M /\ L \in Nat /\ M \in Nat
      <4>1. r.chart[N].items \in Seq(Item) /\ L <= M
        BY <2>3 DEF Extends
      <4>2. M \in Nat
        <5> DEFINE s == r.chart[N].items
        <5> HIDE DEF s
        <5>1. Len(s) \in Nat
          BY <4>1 DEF s
        <5> QED BY <5>1 DEF s
      <4>3. L \in Nat
        <5> DEFINE all == rec.chart
        <5>1. all \in Seq(Column) /\ Len(all) \in 1..Len(all)
          BY <1>3
        <5> HIDE DEF all
        <5>2. all[Len(all)] \in Column
          BY <5>1
        <5>3. Len(all[Len(all)].items) \in Nat
          BY <5>2 DEF Column
        <5> QED BY <5>3 DEF all
      <4> QED BY <4>1, <4>2, <4>3
    <3>2. n <= L
      BY <2>1
    <3> HIDE DEF n, L, M
    <3>3. n <= M
      BY <2>1, <3>1, <3>2
    <3> QED BY <3>3 DEF M
  <2>5. Filling(grammar, leo, limits, r, n)
    <3>1. ASSUME ~leo, NEW k \in 1..N - 1
          PROVE  ClosedAt(grammar, r.chart, k)
      <4>1. ClosedAt(grammar, rec.chart, k)
        BY <1>5, <3>1 DEF Filling
      <4>2. IsChart(grammar, leo, rec.chart)
        BY <1>3 DEF Core
      <4> DEFINE m == N - 1
      <4> HIDE DEF m
      <4>3. k \in 1..m /\ m \in Nat /\ AgreeTo(r, rec, m)
        BY <2>3 DEF m
      <4> QED BY <1>2, <4>1, <4>2, <4>3, ClosedKept
    <3>2. ASSUME ~leo
          PROVE  Passed(grammar, r.chart, n)
      <4>1. leo = FALSE
        BY <1>1, <3>2
      <4>2. Core(grammar, FALSE, limits, rec)
        BY <1>3, <4>1
      <4>3. Passed(grammar, rec.chart, call.agenda) /\ Effects(grammar, rec, n, r)
        BY <1>5, <2>2, <3>2 DEF Filling
      <4> DEFINE k == call.agenda
      <4>4. k \in Nat /\ k + 1 <= Len(rec.chart[Len(rec.chart)].items)
        BY <2>1
      <4>5. Passed(grammar, rec.chart, k) /\ Effects(grammar, rec, k + 1, r)
        BY <4>3
      <4> HIDE DEF k
      <4>6. Passed(grammar, r.chart, k + 1)
        BY <1>2, <2>2, <4>2, <4>4, <4>5, PassedNext
      <4> QED BY <4>6 DEF k
    <3> HIDE DEF n
    <3> QED BY <2>2, <2>3, <2>4, <3>1, <3>2 DEF Filling
  <2>6. call.running \in SUBSET Cursors /\ call.rest \in Seq(Byte)
    BY <1>3 DEF Calls
  <2>7. /\ rec' = r /\ UNCHANGED <<grammar, leo, limits, reply, text, saved>>
        /\ call' \in Calls /\ call'.at = "saturate" /\ call'.agenda = n /\ call'.running = call.running
        /\ call'.entry = call.entry /\ call'.before = call.before
    <3>1. Continue(r, "saturate", n, call.running, call.rest)
      BY <1>4, <1>c2 DEF r
    <3> HIDE DEF n
    <3> QED BY <1>3, <2>1, <2>6, <3>1, ContinueResult
  <2>8. InCall(grammar, leo, limits, saved, r, call')
    <3> DEFINE k == N - 1
    <3>1. k \in Nat /\ k = Len(rec.chart) - 1 /\ AgreeTo(r, rec, k) /\ k < Len(r.chart)
      BY <1>3, <2>3
    <3>2. r \in Recognizer
      BY <2>2 DEF Core
    <3>3. Begun(call.running, Len(r.chart))
      BY <1>5, <2>3
    <3> HIDE DEF k, n, N
    <3>4. call'.at # "byte" /\ call.at # "byte"
      BY <1>4, <2>7
    <3> QED BY <1>3, <2>5, <2>7, <3>1, <3>2, <3>3, <3>4, GoesOn
  <2> QED BY <1>1, <2>7, <2>8 DEF EarleyInv
<1> QED BY <1>c1, <1>c2

\* Whether a column is closed is a matter of the items.
LEMMA ClosedByItems ==
  ASSUME IsGrammar(grammar), NEW r, NEW q, NEW lo, IsChart(grammar, lo, r.chart),
         \A k \in 1..Len(r.chart) : q.chart[k].items = r.chart[k].items,
         NEW k \in 1..Len(r.chart), ClosedAt(grammar, r.chart, k)
  PROVE  ClosedAt(grammar, q.chart, k)
<1> DEFINE n == Len(r.chart)
<1>1. n \in Nat /\ k \in Nat /\ k - 1 \in Nat /\ k <= n
  BY DEF IsChart
<1>2. ASSUME NEW item \in ToSet(r.chart[k].items)
      PROVE  q.chart[item.origin + 1].items = r.chart[item.origin + 1].items
  <2> DEFINE o == item.origin
  <2>1. MayHold(grammar, k - 1, item)
    BY DEF IsChart, IsColumn, Holds
  <2>2. o \in Nat /\ o <= k - 1
    BY <1>1, <2>1, ItemTypes DEF MayHold
  <2> HIDE DEF o, n
  <2>3. o + 1 \in 1..n
    BY <1>1, <2>2
  <2> QED BY <2>3 DEF o, n
<1> QED BY <1>2 DEF ClosedAt

\* The end of a column.
LEMMA FinishColumnKeeps ==
  ASSUME EarleyInv, InCall(grammar, leo, limits, saved, rec, call), FinishColumn
  PROVE  EarleyInv'
<1> DEFINE N == Len(rec.chart)
           items == rec.chart[N].items
           r == Finished(rec, call.running)
<1>1. /\ grammar \in Grammars /\ leo \in BOOLEAN /\ limits \in Limits
      /\ text \in Seq(Byte) /\ reply \in {"none", "live", "accepting", "rejected", "limit"}
  BY DEF EarleyInv
<1>2. IsGrammar(grammar) /\ limits \in LimitSet
  BY <1>1, Assumed
<1>3. /\ Core(grammar, leo, limits, rec) /\ rec \in Recognizer /\ rec.chart \in Seq(Column)
      /\ N \in Nat /\ N >= 1 /\ call \in Calls
  BY InCallCore
<1>4. /\ call.at = "saturate" /\ call.agenda = Len(items)
      /\ IF r.over THEN Fail("limit")
         ELSE IF call.entry = << >> THEN
           rec' = r /\ call' = Idle /\ UNCHANGED <<grammar, leo, limits, reply, text, saved>>
         ELSE IF ~IsLive(r) THEN Fail("rejected")
         ELSE Continue(r, "byte", 0, {}, call.rest)
  BY DEF FinishColumn, Last
<1>5. /\ Filling(grammar, leo, limits, rec, call.agenda) /\ Begun(call.running, N)
      /\ rec.chart[N].leo = << >>
  BY <1>4 DEF InCall, Filling
<1>6. call.running \in SUBSET Cursors /\ call.rest \in Seq(Byte)
  BY <1>3 DEF Calls
<1>c1. CASE r.over
  <2>1. Fail("limit")
    BY <1>4, <1>c1
  <2> QED BY <2>1, FailKeeps
<1>c2. CASE ~r.over
  <2>1. /\ Core(grammar, leo, limits, r) /\ Len(r.chart) = N
        /\ AgreeTo(r, rec, N - 1) /\ r.chart[N].items = items
    BY <1>1, <1>2, <1>3, <1>5, <1>6, <1>c2, FinishedKeeps
  <2>2. r \in Recognizer /\ r.chart \in Seq(Column)
    BY <2>1 DEF Core, IsChart
  <2> HIDE DEF r
  <2>3. ASSUME NEW k \in 1..N
        PROVE  r.chart[k].items = rec.chart[k].items
    <3>1. k \in 1..N - 1 \/ k = N
      <4> HIDE DEF N
      <4> QED BY <1>3
    <3> QED BY <2>1, <3>1 DEF AgreeTo
  <2>4. Settled(grammar, leo, limits, r)
    <3>1. ASSUME ~leo, NEW k \in 1..N
          PROVE  ClosedAt(grammar, r.chart, k)
      <4>1. IsChart(grammar, leo, rec.chart)
        BY <1>3 DEF Core
      <4>2. ClosedAt(grammar, rec.chart, k)
        <5>1. CASE k = N
          <6>1. Passed(grammar, rec.chart, Len(items))
            BY <1>4, <1>5, <3>1 DEF Filling
          <6> QED BY <1>2, <4>1, <5>1, <6>1, PassedAll
        <5>2. CASE k # N
          <6>1. k \in 1..N - 1
            <7> HIDE DEF N
            <7> QED BY <1>3, <5>2
          <6> QED BY <1>5, <3>1, <6>1 DEF Filling
        <5> QED BY <5>1, <5>2
      <4> QED BY <1>2, <2>3, <4>1, <4>2, ClosedByItems
    <3> QED BY <2>1, <3>1 DEF Settled
  <2>c1. CASE call.entry = << >>
    <3>1. /\ rec' = r /\ call' = Idle /\ UNCHANGED <<grammar, leo, limits, reply, text, saved>>
          /\ saved = << >>
      BY <1>4, <1>c2, <2>c1 DEF InCall, r
    <3>2. AreSaved(grammar, leo, limits, << >>, r, Len(r.chart))
      <4>1. << >> \in Seq([checkpoint : Checkpoints, text : Seq(Byte)]) /\ 1..Len(<< >>) = {}
        OBVIOUS
      <4> QED BY <4>1 DEF AreSaved
    <3> QED BY <1>1, <2>4, <3>1, <3>2 DEF EarleyInv
  <2>c2. CASE call.entry # << >> /\ ~IsLive(r)
    <3>1. Fail("rejected")
      BY <1>4, <1>c2, <2>c2 DEF r
    <3> QED BY <3>1, FailKeeps
  <2>c3. CASE call.entry # << >> /\ IsLive(r)
    <3>1. Continue(r, "byte", 0, {}, call.rest)
      BY <1>4, <1>c2, <2>c3 DEF r
    <3>2. /\ rec' = r /\ UNCHANGED <<grammar, leo, limits, reply, text, saved>>
          /\ call' \in Calls /\ call'.at = "byte"
          /\ call'.entry = call.entry /\ call'.before = call.before
      <4>1. {} \in SUBSET Cursors /\ 0 \in Nat
        OBVIOUS
      <4> QED BY <1>3, <1>6, <3>1, <4>1, ContinueResult
    <3>3. InCall(grammar, leo, limits, saved, r, call')
      <4> DEFINE k == N - 1
      <4>1. k \in Nat /\ k = Len(rec.chart) - 1 /\ AgreeTo(r, rec, k)
        BY <1>3, <2>1
      <4> HIDE DEF k, N
      <4>2. call'.at # "saturate" /\ call.at # "byte"
        BY <1>4, <3>2
      <4> QED BY <1>3, <2>2, <2>4, <2>c3, <3>2, <4>1, <4>2, GoesOn
    <3> QED BY <1>1, <3>2, <3>3 DEF EarleyInv
  <2> QED BY <2>c1, <2>c2, <2>c3
<1> QED BY <1>c1, <1>c2

\* Idle is no call under way.
LEMMA IdleResult ==
  ASSUME EarleyInv, call = Idle
  PROVE  /\ Settled(grammar, leo, limits, rec)
         /\ AreSaved(grammar, leo, limits, saved, rec, Len(rec.chart))
         /\ grammar \in Grammars /\ leo \in BOOLEAN /\ limits \in Limits
         /\ text \in Seq(Byte)
         /\ Core(grammar, leo, limits, rec) /\ rec \in Recognizer /\ ~rec.over
         /\ rec.chart \in Seq(Column) /\ Len(rec.chart) \in Nat
<1>1. call # Refused
  BY DEF Idle, Refused
<1>2. ~InCall(grammar, leo, limits, saved, rec, call)
  <2>1. call.at = "idle"
    BY DEF Idle
  <2> QED BY <2>1 DEF InCall, Calls
<1> QED BY <1>1, <1>2 DEF EarleyInv, Settled, Core, IsChart

\* A checkpoint of the recognizer now has at least as many columns as any saved before.
LEMMA TakeCheckpointKeeps ==
  ASSUME EarleyInv, TakeCheckpoint
  PROVE  EarleyInv'
<1> DEFINE T == [checkpoint : Checkpoints, text : Seq(Byte)]
           one == [checkpoint |-> Checkpoint(rec), text |-> text]
           m == Len(rec.chart)
           all == Append(saved, one)
           n == Len(saved)
<1>1. /\ call = Idle /\ saved' = all /\ reply' = "none"
      /\ UNCHANGED <<grammar, leo, limits, rec, call, text>>
  BY DEF TakeCheckpoint
<1>2. /\ Settled(grammar, leo, limits, rec) /\ AreSaved(grammar, leo, limits, saved, rec, m)
      /\ text \in Seq(Byte) /\ rec \in Recognizer /\ ~rec.over /\ m \in Nat
  BY <1>1, IdleResult
<1>3. /\ Restore(rec, one.checkpoint) = rec /\ one \in T /\ one.checkpoint.columns = m
  BY <1>2, RestoreOwn
<1>4. saved \in Seq(T)
  BY <1>2 DEF AreSaved
<1>5. ASSUME NEW i \in 1..n
      PROVE  /\ saved[i].checkpoint.columns <= m
             /\ Settled(grammar, leo, limits, Restore(rec, saved[i].checkpoint))
             /\ \A j \in 1..i : saved[j].checkpoint.columns <= saved[i].checkpoint.columns
  BY <1>2 DEF AreSaved
<1> HIDE DEF T, one, m
<1>6. /\ all \in Seq(T) /\ Len(all) = n + 1 /\ n \in Nat
      /\ \A i \in 1..n : all[i] = saved[i]
      /\ all[n + 1] = one
  BY <1>3, <1>4
<1> HIDE DEF all, n
<1>7. ASSUME NEW i \in 1..n + 1
      PROVE  /\ all[i].checkpoint.columns <= m
             /\ Settled(grammar, leo, limits, Restore(rec, all[i].checkpoint))
             /\ \A j \in 1..i : all[j].checkpoint.columns <= all[i].checkpoint.columns
  <2>1. CASE i \in 1..n
    <3>1. ASSUME NEW j \in 1..i
          PROVE  all[j] = saved[j]
      <4>1. j \in 1..n
        BY <1>6, <2>1
      <4> QED BY <1>6, <4>1
    <3>2. all[i] = saved[i]
      BY <1>6, <2>1
    <3> QED BY <1>5, <2>1, <3>1, <3>2
  <2>2. CASE i \notin 1..n
    <3>1. i = n + 1
      BY <1>6, <2>2
    <3>2. all[i] = one
      BY <1>6, <3>1
    <3>3. m <= m
      BY <1>2
    <3>4. ASSUME NEW j \in 1..i
          PROVE  all[j].checkpoint.columns <= m
      <4>1. CASE j \in 1..n
        BY <1>5, <1>6, <4>1
      <4>2. CASE j \notin 1..n
        <5>1. j = n + 1
          BY <1>6, <3>1, <4>2
        <5> QED BY <1>3, <1>6, <3>3, <5>1
      <4> QED BY <4>1, <4>2
    <3> QED BY <1>2, <1>3, <3>2, <3>3, <3>4
  <2> QED BY <2>1, <2>2
<1>8. AreSaved(grammar, leo, limits, all, rec, m)
  BY <1>6, <1>7 DEF AreSaved, T
<1> QED BY <1>1, <1>2, <1>8, IdleResult DEF EarleyInv, m

\* What a restored checkpoint leaves of those saved is older, and has no more columns.
LEMMA RestoreCheckpointKeeps ==
  ASSUME EarleyInv, NEW i \in 1..Len(saved), RestoreCheckpoint(i)
  PROVE  EarleyInv'
<1> DEFINE T == [checkpoint : Checkpoints, text : Seq(Byte)]
           x == saved[i].checkpoint
           q == Restore(rec, x)
           m == x.columns
           rest == SubSeq(saved, 1, i - 1)
           n == Len(saved)
<1>1. /\ call = Idle /\ rec' = q /\ text' = saved[i].text /\ saved' = rest /\ reply' = "none"
      /\ UNCHANGED <<grammar, leo, limits, call>>
  BY DEF RestoreCheckpoint
<1>2. /\ AreSaved(grammar, leo, limits, saved, rec, Len(rec.chart))
      /\ rec.chart \in Seq(Column) /\ Len(rec.chart) \in Nat
  BY <1>1, IdleResult
<1>3. saved \in Seq(T) /\ n \in Nat
  BY <1>2 DEF AreSaved
<1>4. saved[i] \in T
  <2> HIDE DEF T
  <2> QED BY <1>3
<1>5. x \in Checkpoints /\ m \in Nat /\ saved[i].text \in Seq(Byte)
  BY <1>4 DEF Checkpoints
<1>6. ASSUME NEW k \in 1..n
      PROVE  /\ Settled(grammar, leo, limits, Restore(rec, saved[k].checkpoint))
             /\ saved[k].checkpoint.columns <= Len(rec.chart)
             /\ \A j \in 1..k : saved[j].checkpoint.columns <= saved[k].checkpoint.columns
  BY <1>2 DEF AreSaved
<1>7. AgreeTo(q, rec, m) /\ Len(q.chart) = m /\ Settled(grammar, leo, limits, q)
  BY <1>2, <1>5, <1>6, RestoreShares
<1>8. q.chart \in Seq(Column)
  BY <1>7 DEF Settled, Core, IsChart
<1> HIDE DEF T, q
<1>9. rest \in Seq(T) /\ \A k \in 1..Len(rest) : k \in 1..n /\ k \in 1..i /\ rest[k] = saved[k]
  <2>1. Len(rest) = i - 1 /\ i - 1 \in Nat
    <3> HIDE DEF rest
    <3>1. rest = SubSeq(saved, 1, i - 1)
      BY DEF rest
    <3> QED BY <1>3, <3>1
  <2>2. ASSUME NEW k \in 1..i - 1
        PROVE  k \in 1..n /\ k \in 1..i /\ rest[k] = saved[k]
    <3>0. i \in 1..n
      OBVIOUS
    <3> HIDE DEF n
    <3>1. k \in 1..n /\ k \in 1..i
      BY <1>3, <3>0
    <3> QED BY <1>3, <3>1 DEF n
  <2>3. rest \in Seq(T)
    BY <1>3
  <2> HIDE DEF rest
  <2> QED BY <2>1, <2>2, <2>3
<1> HIDE DEF rest, n
<1>10. AreSaved(grammar, leo, limits, rest, rec, m)
  <2> SUFFICES ASSUME NEW k \in 1..Len(rest)
               PROVE  /\ rest[k].checkpoint.columns <= m
                      /\ Settled(grammar, leo, limits, Restore(rec, rest[k].checkpoint))
                      /\ \A j \in 1..k : rest[j].checkpoint.columns <= rest[k].checkpoint.columns
    BY <1>9 DEF AreSaved, T
  <2>1. k \in 1..n /\ k \in 1..i /\ rest[k] = saved[k]
    BY <1>9
  <2>2. ASSUME NEW j \in 1..k
        PROVE  rest[j] = saved[j]
    <3>1. j \in 1..Len(rest)
      <4>1. rest \in Seq(T)
        BY <1>9
      <4> QED BY <4>1
    <3> QED BY <1>9, <3>1
  <2>3. saved[k].checkpoint.columns <= m
    <3>1. i \in 1..n
      BY DEF n
    <3> QED BY <1>6, <2>1, <3>1
  <2> QED BY <1>6, <2>1, <2>2, <2>3
<1>11. AreSaved(grammar, leo, limits, rest, q, m)
  <2> HIDE DEF m
  <2> QED BY <1>2, <1>5, <1>7, <1>8, <1>10, SavedAgree
<1> QED BY <1>1, <1>5, <1>7, <1>11, IdleResult DEF EarleyInv

\* The invariant is inductive.
LEMMA NextKeeps ==
  ASSUME EarleyInv, [Next]_vars
  PROVE  EarleyInv'
<1>1. ASSUME NEW chunk \in Chunk, TryAdvance(chunk)
      PROVE  EarleyInv'
  BY <1>1, TryAdvanceKeeps
<1>2. CASE Step
  <2>1. call.at \in {"byte", "saturate"}
    BY <1>2 DEF Step, Scan, ProcessItem, FinishColumn
  <2>2. call # Idle /\ call # Refused
    BY <2>1 DEF Idle, Refused
  <2>3. InCall(grammar, leo, limits, saved, rec, call)
    BY <2>2 DEF EarleyInv
  <2> QED BY <1>2, <2>3, ScanKeeps, ProcessItemKeeps, FinishColumnKeeps DEF Step
<1>3. CASE TakeCheckpoint
  BY <1>3, TakeCheckpointKeeps
<1>4. ASSUME NEW i \in 1..Len(saved), RestoreCheckpoint(i)
      PROVE  EarleyInv'
  BY <1>4, RestoreCheckpointKeeps
<1>5. CASE UNCHANGED vars
  BY <1>5 DEF vars, EarleyInv
<1> QED BY <1>1, <1>2, <1>3, <1>4, <1>5 DEF Next

\* In every state the recognizer, in the middle of a column or between two calls or
\* refused, is one whose chart, scans and budgets fit together.
LEMMA AlwaysCore == EarleyInv => Core(grammar, leo, limits, rec) /\ IsGrammar(grammar)
<1>1. EarleyInv => IsGrammar(grammar)
  BY Assumed DEF EarleyInv
<1> QED BY <1>1, InCallCore DEF EarleyInv, Settled

\* The item budget and the Leo budget are at every step, also halfway through a
\* column, the number of items and of Leo items in the chart, and within the limits:
\* what a failed call and a restore give back is exactly what the columns they drop
\* had cost (insert_item, finish_leo_column, restore).
THEOREM BudgetsAlwaysMatchChart == Spec => []BudgetsMatchChart
<1>1. EarleyInv => BudgetsMatchChart
  BY AlwaysCore DEF Core, InBudget, BudgetsMatchChart, ItemTotal, LeoTotal
<1> QED BY <1>1, InitKeeps, NextKeeps, PTL DEF Spec

\* Without Leo items, every column of a recognizer at rest is closed: no completion has
\* missed an item that waits for it, not even one that came into the completion's own
\* column after it, when the completed nonterminal is empty (earley.rs:347-352).
THEOREM ColumnsAreAlwaysClosed == Spec => []ColumnsAreClosed
<1>1. ASSUME EarleyInv
      PROVE  ColumnsAreClosed
  <2> DEFINE n == Len(rec.chart)
  <2> SUFFICES ASSUME call = Idle, ~leo, NEW c \in 0..LastColumn(rec),
                      NEW item \in ToSet(rec.chart[c + 1].items), IsComplete(item),
                      NEW w \in ToSet(AllWaiters(rec, item.origin, Lhs(item)))
               PROVE  Advanced(w) \in ToSet(rec.chart[c + 1].items)
    BY DEF ColumnsAreClosed
  <2>1. /\ IsGrammar(grammar) /\ Core(grammar, leo, limits, rec) /\ rec.chart \in Seq(Column)
        /\ n \in Nat /\ Settled(grammar, leo, limits, rec)
    BY <1>1, AlwaysCore, IdleResult
  <2>2. c + 1 \in 1..n /\ c \in Nat /\ c + 1 - 1 = c
    <3>1. LastColumn(rec) = n - 1
      BY DEF LastColumn
    <3> HIDE DEF n
    <3> QED BY <2>1, <3>1
  <2>3. ClosedAt(grammar, rec.chart, c + 1)
    BY <2>1, <2>2 DEF Settled
  <2>4. MayHold(grammar, c, item)
    <3>1. IsColumn(grammar, leo, c + 1 - 1, rec.chart[c + 1])
      BY <2>1, <2>2 DEF Core, IsChart
    <3> QED BY <2>2, <3>1 DEF IsColumn, Holds
  <2> DEFINE o == item.origin
             X == Lhs(item)
             all == rec.chart
  <2>5. o \in Nat /\ o \in 0..n - 1
    <3>1. o \in Nat /\ o <= c
      BY <2>1, <2>2, <2>4, ItemTypes DEF MayHold
    <3> HIDE DEF o, n
    <3> QED BY <2>1, <2>2, <3>1
  <2> HIDE DEF o, n, X
  <2>6. w \in ToSet(rec.chart[o + 1].items) /\ Expects(w, X)
    <3>1. w \in ToSet(AllWaiters(rec, o, X))
      BY DEF o, X
    <3>2. all[o + 1] \in Column
      <4>1. all \in Seq(Column) /\ n = Len(all)
        BY <2>1 DEF n
      <4> HIDE DEF all
      <4>2. o + 1 \in 1..Len(all)
        BY <2>1, <2>5, <4>1
      <4> QED BY <4>1, <4>2
    <3>3. rec.chart[o + 1].items \in Seq(Item)
      BY <3>2 DEF Column
    <3> QED BY <3>1, <3>3, AllWaitersResult
  <2>7. IsDone(grammar, item) /\ Waits(grammar, w, LhsIn(grammar, item))
    BY <2>1, <2>6, ItemOperators DEF X
  <2> QED BY <2>3, <2>6, <2>7 DEF ClosedAt, o
<1> QED BY <1>1, InitKeeps, NextKeeps, PTL DEF Spec

\* A call that is rejected or stopped by a limit, at whichever step of whichever byte,
\* leaves the recognizer it found, column for column: the columns up to the call's
\* checkpoint are untouched until then, and the rest of the recognizer is in the
\* checkpoint (try_advance_bytes, README.md:45).
THEOREM FailedCallsRestore == Spec => FailedCallRestores
<1> DEFINE Undone == reply' \in {"rejected", "limit"} /\ reply = "none" /\ call'.at = "idle"
                       => rec' = call.before
<1>1. ASSUME EarleyInv, [Next]_vars, ~UNCHANGED vars
      PROVE  Undone
  <2> SUFFICES ASSUME reply' \in {"rejected", "limit"}, reply = "none", call'.at = "idle"
               PROVE  rec' = call.before
    OBVIOUS
  <2>1. ~(\E chunk \in Chunk : TryAdvance(chunk)) /\ ~TakeCheckpoint
        /\ ~(\E i \in 1..Len(saved) : RestoreCheckpoint(i))
    BY DEF TryAdvance, TakeCheckpoint, RestoreCheckpoint
  <2>2. Step
    BY <1>1, <2>1 DEF Next
  <2>3. InCall(grammar, leo, limits, saved, rec, call)
    <3>1. call.at \in {"byte", "saturate"}
      BY <2>2 DEF Step, Scan, ProcessItem, FinishColumn
    <3>2. call # Idle /\ call # Refused
      BY <3>1 DEF Idle, Refused
    <3> QED BY <1>1, <3>2 DEF EarleyInv
  <2>4. ASSUME NEW out, Fail(out)
        PROVE  rec' = call.before
    <3>1. Refused.at # "idle"
      BY DEF Refused
    <3> QED BY <2>3, <2>4, <3>1, FailRestores
  <2>5. ASSUME NEW r, NEW at, NEW agenda, NEW running, NEW rest
        PROVE  ~Continue(r, at, agenda, running, rest)
    BY DEF Continue
  <2>6. ASSUME NEW r
        PROVE  ~Succeed(r)
    BY DEF Succeed
  <2>7. CASE Scan
    <3>1. \E out : Fail(out)
      BY <2>5, <2>6, <2>7 DEF Scan
    <3> QED BY <2>4, <3>1
  <2>8. CASE ProcessItem
    <3>1. \E out : Fail(out)
      BY <2>5, <2>8 DEF ProcessItem
    <3> QED BY <2>4, <3>1
  <2>9. CASE FinishColumn
    <3>1. reply' # reply
      OBVIOUS
    <3>2. \E out : Fail(out)
      BY <2>5, <2>9, <3>1 DEF FinishColumn
    <3> QED BY <2>4, <3>2
  <2> QED BY <2>2, <2>7, <2>8, <2>9 DEF Step
<1>2. EarleyInv /\ [Next]_vars => [Undone]_vars
  BY <1>1
<1> QED BY <1>2, InitKeeps, NextKeeps, PTL DEF Spec, FailedCallRestores

\* Items point at rules, dots and columns that exist, scans at columns that exist, and
\* no state is left with its overflow flag up.
THEOREM AlwaysTyped == Spec => []TypeOK
<1>1. ASSUME EarleyInv
      PROVE  TypeOK
  <2> DEFINE n == Len(rec.chart)
  <2>1. /\ IsGrammar(grammar) /\ Core(grammar, leo, limits, rec)
    BY <1>1, AlwaysCore
  <2>2. /\ rec \in Recognizer /\ ~rec.over /\ IsChart(grammar, leo, rec.chart)
        /\ Begun(rec.scans, n) /\ n \in Nat
    BY <2>1 DEF Core, IsChart
  <2>3. LastColumn(rec) = n - 1
    BY DEF LastColumn
  <2>4. ASSUME NEW item \in Items(rec)
        PROVE  /\ item.rule \in 1..Len(Rules)
               /\ item.dot \in 0..Len(Rhs(item))
               /\ item.origin \in 0..LastColumn(rec)
    <3>1. PICK c \in 1..n : item \in ToSet(rec.chart[c].items)
      BY DEF Items
    <3>2. c \in Nat /\ c - 1 \in Nat /\ c - 1 <= n - 1
      <4> HIDE DEF n
      <4> QED BY <2>2
    <3>3. MayHold(grammar, c - 1, item)
      BY <2>2, <3>1 DEF IsChart, IsColumn, Holds
    <3> DEFINE o == item.origin
               d == item.dot
               l == Len(RhsIn(grammar, item))
    <3>4. /\ o \in Nat /\ o <= c - 1 /\ d \in Nat /\ d <= l /\ l \in Nat
          /\ item.rule \in 1..Len(RulesIn(grammar))
      BY <2>1, <3>2, <3>3, ItemTypes DEF MayHold
    <3> HIDE DEF o, d, l, n
    <3>5. o \in 0..n - 1 /\ d \in 0..l
      BY <2>2, <3>2, <3>4
    <3>6. Rhs(item) = RhsIn(grammar, item) /\ Rules = RulesIn(grammar)
      BY <2>1, ItemOperators DEF Rules, RulesIn
    <3> QED BY <2>3, <3>4, <3>5, <3>6 DEF o, d, l
  <2>5. rec.scans \subseteq [terminal : Terminal, start : 0..LastColumn(rec), cursor : Seq(Byte)]
    <3> SUFFICES ASSUME NEW s \in rec.scans
                 PROVE  s \in [terminal : Terminal, start : 0..LastColumn(rec), cursor : Seq(Byte)]
      OBVIOUS
    <3>1. s \in Cursors /\ s.start < n
      BY <2>2 DEF Recognizer, Begun
    <3>2. s.start \in 0..n - 1
      <4> DEFINE k == s.start
      <4>1. k \in Nat
        BY <3>1 DEF Cursors
      <4> HIDE DEF k, n
      <4>2. k < n
        BY <3>1 DEF k
      <4>3. k \in 0..n - 1
        BY <2>2, <4>1, <4>2
      <4> QED BY <4>3 DEF k
    <3> QED BY <2>3, <3>1, <3>2 DEF Cursors
  <2>6. call.at \in {"idle", "byte", "saturate", "refused"}
    BY <1>1, InCallCore DEF EarleyInv, Idle, Refused
  <2> QED BY <1>1, <2>2, <2>4, <2>5, <2>6 DEF TypeOK, EarleyInv
<1> QED BY <1>1, InitKeeps, NextKeeps, PTL DEF Spec

-----------------------------------------------------------------------------
(***************************************************************************)
(* What a grammar derives.  Derivations iterates a bounded number of times *)
(* and is meant to be a fixpoint.  It is one: a string that a round still  *)
(* adds contains one that the round before added, so after k rounds it     *)
(* contains k + 1 that differ in nonterminal or length, and there are only *)
(* so many of these.                                                       *)
(***************************************************************************)

\* Concatenation is associative.
LEMMA Associates ==
  ASSUME NEW x \in Seq(Byte), NEW y \in Seq(Byte), NEW z \in Seq(Byte)
  PROVE  /\ (x \o y) \o z = x \o (y \o z)
         /\ x \o y \in Seq(Byte)
  OBVIOUS

Reassociates(x, y, z) == (x \o y) \o z = x \o (y \o z)

\* The first of these, named.
LEMMA Reassociated ==
  ASSUME NEW x \in Seq(Byte), NEW y \in Seq(Byte), NEW z \in Seq(Byte)
  PROVE  Reassociates(x, y, z)
<1>1. (x \o y) \o z = x \o (y \o z)
  OBVIOUS
<1> QED BY <1>1, Zenon DEF Reassociates

\* Strings found for nonterminals.
Strings == SUBSET (Nonterminal \X Seq(Byte))

RhsSymbol == Nonterminal \cup Terminal

\* The strings of a symbol.
LEMMA StringsResult ==
  ASSUME NEW L \in Strings, NEW X \in RhsSymbol
  PROVE  /\ StringsOf(X, L) \in SUBSET Seq(Byte)
         /\ X \in Nonterminal => \A v : v \in StringsOf(X, L) <=> <<X, v>> \in L
         /\ X \in Terminal => StringsOf(X, L) = Words[X]
<1>1. CASE X \in Terminal
  BY <1>1, TerminalAssumption DEF StringsOf
<1>2. CASE X \in Nonterminal
  <2>1. X \notin Terminal
    BY <1>2, TerminalAssumption
  <2>2. StringsOf(X, L) = {p[2] : p \in {q \in L : q[1] = X}}
    BY <2>1 DEF StringsOf
  <2>3. \A p \in L : p[1] \in Nonterminal /\ p[2] \in Seq(Byte) /\ p = <<p[1], p[2]>>
    BY DEF Strings
  <2>4. \A v : <<X, v>> \in L => <<X, v>>[1] = X /\ <<X, v>>[2] = v
    OBVIOUS
  <2>5. ASSUME NEW v
        PROVE  v \in StringsOf(X, L) <=> <<X, v>> \in L
    BY <2>2, <2>3, <2>4
  <2>6. StringsOf(X, L) \in SUBSET Seq(Byte)
    BY <2>2, <2>3
  <2> QED BY <2>1, <2>5, <2>6
<1> QED BY <1>1, <1>2 DEF RhsSymbol

\* Concatenations of at most n bytes.
LEMMA ConcatenatedResult ==
  ASSUME NEW S \in SUBSET Seq(Byte), NEW T \in SUBSET Seq(Byte), NEW n \in Nat
  PROVE  /\ Concatenated(S, T, n) \in SUBSET Seq(Byte)
         /\ \A w : w \in Concatenated(S, T, n) <=>
                     \E u \in S, v \in T : w = u \o v /\ Len(u) + Len(v) <= n
<1> DEFINE After(u) == {u \o v : v \in {v \in T : Len(u) + Len(v) <= n}}
<1>1. Concatenated(S, T, n) = UNION {After(u) : u \in S}
  BY DEF Concatenated
<1>2. ASSUME NEW u \in S, NEW w
      PROVE  w \in After(u) <=> \E v \in T : w = u \o v /\ Len(u) + Len(v) <= n
  OBVIOUS
<1>3. \A u \in S, v \in T : u \o v \in Seq(Byte)
  OBVIOUS
<1> HIDE DEF After
<1>4. ASSUME NEW w
      PROVE  w \in Concatenated(S, T, n) <=>
               \E u \in S, v \in T : w = u \o v /\ Len(u) + Len(v) <= n
  <2>1. w \in Concatenated(S, T, n) <=> \E u \in S : w \in After(u)
    BY <1>1
  <2> QED BY <1>2, <2>1, Zenon
<1>5. Concatenated(S, T, n) \in SUBSET Seq(Byte)
  <2> SUFFICES ASSUME NEW w \in Concatenated(S, T, n)
               PROVE  w \in Seq(Byte)
    OBVIOUS
  <2>1. PICK u \in S, v \in T : w = u \o v
    BY <1>4, Zenon
  <2> QED BY <1>3, <2>1
<1> QED BY <1>4, <1>5

DerivingStep(L, n) ==
  [p \in (SUBSET Seq(Byte)) \X RhsSymbol |-> Concatenated(p[1], StringsOf(p[2], L), n)]

\* The strings of a right-hand side are computed by a fold.
LEMMA DerivedFolds ==
  ASSUME NEW L \in Strings, NEW n \in Nat, NEW rhs \in Seq(RhsSymbol)
  PROVE  /\ IsStep(DerivingStep(L, n), SUBSET Seq(Byte), RhsSymbol)
         /\ DerivedFrom(rhs, L, n) = Folded(DerivingStep(L, n), {<< >>}, rhs)
<1> DEFINE A == SUBSET Seq(Byte)
           B == RhsSymbol
           a == {<< >>}
           s == rhs
           F == DerivingStep(L, n)
           Equation(g) ==
             g = [T \in SUBSET DOMAIN s |->
                    IF T = {} THEN a
                    ELSE LET x == Max(T) IN Concatenated(g[T \ {x}], StringsOf(s[x], L), n)]
           iter == CHOOSE g : Equation(g)
           p == Partial(F, a, s)
<1>0. a \in A /\ s \in Seq(B)
  OBVIOUS
<1>1. IsStep(F, A, B)
  <2>1. \A S \in A, X \in B : Concatenated(S, StringsOf(X, L), n) \in A
    BY StringsResult, ConcatenatedResult
  <2> QED BY <2>1 DEF IsStep, DerivingStep
<1>2. \A S \in A, X \in B : F[<<S, X>>] = Concatenated(S, StringsOf(X, L), n)
  BY DEF DerivingStep
<1>4. DOMAIN s = 1..Len(s)
  BY <1>0
<1>5. DerivedFrom(rhs, L, n) = iter[DOMAIN s]
  BY Zenon DEF DerivedFrom, FoldLeft, MapThenFoldSet
<1> HIDE DEF A, B, F, a, s
<1>3. StepsAs(p, A, B, F, a, s)
  BY <1>0, <1>1, PartialSteps, Zenon
<1> HIDE DEF p
<1>6. Equation(p)
  BY <1>2, <1>3 DEF StepsAs
<1>7. Equation(iter)
  <2> HIDE DEF Equation
  <2> QED BY <1>6
<1> HIDE DEF iter
<1>8. StepAlike(iter, p, Len(s))
  BY <1>4, <1>6, <1>7 DEF StepAlike
<1>9. FoldsTo(iter, F, a, s)
  BY <1>0, <1>1, <1>8, FoldsAlike, Zenon DEF p
<1>10. DerivedFrom(rhs, L, n) = Folded(F, a, s)
  BY <1>4, <1>5, <1>9, Zenon DEF FoldsTo
<1> QED BY <1>1, <1>10 DEF F, a, s, A, B

\* Nothing derives the empty string and no other.
LEMMA DerivedEmpty ==
  ASSUME NEW L \in Strings, NEW n \in Nat
  PROVE  DerivedFrom(<< >>, L, n) = {<< >>}
<1> DEFINE A == SUBSET Seq(Byte)
           B == RhsSymbol
           a == {<< >>}
           F == DerivingStep(L, n)
<1>1. a \in A /\ << >> \in Seq(B)
  OBVIOUS
<1>2. IsStep(F, A, B) /\ DerivedFrom(<< >>, L, n) = Folded(F, a, << >>)
  BY <1>1, DerivedFolds
<1> HIDE DEF A, B, F, a
<1>3. Folded(F, a, << >>) = a
  BY <1>1, <1>2, FoldedEmpty
<1> QED BY <1>2, <1>3 DEF a

\* The strings of a right-hand side, symbol after symbol.
LEMMA DerivedResult ==
  ASSUME NEW L \in Strings, NEW n \in Nat, NEW rhs \in Seq(RhsSymbol), NEW X \in RhsSymbol
  PROVE  /\ DerivedFrom(rhs, L, n) \in SUBSET Seq(Byte)
         /\ DerivedFrom(Append(rhs, X), L, n) =
              Concatenated(DerivedFrom(rhs, L, n), StringsOf(X, L), n)
<1> DEFINE A == SUBSET Seq(Byte)
           B == RhsSymbol
           a == {<< >>}
           F == DerivingStep(L, n)
           t == Append(rhs, X)
<1>1. /\ a \in A /\ << >> \in Seq(B) /\ t \in Seq(B)
  OBVIOUS
<1>2. /\ IsStep(F, A, B)
      /\ DerivedFrom(<< >>, L, n) = Folded(F, a, << >>)
      /\ DerivedFrom(rhs, L, n) = Folded(F, a, rhs)
      /\ DerivedFrom(t, L, n) = Folded(F, a, t)
  <2> HIDE DEF t
  <2> QED BY <1>1, DerivedFolds
<1>3. \A S \in A : F[<<S, X>>] = Concatenated(S, StringsOf(X, L), n)
  BY DEF DerivingStep
<1>x. X \in B /\ rhs \in Seq(B)
  OBVIOUS
<1> HIDE DEF A, B, F, a
<1>4. Folded(F, a, << >>) = a /\ Folded(F, a, rhs) \in A
  BY <1>1, <1>2, <1>x, FoldedEmpty, FoldedType
<1>5. Folded(F, a, t) = F[<<Folded(F, a, rhs), X>>]
  BY <1>1, <1>2, <1>x, FoldedLast
<1>6. Folded(F, a, t) = Concatenated(Folded(F, a, rhs), StringsOf(X, L), n)
  BY <1>3, <1>4, <1>5
<1> QED BY <1>2, <1>4, <1>6 DEF A, a

\* A string of a right-hand side and one of the symbol after it.
LEMMA DerivedMore ==
  ASSUME NEW L \in Strings, NEW n \in Nat, NEW rhs \in Seq(RhsSymbol), NEW X \in RhsSymbol
  PROVE  \A w : w \in DerivedFrom(Append(rhs, X), L, n) <=>
           \E u \in DerivedFrom(rhs, L, n), v \in StringsOf(X, L) :
             w = u \o v /\ Len(u) + Len(v) <= n
<1>1. /\ DerivedFrom(rhs, L, n) \in SUBSET Seq(Byte)
      /\ StringsOf(X, L) \in SUBSET Seq(Byte)
  BY DerivedResult, StringsResult
<1>2. DerivedFrom(Append(rhs, X), L, n) = Concatenated(DerivedFrom(rhs, L, n), StringsOf(X, L), n)
  BY DerivedResult
<1> DEFINE S == DerivedFrom(rhs, L, n)
           T == StringsOf(X, L)
<1>3. S \in SUBSET Seq(Byte) /\ T \in SUBSET Seq(Byte)
      /\ DerivedFrom(Append(rhs, X), L, n) = Concatenated(S, T, n)
  BY <1>1, <1>2
<1> HIDE DEF S, T
<1>4. \A w : w \in Concatenated(S, T, n) <=>
               \E u \in S, v \in T : w = u \o v /\ Len(u) + Len(v) <= n
  BY <1>3, ConcatenatedResult
<1>5. \A w : w \in DerivedFrom(Append(rhs, X), L, n) <=>
               \E u \in S, v \in T : w = u \o v /\ Len(u) + Len(v) <= n
  BY <1>3, <1>4
<1> QED BY <1>5 DEF S, T

\* Where K has not every string of L, a string that needs L has a piece that does:
\* of one nonterminal, at some place of the right-hand side.
IsPiece(v, w) == v \in Seq(Byte) /\ \E x, y \in Seq(Byte) : w = (x \o v) \o y

LEMMA DerivedNeeds ==
  ASSUME NEW K \in Strings, NEW L \in Strings, K \subseteq L, NEW n \in Nat,
         NEW rhs \in Seq(RhsSymbol)
  PROVE  /\ DerivedFrom(rhs, K, n) \subseteq DerivedFrom(rhs, L, n)
         /\ \A w \in DerivedFrom(rhs, L, n) : w \in Seq(Byte) /\ Len(w) <= n
         /\ \A w \in DerivedFrom(rhs, L, n) \ DerivedFrom(rhs, K, n) :
              \E p \in L \ K : IsPiece(p[2], w)
<1> DEFINE all(s) == DerivedFrom(s, L, n)
           old(s) == DerivedFrom(s, K, n)
           Good(s) ==
             /\ old(s) \subseteq all(s)
             /\ \A w \in all(s) : w \in Seq(Byte) /\ Len(w) <= n
             /\ \A w \in all(s) \ old(s) : \E p \in L \ K : IsPiece(p[2], w)
           m == Len(rhs)
           S == {k \in Nat : k <= m => Good(SubSeq(rhs, 1, k))}
<1>0. m \in Nat
  OBVIOUS
<1>1. 0 \in S
  <2>1. SubSeq(rhs, 1, 0) = << >> /\ << >> \in Seq(RhsSymbol) /\ << >> \in Seq(Byte) /\ Len(<< >>) = 0
    OBVIOUS
  <2>2. all(<< >>) = {<< >>} /\ old(<< >>) = {<< >>}
    BY DerivedEmpty
  <2>3. \A w \in all(<< >>) : w \in Seq(Byte) /\ Len(w) <= n
    <3>1. << >> \in Seq(Byte) /\ Len(<< >>) <= n
      BY <2>1
    <3>2. \A w \in all(<< >>) : w = << >>
      BY <2>2
    <3> QED BY <3>1, <3>2
  <2>4. Good(<< >>)
    BY <2>2, <2>3
  <2> HIDE DEF Good
  <2> QED BY <2>1, <2>4
<1>2. ASSUME NEW k \in 0..m - 1, k \in S
      PROVE  k + 1 \in S
  <2> DEFINE u == SubSeq(rhs, 1, k)
             X == rhs[k + 1]
             t == SubSeq(rhs, 1, k + 1)
  <2>1. k \in Nat /\ k <= m /\ k + 1 \in Nat /\ k + 1 \in 1..m
    <3> HIDE DEF m
    <3> QED BY <1>0
  <2>2. u \in Seq(RhsSymbol) /\ X \in RhsSymbol /\ t = Append(u, X)
    <3> HIDE DEF RhsSymbol
    <3>1. k \in 0..Len(rhs) /\ k + 1 \in 1..Len(rhs)
      BY <2>1
    <3> QED BY <3>1
  <2> HIDE DEF m, u, X, t
  <2>3. Good(u)
    BY <1>2, <2>1 DEF u
  <2>4. \A w : w \in all(t) <=> \E x \in all(u), v \in StringsOf(X, L) :
                                  w = x \o v /\ Len(x) + Len(v) <= n
    <3>m. \A r \in Seq(RhsSymbol), Y \in RhsSymbol : \A w :
            w \in all(Append(r, Y)) <=> \E x \in all(r), v \in StringsOf(Y, L) :
                                  w = x \o v /\ Len(x) + Len(v) <= n
      BY DerivedMore
    <3>1. \A w : w \in all(Append(u, X)) <=> \E x \in all(u), v \in StringsOf(X, L) :
                                  w = x \o v /\ Len(x) + Len(v) <= n
      BY <2>2, <3>m
    <3> HIDE DEF all
    <3> QED BY <2>2, <3>1
  <2>5. \A w : w \in old(t) <=> \E x \in old(u), v \in StringsOf(X, K) :
                                  w = x \o v /\ Len(x) + Len(v) <= n
    <3>m. \A r \in Seq(RhsSymbol), Y \in RhsSymbol : \A w :
            w \in old(Append(r, Y)) <=> \E x \in old(r), v \in StringsOf(Y, K) :
                                  w = x \o v /\ Len(x) + Len(v) <= n
      BY DerivedMore
    <3>1. \A w : w \in old(Append(u, X)) <=> \E x \in old(u), v \in StringsOf(X, K) :
                                  w = x \o v /\ Len(x) + Len(v) <= n
      BY <2>2, <3>m
    <3> HIDE DEF old
    <3> QED BY <2>2, <3>1
  <2>6. /\ StringsOf(X, L) \in SUBSET Seq(Byte) /\ StringsOf(X, K) \subseteq StringsOf(X, L)
        /\ \A v \in StringsOf(X, L) \ StringsOf(X, K) : <<X, v>> \in L \ K
    <3>1. CASE X \in Nonterminal
      <4>1. /\ StringsOf(X, L) \in SUBSET Seq(Byte)
            /\ \A v : v \in StringsOf(X, L) <=> <<X, v>> \in L
            /\ \A v : v \in StringsOf(X, K) <=> <<X, v>> \in K
        BY <2>2, <3>1, StringsResult
      <4> QED BY <4>1
    <3>2. CASE X \in Terminal
      <4>1. StringsOf(X, L) \in SUBSET Seq(Byte) /\ StringsOf(X, L) = StringsOf(X, K)
        BY <2>2, <3>2, StringsResult
      <4> QED BY <4>1
    <3> QED BY <2>2, <3>1, <3>2 DEF RhsSymbol
  <2>7. ASSUME NEW w \in old(t)
        PROVE  w \in all(t)
    <3>1. PICK x \in old(u), v \in StringsOf(X, K) : w = x \o v /\ Len(x) + Len(v) <= n
      BY <2>5, Zenon
    <3>2. x \in all(u) /\ v \in StringsOf(X, L)
      BY <2>3, <2>6
    <3> QED BY <2>4, <3>1, <3>2, Zenon
  <2>8. ASSUME NEW w \in all(t)
        PROVE  /\ w \in Seq(Byte) /\ Len(w) <= n
               /\ w \notin old(t) => \E p \in L \ K : IsPiece(p[2], w)
    <3>1. PICK x \in all(u), v \in StringsOf(X, L) : w = x \o v /\ Len(x) + Len(v) <= n
      BY <2>4, Zenon
    <3>2. x \in Seq(Byte) /\ v \in Seq(Byte)
      BY <2>3, <2>6
    <3>3. w \in Seq(Byte) /\ Len(w) = Len(x) + Len(v)
      BY <3>1, <3>2
    <3>4. CASE x \notin old(u)
      <4>1. PICK p \in L \ K : IsPiece(p[2], x)
        BY <2>3, <3>4
      <4>2. PICK a \in Seq(Byte), b \in Seq(Byte) : p[2] \in Seq(Byte) /\ x = (a \o p[2]) \o b
        BY <4>1 DEF IsPiece
      <4>3. w = (a \o p[2]) \o (b \o v) /\ b \o v \in Seq(Byte)
        <5> DEFINE c == a \o p[2]
        <5>1. c \in Seq(Byte)
          BY <4>2
        <5> HIDE DEF c
        <5>b. b \in Seq(Byte) /\ v \in Seq(Byte)
          BY <3>2
        <5>2. (c \o b) \o v = c \o (b \o v)
          BY <5>b, <5>1, Associates
        <5>3. b \o v \in Seq(Byte)
          BY <5>b, Associates, Zenon
        <5> QED BY <3>1, <4>2, <5>2, <5>3 DEF c
      <4> QED BY <3>3, <3>1, <4>2, <4>3 DEF IsPiece
    <3>5. CASE x \in old(u) /\ v \notin StringsOf(X, K)
      <4>1. <<X, v>> \in L \ K /\ <<X, v>>[2] = v
        BY <2>6, <3>5
      <4>2. w = (x \o v) \o << >> /\ << >> \in Seq(Byte)
        BY <3>1, <3>2, <3>3
      <4>3. IsPiece(v, w)
        BY <3>2, <4>2 DEF IsPiece
      <4> QED BY <3>1, <3>3, <4>1, <4>3
    <3>6. CASE x \in old(u) /\ v \in StringsOf(X, K)
      <4>1. w \in old(t)
        BY <2>5, <3>1, <3>6, Zenon
      <4> QED BY <3>1, <3>3, <4>1
    <3> QED BY <3>4, <3>5, <3>6
  <2>9. Good(t)
    BY <2>7, <2>8
  <2> HIDE DEF Good
  <2> QED BY <2>1, <2>9 DEF t
<1>3. Good(rhs)
  <2>1. \A k \in 0..m : k \in S
    <3> HIDE DEF S, m
    <3> QED BY <1>0, <1>1, <1>2, UpTo
  <2>2. SubSeq(rhs, 1, m) = rhs
    OBVIOUS
  <2>3. m \in 0..m /\ m <= m
    <3> HIDE DEF m
    <3> QED BY <1>0
  <2> HIDE DEF Good, m
  <2> QED BY <2>1, <2>2, <2>3
<1> QED BY <1>3

\* The strings that trees one level higher derive.
Round(g, n, L) == UNION {{<<r.lhs, w>> : w \in DerivedFrom(r.rhs, L, n)} : r \in ToSet(g.rules)}

\* Such a round finds strings of at most n bytes.
LEMMA RoundResult ==
  ASSUME NEW g, IsGrammar(g), NEW n \in Nat, NEW L \in Strings
  PROVE  /\ Round(g, n, L) \in Strings
         /\ \A p \in Round(g, n, L) : p[1] \in Nonterminal /\ p[2] \in Seq(Byte) /\ Len(p[2]) <= n
         /\ \A r \in ToSet(g.rules) : \A w \in DerivedFrom(r.rhs, L, n) : <<r.lhs, w>> \in Round(g, n, L)
         /\ \A p \in Round(g, n, L) : \E r \in ToSet(g.rules) :
              p = <<r.lhs, p[2]>> /\ p[2] \in DerivedFrom(r.rhs, L, n)
<1>1. \A r \in ToSet(g.rules) : r.lhs \in Nonterminal /\ r.rhs \in Seq(RhsSymbol)
  <2>1. g.rules \in Seq([lhs : Nonterminal, rhs : Seq(Nonterminal \cup Terminal)])
    BY DEF IsGrammar
  <2> DEFINE R == g.rules
             T == [lhs : Nonterminal, rhs : Seq(RhsSymbol)]
  <2>2. R \in Seq(T)
    BY <2>1 DEF RhsSymbol
  <2>3. \A r \in T : r.lhs \in Nonterminal /\ r.rhs \in Seq(RhsSymbol)
    OBVIOUS
  <2> HIDE DEF T, R
  <2>4. \A r \in ToSet(R) : r \in T
    BY <2>2 DEF ToSet
  <2> QED BY <2>3, <2>4 DEF R
<1>2. ASSUME NEW r \in ToSet(g.rules), NEW w \in DerivedFrom(r.rhs, L, n)
      PROVE  w \in Seq(Byte) /\ Len(w) <= n
  <2> DEFINE rhs == r.rhs
  <2>1. rhs \in Seq(RhsSymbol) /\ w \in DerivedFrom(rhs, L, n)
    BY <1>1
  <2> HIDE DEF rhs
  <2> QED BY <2>1, DerivedNeeds
<1>3. \A p : p \in Round(g, n, L) <=> \E r \in ToSet(g.rules) : \E w \in DerivedFrom(r.rhs, L, n) : p = <<r.lhs, w>>
  BY DEF Round
<1>4. ASSUME NEW p \in Round(g, n, L)
      PROVE  /\ p \in Nonterminal \X Seq(Byte)
             /\ p[1] \in Nonterminal /\ p[2] \in Seq(Byte) /\ Len(p[2]) <= n
             /\ \E r \in ToSet(g.rules) : p = <<r.lhs, p[2]>> /\ p[2] \in DerivedFrom(r.rhs, L, n)
  <2>1. PICK r \in ToSet(g.rules) : \E w \in DerivedFrom(r.rhs, L, n) : p = <<r.lhs, w>>
    BY <1>3
  <2>2. PICK w \in DerivedFrom(r.rhs, L, n) : p = <<r.lhs, w>>
    BY <2>1
  <2>3. p[2] = w /\ p[1] = r.lhs
    BY <2>2
  <2>4. w \in Seq(Byte) /\ Len(w) <= n
    BY <1>2
  <2> QED BY <1>1, <2>2, <2>3, <2>4
<1>5. Round(g, n, L) \in Strings
  BY <1>4 DEF Strings
<1>6. \A r \in ToSet(g.rules) : \A w \in DerivedFrom(r.rhs, L, n) : <<r.lhs, w>> \in Round(g, n, L)
  BY <1>3
<1> QED BY <1>4, <1>5, <1>6

\* More strings lead to more, and what is new contains a piece that was.
LEMMA RoundGrows ==
  ASSUME NEW g, IsGrammar(g), NEW n \in Nat, NEW K \in Strings, NEW L \in Strings, K \subseteq L
  PROVE  /\ Round(g, n, K) \subseteq Round(g, n, L)
         /\ \A p \in Round(g, n, L) \ Round(g, n, K) : \E q \in L \ K : IsPiece(q[2], p[2])
<1>1. ASSUME NEW r \in ToSet(g.rules)
      PROVE  r.rhs \in Seq(RhsSymbol)
  <2>1. g.rules \in Seq([lhs : Nonterminal, rhs : Seq(Nonterminal \cup Terminal)])
    BY DEF IsGrammar
  <2> DEFINE R == g.rules
             T == [lhs : Nonterminal, rhs : Seq(RhsSymbol)]
  <2>2. R \in Seq(T)
    BY <2>1 DEF RhsSymbol
  <2>3. \A x \in T : x.lhs \in Nonterminal /\ x.rhs \in Seq(RhsSymbol)
    OBVIOUS
  <2> HIDE DEF T, R
  <2>4. \A x \in ToSet(R) : x \in T
    BY <2>2 DEF ToSet
  <2> QED BY <2>3, <2>4 DEF R
<1>2. ASSUME NEW r \in ToSet(g.rules)
      PROVE  /\ DerivedFrom(r.rhs, K, n) \subseteq DerivedFrom(r.rhs, L, n)
             /\ \A w \in DerivedFrom(r.rhs, L, n) \ DerivedFrom(r.rhs, K, n) :
                  \E p \in L \ K : IsPiece(p[2], w)
  <2> DEFINE rhs == r.rhs
  <2>1. rhs \in Seq(RhsSymbol)
    BY <1>1
  <2> HIDE DEF rhs
  <2>2. /\ DerivedFrom(rhs, K, n) \subseteq DerivedFrom(rhs, L, n)
        /\ \A w \in DerivedFrom(rhs, L, n) \ DerivedFrom(rhs, K, n) :
                  \E p \in L \ K : IsPiece(p[2], w)
    BY <2>1, DerivedNeeds
  <2> QED BY <2>2 DEF rhs
<1>3. ASSUME NEW p \in Round(g, n, K)
      PROVE  p \in Round(g, n, L)
  <2>1. PICK r \in ToSet(g.rules) : p = <<r.lhs, p[2]>> /\ p[2] \in DerivedFrom(r.rhs, K, n)
    BY RoundResult
  <2>2. p[2] \in DerivedFrom(r.rhs, L, n)
    BY <1>2, <2>1
  <2>3. <<r.lhs, p[2]>> \in Round(g, n, L)
    BY <2>2, RoundResult
  <2> QED BY <2>1, <2>3, Zenon
<1>4. ASSUME NEW p \in Round(g, n, L), p \notin Round(g, n, K)
      PROVE  \E q \in L \ K : IsPiece(q[2], p[2])
  <2>1. PICK r \in ToSet(g.rules) : p = <<r.lhs, p[2]>> /\ p[2] \in DerivedFrom(r.rhs, L, n)
    BY RoundResult
  <2>2. p[2] \notin DerivedFrom(r.rhs, K, n)
    <3> SUFFICES ASSUME p[2] \in DerivedFrom(r.rhs, K, n)
                 PROVE  FALSE
      OBVIOUS
    <3>1. <<r.lhs, p[2]>> \in Round(g, n, K)
      BY RoundResult
    <3> QED BY <1>4, <2>1, <3>1, Zenon
  <2> QED BY <1>2, <2>1, <2>2
<1> QED BY <1>3, <1>4

\* A piece of a piece is a piece, and one of full length is the whole.
LEMMA PieceOfPiece ==
  ASSUME NEW w \in Seq(Byte), NEW v, NEW u, IsPiece(v, w), IsPiece(u, v)
  PROVE  IsPiece(u, w) /\ (Len(u) = Len(w) => u = w)
<1>1. PICK x \in Seq(Byte), y \in Seq(Byte) : v \in Seq(Byte) /\ w = (x \o v) \o y
  BY DEF IsPiece
<1>2. PICK a \in Seq(Byte), b \in Seq(Byte) : u \in Seq(Byte) /\ v = (a \o u) \o b
  BY DEF IsPiece
<1> DEFINE c == x \o a
           d == b \o y
           e == a \o u
<1>3. c \in Seq(Byte) /\ d \in Seq(Byte) /\ e \in Seq(Byte)
  BY <1>1, <1>2, Associates
<1>4. w = (c \o u) \o d

  <2>1. x \o v = (x \o e) \o b
    <3> HIDE DEF e
    <3>0. x \in Seq(Byte) /\ e \in Seq(Byte) /\ b \in Seq(Byte)
      BY <1>1, <1>2, <1>3
    <3>1. x \o (e \o b) = (x \o e) \o b
      <4>1. Reassociates(x, e, b)
        BY <3>0, Reassociated, Zenon
      <4> QED BY <4>1 DEF Reassociates
    <3>2. v = e \o b
      BY <1>2 DEF e
    <3> QED BY <3>1, <3>2, Zenon
  <2>2. x \o e = c \o u
    <3>0. x \in Seq(Byte) /\ a \in Seq(Byte) /\ u \in Seq(Byte)
      BY <1>1, <1>2
    <3>1. (x \o a) \o u = x \o (a \o u)
      <4>1. Reassociates(x, a, u)
        BY <3>0, Reassociated, Zenon
      <4> QED BY <4>1 DEF Reassociates
    <3> QED BY <3>1
  <2>3. c \o u \in Seq(Byte)
    BY <1>2, <1>3, Associates
  <2> HIDE DEF c
  <2>4. ((c \o u) \o b) \o y = (c \o u) \o (b \o y)
    <3> DEFINE f == c \o u
    <3>1. f \in Seq(Byte) /\ b \in Seq(Byte) /\ y \in Seq(Byte)
      BY <2>3
    <3> HIDE DEF f
    <3>2. (f \o b) \o y = f \o (b \o y)
      <4>1. Reassociates(f, b, y)
        BY <3>1, Reassociated, Zenon
      <4> QED BY <4>1 DEF Reassociates
    <3> QED BY <3>2 DEF f
  <2> QED BY <1>1, <2>1, <2>2, <2>4
<1> HIDE DEF c, d
<1>5. ASSUME Len(u) = Len(w)
      PROVE  u = w
  <2>1. Len(w) = Len(c) + Len(u) + Len(d) /\ Len(c) \in Nat /\ Len(d) \in Nat /\ Len(u) \in Nat
    BY <1>2, <1>3, <1>4
  <2>2. Len(c) = 0 /\ Len(d) = 0
    BY <1>5, <2>1
  <2>3. c = << >> /\ d = << >>
    BY <1>3, <2>2, EmptySeq
  <2> QED BY <1>2, <1>4, <2>3
<1> QED BY <1>2, <1>3, <1>4, <1>5 DEF IsPiece

\* What is found so far leads to F, of strings of at most n bytes: more leads to more,
\* and what is new contains a piece that was.
IsGradual(F, n) ==
  /\ F \in [Strings -> Strings]
  /\ \A L \in Strings : \A p \in F[L] : Len(p[2]) <= n
  /\ \A K, L \in Strings : K \subseteq L =>
       F[K] \subseteq F[L] /\ \A p \in F[L] \ F[K] : \E q \in L \ K : IsPiece(q[2], p[2])

\* The elements of Strings.
LEMMA StringTypes ==
  ASSUME NEW L \in Strings, NEW p \in L
  PROVE  p[1] \in Nonterminal /\ p[2] \in Seq(Byte) /\ p = <<p[1], p[2]>> /\ Len(p[2]) \in Nat
BY DEF Strings

\* S lists k strings that are pieces of p or p itself and that L has, each of them
\* by its nonterminal and its length.
Listed(n, L, k, p, S) ==
  /\ S \in SUBSET (Nonterminal \X (0..n))
  /\ Cardinality(S) = k
  /\ <<p[1], Len(p[2])>> \in S
  /\ \A e \in S : \E q \in L : q[1] = e[1] /\ Len(q[2]) = e[2] /\ IsPiece(q[2], p[2])

\* After k rounds of F found L: a string that the next round adds has in it one that
\* each of the rounds added.
Deep(F, n, k, L) ==
  /\ L \subseteq F[L]
  /\ \A p \in F[L] \ L : \E S : Listed(n, F[L], k + 1, p, S)

LEMMA PieceOfItself ==
  ASSUME NEW w \in Seq(Byte)
  PROVE  IsPiece(w, w)
<1>1. << >> \in Seq(Byte) /\ w = (<< >> \o w) \o << >>
  OBVIOUS
<1> QED BY <1>1 DEF IsPiece

LEMMA CandidatesAreFinite ==
  ASSUME NEW n \in Nat
  PROVE  /\ IsFiniteSet(Nonterminal \X (0..n))
         /\ Cardinality(Nonterminal \X (0..n)) = Height(n)
         /\ Height(n) \in Nat
<1>1. IsFiniteSet(Nonterminal) /\ IsFiniteSet(0..n) /\ Cardinality(0..n) = n + 1
  BY TerminalAssumption, FS_Interval
<1>2. Cardinality(Nonterminal) \in Nat
  BY <1>1, FS_CardinalityType
<1>3. /\ IsFiniteSet(Nonterminal \X (0..n))
      /\ Cardinality(Nonterminal \X (0..n)) = Cardinality(Nonterminal) * Cardinality(0..n)
  BY <1>1, FS_Product
<1> DEFINE c == Cardinality(Nonterminal)
<1>4. c \in Nat /\ c * (n + 1) = (n + 1) * c /\ (n + 1) * c \in Nat
  <2>1. c \in Nat
    BY <1>2
  <2> HIDE DEF c
  <2> QED BY <2>1
<1> QED BY <1>1, <1>3, <1>4 DEF Height

LEMMA DeepBegins ==
  ASSUME NEW n \in Nat, NEW F, IsGradual(F, n)
  PROVE  {} \in Strings /\ Deep(F, n, 0, {})
<1>1. {} \in Strings
  BY DEF Strings
<1>2. ASSUME NEW p \in F[{}]
      PROVE  \E S : Listed(n, F[{}], 0 + 1, p, S)
  <2> DEFINE R == F[{}]
             e == <<p[1], Len(p[2])>>
  <2>1. p[1] \in Nonterminal /\ p[2] \in Seq(Byte) /\ Len(p[2]) <= n /\ Len(p[2]) \in Nat
    <3>1. R \in Strings /\ Len(p[2]) <= n
      BY <1>1, <1>2 DEF IsGradual
    <3> HIDE DEF R
    <3>2. p \in R
      BY <1>2 DEF R
    <3> QED BY <3>1, <3>2, StringTypes
  <2>2. Len(p[2]) \in 0..n
    <3> DEFINE l == Len(p[2])
    <3>1. l \in Nat /\ l <= n
      BY <2>1
    <3> HIDE DEF l
    <3>2. l \in 0..n
      BY <3>1
    <3> QED BY <3>2 DEF l
  <2>3. e \in Nonterminal \X (0..n) /\ e[1] = p[1] /\ e[2] = Len(p[2])
    BY <2>1, <2>2
  <2>4. IsPiece(p[2], p[2])
    BY <2>1, PieceOfItself
  <2> HIDE DEF e
  <2>5. Cardinality({e}) = 1
    BY FS_Singleton
  <2>6. Listed(n, R, 1, p, {e})
    <3> HIDE DEF R
    <3> QED BY <1>2, <2>3, <2>4, <2>5 DEF Listed, e, R
  <2>7. 0 + 1 = 1
    OBVIOUS
  <2> QED BY <2>6, <2>7, Zenon
<1> QED BY <1>1, <1>2 DEF Deep

LEMMA DeepGoesOn ==
  ASSUME NEW n \in Nat, NEW F, IsGradual(F, n), NEW k \in Nat, NEW L \in Strings, Deep(F, n, k, L)
  PROVE  F[L] \in Strings /\ Deep(F, n, k + 1, F[L])
<1> DEFINE M == F[L]
           N == F[M]
<1>1. M \in Strings /\ N \in Strings
  BY DEF IsGradual
<1>2. L \subseteq M /\ \A p \in M \ L : \E S : Listed(n, M, k + 1, p, S)
  BY DEF Deep
<1>m. M = F[L] /\ N = F[M]
  OBVIOUS
<1> HIDE DEF M, N
<1>3. M \subseteq N /\ \A p \in N \ M : \E q \in M \ L : IsPiece(q[2], p[2])
  BY <1>1, <1>2, <1>m DEF IsGradual
<1>4. ASSUME NEW p \in N, p \notin M
      PROVE  \E S : Listed(n, N, (k + 1) + 1, p, S)
  <2>1. PICK q \in M \ L : IsPiece(q[2], p[2])
    BY <1>3, <1>4
  <2>2. PICK S : Listed(n, M, k + 1, q, S)
    BY <1>2, <2>1
  <2>3. /\ p[1] \in Nonterminal /\ p[2] \in Seq(Byte) /\ Len(p[2]) <= n /\ Len(p[2]) \in Nat
        /\ \A r \in M : r \in Nonterminal \X Seq(Byte)
        /\ p \in Nonterminal \X Seq(Byte)
    <3>1. Len(p[2]) <= n
      BY <1>1, <1>4, <1>m DEF IsGradual
    <3>2. p[1] \in Nonterminal /\ p[2] \in Seq(Byte) /\ Len(p[2]) \in Nat
      BY <1>1, <1>4, StringTypes
    <3> QED BY <1>1, <1>4, <3>1, <3>2 DEF Strings
  <2> DEFINE e == <<p[1], Len(p[2])>>
             T == S \cup {e}
  <2>4. e \in Nonterminal \X (0..n) /\ e[1] = p[1] /\ e[2] = Len(p[2])
    <3> DEFINE l == Len(p[2])
    <3>1. l \in Nat /\ l <= n
      BY <2>3
    <3> HIDE DEF l
    <3>2. l \in 0..n
      BY <3>1
    <3> QED BY <2>3, <3>2 DEF l
  <2>5. ASSUME NEW f \in S
        PROVE  \E r \in M : r[1] = f[1] /\ Len(r[2]) = f[2] /\ IsPiece(r[2], p[2])
    <3>1. PICK r \in M : r[1] = f[1] /\ Len(r[2]) = f[2] /\ IsPiece(r[2], q[2])
      BY <2>2 DEF Listed
    <3>2. IsPiece(r[2], p[2])
      BY <2>1, <2>3, <3>1, PieceOfPiece
    <3> QED BY <3>1, <3>2
  <2>6. e \notin S
    <3> SUFFICES ASSUME e \in S
                 PROVE  FALSE
      OBVIOUS
    <3>1. PICK r \in M : r[1] = e[1] /\ Len(r[2]) = e[2] /\ IsPiece(r[2], q[2])
      BY <2>2 DEF Listed
    <3>2. Len(r[2]) = Len(p[2]) => r[2] = p[2]
      BY <2>1, <2>3, <3>1, PieceOfPiece
    <3>3. r = <<r[1], r[2]>> /\ p = <<p[1], p[2]>>
      BY <2>3
    <3>4. r = p
      BY <2>4, <3>1, <3>2, <3>3, Zenon
    <3> QED BY <1>4, <3>1, <3>4
  <2>7. Cardinality(T) = (k + 1) + 1 /\ T \in SUBSET (Nonterminal \X (0..n))
    <3>1. S \in SUBSET (Nonterminal \X (0..n)) /\ Cardinality(S) = k + 1
      BY <2>2 DEF Listed
    <3>2. IsFiniteSet(S)
      BY <3>1, CandidatesAreFinite, FS_Subset
    <3> HIDE DEF e
    <3>3. Cardinality(S \cup {e}) = Cardinality(S) + 1
      BY <2>6, <3>2, FS_AddElement
    <3> QED BY <2>4, <3>1, <3>3
  <2>8. \A f \in T : \E r \in N : r[1] = f[1] /\ Len(r[2]) = f[2] /\ IsPiece(r[2], p[2])
    <3>1. IsPiece(p[2], p[2])
      BY <2>3, PieceOfItself
    <3>2. \A f \in S : \E r \in N : r[1] = f[1] /\ Len(r[2]) = f[2] /\ IsPiece(r[2], p[2])
      BY <1>3, <2>5
    <3>3. \E r \in N : r[1] = e[1] /\ Len(r[2]) = e[2] /\ IsPiece(r[2], p[2])
      BY <1>4, <2>4, <3>1
    <3> HIDE DEF e
    <3> QED BY <3>2, <3>3
  <2>9. e \in T
    OBVIOUS
  <2> HIDE DEF T
  <2> QED BY <2>7, <2>8, <2>9 DEF Listed
<1> QED BY <1>1, <1>3, <1>4, <1>m DEF Deep

\* After as many rounds as there are nonterminals and lengths, nothing is left to add.
LEMMA DeepEnds ==
  ASSUME NEW F, NEW n \in Nat, NEW L, Deep(F, n, Height(n), L)
  PROVE  F[L] \subseteq L
<1> SUFFICES ASSUME NEW p \in F[L], p \notin L
             PROVE  FALSE
  OBVIOUS
<1> DEFINE h == Height(n)
           C == Nonterminal \X (0..n)
<1>1. PICK S : Listed(n, F[L], h + 1, p, S)
  BY DEF Deep
<1>2. S \in SUBSET C /\ Cardinality(S) = h + 1
  BY <1>1 DEF Listed
<1>3. IsFiniteSet(C) /\ Cardinality(C) = h /\ h \in Nat
  BY CandidatesAreFinite
<1> HIDE DEF h, C
<1>4. Cardinality(S) <= h
  BY <1>2, <1>3, FS_Subset
<1> QED BY <1>2, <1>3, <1>4

\* The rounds of F, as many as there are nonterminals and lengths.
RoundStep(F) == [q \in Strings \X Nat |-> F[q[1]]]
Heights(n) == [h \in 1..Height(n) |-> h]
Rounds(F, n) == Folded(RoundStep(F), {}, Heights(n))

LEMMA RoundsFold ==
  ASSUME NEW n \in Nat, NEW F, IsGradual(F, n)
  PROVE  /\ IsStep(RoundStep(F), Strings, Nat)
         /\ {} \in Strings /\ Heights(n) \in Seq(Nat) /\ Len(Heights(n)) = Height(n)
         /\ \A L \in Strings, k \in Nat : RoundStep(F)[<<L, k>>] = F[L]
<1>1. \A L \in Strings : F[L] \in Strings
  BY DEF IsGradual
<1>2. Height(n) \in Nat
  BY CandidatesAreFinite
<1>3. Heights(n) \in Seq(Nat) /\ Len(Heights(n)) = Height(n)
  <2> DEFINE m == Height(n)
  <2>1. m \in Nat /\ Heights(n) = [h \in 1..m |-> h]
    BY <1>2 DEF Heights
  <2> HIDE DEF m
  <2>2. [h \in 1..m |-> h] \in Seq(Nat) /\ Len([h \in 1..m |-> h]) = m
    BY <2>1
  <2> QED BY <2>1, <2>2 DEF m
<1>4. {} \in Strings
  BY DEF Strings
<1> QED BY <1>1, <1>3, <1>4 DEF IsStep, RoundStep

\* They find the least set that F does not lead out of.
LEMMA RoundsResult ==
  ASSUME NEW n \in Nat, NEW F, IsGradual(F, n)
  PROVE  /\ Rounds(F, n) \in Strings
         /\ F[Rounds(F, n)] \subseteq Rounds(F, n)
         /\ \A M \in Strings : F[M] \subseteq M => Rounds(F, n) \subseteq M
<1> DEFINE s == Heights(n)
           G == RoundStep(F)
           m == Height(n)
           I == {q \in Nat \X Strings : Deep(F, n, q[1], q[2])}
<1>1. IsStep(G, Strings, Nat) /\ {} \in Strings /\ s \in Seq(Nat) /\ Len(s) = m /\ m \in Nat
  BY RoundsFold, CandidatesAreFinite
<1>2. \A L \in Strings, k \in Nat : G[<<L, k>>] = F[L]
  BY RoundsFold, Zenon
<1>3. \A k \in 0..Len(s) - 1 : k \in Nat /\ k + 1 \in Nat /\ s[k + 1] \in Nat
  <2> SUFFICES ASSUME NEW k \in 0..Len(s) - 1
               PROVE  k \in Nat /\ k + 1 \in Nat /\ s[k + 1] \in Nat
    OBVIOUS
  <2> HIDE DEF s, m
  <2>1. k \in Nat /\ k + 1 \in 1..Len(s)
    BY <1>1
  <2> QED BY <1>1, <2>1
<1> HIDE DEF s, G, m
<1>4. <<Len(s), Folded(G, {}, s)>> \in I
  <2>1. <<0, {}>> \in I
    BY <1>1, DeepBegins
  <2>2. ASSUME NEW k \in 0..Len(s) - 1, NEW L \in Strings, <<k, L>> \in I
        PROVE  <<k + 1, G[<<L, s[k + 1]>>]>> \in I
    <3>1. k \in Nat /\ k + 1 \in Nat /\ G[<<L, s[k + 1]>>] = F[L]
      BY <1>2, <1>3
    <3>2. F[L] \in Strings /\ Deep(F, n, k + 1, F[L])
      BY <2>2, <3>1, DeepGoesOn
    <3> QED BY <3>1, <3>2
  <2> HIDE DEF I
  <2> QED BY <1>1, <2>1, <2>2, FoldedKeeps
<1>5. Folded(G, {}, s) \in Strings /\ Deep(F, n, m, Folded(G, {}, s))
  BY <1>1, <1>4
<1>6. F[Folded(G, {}, s)] \subseteq Folded(G, {}, s)
  BY <1>5, DeepEnds DEF m
<1>7. ASSUME NEW M \in Strings, F[M] \subseteq M
      PROVE  Folded(G, {}, s) \subseteq M
  <2> DEFINE J == {q \in Nat \X Strings : q[2] \subseteq M}
  <2>1. <<0, {}>> \in J
    BY <1>1
  <2>2. ASSUME NEW k \in 0..Len(s) - 1, NEW L \in Strings, <<k, L>> \in J
        PROVE  <<k + 1, G[<<L, s[k + 1]>>]>> \in J
    <3>1. k \in Nat /\ k + 1 \in Nat /\ G[<<L, s[k + 1]>>] = F[L]
      BY <1>2, <1>3
    <3>2. F[L] \in Strings /\ F[L] \subseteq F[M]
      BY <2>2 DEF IsGradual
    <3> QED BY <1>7, <3>1, <3>2
  <2> HIDE DEF J
  <2>3. <<Len(s), Folded(G, {}, s)>> \in J
    BY <1>1, <2>1, <2>2, FoldedKeeps
  <2> QED BY <2>3 DEF J
<1> QED BY <1>5, <1>6, <1>7 DEF Rounds, G, s

\* A round of derivations, as a function.
DerivingRound(g, n) == [L \in Strings |-> Round(g, n, L)]

LEMMA DerivingIsGradual ==
  ASSUME NEW g, IsGrammar(g), NEW n \in Nat
  PROVE  IsGradual(DerivingRound(g, n), n)
<1>1. \A L \in Strings : Round(g, n, L) \in Strings /\ \A p \in Round(g, n, L) : Len(p[2]) <= n
  BY RoundResult
<1>2. \A K, L \in Strings : K \subseteq L =>
        /\ Round(g, n, K) \subseteq Round(g, n, L)
        /\ \A p \in Round(g, n, L) \ Round(g, n, K) : \E q \in L \ K : IsPiece(q[2], p[2])
  BY RoundGrows
<1> QED BY <1>1, <1>2 DEF IsGradual, DerivingRound

\* The strings of the reference are the least closed under the rules.
LEMMA DerivationsResult ==
  ASSUME NEW g, IsGrammar(g), NEW n \in Nat
  PROVE  /\ Derivations(g, n) \in Strings
         /\ Round(g, n, Derivations(g, n)) \subseteq Derivations(g, n)
         /\ \A M \in Strings : Round(g, n, M) \subseteq M => Derivations(g, n) \subseteq M
<1> DEFINE A == Strings
           B == Nat
           a == {}
           s == Heights(n)
           H == DerivingRound(g, n)
           F == RoundStep(H)
           Equation(h) ==
             h = [T \in SUBSET DOMAIN s |->
                    IF T = {} THEN a ELSE LET x == Max(T) IN Round(g, n, h[T \ {x}])]
           iter == CHOOSE h : Equation(h)
           p == Partial(F, a, s)
<1>0. IsGradual(H, n) /\ \A L \in A : H[L] = Round(g, n, L)
  BY DerivingIsGradual DEF DerivingRound
<1>5. Derivations(g, n) = iter[DOMAIN s]
  BY Zenon DEF Derivations, FoldLeft, MapThenFoldSet, Round, Heights
<1>11. /\ Rounds(H, n) \in A /\ Round(g, n, Rounds(H, n)) \subseteq Rounds(H, n)
       /\ \A M \in A : Round(g, n, M) \subseteq M => Rounds(H, n) \subseteq M
  <2> HIDE DEF H
  <2>1. /\ Rounds(H, n) \in A /\ H[Rounds(H, n)] \subseteq Rounds(H, n)
        /\ \A M \in A : H[M] \subseteq M => Rounds(H, n) \subseteq M
    BY <1>0, RoundsResult
  <2> QED BY <1>0, <2>1
<1>1. IsStep(F, A, B) /\ a \in A /\ s \in Seq(B) /\ \A L \in A, k \in B : F[<<L, k>>] = Round(g, n, L)
  <2> HIDE DEF H
  <2> QED BY <1>0, RoundsFold
<1>4. DOMAIN s = 1..Len(s)
  BY <1>1
<1>r. Rounds(H, n) = Folded(F, a, s)
  BY DEF Rounds
<1> HIDE DEF A, B, F, a, s, H
<1>3. StepsAs(p, A, B, F, a, s)
  BY <1>1, PartialSteps, Zenon
<1> HIDE DEF p
<1>6. Equation(p)
  BY <1>1, <1>3 DEF StepsAs
<1>7. Equation(iter)
  <2> HIDE DEF Equation
  <2> QED BY <1>6
<1> HIDE DEF iter
<1>8. StepAlike(iter, p, Len(s))
  BY <1>4, <1>6, <1>7 DEF StepAlike
<1>9. FoldsTo(iter, F, a, s)
  BY <1>1, <1>8, FoldsAlike, Zenon DEF p
<1>13. Derivations(g, n) = Rounds(H, n)
  BY <1>4, <1>5, <1>9, <1>r, Zenon DEF FoldsTo
<1> QED BY <1>11, <1>13 DEF A

\* The empty string is derived by every nullable nonterminal.
LEMMA NullableDerives ==
  ASSUME NEW g, IsGrammar(g), NEW n \in Nat
  PROVE  \A B \in Nullable(g) : <<B, << >>>> \in Derivations(g, n)
<1> DEFINE L == Derivations(g, n)
           N == {B \in Nonterminal : <<B, << >>>> \in L}
<1>1. L \in Strings /\ Round(g, n, L) \subseteq L
  BY DerivationsResult
<1> HIDE DEF L
<1>2. ASSUME NEW rhs \in Seq(RhsSymbol), ToSet(rhs) \subseteq N
      PROVE  << >> \in DerivedFrom(rhs, L, n)
  <2> DEFINE m == Len(rhs)
             S == {k \in Nat : k <= m => << >> \in DerivedFrom(SubSeq(rhs, 1, k), L, n)}
  <2>0. m \in Nat
    OBVIOUS
  <2>1. 0 \in S
    <3>1. SubSeq(rhs, 1, 0) = << >>
      OBVIOUS
    <3>2. << >> \in DerivedFrom(<< >>, L, n)
      BY <1>1, DerivedEmpty
    <3> QED BY <3>1, <3>2
  <2>2. ASSUME NEW k \in 0..m - 1, k \in S
        PROVE  k + 1 \in S
    <3> DEFINE u == SubSeq(rhs, 1, k)
               X == rhs[k + 1]
               t == SubSeq(rhs, 1, k + 1)
    <3>1. k \in Nat /\ k <= m /\ k + 1 \in Nat /\ k + 1 \in 1..m
      <4> HIDE DEF m
      <4> QED BY <2>0
    <3>2. u \in Seq(RhsSymbol) /\ X \in RhsSymbol /\ t = Append(u, X)
      <4> HIDE DEF RhsSymbol
      <4>1. k \in 0..Len(rhs) /\ k + 1 \in 1..Len(rhs)
        BY <3>1
      <4> QED BY <4>1
    <3>3. X \in N
      <4>1. X \in ToSet(rhs)
        BY <3>1 DEF ToSet
      <4> QED BY <1>2, <4>1
    <3>4. << >> \in DerivedFrom(u, L, n)
      BY <2>2, <3>1
    <3> HIDE DEF m, u, X, t
    <3>5. << >> \in StringsOf(X, L)
      BY <1>1, <3>2, <3>3, StringsResult
    <3>6. << >> = << >> \o << >> /\ Len(<< >>) + Len(<< >>) <= n
      OBVIOUS
    <3>m. \A r \in Seq(RhsSymbol), Y \in RhsSymbol : \A w :
            w \in DerivedFrom(Append(r, Y), L, n) <=>
              \E x \in DerivedFrom(r, L, n), v \in StringsOf(Y, L) :
                w = x \o v /\ Len(x) + Len(v) <= n
      BY <1>1, DerivedMore
    <3>7. << >> \in DerivedFrom(Append(u, X), L, n)
      BY <3>2, <3>4, <3>5, <3>6, <3>m
    <3> QED BY <3>1, <3>2, <3>7 DEF t
  <2>3. \A k \in 0..m : k \in S
    <3> HIDE DEF S, m
    <3> QED BY <2>0, <2>1, <2>2, UpTo
  <2>4. SubSeq(rhs, 1, m) = rhs
    OBVIOUS
  <2>5. m \in 0..m /\ m <= m
    <3> HIDE DEF m
    <3> QED BY <2>0
  <2> HIDE DEF m
  <2> QED BY <2>3, <2>4, <2>5
<1>3. Erased(g, N) \subseteq N
  <2> SUFFICES ASSUME NEW A \in Nonterminal, NEW r \in RulesOf(g, A), ToSet(r.rhs) \subseteq N
               PROVE  <<A, << >>>> \in L
    BY DEF Erased
  <2>1. r \in ToSet(g.rules) /\ r.lhs = A
    BY DEF RulesOf
  <2>2. r.rhs \in Seq(RhsSymbol)
    <3>1. g.rules \in Seq([lhs : Nonterminal, rhs : Seq(Nonterminal \cup Terminal)])
      BY DEF IsGrammar
    <3> DEFINE R == g.rules
               T == [lhs : Nonterminal, rhs : Seq(RhsSymbol)]
    <3>2. R \in Seq(T)
      BY <3>1 DEF RhsSymbol
    <3>3. \A x \in T : x.rhs \in Seq(RhsSymbol)
      OBVIOUS
    <3> HIDE DEF T, R
    <3>4. \A x \in ToSet(R) : x \in T
      BY <3>2 DEF ToSet
    <3> QED BY <2>1, <3>3, <3>4 DEF R
  <2>3. << >> \in DerivedFrom(r.rhs, L, n)
    <3> DEFINE rhs == r.rhs
    <3>1. rhs \in Seq(RhsSymbol) /\ ToSet(rhs) \subseteq N
      BY <2>2
    <3> HIDE DEF rhs, N
    <3>2. << >> \in DerivedFrom(rhs, L, n)
      BY <1>2, <3>1
    <3> QED BY <3>2 DEF rhs
  <2>4. <<r.lhs, << >>>> \in Round(g, n, L)
    BY <1>1, <2>1, <2>3, RoundResult
  <2> QED BY <1>1, <2>1, <2>4, Zenon
<1>4. N \in SUBSET Nonterminal
  OBVIOUS
<1>5. Nullable(g) \subseteq N
  <2> HIDE DEF N
  <2> QED BY <1>3, <1>4, NullableResult
<1> QED BY <1>5 DEF L

-----------------------------------------------------------------------------
(***************************************************************************)
(* The prefixes of the reference, found by rounds as well.                 *)
(***************************************************************************)

\* What begins a string of symbol X, and what begins one of the right-hand side of r,
\* where P is what begins those of the nonterminals and L has the whole ones.
BegunBy(X, P) == IF X \in Terminal THEN UNION {Prefixes(w) : w \in Words[X]} ELSE StringsOf(X, P)

OfRule(r, n, L, P) ==
  DerivedFrom(r.rhs, L, n) \cup
  UNION {Concatenated(DerivedFrom(SubSeq(r.rhs, 1, k - 1), L, n), BegunBy(r.rhs[k], P), n) :
           k \in 1..Len(r.rhs)}

PrefixRound(g, n, L, P) ==
  UNION {{<<r.lhs, w>> : w \in OfRule(r, n, L, P)} : r \in ToSet(g.rules)}

LEMMA PrefixesResult ==
  ASSUME NEW w \in Seq(Byte)
  PROVE  \A v : v \in Prefixes(w) <=> v \in Seq(Byte) /\ IsPrefix(v, w)
<1>1. Len(w) \in Nat
  OBVIOUS
<1>2. ASSUME NEW v \in Prefixes(w)
      PROVE  v \in Seq(Byte) /\ IsPrefix(v, w)
  <2>1. PICK l \in 0..Len(w) : v = SubSeq(w, 1, l)
    BY <1>2 DEF Prefixes
  <2>2. v \in Seq(Byte) /\ Len(v) = l /\ l <= Len(w)
    BY <2>1
  <2>3. SubSeq(v, 1, l) = v
    BY <2>2
  <2> QED BY <2>1, <2>2, <2>3 DEF IsPrefix
<1>3. ASSUME NEW v \in Seq(Byte), IsPrefix(v, w)
      PROVE  v \in Prefixes(w)
  <2>1. Len(v) \in 0..Len(w) /\ SubSeq(v, 1, Len(v)) = v
    BY <1>1, <1>3 DEF IsPrefix
  <2>2. v = SubSeq(w, 1, Len(v))
    BY <1>3, <2>1 DEF IsPrefix
  <2> QED BY <2>1, <2>2 DEF Prefixes
<1> QED BY <1>2, <1>3

\* What begins a symbol.
LEMMA BegunByResult ==
  ASSUME NEW P \in Strings, NEW X \in RhsSymbol
  PROVE  /\ BegunBy(X, P) \in SUBSET Seq(Byte)
         /\ X \in Nonterminal => \A v : v \in BegunBy(X, P) <=> <<X, v>> \in P
         /\ X \in Terminal => \A v : v \in BegunBy(X, P) <=>
              v \in Seq(Byte) /\ \E w \in Words[X] : IsPrefix(v, w)
<1>1. CASE X \in Terminal
  <2>1. X \notin Nonterminal /\ \A w \in Words[X] : w \in Seq(Byte)
    BY <1>1, TerminalAssumption
  <2>2. \A v : v \in BegunBy(X, P) <=> v \in Seq(Byte) /\ \E w \in Words[X] : IsPrefix(v, w)
    BY <1>1, <2>1, PrefixesResult DEF BegunBy
  <2> QED BY <1>1, <2>1, <2>2
<1>2. CASE X \notin Terminal
  <2>1. X \in Nonterminal /\ BegunBy(X, P) = StringsOf(X, P)
    BY <1>2 DEF BegunBy, RhsSymbol
  <2> QED BY <1>2, <2>1, StringsResult
<1> QED BY <1>1, <1>2

\* What begins a rule: the whole of it, or its first symbols and what begins the next.
BeginsRule(r, n, L, P, w) ==
  \/ w \in DerivedFrom(r.rhs, L, n)
  \/ \E k \in 1..Len(r.rhs) : \E u \in DerivedFrom(SubSeq(r.rhs, 1, k - 1), L, n) :
       \E v \in BegunBy(r.rhs[k], P) : w = u \o v /\ Len(u) + Len(v) <= n

LEMMA OfRuleResult ==
  ASSUME NEW L \in Strings, NEW P \in Strings, NEW n \in Nat, NEW r, r.rhs \in Seq(RhsSymbol)
  PROVE  /\ \A w \in OfRule(r, n, L, P) : w \in Seq(Byte) /\ Len(w) <= n
         /\ \A w : w \in OfRule(r, n, L, P) <=> BeginsRule(r, n, L, P, w)
<1> DEFINE rhs == r.rhs
           Before(k) == DerivedFrom(SubSeq(rhs, 1, k - 1), L, n)
           At(k) == BegunBy(rhs[k], P)
<1>1. rhs \in Seq(RhsSymbol) /\ Len(rhs) \in Nat
  OBVIOUS
<1>2. \A w \in DerivedFrom(rhs, L, n) : w \in Seq(Byte) /\ Len(w) <= n
  <2> HIDE DEF rhs
  <2> QED BY <1>1, DerivedNeeds
<1>3. ASSUME NEW k \in 1..Len(rhs)
      PROVE  /\ Before(k) \in SUBSET Seq(Byte) /\ At(k) \in SUBSET Seq(Byte)
             /\ \A w : w \in Concatenated(Before(k), At(k), n) <=>
                  \E u \in Before(k), v \in At(k) : w = u \o v /\ Len(u) + Len(v) <= n
  <2> DEFINE front == SubSeq(rhs, 1, k - 1)
             X == rhs[k]
  <2>1. front \in Seq(RhsSymbol) /\ X \in RhsSymbol
    <3> HIDE DEF rhs, RhsSymbol
    <3>1. k - 1 \in 0..Len(rhs) /\ 1 \in Nat /\ k \in 1..Len(rhs)
      BY <1>1
    <3>2. SubSeq(rhs, 1, k - 1) \in Seq(RhsSymbol)
      BY <1>1, <3>1
    <3> QED BY <1>1, <3>1, <3>2
  <2> HIDE DEF front, X, rhs
  <2>2. DerivedFrom(front, L, n) \in SUBSET Seq(Byte)
    BY <2>1, DerivedNeeds
  <2>3. BegunBy(X, P) \in SUBSET Seq(Byte)
    BY <2>1, BegunByResult
  <2>4. \A w : w \in Concatenated(DerivedFrom(front, L, n), BegunBy(X, P), n) <=>
          \E u \in DerivedFrom(front, L, n), v \in BegunBy(X, P) : w = u \o v /\ Len(u) + Len(v) <= n
    <3> DEFINE S == DerivedFrom(front, L, n)
               T == BegunBy(X, P)
    <3>1. S \in SUBSET Seq(Byte) /\ T \in SUBSET Seq(Byte)
      BY <2>2, <2>3
    <3> HIDE DEF S, T
    <3>2. \A w : w \in Concatenated(S, T, n) <=>
            \E u \in S, v \in T : w = u \o v /\ Len(u) + Len(v) <= n
      BY <3>1, ConcatenatedResult
    <3> QED BY <3>2 DEF S, T
  <2> QED BY <2>2, <2>3, <2>4 DEF front, X
<1>4. OfRule(r, n, L, P) =
        DerivedFrom(rhs, L, n) \cup UNION {Concatenated(Before(k), At(k), n) : k \in 1..Len(rhs)}
  BY DEF OfRule
<1>5. ASSUME NEW k \in 1..Len(rhs), NEW w \in Concatenated(Before(k), At(k), n)
      PROVE  w \in Seq(Byte) /\ Len(w) <= n
  <2> HIDE DEF Before, At, rhs
  <2>1. PICK u \in Before(k), v \in At(k) : w = u \o v /\ Len(u) + Len(v) <= n
    BY <1>3, <1>5
  <2>2. u \in Seq(Byte) /\ v \in Seq(Byte)
    BY <1>3, <2>1
  <2>3. u \o v \in Seq(Byte) /\ Len(u \o v) = Len(u) + Len(v)
    BY <2>2
  <2> QED BY <2>1, <2>3
<1>6. \A w : w \in OfRule(r, n, L, P) <=>
        w \in DerivedFrom(rhs, L, n) \/ \E k \in 1..Len(rhs) : w \in Concatenated(Before(k), At(k), n)
  <2> HIDE DEF Before, At, rhs
  <2> QED BY <1>4
<1>7. \A w : w \in OfRule(r, n, L, P) <=>
        \/ w \in DerivedFrom(rhs, L, n)
        \/ \E k \in 1..Len(rhs) : \E u \in Before(k) : \E v \in At(k) :
             w = u \o v /\ Len(u) + Len(v) <= n
  <2> HIDE DEF Before, At, rhs
  <2> QED BY <1>3, <1>6
<1>8. \A w \in OfRule(r, n, L, P) : w \in Seq(Byte) /\ Len(w) <= n
  <2> HIDE DEF Before, At, rhs
  <2> QED BY <1>2, <1>5, <1>6
<1> QED BY <1>7, <1>8 DEF BeginsRule

\* The rules of a grammar.
LEMMA RuleShapes ==
  ASSUME NEW g, IsGrammar(g)
  PROVE  \A r \in ToSet(g.rules) : r.lhs \in Nonterminal /\ r.rhs \in Seq(RhsSymbol)
<1>1. g.rules \in Seq([lhs : Nonterminal, rhs : Seq(Nonterminal \cup Terminal)])
  BY DEF IsGrammar
<1> DEFINE R == g.rules
           T == [lhs : Nonterminal, rhs : Seq(RhsSymbol)]
<1>2. R \in Seq(T)
  BY <1>1 DEF RhsSymbol
<1>3. \A r \in T : r.lhs \in Nonterminal /\ r.rhs \in Seq(RhsSymbol)
  OBVIOUS
<1> HIDE DEF T, R
<1>4. \A r \in ToSet(R) : r \in T
  BY <1>2 DEF ToSet
<1> QED BY <1>3, <1>4 DEF R

\* What a round of prefixes finds.
LEMMA PrefixRoundResult ==
  ASSUME NEW g, IsGrammar(g), NEW n \in Nat, NEW L \in Strings, NEW P \in Strings
  PROVE  /\ PrefixRound(g, n, L, P) \in Strings
         /\ \A p \in PrefixRound(g, n, L, P) :
              /\ Len(p[2]) <= n
              /\ \E r \in ToSet(g.rules) : p = <<r.lhs, p[2]>> /\ p[2] \in OfRule(r, n, L, P)
         /\ \A r \in ToSet(g.rules) : \A w \in OfRule(r, n, L, P) :
              <<r.lhs, w>> \in PrefixRound(g, n, L, P)
<1>1. \A r \in ToSet(g.rules) : r.lhs \in Nonterminal /\ r.rhs \in Seq(RhsSymbol)
  BY RuleShapes
<1>2. ASSUME NEW r \in ToSet(g.rules), NEW w \in OfRule(r, n, L, P)
      PROVE  w \in Seq(Byte) /\ Len(w) <= n
  BY <1>1, OfRuleResult
<1>3. \A p : p \in PrefixRound(g, n, L, P) <=>
        \E r \in ToSet(g.rules) : \E w \in OfRule(r, n, L, P) : p = <<r.lhs, w>>
  BY DEF PrefixRound
<1>4. ASSUME NEW p \in PrefixRound(g, n, L, P)
      PROVE  /\ p \in Nonterminal \X Seq(Byte)
             /\ Len(p[2]) <= n
             /\ \E r \in ToSet(g.rules) : p = <<r.lhs, p[2]>> /\ p[2] \in OfRule(r, n, L, P)
  <2>1. PICK r \in ToSet(g.rules) : \E w \in OfRule(r, n, L, P) : p = <<r.lhs, w>>
    BY <1>3
  <2>2. PICK w \in OfRule(r, n, L, P) : p = <<r.lhs, w>>
    BY <2>1
  <2>3. p[2] = w /\ p[1] = r.lhs
    BY <2>2
  <2>4. w \in Seq(Byte) /\ Len(w) <= n
    BY <1>2
  <2> QED BY <1>1, <2>2, <2>3, <2>4
<1>5. PrefixRound(g, n, L, P) \in Strings
  BY <1>4 DEF Strings
<1>6. \A r \in ToSet(g.rules) : \A w \in OfRule(r, n, L, P) : <<r.lhs, w>> \in PrefixRound(g, n, L, P)
  BY <1>3
<1> QED BY <1>4, <1>5, <1>6

\* More prefixes of nonterminals lead to more of a rule, and a new one ends with one
\* that was.
LEMMA OfRuleGrows ==
  ASSUME NEW L \in Strings, NEW K \in Strings, NEW P \in Strings, K \subseteq P, NEW n \in Nat,
         NEW r, r.rhs \in Seq(RhsSymbol)
  PROVE  /\ OfRule(r, n, L, K) \subseteq OfRule(r, n, L, P)
         /\ \A w \in OfRule(r, n, L, P) \ OfRule(r, n, L, K) : \E q \in P \ K : IsPiece(q[2], w)
<1> DEFINE rhs == r.rhs
           Before(k) == DerivedFrom(SubSeq(rhs, 1, k - 1), L, n)
<1>1. ASSUME NEW k \in 1..Len(rhs)
      PROVE  /\ BegunBy(rhs[k], K) \subseteq BegunBy(rhs[k], P)
             /\ \A v \in BegunBy(rhs[k], P) \ BegunBy(rhs[k], K) :
                  v \in Seq(Byte) /\ <<rhs[k], v>> \in P \ K
             /\ Before(k) \in SUBSET Seq(Byte)
  <2> DEFINE X == rhs[k]
             front == SubSeq(rhs, 1, k - 1)
  <2>1. X \in RhsSymbol /\ front \in Seq(RhsSymbol)
    <3> HIDE DEF rhs, RhsSymbol
    <3>1. rhs \in Seq(RhsSymbol) /\ Len(rhs) \in Nat
      BY DEF rhs
    <3>2. k - 1 \in 0..Len(rhs)
      BY <3>1
    <3> QED BY <3>1, <3>2
  <2> HIDE DEF rhs, X, front
  <2>2. DerivedFrom(front, L, n) \in SUBSET Seq(Byte)
    BY <2>1, DerivedNeeds
  <2>3. CASE X \in Terminal
    BY <2>1, <2>2, <2>3 DEF X, front, BegunBy
  <2>4. CASE X \notin Terminal
    <3>1. X \in Nonterminal
      BY <2>1, <2>4 DEF RhsSymbol
    <3>2. /\ \A v : v \in BegunBy(X, K) <=> <<X, v>> \in K
          /\ \A v : v \in BegunBy(X, P) <=> <<X, v>> \in P
      BY <2>1, <3>1, BegunByResult
    <3>3. BegunBy(X, P) \in SUBSET Seq(Byte)
      BY <2>1, BegunByResult
    <3> QED BY <2>2, <3>2, <3>3 DEF X, front
  <2> QED BY <2>3, <2>4
<1>2. ASSUME NEW P0 \in Strings
      PROVE  \A w : w \in OfRule(r, n, L, P0) <=>
              \/ w \in DerivedFrom(rhs, L, n)
              \/ \E k \in 1..Len(rhs) : \E u \in Before(k) :
                   \E v \in BegunBy(rhs[k], P0) : w = u \o v /\ Len(u) + Len(v) <= n
  <2>1. \A w : w \in OfRule(r, n, L, P0) <=> BeginsRule(r, n, L, P0, w)
    BY OfRuleResult
  <2> QED BY <2>1 DEF BeginsRule
<1> HIDE DEF rhs, Before
<1>3. OfRule(r, n, L, K) \subseteq OfRule(r, n, L, P)
  <2> SUFFICES ASSUME NEW w \in OfRule(r, n, L, K)
               PROVE  w \in OfRule(r, n, L, P)
    OBVIOUS
  <2>1. CASE w \in DerivedFrom(rhs, L, n)
    BY <1>2, <2>1
  <2>2. CASE w \notin DerivedFrom(rhs, L, n)
    <3>1. PICK k \in 1..Len(rhs) : \E u \in Before(k) :
                   \E v \in BegunBy(rhs[k], K) : w = u \o v /\ Len(u) + Len(v) <= n
      BY <1>2, <2>2
    <3>2. \E u \in Before(k) : \E v \in BegunBy(rhs[k], P) : w = u \o v /\ Len(u) + Len(v) <= n
      BY <1>1, <3>1
    <3> QED BY <1>2, <3>2
  <2> QED BY <2>1, <2>2
<1>4. ASSUME NEW w \in OfRule(r, n, L, P), w \notin OfRule(r, n, L, K)
      PROVE  \E q \in P \ K : IsPiece(q[2], w)
  <2>1. w \notin DerivedFrom(rhs, L, n)
    BY <1>2, <1>4
  <2>2. PICK k \in 1..Len(rhs) : \E u \in Before(k) :
               \E v \in BegunBy(rhs[k], P) : w = u \o v /\ Len(u) + Len(v) <= n
    BY <1>2, <1>4, <2>1
  <2>3. PICK u \in Before(k) : \E v \in BegunBy(rhs[k], P) : w = u \o v /\ Len(u) + Len(v) <= n
    BY <2>2
  <2>4. PICK v \in BegunBy(rhs[k], P) : w = u \o v /\ Len(u) + Len(v) <= n
    BY <2>3
  <2>5. v \notin BegunBy(rhs[k], K)
    BY <1>2, <1>4, <2>3, <2>4
  <2>6. v \in Seq(Byte) /\ <<rhs[k], v>> \in P \ K /\ u \in Seq(Byte)
    BY <1>1, <2>3, <2>4, <2>5
  <2>7. w = (u \o v) \o << >> /\ << >> \in Seq(Byte)
    BY <2>4, <2>6
  <2>8. IsPiece(v, w)
    BY <2>6, <2>7 DEF IsPiece
  <2> DEFINE q == <<rhs[k], v>>
  <2>9. q[2] = v /\ q \in P \ K
    BY <2>6
  <2> HIDE DEF q
  <2> QED BY <2>8, <2>9
<1> QED BY <1>3, <1>4

\* A round of prefixes, as a function.
PrefixesRound(g, n, L) == [P \in Strings |-> PrefixRound(g, n, L, P)]

LEMMA PrefixesIsGradual ==
  ASSUME NEW g, IsGrammar(g), NEW n \in Nat, NEW L \in Strings
  PROVE  IsGradual(PrefixesRound(g, n, L), n)
<1>1. \A P \in Strings : PrefixRound(g, n, L, P) \in Strings /\ \A p \in PrefixRound(g, n, L, P) : Len(p[2]) <= n
  BY PrefixRoundResult
<1>r. \A r \in ToSet(g.rules) : r.rhs \in Seq(RhsSymbol)
  BY RuleShapes
<1>2. ASSUME NEW K \in Strings, NEW P \in Strings, K \subseteq P
      PROVE  /\ PrefixRound(g, n, L, K) \subseteq PrefixRound(g, n, L, P)
             /\ \A p \in PrefixRound(g, n, L, P) \ PrefixRound(g, n, L, K) : \E q \in P \ K : IsPiece(q[2], p[2])
  <2>1. ASSUME NEW p \in PrefixRound(g, n, L, K)
        PROVE  p \in PrefixRound(g, n, L, P)
    <3>1. PICK r \in ToSet(g.rules) : p = <<r.lhs, p[2]>> /\ p[2] \in OfRule(r, n, L, K)
      BY PrefixRoundResult
    <3>2. p[2] \in OfRule(r, n, L, P)
      BY <1>2, <1>r, <3>1, OfRuleGrows
    <3>3. <<r.lhs, p[2]>> \in PrefixRound(g, n, L, P)
      BY <3>2, PrefixRoundResult
    <3> QED BY <3>1, <3>3, Zenon
  <2>2. ASSUME NEW p \in PrefixRound(g, n, L, P), p \notin PrefixRound(g, n, L, K)
        PROVE  \E q \in P \ K : IsPiece(q[2], p[2])
    <3>1. PICK r \in ToSet(g.rules) : p = <<r.lhs, p[2]>> /\ p[2] \in OfRule(r, n, L, P)
      BY PrefixRoundResult
    <3>2. p[2] \notin OfRule(r, n, L, K)
      <4> SUFFICES ASSUME p[2] \in OfRule(r, n, L, K)
                   PROVE  FALSE
        OBVIOUS
      <4>1. <<r.lhs, p[2]>> \in PrefixRound(g, n, L, K)
        BY PrefixRoundResult
      <4> QED BY <2>2, <3>1, <4>1, Zenon
    <3> QED BY <1>2, <1>r, <3>1, <3>2, OfRuleGrows
  <2> QED BY <2>1, <2>2
<1> QED BY <1>1, <1>2 DEF IsGradual, PrefixesRound

\* The prefixes of the reference are the least closed under the rules.
LEMMA DerivablePrefixesResult ==
  ASSUME NEW g, IsGrammar(g), NEW n \in Nat
  PROVE  LET L == Derivations(g, n)
             P == DerivablePrefixes(g, n)
         IN /\ P \in Strings
            /\ PrefixRound(g, n, L, P) \subseteq P
            /\ \A M \in Strings : PrefixRound(g, n, L, M) \subseteq M => P \subseteq M
<1> DEFINE L == Derivations(g, n)
           A == Strings
           B == Nat
           a == {}
           s == Heights(n)
           H == PrefixesRound(g, n, L)
           F == RoundStep(H)
           Equation(h) ==
             h = [T \in SUBSET DOMAIN s |->
                    IF T = {} THEN a ELSE LET x == Max(T) IN PrefixRound(g, n, L, h[T \ {x}])]
           iter == CHOOSE h : Equation(h)
           p == Partial(F, a, s)
<1>l. L \in A
  BY DerivationsResult
<1>0. IsGradual(H, n) /\ \A P \in A : H[P] = PrefixRound(g, n, L, P)
  BY <1>l, PrefixesIsGradual DEF PrefixesRound
<1>5. DerivablePrefixes(g, n) = iter[DOMAIN s]
  BY Zenon DEF DerivablePrefixes, FoldLeft, MapThenFoldSet, PrefixRound, OfRule, BegunBy, Heights
<1>11. /\ Rounds(H, n) \in A /\ PrefixRound(g, n, L, Rounds(H, n)) \subseteq Rounds(H, n)
       /\ \A M \in A : PrefixRound(g, n, L, M) \subseteq M => Rounds(H, n) \subseteq M
  <2> HIDE DEF H
  <2>1. /\ Rounds(H, n) \in A /\ H[Rounds(H, n)] \subseteq Rounds(H, n)
        /\ \A M \in A : H[M] \subseteq M => Rounds(H, n) \subseteq M
    BY <1>0, RoundsResult
  <2> QED BY <1>0, <2>1
<1>1. IsStep(F, A, B) /\ a \in A /\ s \in Seq(B) /\ \A P \in A, k \in B : F[<<P, k>>] = PrefixRound(g, n, L, P)
  <2> HIDE DEF H
  <2> QED BY <1>0, RoundsFold
<1>4. DOMAIN s = 1..Len(s)
  BY <1>1
<1>r. Rounds(H, n) = Folded(F, a, s)
  BY DEF Rounds
<1> HIDE DEF A, B, F, a, s, H
<1>3. StepsAs(p, A, B, F, a, s)
  BY <1>1, PartialSteps, Zenon
<1> HIDE DEF p
<1>6. Equation(p)
  BY <1>1, <1>3 DEF StepsAs
<1>7. Equation(iter)
  <2> HIDE DEF Equation
  <2> QED BY <1>6
<1> HIDE DEF iter
<1>8. StepAlike(iter, p, Len(s))
  BY <1>4, <1>6, <1>7 DEF StepAlike
<1>9. FoldsTo(iter, F, a, s)
  BY <1>1, <1>8, FoldsAlike, Zenon DEF p
<1>13. DerivablePrefixes(g, n) = Rounds(H, n)
  BY <1>4, <1>5, <1>9, <1>r, Zenon DEF FoldsTo
<1> QED BY <1>11, <1>13 DEF A

-----------------------------------------------------------------------------
(***************************************************************************)
(* Walks along a right-hand side.                                          *)
(***************************************************************************)

\* w is a string of S and one of T after it, of at most n bytes.
Joins(S, T, n, w) == \E u \in S : \E v \in T : w = u \o v /\ Len(u) + Len(v) <= n

\* The strings of the first j + 1 symbols.
LEMMA DerivedAt ==
  ASSUME NEW L \in Strings, NEW n \in Nat, NEW rhs \in Seq(RhsSymbol), NEW j \in 0..Len(rhs) - 1
  PROVE  /\ rhs[j + 1] \in RhsSymbol /\ SubSeq(rhs, 1, j) \in Seq(RhsSymbol) /\ j \in Nat
         /\ \A w : w \in DerivedFrom(SubSeq(rhs, 1, j + 1), L, n) <=>
              Joins(DerivedFrom(SubSeq(rhs, 1, j), L, n), StringsOf(rhs[j + 1], L), n, w)
<1> DEFINE front == SubSeq(rhs, 1, j)
           X == rhs[j + 1]
           S == RhsSymbol
<1>1. rhs \in Seq(S) /\ Len(rhs) \in Nat
  OBVIOUS
<1>2. front \in Seq(S) /\ X \in S /\ j \in Nat /\ SubSeq(rhs, 1, j + 1) = Append(front, X)
  <2> HIDE DEF S
  <2>1. j \in Nat /\ j + 1 \in 1..Len(rhs) /\ j \in 0..Len(rhs)
    BY <1>1
  <2>2. front \in Seq(S) /\ Len(front) = j /\ \A i \in 1..j : front[i] = rhs[i]
    BY <1>1, <2>1
  <2>3. X \in S
    BY <1>1, <2>1
  <2>4. SubSeq(rhs, 1, j + 1) = Append(front, X)
    <3> DEFINE longer == SubSeq(rhs, 1, j + 1)
               other == Append(front, X)
    <3>1. longer \in Seq(S) /\ Len(longer) = j + 1 /\ \A i \in 1..j + 1 : longer[i] = rhs[i]
      BY <1>1, <2>1
    <3> HIDE DEF X, front
    <3>2. other \in Seq(S) /\ Len(other) = j + 1 /\ \A i \in 1..j : other[i] = front[i]
      BY <2>1, <2>2, <2>3
    <3>3. other[j + 1] = X
      BY <2>1, <2>2, <2>3
    <3>4. \A i \in 1..j + 1 : i \in 1..j \/ i = j + 1
      BY <2>1
    <3> HIDE DEF longer, other
    <3>5. \A i \in 1..j + 1 : longer[i] = other[i]
      BY <2>2, <3>1, <3>2, <3>3, <3>4 DEF X
    <3>6. longer = other
      BY <2>1, <3>1, <3>2, <3>5
    <3> QED BY <3>6 DEF longer, other
  <2> QED BY <2>1, <2>2, <2>3, <2>4
<1> HIDE DEF front, X, S
<1>3. \A r \in Seq(RhsSymbol), Y \in RhsSymbol : \A w :
        w \in DerivedFrom(Append(r, Y), L, n) <=>
          \E u \in DerivedFrom(r, L, n), v \in StringsOf(Y, L) : w = u \o v /\ Len(u) + Len(v) <= n
  BY DerivedMore
<1>4. \A w : w \in DerivedFrom(Append(front, X), L, n) <=>
        \E u \in DerivedFrom(front, L, n), v \in StringsOf(X, L) : w = u \o v /\ Len(u) + Len(v) <= n
  BY <1>2, <1>3 DEF S
<1> QED BY <1>2, <1>4 DEF front, X, S, Joins

\* What holds of no symbol, and of one more whenever it holds of the symbols before,
\* holds of every string of a right-hand side.
LEMMA DerivedWalk ==
  ASSUME NEW L \in Strings, NEW n \in Nat, NEW rhs \in Seq(RhsSymbol), NEW I,
         <<0, << >>>> \in I,
         \A j \in 0..Len(rhs) - 1 : \A u \in DerivedFrom(SubSeq(rhs, 1, j), L, n) :
           \A v \in StringsOf(rhs[j + 1], L) :
             <<j, u>> \in I /\ Len(u) + Len(v) <= n => <<j + 1, u \o v>> \in I
  PROVE  \A j \in 0..Len(rhs) : \A u \in DerivedFrom(SubSeq(rhs, 1, j), L, n) : <<j, u>> \in I
<1> DEFINE D(j) == DerivedFrom(SubSeq(rhs, 1, j), L, n)
           S == {j \in 0..Len(rhs) : \A u \in D(j) : <<j, u>> \in I}
           l == Len(rhs)
<1>1. l \in Nat
  OBVIOUS
<1>2. D(0) = {<< >>}
  <2>1. SubSeq(rhs, 1, 0) = << >>
    BY <1>1
  <2> QED BY <2>1, DerivedEmpty
<1>3. ASSUME NEW j \in 0..l - 1, j \in S
      PROVE  j + 1 \in S
  <2>1. \A w : w \in D(j + 1) <=>
          Joins(D(j), StringsOf(rhs[j + 1], L), n, w)
    BY DerivedAt
  <2> HIDE DEF D
  <2>2. ASSUME NEW w \in D(j + 1)
        PROVE  <<j + 1, w>> \in I
    <3>1. PICK u \in D(j), v \in StringsOf(rhs[j + 1], L) : w = u \o v /\ Len(u) + Len(v) <= n
      BY <2>1 DEF Joins
    <3>2. <<j, u>> \in I
      BY <1>3
    <3>3. <<j + 1, u \o v>> \in I
      BY <3>1, <3>2 DEF D
    <3> QED BY <3>1, <3>3
  <2>3. j + 1 \in 0..l
    <3> HIDE DEF l
    <3> QED BY <1>1
  <2> QED BY <2>2, <2>3
<1>4. 0 \in S
  <2>1. 0 \in 0..l
    <3> HIDE DEF l
    <3> QED BY <1>1
  <2> HIDE DEF D
  <2> QED BY <1>2, <2>1
<1>5. \A k \in 0..l : k \in S
  <2> HIDE DEF S, l
  <2> QED BY <1>1, <1>3, <1>4, UpTo
<1> QED BY <1>5

\* The whole right-hand side is its first so many symbols.
LEMMA AllSymbols ==
  ASSUME NEW rhs \in Seq(RhsSymbol)
  PROVE  SubSeq(rhs, 1, Len(rhs)) = rhs /\ Len(rhs) \in Nat /\ Len(rhs) \in 0..Len(rhs)
<1> HIDE DEF RhsSymbol
<1> QED OBVIOUS

\* A nonterminal derives the empty string only if it is nullable.
LEMMA EmptyOnlyIfNullable ==
  ASSUME NEW g, IsGrammar(g), NEW n \in Nat, NEW B, <<B, << >>>> \in Derivations(g, n)
  PROVE  B \in Nullable(g)
<1> DEFINE N == Nullable(g)
           M == {p \in Nonterminal \X Seq(Byte) : p[2] = << >> => p[1] \in N}
<1>1. M \in Strings
  BY DEF Strings
<1>2. ASSUME NEW r \in ToSet(g.rules), << >> \in DerivedFrom(r.rhs, M, n)
      PROVE  r.lhs \in N
  <2> DEFINE rhs == r.rhs
             Empty(j, u) == u = << >> => \A k \in 1..j : rhs[k] \in N
             I == {q \in Nat \X Seq(Byte) : Empty(q[1], q[2])}
  <2>1. rhs \in Seq(RhsSymbol) /\ r.lhs \in Nonterminal /\ << >> \in DerivedFrom(rhs, M, n)
    BY <1>2, RuleShapes
  <2> HIDE DEF rhs, M
  <2>i. \A j \in Nat, u \in Seq(Byte) : <<j, u>> \in I <=> Empty(j, u)
    <3> HIDE DEF Empty
    <3> QED OBVIOUS
  <2>2. <<0, << >>>> \in I
    <3>1. Empty(0, << >>) /\ 0 \in Nat /\ << >> \in Seq(Byte)
      OBVIOUS
    <3> HIDE DEF Empty, I
    <3> QED BY <2>i, <3>1
  <2>3. ASSUME NEW j \in 0..Len(rhs) - 1, NEW u \in DerivedFrom(SubSeq(rhs, 1, j), M, n),
               NEW v \in StringsOf(rhs[j + 1], M), <<j, u>> \in I
        PROVE  <<j + 1, u \o v>> \in I
    <3>1. j \in Nat /\ rhs[j + 1] \in RhsSymbol /\ SubSeq(rhs, 1, j) \in Seq(RhsSymbol)
      BY <1>1, <2>1, DerivedAt
    <3>2. v \in Seq(Byte) /\ u \in Seq(Byte)
      <4> DEFINE front == SubSeq(rhs, 1, j)
                 Y == rhs[j + 1]
      <4>1. front \in Seq(RhsSymbol) /\ Y \in RhsSymbol /\ v \in StringsOf(Y, M)
            /\ u \in DerivedFrom(front, M, n)
        BY <3>1
      <4> HIDE DEF front, Y
      <4>2. StringsOf(Y, M) \in SUBSET Seq(Byte)
        BY <1>1, <4>1, StringsResult
      <4>3. \A w \in DerivedFrom(front, M, n) : w \in Seq(Byte)
        BY <1>1, <4>1, DerivedNeeds
      <4> QED BY <4>1, <4>2, <4>3
    <3> DEFINE X == rhs[j + 1]
    <3>3. v = << >> => X \in N
      <4>1. CASE X \in Terminal
        <5>1. v \in Words[X]
          BY <1>1, <3>1, <4>1, StringsResult
        <5> QED BY <4>1, <5>1, TerminalAssumption
      <4>2. CASE X \in Nonterminal
        <5>1. <<X, v>> \in M
          BY <1>1, <3>1, <4>2, StringsResult
        <5> QED BY <5>1 DEF M
      <4> QED BY <3>1, <4>1, <4>2 DEF RhsSymbol
    <3> HIDE DEF N
    <3>4. u \o v = << >> => u = << >> /\ v = << >>
      BY <3>2
    <3>5. u \o v \in Seq(Byte) /\ \A k \in 1..j + 1 : k \in 1..j \/ k = j + 1
      BY <3>1, <3>2
    <3>6. u \o v = << >> => \A k \in 1..j + 1 : rhs[k] \in N
      BY <2>3, <3>3, <3>4, <3>5
    <3>7. Empty(j + 1, u \o v) /\ j + 1 \in Nat
      BY <3>1, <3>6
    <3> HIDE DEF Empty, I
    <3> QED BY <2>i, <3>5, <3>7
  <2> HIDE DEF I
  <2>4. \A j \in 0..Len(rhs) : \A u \in DerivedFrom(SubSeq(rhs, 1, j), M, n) : <<j, u>> \in I
    BY <1>1, <2>1, <2>2, <2>3, DerivedWalk
  <2>5. <<Len(rhs), << >>>> \in I
    <3>1. SubSeq(rhs, 1, Len(rhs)) = rhs /\ Len(rhs) \in 0..Len(rhs)
      BY <2>1, AllSymbols
    <3> QED BY <2>1, <2>4, <3>1
  <2>6. ToSet(rhs) \subseteq N
    <3>1. \A k \in 1..Len(rhs) : rhs[k] \in N
      BY <2>5 DEF I
    <3>2. ToSet(rhs) = {rhs[k] : k \in 1..Len(rhs)}
      BY <2>1 DEF ToSet
    <3> HIDE DEF N
    <3> QED BY <3>1, <3>2
  <2>7. r.lhs \in Erased(g, N)
    BY <2>1, <2>6 DEF Erased, RulesOf, rhs
  <2> QED BY <2>7, NullableResult
<1>3. Round(g, n, M) \subseteq M
  <2> SUFFICES ASSUME NEW p \in Round(g, n, M)
               PROVE  p \in M
    OBVIOUS
  <2>1. /\ p[1] \in Nonterminal /\ p[2] \in Seq(Byte)
        /\ \E r \in ToSet(g.rules) : p = <<r.lhs, p[2]>> /\ p[2] \in DerivedFrom(r.rhs, M, n)
    <3> HIDE DEF M
    <3> QED BY <1>1, RoundResult
  <2>2. PICK r \in ToSet(g.rules) : p = <<r.lhs, p[2]>> /\ p[2] \in DerivedFrom(r.rhs, M, n)
    BY <2>1
  <2>3. p[2] = << >> => r.lhs \in N
    BY <1>2, <2>2
  <2>4. p[1] = r.lhs /\ p \in Nonterminal \X Seq(Byte)
    <3> DEFINE w == p[2]
    <3>1. p = <<r.lhs, w>> /\ w \in Seq(Byte) /\ p[1] \in Nonterminal
      BY <2>1, <2>2
    <3> HIDE DEF w
    <3> QED BY <3>1
  <2> QED BY <2>3, <2>4
<1>4. Derivations(g, n) \subseteq M
  <2> HIDE DEF M
  <2> QED BY <1>1, <1>3, DerivationsResult
<1> QED BY <1>4

-----------------------------------------------------------------------------
(***************************************************************************)
(* What the chart says of the bytes read.                                  *)
(***************************************************************************)

Derived(g) == Derivations(g, MaxInputBytes)

\* The strings that the symbols before the dot of an item derive.
Reads(g, item) == DerivedFrom(SubSeq(RhsIn(g, item), 1, item.dot), Derived(g), MaxInputBytes)

\* What items read, by how they come about.
LEMMA ReadsResult ==
  ASSUME IsGrammar(grammar), NEW c \in Nat, NEW item, MayHold(grammar, c, item)
  PROVE  /\ Reads(grammar, item) \in SUBSET Seq(Byte)
         /\ item.dot = 0 => << >> \in Reads(grammar, item)
         /\ IsDone(grammar, item) /\ item.rule # Len(RulesIn(grammar)) =>
              /\ LhsIn(grammar, item) \in Nonterminal
              /\ \A u \in Reads(grammar, item) : <<LhsIn(grammar, item), u>> \in Derived(grammar)
         /\ \A X : Waits(grammar, item, X) =>
              \A u \in Reads(grammar, item) : \A v \in StringsOf(X, Derived(grammar)) :
                Len(u) + Len(v) <= MaxInputBytes => u \o v \in Reads(grammar, Advanced(item))
<1> DEFINE L == Derived(grammar)
           n == MaxInputBytes
           rhs == RhsIn(grammar, item)
           d == item.dot
           pre == SubSeq(rhs, 1, d)
<1>0. n \in Nat
  BY EarleyAssumption
<1>1. L \in Strings /\ Round(grammar, n, L) \subseteq L
  BY <1>0, DerivationsResult DEF Derived
<1>2. rhs \in Seq(RhsSymbol) /\ Len(rhs) \in Nat /\ d \in Nat /\ d <= Len(rhs)
  BY ItemTypes DEF MayHold, RhsSymbol
<1>r. Reads(grammar, item) = DerivedFrom(pre, L, n)
  BY DEF Reads
<1> HIDE DEF L, n, rhs, d
<1>3. pre \in Seq(RhsSymbol)
  BY <1>2
<1>4. Reads(grammar, item) \in SUBSET Seq(Byte)
  <2> HIDE DEF pre
  <2> QED BY <1>0, <1>1, <1>3, <1>r, DerivedNeeds
<1>5. ASSUME d = 0
      PROVE  << >> \in Reads(grammar, item)
  <2>1. pre = << >>
    BY <1>2, <1>5
  <2>2. << >> \in DerivedFrom(<< >>, L, n)
    BY <1>0, <1>1, DerivedEmpty
  <2> QED BY <1>r, <2>1, <2>2
<1>6. ASSUME IsDone(grammar, item), item.rule # Len(RulesIn(grammar))
      PROVE  /\ LhsIn(grammar, item) \in Nonterminal
             /\ \A u \in Reads(grammar, item) : <<LhsIn(grammar, item), u>> \in L
  <2> DEFINE rule == Rules[item.rule]
  <2>1. rule \in ToSet(grammar.rules) /\ rule.lhs = LhsIn(grammar, item) /\ rule.rhs = rhs
    BY <1>6, RuleTypes DEF MayHold, LhsIn, RhsIn, rhs
  <2>2. rule.lhs \in Nonterminal
    <3> DEFINE S == [lhs : Nonterminal, rhs : Seq(Nonterminal \cup Terminal)]
               R == grammar.rules
    <3>1. R \in Seq(S)
      BY DEF IsGrammar
    <3> HIDE DEF S, R, rule
    <3>2. rule \in S
      BY <3>1, <2>1 DEF ToSet, R
    <3> QED BY <3>2 DEF S
  <2>3. pre = rhs
    <3>1. d = Len(rhs)
      BY <1>6 DEF IsDone, d, rhs
    <3> QED BY <1>2, <3>1
  <2>4. ASSUME NEW u \in Reads(grammar, item)
        PROVE  <<rule.lhs, u>> \in L
    <3>1. u \in DerivedFrom(rule.rhs, L, n)
      BY <1>r, <2>1, <2>3
    <3> HIDE DEF rule
    <3>2. <<rule.lhs, u>> \in Round(grammar, n, L)
      BY <1>0, <1>1, <2>1, <3>1, RoundResult
    <3> QED BY <1>1, <3>2
  <2> HIDE DEF rule
  <2> QED BY <2>1, <2>2, <2>4
<1>7. ASSUME NEW X, Waits(grammar, item, X), NEW u \in Reads(grammar, item),
             NEW v \in StringsOf(X, L), Len(u) + Len(v) <= n
      PROVE  u \o v \in Reads(grammar, Advanced(item))
  <2>1. d + 1 \in 1..Len(rhs) /\ X \in RhsSymbol /\ X = rhs[d + 1]
    BY <1>7, ItemTypes DEF Waits, RhsSymbol, rhs, d
  <2>2. Advanced(item) = [rule |-> item.rule, dot |-> d + 1, origin |-> item.origin]
    BY DEF MayHold, Item, Advanced, d
  <2>3. RhsIn(grammar, Advanced(item)) = rhs /\ Advanced(item).dot = d + 1
    BY <2>2 DEF RhsIn, rhs
  <2>4. SubSeq(rhs, 1, d + 1) = Append(pre, X)
    BY <1>2, <2>1
  <2>5. Reads(grammar, Advanced(item)) = DerivedFrom(Append(pre, X), L, n)
    BY <2>3, <2>4 DEF Reads, L, n
  <2> HIDE DEF pre
  <2>m. \A r \in Seq(RhsSymbol), Y \in RhsSymbol : \A w :
          w \in DerivedFrom(Append(r, Y), L, n) <=>
            \E x \in DerivedFrom(r, L, n), y \in StringsOf(Y, L) :
              w = x \o y /\ Len(x) + Len(y) <= n
    BY <1>0, <1>1, DerivedMore
  <2>n. pre \in Seq(RhsSymbol) /\ u \in DerivedFrom(pre, L, n) /\ v \in StringsOf(X, L)
        /\ Len(u) + Len(v) <= n
    BY <1>3, <1>7, <1>r
  <2>6. u \o v \in DerivedFrom(Append(pre, X), L, n)
    BY <2>1, <2>m, <2>n
  <2> QED BY <2>5, <2>6
<1> QED BY <1>4, <1>5, <1>6, <1>7 DEF L, n, d

\* The bytes between two columns.
Between(t, a, b) == SubSeq(t, a + 1, b)

LEMMA BetweenResult ==
  ASSUME NEW t \in Seq(Byte), NEW a \in Nat, NEW b \in Nat, a <= b, b <= Len(t)
  PROVE  /\ Between(t, a, b) \in Seq(Byte)
         /\ Len(Between(t, a, b)) = b - a
         /\ Between(t, a, a) = << >>
         /\ \A c \in Nat : b <= c /\ c <= Len(t) => Between(t, a, b) \o Between(t, b, c) = Between(t, a, c)
<1>1. Between(t, a, b) \in Seq(Byte) /\ Len(Between(t, a, b)) = b - a
  BY DEF Between
<1>2. Between(t, a, a) = << >>
  BY DEF Between
<1>3. ASSUME NEW c \in Nat, b <= c, c <= Len(t)
      PROVE  Between(t, a, b) \o Between(t, b, c) = Between(t, a, c)
  BY <1>3 DEF Between
<1> QED BY <1>1, <1>2, <1>3

Adjoins(t, a, b, c) == Between(t, a, b) \o Between(t, b, c) = Between(t, a, c)

\* The last of these, named.
LEMMA BetweenAdjoins ==
  ASSUME NEW t \in Seq(Byte), NEW a \in Nat, NEW b \in Nat, NEW c \in Nat,
         a <= b, b <= c, c <= Len(t)
  PROVE  Adjoins(t, a, b, c)
<1>1. b <= Len(t)
  OBVIOUS
<1> QED BY <1>1, BetweenResult DEF Adjoins

\* One more byte.
LEMMA BetweenMore ==
  ASSUME NEW t \in Seq(Byte), NEW x \in Byte
  PROVE  /\ Append(t, x) \in Seq(Byte) /\ Len(Append(t, x)) = Len(t) + 1 /\ Len(t) \in Nat
         /\ \A a \in Nat, b \in Nat : a <= b /\ b <= Len(t) =>
              Between(Append(t, x), a, b) = Between(t, a, b)
         /\ \A a \in Nat : a <= Len(t) =>
              Append(Between(t, a, Len(t)), x) = Between(Append(t, x), a, Len(t) + 1)
<1> DEFINE s == Append(t, x)
<1>1. s \in Seq(Byte) /\ Len(s) = Len(t) + 1 /\ Len(t) \in Nat
  OBVIOUS
<1>2. ASSUME NEW a \in Nat, NEW b \in Nat, a <= b, b <= Len(t)
      PROVE  Between(s, a, b) = Between(t, a, b)
  BY <1>2 DEF Between
<1>3. ASSUME NEW a \in Nat, a <= Len(t)
      PROVE  Append(Between(t, a, Len(t)), x) = Between(s, a, Len(t) + 1)
  BY <1>3 DEF Between
<1> QED BY <1>1, <1>2, <1>3

-----------------------------------------------------------------------------
(***************************************************************************)
(* What items say of the bytes read.                                       *)
(***************************************************************************)

\* An item of column c says what was read since its column of origin.
Means(g, t, c, item) == Between(t, item.origin, c) \in Reads(g, item)

\* A Leo item says what will have been read once any string of B is.
Skips(g, t, c, B, item) ==
  \A u \in Seq(Byte) :
    <<B, u>> \in Derived(g) /\ (c - item.origin) + Len(u) <= MaxInputBytes =>
      Between(t, item.origin, c) \o u \in Reads(g, item)

SoundColumn(g, t, c, column) ==
  /\ \A item \in ToSet(column.items) : Means(g, t, c, item)
  /\ \A B \in DOMAIN column.leo : Skips(g, t, c, B, column.leo[B])

\* The chart of the bytes t.
SoundChart(g, t, chart) ==
  /\ t \in Seq(Byte) /\ Len(chart) = Len(t) + 1 /\ Len(t) <= MaxInputBytes
  /\ \A k \in 1..Len(chart) : SoundColumn(g, t, k - 1, chart[k])

\* A scan has consumed the bytes since it began.
Scanning(t, scans) == \A q \in scans : q.cursor = Between(t, q.start, Len(t))

\* The recognizer after the bytes t.
SoundAt(g, t, r) == SoundChart(g, t, r.chart) /\ Scanning(t, r.scans) /\ r.position = Len(t)

\* The items and Leo items of column k - 1.
LEMMA ColumnHolds ==
  ASSUME IsGrammar(grammar), NEW r, Core(grammar, leo, limits, r), NEW k \in 1..Len(r.chart)
  PROVE  /\ k - 1 \in Nat /\ r.chart[k] \in Column /\ r.chart[k].items \in Seq(Item)
         /\ \A item \in ToSet(r.chart[k].items) :
              MayHold(grammar, k - 1, item) /\ item.origin \in Nat /\ item.origin <= k - 1
         /\ \A B \in DOMAIN r.chart[k].leo :
              /\ B \in Nonterminal /\ MayHold(grammar, k - 1, r.chart[k].leo[B])
              /\ r.chart[k].leo[B].origin \in Nat /\ r.chart[k].leo[B].origin <= k - 1
<1> DEFINE all == r.chart
           n == Len(all)
           c == k - 1
<1>1. all \in Seq(Column) /\ n \in Nat /\ k \in 1..n
  BY DEF Core, IsChart
<1>2. IsColumn(grammar, leo, c, all[k])
  BY DEF Core, IsChart
<1>3. c \in Nat /\ all[k] \in Column
  <2> HIDE DEF all
  <2>1. all[k] \in Column
    BY <1>1
  <2> HIDE DEF n
  <2> QED BY <1>1, <2>1
<1> HIDE DEF c
<1>4. \A item : MayHold(grammar, c, item) => item.origin \in Nat /\ item.origin <= c
  BY <1>3, ItemTypes DEF MayHold
<1>5. all[k].items \in Seq(Item) /\ DOMAIN all[k].leo \subseteq Nonterminal
  BY <1>3 DEF Column
<1> QED BY <1>2, <1>3, <1>4, <1>5 DEF IsColumn, Holds, c

\* What an item says that waits for X, and what a string of X adds to it.
LEMMA AdvancedMeans ==
  ASSUME IsGrammar(grammar), NEW t \in Seq(Byte), Len(t) <= MaxInputBytes,
         NEW b \in Nat, NEW c \in Nat, b <= c, c <= Len(t),
         NEW item, MayHold(grammar, b, item), Means(grammar, t, b, item),
         NEW X, Waits(grammar, item, X),
         Between(t, b, c) \in StringsOf(X, Derived(grammar))
  PROVE  Means(grammar, t, c, Advanced(item))
<1> DEFINE o == item.origin
           u == Between(t, o, b)
           v == Between(t, b, c)
           n == MaxInputBytes
           m == Len(t)
<1>1. o \in Nat /\ o <= b /\ Advanced(item).origin = o
  BY ItemTypes DEF MayHold, Item, Advanced
<1>n. n \in Nat /\ m \in Nat
  BY EarleyAssumption
<1>2. b <= m /\ c <= m /\ m <= n
  <2> HIDE DEF m, n
  <2>1. b <= c /\ c <= m /\ m <= n
    BY DEF m, n
  <2> QED BY <1>n, <2>1
<1> HIDE DEF o, n
<1>3. Len(u) = b - o /\ Len(v) = c - b /\ u \o v = Between(t, o, c)
  BY <1>1, <1>2, BetweenResult DEF m
<1> HIDE DEF m
<1>4. Len(u) + Len(v) <= n
  <2> DEFINE x == Len(u)
             y == Len(v)
  <2>1. x = b - o /\ y = c - b
    BY <1>3
  <2> HIDE DEF x, y
  <2>2. x + y <= n
    BY <1>1, <1>2, <1>n, <2>1
  <2> QED BY <2>2 DEF x, y
<1>5. u \in Reads(grammar, item)
  BY DEF Means, o
<1> HIDE DEF u, v
<1>6. u \o v \in Reads(grammar, Advanced(item))
  BY <1>4, <1>5, ReadsResult DEF v, n
<1> QED BY <1>1, <1>3, <1>6 DEF Means

\* What follows from a sound chart is sound.
LEMMA FollowsSound ==
  ASSUME IsGrammar(grammar), NEW r, Core(grammar, leo, limits, r),
         NEW t, SoundChart(grammar, t, r.chart),
         NEW x, MayHold(grammar, Len(r.chart) - 1, x), Follows(grammar, r, x)
  PROVE  Means(grammar, t, Len(r.chart) - 1, x)
<1> DEFINE N == Len(r.chart)
           c == N - 1
           L == Derived(grammar)
<1>1. /\ N \in Nat /\ N \in 1..N /\ c \in Nat /\ c = Len(t) /\ t \in Seq(Byte)
      /\ Len(t) <= MaxInputBytes /\ c <= c /\ c <= Len(t)
  <2>1. N \in Nat /\ N >= 1 /\ N = Len(t) + 1 /\ t \in Seq(Byte) /\ Len(t) \in Nat
    BY DEF Core, IsChart, SoundChart
  <2>2. Len(t) <= MaxInputBytes
    BY DEF SoundChart
  <2> HIDE DEF N
  <2> QED BY <2>1, <2>2
<1>2. L \in Strings
  BY EarleyAssumption, DerivationsResult DEF Derived
<1>3. \A item \in ToSet(r.chart[N].items) :
        /\ MayHold(grammar, c, item) /\ Means(grammar, t, c, item)
        /\ item.origin \in Nat /\ item.origin <= c /\ item.origin + 1 \in 1..N
  <2> SUFFICES ASSUME NEW item \in ToSet(r.chart[N].items)
               PROVE  /\ MayHold(grammar, c, item) /\ Means(grammar, t, c, item)
                      /\ item.origin \in Nat /\ item.origin <= c /\ item.origin + 1 \in 1..N
    OBVIOUS
  <2>1. MayHold(grammar, c, item) /\ item.origin \in Nat /\ item.origin <= c
    BY <1>1, ColumnHolds
  <2>2. Means(grammar, t, c, item)
    BY <1>1 DEF SoundChart, SoundColumn
  <2> DEFINE o == item.origin
  <2>3. o \in Nat /\ o <= c /\ c = N - 1
    BY <2>1
  <2> HIDE DEF o, c, N
  <2>4. o + 1 \in 1..N
    BY <1>1, <2>3
  <2> QED BY <2>1, <2>2, <2>4 DEF o
<1>e. << >> = Between(t, c, c)
  BY <1>1, BetweenResult
<1> HIDE DEF N, c
<1>c1. CASE x.dot = 0 /\ x.origin = c
  <2>1. << >> \in Reads(grammar, x)
    BY <1>1, <1>c1, ReadsResult DEF c, N
  <2> QED BY <1>c1, <1>e, <2>1 DEF Means, c, N
<1>c2. ASSUME NEW item \in ToSet(r.chart[N].items), NEW X \in Nullable(grammar),
              Waits(grammar, item, X), x = Advanced(item)
       PROVE  Means(grammar, t, c, x)
  <2>1. << >> \in StringsOf(X, L)
    <3>1. <<X, << >>>> \in L /\ X \in Nonterminal
      BY EarleyAssumption, NullableDerives, NullableResult DEF Derived
    <3> QED BY <1>2, <3>1, StringsResult DEF RhsSymbol
  <2>2. Between(t, c, c) \in StringsOf(X, Derived(grammar))
    BY <1>e, <2>1, Zenon
  <2>3. MayHold(grammar, c, item) /\ Means(grammar, t, c, item)
    BY <1>3
  <2> QED BY <1>1, <1>c2, <2>2, <2>3, AdvancedMeans
<1> DEFINE Ends(item) == IsDone(grammar, item) /\ item.rule # Len(RulesIn(grammar))
<1>4. ASSUME NEW item \in ToSet(r.chart[N].items), Ends(item)
      PROVE  /\ LhsIn(grammar, item) \in Nonterminal
             /\ Between(t, item.origin, c) \in Seq(Byte)
             /\ <<LhsIn(grammar, item), Between(t, item.origin, c)>> \in Derived(grammar)
  <2>1. MayHold(grammar, c, item) /\ Means(grammar, t, c, item)
    BY <1>3
  <2>2. Between(t, item.origin, c) \in Reads(grammar, item)
    BY <2>1 DEF Means
  <2> QED BY <1>1, <1>4, <2>1, <2>2, ReadsResult
<1>c3. ASSUME NEW item \in ToSet(r.chart[N].items), Ends(item),
              NEW w \in ToSet(r.chart[item.origin + 1].items),
              Waits(grammar, w, LhsIn(grammar, item)), x = Advanced(w)
       PROVE  Means(grammar, t, c, x)
  <2> DEFINE o == item.origin
             B == LhsIn(grammar, item)
             k == o + 1
  <2>1. o \in Nat /\ o <= c /\ k \in 1..N /\ w \in ToSet(r.chart[k].items)
    BY <1>3, <1>c3
  <2>2. k - 1 = o
    BY <2>1
  <2>3. B \in Nonterminal /\ <<B, Between(t, o, c)>> \in Derived(grammar)
    BY <1>4, <1>c3
  <2>4. Waits(grammar, w, B)
    BY <1>c3
  <2> HIDE DEF o, B, k
  <2>5. MayHold(grammar, o, w) /\ Means(grammar, t, o, w)
    <3>1. MayHold(grammar, k - 1, w)
      BY <2>1, ColumnHolds DEF N
    <3>2. Means(grammar, t, k - 1, w)
      BY <2>1 DEF SoundChart, SoundColumn, N
    <3> QED BY <2>2, <3>1, <3>2
  <2>6. Between(t, o, c) \in StringsOf(B, Derived(grammar))
    BY <1>2, <2>3, StringsResult DEF RhsSymbol
  <2> QED BY <1>1, <1>c3, <2>1, <2>4, <2>5, <2>6, AdvancedMeans
<1>c4. ASSUME NEW item \in ToSet(r.chart[N].items), Ends(item),
              LhsIn(grammar, item) \in DOMAIN r.chart[item.origin + 1].leo,
              x = r.chart[item.origin + 1].leo[LhsIn(grammar, item)]
       PROVE  Means(grammar, t, c, x)
  <2> DEFINE o == item.origin
             B == LhsIn(grammar, item)
             k == o + 1
             u == Between(t, o, c)
             a == x.origin
  <2>1. o \in Nat /\ o <= c /\ k \in 1..N /\ B \in DOMAIN r.chart[k].leo /\ x = r.chart[k].leo[B]
    BY <1>3, <1>c4
  <2>2. k - 1 = o
    BY <2>1
  <2>3. <<B, u>> \in Derived(grammar) /\ u \in Seq(Byte)
    BY <1>4, <1>c4
  <2> HIDE DEF o, B, k
  <2>4. Skips(grammar, t, o, B, x) /\ a \in Nat /\ a <= o
    <3>1. Skips(grammar, t, k - 1, B, x)
      BY <2>1 DEF SoundChart, SoundColumn, N
    <3>2. a \in Nat /\ a <= k - 1
      BY <2>1, ColumnHolds DEF N
    <3> QED BY <2>2, <3>1, <3>2
  <2>5. o <= Len(t)
    <3> DEFINE m == Len(t)
    <3>1. c = m
      BY <1>1
    <3> QED BY <2>1, <3>1
  <2>6. Len(u) = c - o /\ Between(t, a, o) \o u = Between(t, a, c)
    <3>1. Len(u) = c - o
      BY <1>1, <2>1, BetweenResult
    <3> HIDE DEF a
    <3>3. \A d \in Nat : o <= d /\ d <= Len(t) => Between(t, a, o) \o Between(t, o, d) = Between(t, a, d)
      <4> SUFFICES ASSUME NEW d \in Nat, o <= d, d <= Len(t)
                   PROVE  Between(t, a, o) \o Between(t, o, d) = Between(t, a, d)
        OBVIOUS
      <4>1. t \in Seq(Byte) /\ o \in Nat /\ a \in Nat /\ a <= o
        BY <1>1, <2>1, <2>4
      <4>2. Adjoins(t, a, o, d)
        BY <4>1, BetweenAdjoins, Zenon
      <4> QED BY <4>2 DEF Adjoins
    <3>2. Between(t, a, o) \o Between(t, o, c) = Between(t, a, c)
      BY <1>1, <2>1, <3>3
    <3> QED BY <3>1, <3>2
  <2>7. (o - a) + Len(u) <= MaxInputBytes
    <3> DEFINE l == Len(u)
               m == Len(t)
               n == MaxInputBytes
    <3>1. l = c - o /\ c = m /\ m <= n /\ n \in Nat
      BY <1>1, <2>6, EarleyAssumption
    <3> HIDE DEF a, l, m, n
    <3>2. (o - a) + l <= n
      BY <1>1, <2>1, <2>4, <3>1
    <3> QED BY <3>2 DEF l, n
  <2>8. Between(t, a, o) \o u \in Reads(grammar, x)
    <3> HIDE DEF u
    <3> QED BY <2>3, <2>4, <2>7 DEF Skips
  <2> QED BY <2>6, <2>8 DEF Means
<1> QED BY <1>c1, <1>c2, <1>c3, <1>c4 DEF Follows, N, c

\* The item past B, of one that waits for B, says what will have been read after B.
LEMMA AdvancedSkips ==
  ASSUME IsGrammar(grammar), NEW t \in Seq(Byte), NEW c \in Nat, c = Len(t),
         NEW w, MayHold(grammar, c, w), Means(grammar, t, c, w),
         NEW B \in Nonterminal, Waits(grammar, w, B)
  PROVE  Skips(grammar, t, c, B, Advanced(w))
<1> DEFINE o == w.origin
           L == Derived(grammar)
           n == MaxInputBytes
           y == Between(t, o, c)
<1>1. o \in Nat /\ o <= c /\ Advanced(w).origin = o
  BY ItemTypes DEF MayHold, Item, Advanced
<1>2. L \in Strings /\ n \in Nat
  BY EarleyAssumption, DerivationsResult DEF Derived
<1> HIDE DEF o
<1>3. Len(y) = c - o /\ y \in Reads(grammar, w)
  <2>1. c <= Len(t)
    OBVIOUS
  <2>2. Len(y) = c - o
    BY <1>1, <2>1, BetweenResult
  <2> QED BY <2>2 DEF Means, o
<1> SUFFICES ASSUME NEW u \in Seq(Byte), <<B, u>> \in L, (c - o) + Len(u) <= n
             PROVE  y \o u \in Reads(grammar, Advanced(w))
  BY <1>1 DEF Skips
<1> HIDE DEF y, n
<1>4. u \in StringsOf(B, L)
  BY <1>2, StringsResult DEF RhsSymbol
<1>5. Len(y) + Len(u) <= n
  BY <1>3
<1> QED BY <1>3, <1>4, <1>5, ReadsResult DEF L, n

\* One Leo item goes on where another ends.
LEMMA SkipsOn ==
  ASSUME IsGrammar(grammar), NEW t \in Seq(Byte), Len(t) <= MaxInputBytes,
         NEW c \in Nat, c = Len(t), NEW B,
         NEW item, MayHold(grammar, c, item), Skips(grammar, t, c, B, item),
         IsDone(grammar, item), LhsIn(grammar, item) \in Nonterminal,
         NEW x, Skips(grammar, t, item.origin, LhsIn(grammar, item), x),
         x.origin \in Nat, x.origin <= item.origin
  PROVE  Skips(grammar, t, c, B, x)
<1> DEFINE o == item.origin
           a == x.origin
           n == MaxInputBytes
           y == Between(t, o, c)
           z == Between(t, a, o)
           C == LhsIn(grammar, item)
<1>1. o \in Nat /\ o <= c /\ a \in Nat /\ a <= o /\ n \in Nat /\ c <= Len(t)
  BY ItemTypes, EarleyAssumption DEF MayHold
<1>2. item.rule # Len(RulesIn(grammar))
  <2> SUFFICES ASSUME item.rule = Len(Rules)
               PROVE  FALSE
    BY RuleTypes
  <2>1. LhsIn(grammar, item) = Augmented
    BY RuleTypes DEF LhsIn
  <2> QED BY <2>1, EarleyAssumption
<1>3. /\ \A u \in Seq(Byte) : <<B, u>> \in Derived(grammar) /\ (c - o) + Len(u) <= n =>
            y \o u \in Reads(grammar, item)
      /\ \A u \in Seq(Byte) : <<C, u>> \in Derived(grammar) /\ (o - a) + Len(u) <= n =>
            z \o u \in Reads(grammar, x)
      /\ IsDone(grammar, item)
  BY DEF Skips
<1> SUFFICES ASSUME NEW u \in Seq(Byte), <<B, u>> \in Derived(grammar), (c - a) + Len(u) <= n
             PROVE  Between(t, a, c) \o u \in Reads(grammar, x)
  BY DEF Skips
<1> DEFINE v == y \o u
<1> HIDE DEF o, a, n
<1>4. y \in Seq(Byte) /\ z \in Seq(Byte) /\ Len(y) = c - o /\ z \o y = Between(t, a, c)
  <2>1. y \in Seq(Byte) /\ Len(y) = c - o
    BY <1>1, BetweenResult
  <2>2. o <= Len(t)
    <3> DEFINE m == Len(t)
    <3>1. c = m
      OBVIOUS
    <3> HIDE DEF m
    <3>2. o <= m
      BY <1>1, <3>1
    <3> QED BY <3>2 DEF m
  <2>3. z \in Seq(Byte) /\ \A d \in Nat : o <= d /\ d <= Len(t) => z \o Between(t, o, d) = Between(t, a, d)
    <3>1. t \in Seq(Byte) /\ a \in Nat /\ o \in Nat /\ a <= o /\ o <= Len(t)
      BY <1>1, <2>2
    <3>2. z \in Seq(Byte)
      BY <3>1, BetweenResult, Zenon
    <3>3. \A d \in Nat : o <= d /\ d <= Len(t) => z \o Between(t, o, d) = Between(t, a, d)
      <4> SUFFICES ASSUME NEW d \in Nat, o <= d, d <= Len(t)
                   PROVE  z \o Between(t, o, d) = Between(t, a, d)
        OBVIOUS
      <4>1. Adjoins(t, a, o, d)
        BY <3>1, BetweenAdjoins, Zenon
      <4> QED BY <4>1 DEF Adjoins
    <3> QED BY <3>2, <3>3
  <2> QED BY <1>1, <2>1, <2>3
<1> HIDE DEF y, z
<1>5. /\ v \in Seq(Byte) /\ Len(v) = (c - o) + Len(u) /\ (z \o y) \o u = z \o v
      /\ Len(u) \in Nat
  <2>1. y \in Seq(Byte) /\ z \in Seq(Byte) /\ u \in Seq(Byte)
    BY <1>4
  <2>2. v \in Seq(Byte) /\ Len(v) = Len(y) + Len(u) /\ Len(u) \in Nat
    BY <2>1
  <2>3. (z \o y) \o u = z \o v
    <3>1. Reassociates(z, y, u)
      BY <2>1, Reassociated, Zenon
    <3> QED BY <3>1 DEF Reassociates
  <2> HIDE DEF v
  <2> QED BY <1>4, <2>2, <2>3
<1> HIDE DEF v
<1>6. (c - o) + Len(u) <= n /\ (o - a) + Len(v) <= n
  <2> DEFINE k == Len(u)
             l == Len(v)
  <2>1. k \in Nat /\ l = (c - o) + k /\ (c - a) + k <= n
    BY <1>5
  <2> HIDE DEF k, l
  <2>2. (c - o) + k <= n /\ (o - a) + l <= n
    BY <1>1, <2>1
  <2> QED BY <2>2 DEF k, l
<1>7. v \in Reads(grammar, item)
  BY <1>3, <1>6 DEF v
<1>8. <<C, v>> \in Derived(grammar)
  BY <1>2, <1>3, <1>7, ReadsResult
<1>9. z \o v \in Reads(grammar, x)
  <2> HIDE DEF C
  <2> QED BY <1>3, <1>5, <1>6, <1>8
<1> QED BY <1>4, <1>5, <1>9

\* The Leo items of a column skip only what is complete.
LEMMA LeoItemsSound ==
  ASSUME IsGrammar(grammar), NEW r, Core(grammar, leo, limits, r),
         NEW t, SoundChart(grammar, t, r.chart)
  PROVE  \A B \in DOMAIN LeoItems(r) : Skips(grammar, t, Len(r.chart) - 1, B, LeoItems(r)[B])
<1> DEFINE n == Len(r.chart)
           c == n - 1
           eligible == {B \in Nonterminal : /\ Len(AllWaiters(r, c, B)) = 1
                                            /\ IsComplete(Advanced(AllWaiters(r, c, B)[1]))}
           top(item) ==
             IF item.origin < c /\ Lhs(item) \in DOMAIN r.chart[item.origin + 1].leo
             THEN r.chart[item.origin + 1].leo[Lhs(item)] ELSE item
           found == [B \in eligible |-> top(Advanced(AllWaiters(r, c, B)[1]))]
<1>1. /\ n \in Nat /\ n >= 1 /\ c \in Nat /\ c + 1 = n /\ n \in 1..n
      /\ c = Len(t) /\ t \in Seq(Byte) /\ Len(t) <= MaxInputBytes
  <2>1. n \in Nat /\ n >= 1 /\ n = Len(t) + 1 /\ t \in Seq(Byte) /\ Len(t) \in Nat
    BY DEF Core, IsChart, SoundChart
  <2>2. Len(t) <= MaxInputBytes
    BY DEF SoundChart
  <2> HIDE DEF n
  <2> QED BY <2>1, <2>2
<1>2. LeoItems(r) = found
  BY DEF LeoItems, LastColumn
<1>4. ASSUME NEW B \in eligible
      PROVE  Skips(grammar, t, c, B, top(Advanced(AllWaiters(r, c, B)[1])))
  <2> DEFINE waiting == AllWaiters(r, c, B)
             w == waiting[1]
             item == Advanced(w)
             o == item.origin
             x == r.chart[o + 1].leo[Lhs(item)]
  <2>0. n - 1 \in Nat /\ r.chart[n].items \in Seq(Item)
    BY <1>1, ColumnHolds
  <2>1. r.chart[c + 1].items \in Seq(Item)
    <3> HIDE DEF c, n
    <3> QED BY <1>1, <2>0
  <2>2. /\ waiting \in Seq(Item) /\ Len(waiting) = 1
        /\ ToSet(waiting) = {y \in ToSet(r.chart[c + 1].items) : Expects(y, B)}
        /\ IsComplete(item) /\ B \in Nonterminal
    BY <2>1, AllWaitersResult
  <2>3. w \in ToSet(waiting)
    <3> HIDE DEF waiting
    <3> QED BY <2>2 DEF ToSet
  <2>4. w \in ToSet(r.chart[n].items) /\ Waits(grammar, w, B)
    BY <1>1, <2>2, <2>3, ItemOperators
  <2>5. MayHold(grammar, c, w) /\ Means(grammar, t, c, w)
    BY <1>1, <2>4, ColumnHolds DEF SoundChart, SoundColumn
  <2>6. MayHold(grammar, c, item) /\ IsDone(grammar, item)
    <3>1. Holds(grammar, TRUE, c, item)
      <4>1. c <= c
        BY <1>1
      <4> HIDE DEF c, w
      <4> QED BY <1>1, <2>4, <2>5, <4>1, AdvancedHolds
    <3> QED BY <2>2, <3>1, ItemOperators DEF Holds
  <2>9. Skips(grammar, t, c, B, item)
    <3> HIDE DEF c, w
    <3> QED BY <1>1, <2>2, <2>4, <2>5, AdvancedSkips
  <2> HIDE DEF item
  <2>7. CASE o < c /\ Lhs(item) \in DOMAIN r.chart[o + 1].leo
    <3> DEFINE C == Lhs(item)
    <3>0. C = LhsIn(grammar, item)
      BY ItemOperators
    <3>1. o \in Nat
      BY <1>1, <2>6, ItemTypes
    <3>8. C \in DOMAIN r.chart[o + 1].leo
      BY <2>7
    <3> HIDE DEF o, c, n, C
    <3>2. o + 1 \in 1..n /\ o + 1 - 1 = o /\ o <= c
      BY <1>1, <2>7, <3>1
    <3>4. PICK k : k = o + 1
      OBVIOUS
    <3>5. k \in 1..n /\ k - 1 = o /\ C \in DOMAIN r.chart[k].leo /\ x = r.chart[k].leo[C]
      <4>1. k \in 1..n /\ k - 1 = o
        BY <3>1, <3>2, <3>4
      <4>2. x = r.chart[o + 1].leo[C]
        BY DEF C
      <4> HIDE DEF x
      <4> QED BY <3>4, <3>8, <4>1, <4>2
    <3>6. C \in Nonterminal /\ x.origin \in Nat /\ x.origin <= o /\ Skips(grammar, t, o, C, x)
      <4>1. C \in Nonterminal /\ x.origin \in Nat /\ x.origin <= k - 1
        BY <3>5, ColumnHolds DEF n
      <4>2. Skips(grammar, t, k - 1, C, x)
        BY <3>5 DEF SoundChart, SoundColumn, n
      <4> QED BY <3>5, <4>1, <4>2
    <3> HIDE DEF x
    <3>7. Skips(grammar, t, c, B, x)
      BY <1>1, <2>6, <2>9, <3>0, <3>6, SkipsOn DEF o
    <3> QED BY <2>7, <3>7 DEF item, o, x
  <2>8. CASE ~(o < c /\ Lhs(item) \in DOMAIN r.chart[o + 1].leo)
    BY <2>8, <2>9 DEF item
  <2> QED BY <2>7, <2>8
<1> HIDE DEF top, c, eligible
<1>5. DOMAIN found = eligible /\ \A B \in eligible : Skips(grammar, t, c, B, found[B])
  BY <1>4
<1> HIDE DEF found
<1> QED BY <1>2, <1>5 DEF c

\* The facts of a chart that the steps need.
LEMMA SoundChartFacts ==
  ASSUME IsGrammar(grammar), NEW r, Core(grammar, leo, limits, r),
         NEW t, SoundChart(grammar, t, r.chart)
  PROVE  /\ t \in Seq(Byte) /\ Len(t) \in Nat /\ Len(t) <= MaxInputBytes
         /\ Len(r.chart) \in Nat /\ Len(r.chart) >= 1 /\ Len(r.chart) \in 1..Len(r.chart)
         /\ Len(r.chart) - 1 = Len(t) /\ Len(r.chart) = Len(t) + 1
         /\ \A k \in 1..Len(r.chart) : SoundColumn(grammar, t, k - 1, r.chart[k])
<1> DEFINE n == Len(r.chart)
           m == Len(t)
<1>1. n \in Nat /\ n >= 1 /\ n = m + 1 /\ t \in Seq(Byte) /\ m \in Nat
  BY DEF Core, IsChart, SoundChart
<1>2. Len(t) <= MaxInputBytes
  BY DEF SoundChart
<1>3. \A k \in 1..n : SoundColumn(grammar, t, k - 1, r.chart[k])
  BY DEF SoundChart
<1> HIDE DEF n, m
<1>4. n - 1 = m /\ n \in 1..n
  BY <1>1
<1> QED BY <1>1, <1>2, <1>3, <1>4 DEF n, m

\* The agenda keeps a chart sound.
LEMMA ProcessedSound ==
  ASSUME IsGrammar(grammar), leo \in BOOLEAN, limits \in LimitSet,
         NEW r, Core(grammar, leo, limits, r),
         NEW n \in 1..Len(r.chart[Len(r.chart)].items), ~Processed(r, n).over,
         NEW t, SoundChart(grammar, t, r.chart)
  PROVE  SoundChart(grammar, t, Processed(r, n).chart)
<1> DEFINE q == Processed(r, n)
           N == Len(r.chart)
<1>1. /\ Core(grammar, leo, limits, q) /\ Grows(q, r)
      /\ \A x \in ToSet(q.chart[N].items) : x \in ToSet(r.chart[N].items) \/ Follows(grammar, r, x)
  BY ProcessedKeeps
<1> HIDE DEF q
<1>2. /\ t \in Seq(Byte) /\ Len(t) <= MaxInputBytes /\ N \in Nat /\ N \in 1..N
      /\ N = Len(t) + 1 /\ Len(q.chart) = N
      /\ \A k \in 1..N : SoundColumn(grammar, t, k - 1, r.chart[k])
  BY <1>1, SoundChartFacts DEF Grows
<1>3. SoundColumn(grammar, t, N - 1, q.chart[N])
  <2>1. ASSUME NEW x \in ToSet(q.chart[N].items)
        PROVE  Means(grammar, t, N - 1, x)
    <3>1. CASE x \in ToSet(r.chart[N].items)
      BY <1>2, <3>1 DEF SoundColumn
    <3>2. CASE Follows(grammar, r, x)
      <4>1. MayHold(grammar, N - 1, x)
        <5>1. N \in 1..Len(q.chart)
          BY <1>2
        <5> HIDE DEF N
        <5> QED BY <1>1, <5>1, ColumnHolds
      <4> QED BY <3>2, <4>1, FollowsSound
    <3> QED BY <1>1, <3>1, <3>2
  <2>2. q.chart[N].leo = r.chart[N].leo
    BY <1>1 DEF Grows
  <2>3. SoundColumn(grammar, t, N - 1, r.chart[N])
    BY <1>2
  <2> QED BY <2>1, <2>2, <2>3 DEF SoundColumn
<1>4. ASSUME NEW k \in 1..N
      PROVE  SoundColumn(grammar, t, k - 1, q.chart[k])
  <2>1. CASE k = N
    BY <1>3, <2>1
  <2>2. CASE k # N
    <3>1. k \in 1..N - 1
      <4> HIDE DEF N
      <4> QED BY <1>2, <2>2
    <3>2. q.chart[k] = r.chart[k]
      BY <1>1, <3>1 DEF Grows
    <3> QED BY <1>2, <3>2
  <2> QED BY <2>1, <2>2
<1> QED BY <1>2, <1>4 DEF SoundChart, q

\* The scans that a byte feeds have consumed it too.
LEMMA FedScanning ==
  ASSUME NEW t \in Seq(Byte), NEW b \in Byte, NEW scans \in SUBSET Cursors,
         Begun(scans, Len(t) + 1), Scanning(t, scans)
  PROVE  Scanning(Append(t, b), Fed(scans, b))
<1> DEFINE m == Len(t)
           s == Append(t, b)
<1>1. /\ m \in Nat /\ Len(s) = m + 1
      /\ \A a \in Nat : a <= m => Append(Between(t, a, m), b) = Between(s, a, m + 1)
  BY BetweenMore
<1> SUFFICES ASSUME NEW f \in Fed(scans, b)
             PROVE  f.cursor = Between(s, f.start, Len(s))
  BY DEF Scanning
<1>2. PICK q \in scans : f = [q EXCEPT !.cursor = Append(@, b)]
  BY DEF Fed
<1>3. f.cursor = Append(q.cursor, b) /\ f.start = q.start /\ q.start \in Nat
  BY <1>2 DEF Cursors
<1> DEFINE a == q.start
<1>4. q.cursor = Between(t, a, m) /\ a < m + 1 /\ a \in Nat
  BY <1>3 DEF Scanning, Begun
<1> HIDE DEF a, m
<1>5. a <= m
  BY <1>1, <1>4
<1> HIDE DEF s
<1> QED BY <1>1, <1>3, <1>4, <1>5 DEF a

\* A byte's new column holds what the scans have matched, and the others are as sound
\* as before.
LEMMA ScannedSound ==
  ASSUME IsGrammar(grammar), leo \in BOOLEAN, limits \in LimitSet,
         NEW r, Core(grammar, leo, limits, r), NEW b \in Byte, ~Scanned(r, b).over, Fits(r),
         NEW t, SoundAt(grammar, t, r)
  PROVE  /\ SoundChart(grammar, Append(t, b), Scanned(r, b).chart)
         /\ Scanning(Append(t, b), Fed(r.scans, b))
<1> DEFINE q == Scanned(r, b)
           N == Len(r.chart)
           m == Len(t)
           s == Append(t, b)
           L == Derived(grammar)
<1>1. /\ Len(q.chart) = N + 1 /\ AgreeTo(q, r, N) /\ q.chart[N + 1].leo = << >>
      /\ \A y \in ToSet(q.chart[N + 1].items) : \E T \in Terminal : WaitedIn(r, Fed(r.scans, b), T, y)
  BY ScannedKeeps
<1> HIDE DEF q
<1>2. /\ t \in Seq(Byte) /\ m \in Nat /\ N = m + 1 /\ N \in Nat
      /\ \A k \in 1..N : SoundColumn(grammar, t, k - 1, r.chart[k])
  BY SoundChartFacts DEF SoundAt
<1>3. /\ s \in Seq(Byte) /\ Len(s) = m + 1
      /\ \A a \in Nat, c \in Nat : a <= c /\ c <= m => Between(s, a, c) = Between(t, a, c)
  BY <1>2, BetweenMore
<1>4. m + 1 <= MaxInputBytes
  BY DEF Fits, SoundAt
<1>5. Scanning(s, Fed(r.scans, b))
  <2>1. r.scans \in SUBSET Cursors /\ Begun(r.scans, m + 1) /\ Scanning(t, r.scans)
    BY <1>2 DEF Core, Recognizer, SoundAt
  <2> QED BY <1>2, <2>1, FedScanning
<1> HIDE DEF s
<1>6. ASSUME NEW k \in 1..N
      PROVE  /\ k - 1 \in Nat /\ k - 1 <= m
             /\ \A item \in ToSet(r.chart[k].items) :
                  MayHold(grammar, k - 1, item) /\ Means(grammar, s, k - 1, item)
             /\ SoundColumn(grammar, s, k - 1, r.chart[k])
  <2> DEFINE c == k - 1
  <2>1. c \in Nat /\ c <= m
    <3> HIDE DEF m, N
    <3> QED BY <1>2
  <2>2. /\ \A item \in ToSet(r.chart[k].items) :
              MayHold(grammar, c, item) /\ item.origin \in Nat /\ item.origin <= c
        /\ \A B \in DOMAIN r.chart[k].leo :
              r.chart[k].leo[B].origin \in Nat /\ r.chart[k].leo[B].origin <= c
    BY ColumnHolds
  <2>3. SoundColumn(grammar, t, c, r.chart[k])
    BY <1>2
  <2> HIDE DEF c, N, m
  <2>4. \A item \in ToSet(r.chart[k].items) : Means(grammar, s, c, item)
    BY <1>3, <2>1, <2>2, <2>3 DEF SoundColumn, Means
  <2>5. \A B \in DOMAIN r.chart[k].leo : Skips(grammar, s, c, B, r.chart[k].leo[B])
    <3> SUFFICES ASSUME NEW B \in DOMAIN r.chart[k].leo
                 PROVE  Skips(grammar, s, c, B, r.chart[k].leo[B])
      OBVIOUS
    <3> DEFINE x == r.chart[k].leo[B]
    <3>1. Skips(grammar, t, c, B, x) /\ x.origin \in Nat /\ x.origin <= c
      BY <2>2, <2>3 DEF SoundColumn
    <3> HIDE DEF x
    <3>2. Between(s, x.origin, c) = Between(t, x.origin, c)
      BY <1>3, <2>1, <3>1
    <3> QED BY <3>1, <3>2 DEF Skips, x
  <2> QED BY <2>1, <2>2, <2>4, <2>5 DEF SoundColumn, c
<1>7. SoundColumn(grammar, s, N, q.chart[N + 1])
  <2>1. ASSUME NEW y \in ToSet(q.chart[N + 1].items)
        PROVE  Means(grammar, s, N, y)
    <3>1. PICK T \in Terminal : WaitedIn(r, Fed(r.scans, b), T, y)
      BY <1>1
    <3>2. PICK c \in 0..N - 1 :
            /\ \E f \in Fed(r.scans, b) : f.terminal = T /\ f.start = c /\ IsAcceptingCursor(T, f.cursor)
            /\ \E item \in ToSet(r.chart[c + 1].items) : Expects(item, T) /\ y = Advanced(item)
      BY <3>1 DEF WaitedIn
    <3>3. PICK f \in Fed(r.scans, b) : f.terminal = T /\ f.start = c /\ IsAcceptingCursor(T, f.cursor)
      BY <3>2
    <3>4. PICK item \in ToSet(r.chart[c + 1].items) : Expects(item, T) /\ y = Advanced(item)
      BY <3>2
    <3>5. c \in Nat /\ c + 1 \in 1..N /\ c + 1 - 1 = c /\ c <= N /\ N = Len(s) /\ N <= Len(s)
      <4> HIDE DEF N, m
      <4> QED BY <1>2, <1>3
    <3>6. MayHold(grammar, c, item) /\ Means(grammar, s, c, item)
      <4> DEFINE k == c + 1
      <4>1. k \in 1..N /\ k - 1 = c /\ item \in ToSet(r.chart[k].items)
        BY <3>5
      <4> HIDE DEF k, N, m
      <4>2. MayHold(grammar, k - 1, item) /\ Means(grammar, s, k - 1, item)
        BY <1>6, <4>1
      <4> QED BY <4>1, <4>2
    <3>7. Waits(grammar, item, T)
      BY <3>4, ItemOperators
    <3>8. Between(s, c, N) \in StringsOf(T, Derived(grammar))
      <4>1. f.cursor = Between(s, c, N)
        BY <1>5, <3>3, <3>5 DEF Scanning
      <4>2. f.cursor \in Words[T]
        BY <3>3 DEF IsAcceptingCursor
      <4> QED BY <4>1, <4>2 DEF StringsOf
    <3>9. Len(s) <= MaxInputBytes
      BY <1>3, <1>4
    <3> HIDE DEF N, m
    <3> QED BY <1>2, <1>3, <3>4, <3>5, <3>6, <3>7, <3>8, <3>9, AdvancedMeans
  <2>2. DOMAIN << >> = {}
    OBVIOUS
  <2> QED BY <1>1, <2>1, <2>2 DEF SoundColumn
<1>8. ASSUME NEW k \in 1..N + 1
      PROVE  SoundColumn(grammar, s, k - 1, q.chart[k])
  <2>1. CASE k = N + 1
    <3>1. k - 1 = N
      <4> HIDE DEF N, m
      <4> QED BY <1>2, <2>1
    <3> QED BY <1>7, <2>1, <3>1
  <2>2. CASE k # N + 1
    <3>1. k \in 1..N
      <4> HIDE DEF N, m
      <4> QED BY <1>2, <2>2
    <3>2. q.chart[k] = r.chart[k]
      BY <1>1, <3>1 DEF AgreeTo
    <3> QED BY <1>6, <3>1, <3>2
  <2> QED BY <2>1, <2>2
<1>9. Len(q.chart) = Len(s) + 1 /\ Len(s) <= MaxInputBytes
  <2> DEFINE l == Len(s)
             M == Len(q.chart)
  <2>1. l = m + 1 /\ M = N + 1
    BY <1>1, <1>3
  <2> HIDE DEF l, m, M, N
  <2>2. M = l + 1 /\ l <= MaxInputBytes
    BY <1>2, <1>4, <2>1
  <2> QED BY <2>2 DEF l, M
<1> HIDE DEF N
<1> QED BY <1>1, <1>3, <1>5, <1>8, <1>9 DEF SoundChart, q, s

\* The end of a column.
LEMMA FinishedSound ==
  ASSUME IsGrammar(grammar), leo \in BOOLEAN, limits \in LimitSet,
         NEW r, Core(grammar, leo, limits, r), r.chart[Len(r.chart)].leo = << >>,
         NEW running \in SUBSET Cursors, Begun(running, Len(r.chart)),
         ~Finished(r, running).over,
         NEW t, SoundChart(grammar, t, r.chart), Scanning(t, running)
  PROVE  SoundAt(grammar, t, Finished(r, running))
<1> DEFINE q == Finished(r, running)
           N == Len(r.chart)
<1>1. /\ Len(q.chart) = N /\ AgreeTo(q, r, N - 1) /\ q.chart[N].items = r.chart[N].items
      /\ q.chart[N].leo = (IF leo THEN LeoItems(r) ELSE << >>)
      /\ q.position = N - 1
      /\ \A s \in q.scans : s \in running \/ (s.start = N - 1 /\ s.cursor = << >>)
  BY FinishedKeeps
<1> HIDE DEF q
<1>2. /\ t \in Seq(Byte) /\ Len(t) <= MaxInputBytes /\ N \in Nat /\ N \in 1..N /\ N - 1 = Len(t)
      /\ N = Len(t) + 1 /\ Len(t) \in Nat
      /\ \A k \in 1..N : SoundColumn(grammar, t, k - 1, r.chart[k])
  BY SoundChartFacts
<1>3. SoundColumn(grammar, t, N - 1, q.chart[N])
  <2>1. \A x \in ToSet(q.chart[N].items) : Means(grammar, t, N - 1, x)
    BY <1>1, <1>2 DEF SoundColumn
  <2>2. \A B \in DOMAIN q.chart[N].leo : Skips(grammar, t, N - 1, B, q.chart[N].leo[B])
    <3>1. CASE leo
      <4>1. q.chart[N].leo = LeoItems(r)
        BY <1>1, <3>1
      <4>2. \A B \in DOMAIN LeoItems(r) : Skips(grammar, t, N - 1, B, LeoItems(r)[B])
        BY LeoItemsSound
      <4> HIDE DEF N
      <4> QED BY <4>1, <4>2
    <3>2. CASE ~leo
      <4>1. q.chart[N].leo = << >> /\ DOMAIN << >> = {}
        BY <1>1, <3>2
      <4> HIDE DEF N
      <4> QED BY <4>1
    <3> QED BY <3>1, <3>2
  <2> QED BY <2>1, <2>2 DEF SoundColumn
<1>4. ASSUME NEW k \in 1..N
      PROVE  SoundColumn(grammar, t, k - 1, q.chart[k])
  <2>1. CASE k = N
    BY <1>3, <2>1
  <2>2. CASE k # N
    <3>1. k \in 1..N - 1
      <4> HIDE DEF N
      <4> QED BY <1>2, <2>2
    <3>2. q.chart[k] = r.chart[k]
      BY <1>1, <3>1 DEF AgreeTo
    <3> QED BY <1>2, <3>2
  <2> QED BY <2>1, <2>2
<1>5. Scanning(t, q.scans)
  <2>1. Between(t, Len(t), Len(t)) = << >>
    <3> DEFINE m == Len(t)
    <3>1. m \in Nat /\ m <= m /\ m <= Len(t)
      BY <1>2
    <3> HIDE DEF m
    <3>2. Between(t, m, m) = << >>
      BY <1>2, <3>1, BetweenResult
    <3> QED BY <3>2 DEF m
  <2> QED BY <1>1, <1>2, <2>1 DEF Scanning
<1>6. q.position = Len(t)
  BY <1>1, <1>2
<1> QED BY <1>1, <1>2, <1>4, <1>5, <1>6 DEF SoundAt, SoundChart, q

-----------------------------------------------------------------------------
(***************************************************************************)
(* What a chart must hold.                                                 *)
(***************************************************************************)

\* The item before the start, the first of column 0.
StartOf(g) == [rule |-> Len(RulesIn(g)), dot |-> 0, origin |-> 0]

WorkedColumn(g, chart, k) == \A x \in ToSet(chart[k].items) : WorkedAt(g, chart, k, x)

\* Only with Leo are there Leo items.
LeoAt(g, lo, chart, k) ==
  \A B \in DOMAIN chart[k].leo : lo /\ LeoStep(g, chart, k, B, chart[k].leo[B])

\* Column k has every item past a terminal that ends there.
ShiftedAt(g, t, chart, k) ==
  \A i \in 1..k - 1 : \A w \in ToSet(chart[i].items) : \A T \in Terminal :
    Waits(g, w, T) /\ Between(t, i - 1, k - 1) \in Words[T] => Advanced(w) \in ToSet(chart[k].items)

Prefixed(g) == DerivablePrefixes(g, MaxInputBytes)

\* What begins a string of B begins one of the start symbol, after the bytes before
\* column o.
Viable(g, t, B, o) ==
  \A v \in Seq(Byte) : <<B, v>> \in Prefixed(g) /\ o + Len(v) <= MaxInputBytes =>
    <<g.start, Between(t, 0, o) \o v>> \in Prefixed(g)

ViableItem(g, t, x) ==
  IF x.rule = Len(RulesIn(g)) THEN x.origin = 0 ELSE Viable(g, t, LhsIn(g, x), x.origin)

ViableColumn(g, t, column) ==
  /\ \A x \in ToSet(column.items) : ViableItem(g, t, x)
  /\ \A B \in DOMAIN column.leo : ViableItem(g, t, column.leo[B])

\* What is kept about column k from the beginning.
KnownColumn(g, lo, t, chart, k) ==
  LeoAt(g, lo, chart, k) /\ ShiftedAt(g, t, chart, k) /\ ViableColumn(g, t, chart[k])

\* The chart of the bytes t, of which the columns before m are worked off.
ExactChart(g, lo, t, chart, m) ==
  /\ \A k \in 1..Len(chart) : KnownColumn(g, lo, t, chart, k)
  /\ \A k \in 1..m : WorkedColumn(g, chart, k)
  /\ StartOf(g) \in ToSet(chart[1].items)

\* Every terminal that has begun in one of the first m columns, and can go on, is
\* scanned; and a scan is of a terminal that is waited for, and may still match.
Covered(g, t, chart, scans, m) ==
  \A i \in 1..m : \A w \in ToSet(chart[i].items) : \A T \in Terminal :
    \A v \in Words[T] :
      Waits(g, w, T) /\ IsStrictPrefix(Between(t, i - 1, Len(t)), v) =>
        [terminal |-> T, start |-> i - 1, cursor |-> Between(t, i - 1, Len(t))] \in scans

Founded(g, chart, scans) ==
  \A q \in scans :
    /\ \E w \in ToSet(chart[q.start + 1].items) : Waits(g, w, q.terminal)
    /\ \E v \in Words[q.terminal] : IsPrefix(q.cursor, v)

\* The recognizer after the bytes t.
ExactAt(g, lo, t, r) ==
  /\ SoundAt(g, t, r)
  /\ ExactChart(g, lo, t, r.chart, Len(r.chart))
  /\ Covered(g, t, r.chart, r.scans, Len(r.chart))
  /\ Founded(g, r.chart, r.scans)

\* The recognizer before its last column is worked off: n of its items are.
ExactWhile(g, lo, t, r, n, running) ==
  LET N == Len(r.chart)
  IN /\ SoundChart(g, t, r.chart) /\ Scanning(t, running)
     /\ ExactChart(g, lo, t, r.chart, N - 1)
     /\ \A i \in 1..n : WorkedAt(g, r.chart, N, r.chart[N].items[i])
     /\ Covered(g, t, r.chart, running, N - 1)
     /\ Founded(g, r.chart, running)

-----------------------------------------------------------------------------

\* The two parts of what is between two columns.
SplitAt(t, a, b, x, y, d) ==
  /\ d \in Nat /\ a <= d /\ d <= b /\ d = a + Len(x) /\ b = d + Len(y)
  /\ x = Between(t, a, d) /\ y = Between(t, d, b)

LEMMA BetweenSplit ==
  ASSUME NEW t \in Seq(Byte), NEW a \in Nat, NEW b \in Nat, a <= b, b <= Len(t),
         NEW x \in Seq(Byte), NEW y \in Seq(Byte), Between(t, a, b) = x \o y
  PROVE  \E d : SplitAt(t, a, b, x, y, d)
<1> DEFINE l == Len(x)
           m == Len(y)
           d == a + l
           w == x \o y
           n == Len(t)
<1>1. l \in Nat /\ m \in Nat /\ Len(w) = l + m /\ w \in Seq(Byte) /\ n \in Nat
      /\ (\A i \in 1..l : w[i] = x[i]) /\ (\A i \in 1..m : w[l + i] = y[i])
  OBVIOUS
<1>2. Len(w) = b - a /\ \A i \in 1..b - a : w[i] = t[a + i]
  <2>1. Len(Between(t, a, b)) = b - a
    BY BetweenResult
  <2>2. \A i \in 1..b - a : Between(t, a, b)[i] = t[a + i]
    <3>1. a + 1 \in Nat /\ a + 1 >= 1 /\ b <= n
      OBVIOUS
    <3>2. \A i \in 1..b - a : SubSeq(t, a + 1, b)[i] = t[(a + 1) + i - 1] /\ (a + 1) + i - 1 = a + i
      BY <3>1
    <3> QED BY <3>2 DEF Between
  <2> QED BY <2>1, <2>2
<1> HIDE DEF l, m, w, n
<1>3. d \in Nat /\ a <= d /\ d <= b /\ b = d + m /\ d <= n /\ l = d - a /\ m = b - d
  BY <1>1, <1>2 DEF n
<1> DEFINE p == Between(t, a, d)
           q == Between(t, d, b)
<1>4. /\ p \in Seq(Byte) /\ Len(p) = d - a /\ q \in Seq(Byte) /\ Len(q) = b - d
  BY <1>3, BetweenResult DEF n
<1>5. (\A i \in 1..d - a : p[i] = t[a + i]) /\ (\A i \in 1..b - d : q[i] = t[d + i])
  <2>1. a + 1 \in Nat /\ d + 1 \in Nat
    BY <1>3
  <2> HIDE DEF d
  <2> QED BY <1>3, <2>1 DEF Between, n
<1> HIDE DEF p, q
<1>6. x = p
  <2>1. \A i \in 1..l : i \in 1..b - a /\ i \in 1..d - a
    BY <1>1, <1>3
  <2>2. \A i \in 1..l : x[i] = p[i]
    BY <1>1, <1>2, <1>5, <2>1
  <2>3. Len(x) = l /\ Len(p) = l
    BY <1>3, <1>4 DEF l
  <2>4. p \in Seq(Byte) /\ x \in Seq(Byte)
    BY <1>4
  <2> HIDE DEF d
  <2> QED BY <2>2, <2>3, <2>4
<1>7. y = q
  <2>1. \A i \in 1..m : l + i \in 1..b - a /\ i \in 1..b - d /\ a + (l + i) = d + i
    BY <1>1, <1>3
  <2>2. \A i \in 1..m : y[i] = q[i]
    BY <1>1, <1>2, <1>5, <2>1
  <2>3. Len(y) = Len(q)
    BY <1>3, <1>4 DEF m
  <2> QED BY <1>4, <2>2, <2>3 DEF m
<1>8. SplitAt(t, a, b, x, y, d)
  BY <1>3, <1>6, <1>7 DEF p, q, l, m, SplitAt
<1> QED BY <1>8

\* The rules of the grammar are numbered before the added one.
LEMMA RulesNumbered ==
  ASSUME IsGrammar(grammar)
  PROVE  LET n == Len(RulesIn(grammar))
         IN /\ n \in Nat /\ n >= 1
            /\ RulesIn(grammar)[n].rhs = <<grammar.start>> /\ RulesIn(grammar)[n].lhs = Augmented
            /\ \A r \in ToSet(grammar.rules) : \E i \in 1..n : i # n /\ RulesIn(grammar)[i] = r
            /\ \A i \in 1..n : i # n =>
                 /\ RulesIn(grammar)[i] \in ToSet(grammar.rules)
                 /\ RulesIn(grammar)[i].lhs \in Nonterminal
                 /\ RulesIn(grammar)[i].rhs \in Seq(RhsSymbol)
<1> DEFINE R == grammar.rules
           T == [lhs : Nonterminal, rhs : Seq(Nonterminal \cup Terminal)]
           last == [lhs |-> Augmented, rhs |-> <<grammar.start>>]
           all == RulesIn(grammar)
<1>1. /\ all \in Seq([lhs : Nonterminal \cup {Augmented}, rhs : Seq(Nonterminal \cup Terminal)])
      /\ Len(all) \in Nat /\ Len(all) >= 1
      /\ \A i \in 1..Len(all) : i # Len(all) => all[i] \in ToSet(grammar.rules)
      /\ all[Len(all)] = last
  BY RuleTypes, Zenon
<1>2. \A r \in ToSet(R) : \E i \in 1..Len(all) : i # Len(all) /\ all[i] = r
  <2>1. R \in Seq(T) /\ all = Append(R, last)
    BY DEF IsGrammar, RulesIn
  <2> HIDE DEF R, T, last, all
  <2>2. ASSUME NEW r \in ToSet(R)
        PROVE  \E i \in 1..Len(all) : i # Len(all) /\ all[i] = r
    <3>1. PICK i \in 1..Len(R) : R[i] = r
      BY <2>1 DEF ToSet
    <3>2. Len(all) = Len(R) + 1 /\ Len(R) \in Nat /\ all[i] = R[i]
      BY <2>1, <3>1
    <3>3. i \in 1..Len(all) /\ i # Len(all)
      BY <3>2
    <3> QED BY <3>1, <3>2, <3>3
  <2> QED BY <2>2
<1>3. \A r \in ToSet(grammar.rules) : r.lhs \in Nonterminal /\ r.rhs \in Seq(RhsSymbol)
  BY RuleShapes
<1>4. last.lhs = Augmented /\ last.rhs = <<grammar.start>>
  OBVIOUS
<1> HIDE DEF all, last
<1>5. all[Len(all)].rhs = <<grammar.start>> /\ all[Len(all)].lhs = Augmented
  BY <1>1, <1>4
<1>6. \A i \in 1..Len(all) : i # Len(all) =>
        all[i] \in ToSet(grammar.rules) /\ all[i].lhs \in Nonterminal /\ all[i].rhs \in Seq(RhsSymbol)
  BY <1>1, <1>3
<1> QED BY <1>1, <1>2, <1>5, <1>6 DEF all

-----------------------------------------------------------------------------
(***************************************************************************)
(* What is derived is found.                                               *)
(***************************************************************************)

\* Column k has item x, or x is complete and column k has what x completes.  Only an
\* item that a Leo item skips is not in its column.
Had(g, chart, k, x) ==
  \/ x \in ToSet(chart[k].items)
  \/ /\ IsDone(g, x) /\ x.rule # Len(RulesIn(g)) /\ x.origin < k - 1
     /\ Completes(g, chart, k, LhsIn(g, x), x.origin)

\* Moving an item.
LEMMA AdvancedFields ==
  ASSUME NEW g, NEW x \in Item
  PROVE  /\ Advanced(x).rule = x.rule /\ Advanced(x).dot = x.dot + 1 /\ Advanced(x).origin = x.origin
         /\ Advanced(x) = [rule |-> x.rule, dot |-> x.dot + 1, origin |-> x.origin]
         /\ Advanced(x) \in Item
         /\ LhsIn(g, Advanced(x)) = LhsIn(g, x) /\ RhsIn(g, Advanced(x)) = RhsIn(g, x)
<1>1. /\ Advanced(x).rule = x.rule /\ Advanced(x).dot = x.dot + 1 /\ Advanced(x).origin = x.origin
      /\ Advanced(x) = [rule |-> x.rule, dot |-> x.dot + 1, origin |-> x.origin]
      /\ Advanced(x) \in Item
  BY DEF Item, Advanced
<1> QED BY <1>1 DEF LhsIn, RhsIn

\* A left-hand side of the grammar is not that of the added rule.
LEMMA NotAdded ==
  ASSUME IsGrammar(grammar), NEW x, LhsIn(grammar, x) \in Nonterminal
  PROVE  x.rule # Len(RulesIn(grammar))
BY RulesNumbered, EarleyAssumption DEF LhsIn

\* What a completion moves is had: where it is not in the column itself, because a Leo
\* item skips it, what comes after it is.
LEMMA WaitersMove ==
  ASSUME IsGrammar(grammar), NEW r, Core(grammar, leo, limits, r),
         NEW k \in 1..Len(r.chart), NEW o \in Nat, o < k - 1, LeoAt(grammar, leo, r.chart, o + 1),
         NEW B, Completes(grammar, r.chart, k, B, o),
         NEW w \in ToSet(r.chart[o + 1].items), Waits(grammar, w, B)
  PROVE  Had(grammar, r.chart, k, Advanced(w))
<1> DEFINE N == Len(r.chart)
           chart == r.chart
           x == Advanced(w)
<1>1. N \in Nat /\ k \in Nat /\ o + 1 \in 1..N /\ (o + 1) - 1 = o
  <2>1. N \in Nat /\ k \in 1..N
    BY DEF Core, IsChart
  <2> HIDE DEF N
  <2> QED BY <2>1
<1>2. MayHold(grammar, o, w) /\ w.origin \in Nat /\ w.origin <= o /\ w \in Item
  <2> HIDE DEF N
  <2>1. MayHold(grammar, (o + 1) - 1, w) /\ w.origin \in Nat /\ w.origin <= (o + 1) - 1
    BY <1>1, ColumnHolds DEF N
  <2> QED BY <1>1, <2>1 DEF MayHold
<1>3. x.rule = w.rule /\ x.origin = w.origin /\ LhsIn(grammar, x) = LhsIn(grammar, w)
  BY <1>2, AdvancedFields
<1> HIDE DEF x
<1>c1. CASE B \notin DOMAIN chart[o + 1].leo
  BY <1>c1 DEF Completes, Had, x
<1>c2. CASE B \in DOMAIN chart[o + 1].leo
  <2> DEFINE f == chart[o + 1].leo
             A == LhsIn(grammar, w)
             o1 == w.origin
  <2>1. f[B] \in ToSet(chart[k].items)
    BY <1>c2 DEF Completes
  <2>2. PICK y \in ToSet(chart[o + 1].items) :
          /\ Waits(grammar, y, B) /\ IsDone(grammar, Advanced(y))
          /\ \A z \in ToSet(chart[o + 1].items) : Waits(grammar, z, B) => z = y
          /\ \/ f[B] = Advanced(y)
             \/ /\ y.origin < (o + 1) - 1
                /\ LhsIn(grammar, y) \in DOMAIN chart[y.origin + 1].leo
                /\ f[B] = chart[y.origin + 1].leo[LhsIn(grammar, y)]
    BY <1>c2 DEF LeoAt, LeoStep
  <2>3. w = y
    BY <2>2
  <2>4. IsDone(grammar, x)
    BY <2>2, <2>3 DEF x
  <2>c1. CASE f[B] = x
    BY <2>1, <2>c1 DEF Had, x
  <2>c2. CASE f[B] # x
    <3>1. o1 < o /\ A \in DOMAIN chart[o1 + 1].leo /\ f[B] = chart[o1 + 1].leo[A]
      BY <1>1, <2>2, <2>3, <2>c2 DEF x
    <3>2. o1 + 1 \in 1..N /\ x.origin < k - 1
      BY <1>1, <1>2, <1>3, <3>1
    <3>3. A \in Nonterminal
      <4> DEFINE j == o1 + 1
      <4>1. j \in 1..Len(r.chart) /\ A \in DOMAIN r.chart[j].leo
        BY <3>1, <3>2
      <4> HIDE DEF j, A
      <4> QED BY <4>1, ColumnHolds
    <3>4. x.rule # Len(RulesIn(grammar))
      BY <1>3, <3>3, NotAdded
    <3>5. Completes(grammar, chart, k, A, o1)
      BY <2>1, <3>1 DEF Completes
    <3> QED BY <1>3, <2>4, <3>2, <3>4, <3>5 DEF Had, x
  <2> QED BY <2>c1, <2>c2
<1> QED BY <1>c1, <1>c2

\* The item of rule i from column o, before whose dot are j symbols.
At(i, j, o) == [rule |-> i, dot |-> j, origin |-> o]

LEMMA AtFields ==
  ASSUME IsGrammar(grammar), NEW i \in 1..Len(RulesIn(grammar)), i # Len(RulesIn(grammar)),
         NEW j \in Nat, NEW o \in Nat
  PROVE  LET x == At(i, j, o)
             rhs == RulesIn(grammar)[i].rhs
         IN /\ x \in Item /\ x.rule = i /\ x.dot = j /\ x.origin = o
            /\ rhs \in Seq(RhsSymbol) /\ Len(rhs) \in Nat
            /\ RhsIn(grammar, x) = rhs /\ LhsIn(grammar, x) = RulesIn(grammar)[i].lhs
            /\ LhsIn(grammar, x) \in Nonterminal
            /\ RulesIn(grammar)[i] \in ToSet(grammar.rules)
<1> DEFINE x == At(i, j, o)
           rhs == RulesIn(grammar)[i].rhs
<1>1. i \in Nat
  BY RulesNumbered
<1>2. x \in Item /\ x.rule = i /\ x.dot = j /\ x.origin = o
  BY <1>1 DEF At, Item
<1>3. /\ rhs \in Seq(RhsSymbol) /\ RulesIn(grammar)[i].lhs \in Nonterminal
      /\ RulesIn(grammar)[i] \in ToSet(grammar.rules)
  BY RulesNumbered
<1>4. Len(rhs) \in Nat
  <2> HIDE DEF rhs
  <2> QED BY <1>3
<1>5. RhsIn(grammar, x) = rhs /\ LhsIn(grammar, x) = RulesIn(grammar)[i].lhs
  BY <1>2 DEF RhsIn, LhsIn
<1> QED BY <1>2, <1>3, <1>4, <1>5

LEMMA AtAdvanced ==
  ASSUME IsGrammar(grammar), NEW i \in 1..Len(RulesIn(grammar)), i # Len(RulesIn(grammar)),
         NEW j \in Nat, NEW o \in Nat
  PROVE  Advanced(At(i, j, o)) = At(i, j + 1, o)
<1>1. LET x == At(i, j, o) IN x \in Item /\ x.rule = i /\ x.dot = j /\ x.origin = o
  BY AtFields
<1> QED BY <1>1, AdvancedFields DEF At

\* A string found for a nonterminal is completed wherever the bytes read have it and the
\* nonterminal was begun.
Finds(g, t, chart, p) ==
  \A o \in 0..Len(t) : \A c \in 0..Len(t) :
    o < c /\ p[2] = Between(t, o, c) /\ BeginsAt(g, chart, o, p[1]) =>
      Completes(g, chart, c + 1, p[1], o)

\* What is known of the chart of the bytes t when all its columns are worked off.
LEMMA ExactFacts ==
  ASSUME IsGrammar(grammar), NEW r, Core(grammar, leo, limits, r),
         NEW t, SoundChart(grammar, t, r.chart),
         ExactChart(grammar, leo, t, r.chart, Len(r.chart))
  PROVE  /\ t \in Seq(Byte) /\ Len(t) \in Nat /\ Len(t) <= MaxInputBytes
         /\ Len(r.chart) = Len(t) + 1 /\ MaxInputBytes \in Nat
         /\ \A c \in 0..Len(t) :
              /\ c \in Nat /\ c + 1 \in 1..Len(r.chart) /\ (c + 1) - 1 = c
              /\ LeoAt(grammar, leo, r.chart, c + 1)
              /\ ShiftedAt(grammar, t, r.chart, c + 1)
              /\ WorkedColumn(grammar, r.chart, c + 1)
              /\ \A x \in ToSet(r.chart[c + 1].items) :
                   MayHold(grammar, c, x) /\ Means(grammar, t, c, x) /\ ViableItem(grammar, t, x)
<1> DEFINE N == Len(r.chart)
           m == Len(t)
<1>1. t \in Seq(Byte) /\ m \in Nat /\ m <= MaxInputBytes /\ N = m + 1 /\ MaxInputBytes \in Nat
  BY SoundChartFacts, EarleyAssumption
<1>2. \A k \in 1..N : SoundColumn(grammar, t, k - 1, r.chart[k])
  BY SoundChartFacts
<1>3. \A k \in 1..N : KnownColumn(grammar, leo, t, r.chart, k) /\ WorkedColumn(grammar, r.chart, k)
  BY DEF ExactChart
<1>4. ASSUME NEW k \in 1..N
      PROVE  \A x \in ToSet(r.chart[k].items) : MayHold(grammar, k - 1, x)
  BY ColumnHolds
<1> HIDE DEF N, m
<1>5. ASSUME NEW c \in 0..m
      PROVE  /\ c \in Nat /\ c + 1 \in 1..N /\ (c + 1) - 1 = c
             /\ LeoAt(grammar, leo, r.chart, c + 1)
             /\ ShiftedAt(grammar, t, r.chart, c + 1)
             /\ WorkedColumn(grammar, r.chart, c + 1)
             /\ \A x \in ToSet(r.chart[c + 1].items) :
                   MayHold(grammar, c, x) /\ Means(grammar, t, c, x) /\ ViableItem(grammar, t, x)
  <2>1. c \in Nat /\ c + 1 \in 1..N /\ (c + 1) - 1 = c
    BY <1>1
  <2>2. SoundColumn(grammar, t, c, r.chart[c + 1])
    BY <1>2, <2>1
  <2>3. KnownColumn(grammar, leo, t, r.chart, c + 1) /\ WorkedColumn(grammar, r.chart, c + 1)
    BY <1>3, <2>1
  <2>4. \A x \in ToSet(r.chart[c + 1].items) : MayHold(grammar, c, x)
    BY <1>4, <2>1
  <2> QED BY <2>1, <2>2, <2>3, <2>4 DEF SoundColumn, KnownColumn, ViableColumn
<1> QED BY <1>1, <1>5 DEF N, m

\* One symbol of a rule further.
LEMMA WalkOn ==
  ASSUME IsGrammar(grammar), NEW r, Core(grammar, leo, limits, r),
         NEW t, SoundChart(grammar, t, r.chart),
         ExactChart(grammar, leo, t, r.chart, Len(r.chart)),
         NEW i \in 1..Len(RulesIn(grammar)), i # Len(RulesIn(grammar)), NEW o \in Nat,
         NEW j \in 0..Len(RulesIn(grammar)[i].rhs) - 1,
         NEW d \in Nat, NEW e \in Nat, d <= e, e <= Len(t),
         Had(grammar, r.chart, d + 1, At(i, j, o)),
         NEW X, X = RulesIn(grammar)[i].rhs[j + 1],
         X \in Terminal => Between(t, d, e) \in Words[X],
         X \in Nonterminal => /\ <<X, Between(t, d, e)>> \in Derived(grammar)
                              /\ Finds(grammar, t, r.chart, <<X, Between(t, d, e)>>)
  PROVE  Had(grammar, r.chart, e + 1, At(i, j + 1, o))
<1> DEFINE y == At(i, j, o)
           z == At(i, j + 1, o)
           rhs == RulesIn(grammar)[i].rhs
           v == Between(t, d, e)
           m == Len(t)
<1>1. /\ t \in Seq(Byte) /\ m \in Nat /\ m <= MaxInputBytes /\ Len(r.chart) = m + 1 /\ MaxInputBytes \in Nat
      /\ \A c \in 0..m :
              /\ c \in Nat /\ c + 1 \in 1..Len(r.chart) /\ (c + 1) - 1 = c
              /\ LeoAt(grammar, leo, r.chart, c + 1)
              /\ ShiftedAt(grammar, t, r.chart, c + 1)
              /\ WorkedColumn(grammar, r.chart, c + 1)
  BY ExactFacts
<1>2. d \in 0..m /\ e \in 0..m
  <2> HIDE DEF m
  <2>1. e <= m
    BY DEF m
  <2> QED BY <1>1, <2>1
<1>3. rhs \in Seq(RhsSymbol) /\ Len(rhs) \in Nat
  BY AtFields
<1>4. j \in Nat /\ j # Len(rhs) /\ X \in RhsSymbol
  <2>1. j \in 0..Len(rhs) - 1 /\ X = rhs[j + 1]
    OBVIOUS
  <2> HIDE DEF rhs, RhsSymbol
  <2>2. j \in Nat /\ j # Len(rhs) /\ j + 1 \in 1..Len(rhs)
    <3> DEFINE l == Len(rhs)
    <3>1. l \in Nat /\ j \in 0..l - 1
      BY <1>3, <2>1
    <3> HIDE DEF l
    <3>2. j \in Nat /\ j # l /\ j + 1 \in 1..l
      BY <3>1
    <3> QED BY <3>2 DEF l
  <2> QED BY <1>3, <2>1, <2>2
<1>5. ~IsDone(grammar, y) /\ Waits(grammar, y, X) /\ Advanced(y) = z
  <2>1. RhsIn(grammar, y) = rhs /\ y.dot = j /\ Advanced(y) = z
    BY <1>4, AtFields, AtAdvanced
  <2>2. X = rhs[j + 1]
    OBVIOUS
  <2> HIDE DEF y, z, rhs
  <2> QED BY <1>4, <2>1, <2>2 DEF IsDone, Waits
<1>6. y \in ToSet(r.chart[d + 1].items)
  BY <1>5 DEF Had
<1>7. v \in Seq(Byte) /\ (d = e => v = << >>)
  <2>1. e <= m
    BY <1>2
  <2> QED BY <1>1, <1>2, <2>1, BetweenResult
<1> HIDE DEF y, z, v, m, rhs
<1>c1. CASE X \in Terminal
  <2>1. v \in Words[X] /\ v # << >>
    BY <1>c1, TerminalAssumption DEF v
  <2>2. d # e
    BY <1>7, <2>1
  <2>3. ShiftedAt(grammar, t, r.chart, e + 1) /\ (e + 1) - 1 = e /\ (d + 1) - 1 = d
        /\ d + 1 \in 1..(e + 1) - 1
    BY <1>1, <1>2, <2>2
  <2>4. Between(t, (d + 1) - 1, (e + 1) - 1) \in Words[X]
    BY <2>1, <2>3 DEF v
  <2>5. z \in ToSet(r.chart[e + 1].items)
    BY <1>5, <1>6, <1>c1, <2>3, <2>4 DEF ShiftedAt
  <2> QED BY <2>5 DEF Had, z
<1>c2. CASE X \in Nonterminal
  <2>1. WorkedAt(grammar, r.chart, d + 1, y) /\ (d + 1) - 1 = d
    BY <1>1, <1>2, <1>6 DEF WorkedColumn
  <2>2. /\ BeginsAt(grammar, r.chart, d, X)
        /\ X \in Nullable(grammar) => z \in ToSet(r.chart[d + 1].items)
    BY <1>5, <1>c2, <2>1 DEF WorkedAt
  <2>c1. CASE d = e
    <3>1. <<X, << >>>> \in Derived(grammar)
      BY <1>7, <1>c2, <2>c1 DEF v
    <3>2. X \in Nullable(grammar)
      BY <1>1, <3>1, EmptyOnlyIfNullable DEF Derived
    <3> QED BY <2>2, <2>c1, <3>2 DEF Had, z
  <2>c2. CASE d # e
    <3> DEFINE p == <<X, v>>
    <3>1. Finds(grammar, t, r.chart, p) /\ p[1] = X /\ p[2] = v
      BY <1>c2 DEF v
    <3> HIDE DEF p
    <3>2. d < e /\ v = Between(t, d, e) /\ m = Len(t)
      BY <1>2, <2>c2 DEF v, m
    <3>3. Completes(grammar, r.chart, e + 1, X, d)
      BY <1>2, <2>2, <3>1, <3>2 DEF Finds
    <3>4. e + 1 \in 1..Len(r.chart) /\ d < (e + 1) - 1 /\ LeoAt(grammar, leo, r.chart, d + 1)
      BY <1>1, <1>2, <3>2
    <3>5. Had(grammar, r.chart, e + 1, Advanced(y))
      BY <1>5, <1>6, <3>3, <3>4, WaitersMove
    <3> QED BY <1>5, <3>5 DEF z
  <2> QED BY <2>c1, <2>c2
<1> QED BY <1>4, <1>c1, <1>c2 DEF RhsSymbol

\* A rule that was begun is followed along whatever it derives.
LEMMA RuleFound ==
  ASSUME IsGrammar(grammar), NEW r, Core(grammar, leo, limits, r),
         NEW t, SoundChart(grammar, t, r.chart),
         ExactChart(grammar, leo, t, r.chart, Len(r.chart)),
         NEW M \in Strings, M \subseteq Derived(grammar), \A p \in M : Finds(grammar, t, r.chart, p),
         NEW i \in 1..Len(RulesIn(grammar)), i # Len(RulesIn(grammar)),
         NEW o \in 0..Len(t), At(i, 0, o) \in ToSet(r.chart[o + 1].items)
  PROVE  \A j \in 0..Len(RulesIn(grammar)[i].rhs) :
           \A u \in DerivedFrom(SubSeq(RulesIn(grammar)[i].rhs, 1, j), M, MaxInputBytes) :
             \A c \in 0..Len(t) : o <= c /\ u = Between(t, o, c) => Had(grammar, r.chart, c + 1, At(i, j, o))
<1> DEFINE rhs == RulesIn(grammar)[i].rhs
           n == MaxInputBytes
           m == Len(t)
           Reaches(j, u) == \A c \in 0..m : o <= c /\ u = Between(t, o, c) => Had(grammar, r.chart, c + 1, At(i, j, o))
           I == {q \in Nat \X Seq(Byte) : Reaches(q[1], q[2])}
<1>1. t \in Seq(Byte) /\ m \in Nat /\ n \in Nat /\ o \in Nat /\ o <= m /\ rhs \in Seq(RhsSymbol) /\ Len(rhs) \in Nat
  <2>1. t \in Seq(Byte) /\ m \in Nat /\ n \in Nat
    BY ExactFacts
  <2>2. o \in 0..m
    OBVIOUS
  <2> HIDE DEF m
  <2>3. o \in Nat /\ o <= m
    BY <2>1, <2>2
  <2> QED BY <2>1, <2>3, AtFields
<1>i. \A j \in Nat, u \in Seq(Byte) : <<j, u>> \in I <=> Reaches(j, u)
  <2> HIDE DEF Reaches
  <2> QED OBVIOUS
<1>2. Reaches(0, << >>)
  <2> SUFFICES ASSUME NEW c \in 0..m, o <= c, << >> = Between(t, o, c)
               PROVE  Had(grammar, r.chart, c + 1, At(i, 0, o))
    OBVIOUS
  <2>1. c \in Nat /\ c <= m
    <3> HIDE DEF m
    <3> QED BY <1>1
  <2>2. Len(Between(t, o, c)) = c - o
    BY <1>1, <2>1, BetweenResult
  <2>3. c = o
    <3>1. Len(<< >>) = 0
      OBVIOUS
    <3> QED BY <1>1, <2>1, <2>2, <3>1
  <2> QED BY <2>3 DEF Had
<1>3. <<0, << >>>> \in I
  <2>1. 0 \in Nat /\ << >> \in Seq(Byte)
    OBVIOUS
  <2> HIDE DEF Reaches, I
  <2> QED BY <1>2, <1>i, <2>1
<1>4. ASSUME NEW j \in 0..Len(rhs) - 1, NEW u \in DerivedFrom(SubSeq(rhs, 1, j), M, n),
             NEW v \in StringsOf(rhs[j + 1], M), <<j, u>> \in I, Len(u) + Len(v) <= n
      PROVE  <<j + 1, u \o v>> \in I
  <2> DEFINE X == rhs[j + 1]
  <2> HIDE DEF rhs, n
  <2>1. X \in RhsSymbol /\ SubSeq(rhs, 1, j) \in Seq(RhsSymbol) /\ j \in Nat /\ j + 1 \in Nat
    BY <1>1, DerivedAt
  <2>2. u \in Seq(Byte) /\ v \in Seq(Byte)
    <3> DEFINE front == SubSeq(rhs, 1, j)
    <3>1. front \in Seq(RhsSymbol) /\ v \in StringsOf(X, M) /\ u \in DerivedFrom(front, M, n)
      BY <2>1
    <3> HIDE DEF front, X
    <3>2. StringsOf(X, M) \in SUBSET Seq(Byte)
      BY <2>1, StringsResult
    <3>3. \A w \in DerivedFrom(front, M, n) : w \in Seq(Byte)
      BY <1>1, <3>1, DerivedNeeds
    <3> QED BY <3>1, <3>2, <3>3
  <2>3. Reaches(j, u)
    <3> HIDE DEF Reaches, I
    <3> QED BY <1>4, <1>i, <2>1, <2>2
  <2>4. X \in Terminal => v \in Words[X]
    BY <2>1, StringsResult
  <2>5. X \in Nonterminal => <<X, v>> \in M
    BY <2>1, StringsResult
  <2>6. ASSUME NEW c \in 0..m, o <= c, u \o v = Between(t, o, c)
        PROVE  Had(grammar, r.chart, c + 1, At(i, j + 1, o))
    <3>1. c \in Nat /\ c <= m
      <4> HIDE DEF m
      <4> QED BY <1>1
    <3>2. \E d : SplitAt(t, o, c, u, v, d)
      <4>1. Between(t, o, c) = u \o v /\ c <= Len(t) /\ o <= c /\ o \in Nat /\ c \in Nat
            /\ t \in Seq(Byte) /\ u \in Seq(Byte) /\ v \in Seq(Byte)
        BY <1>1, <2>2, <2>6, <3>1
      <4> HIDE DEF X, I, Reaches, m
      <4> QED BY <4>1, BetweenSplit
    <3>d. PICK d : SplitAt(t, o, c, u, v, d)
      BY <3>2
    <3>e. d \in Nat /\ o <= d /\ d <= c /\ u = Between(t, o, d) /\ v = Between(t, d, c)
      BY <3>d DEF SplitAt
    <3> HIDE DEF X
    <3>3. d \in 0..m
      <4> HIDE DEF m
      <4> QED BY <1>1, <3>1, <3>e
    <3>4. Had(grammar, r.chart, d + 1, At(i, j, o))
      BY <2>3, <3>e, <3>3
    <3>5. X \in Terminal => Between(t, d, c) \in Words[X]
      BY <2>4, <3>e
    <3>6. X \in Nonterminal => /\ <<X, Between(t, d, c)>> \in Derived(grammar)
                               /\ Finds(grammar, t, r.chart, <<X, Between(t, d, c)>>)
      BY <2>5, <3>e
    <3>7. j \in 0..Len(RulesIn(grammar)[i].rhs) - 1 /\ X = RulesIn(grammar)[i].rhs[j + 1]
      BY DEF rhs, X
    <3> QED BY <1>1, <3>1, <3>e, <3>4, <3>5, <3>6, <3>7, WalkOn
  <2>7. Reaches(j + 1, u \o v)
    BY <2>6
  <2>8. u \o v \in Seq(Byte)
    BY <2>2
  <2> HIDE DEF Reaches, I
  <2> QED BY <1>i, <2>1, <2>7, <2>8
<1>5. \A j \in 0..Len(rhs) : \A u \in DerivedFrom(SubSeq(rhs, 1, j), M, n) : <<j, u>> \in I
  <2> HIDE DEF I, rhs, n
  <2> QED BY <1>1, <1>3, <1>4, DerivedWalk
<1> QED
  <2> SUFFICES ASSUME NEW j \in 0..Len(rhs), NEW u \in DerivedFrom(SubSeq(rhs, 1, j), M, n)
               PROVE  Reaches(j, u)
    OBVIOUS
  <2>1. <<j, u>> \in I
    BY <1>5
  <2> HIDE DEF Reaches
  <2> QED BY <2>1

\* So whatever is derived is completed where it was begun.
LEMMA AllFound ==
  ASSUME IsGrammar(grammar), NEW r, Core(grammar, leo, limits, r),
         NEW t, SoundChart(grammar, t, r.chart),
         ExactChart(grammar, leo, t, r.chart, Len(r.chart))
  PROVE  \A p \in Derived(grammar) : Finds(grammar, t, r.chart, p)
<1> DEFINE L == Derived(grammar)
           n == MaxInputBytes
           m == Len(t)
           M == {p \in L : Finds(grammar, t, r.chart, p)}
<1>1. /\ t \in Seq(Byte) /\ m \in Nat /\ n \in Nat
      /\ \A c \in 0..m : c + 1 \in 1..Len(r.chart) /\ (c + 1) - 1 = c /\ WorkedColumn(grammar, r.chart, c + 1)
  BY ExactFacts
<1>2. L \in Strings /\ Round(grammar, n, L) \subseteq L
      /\ \A S \in Strings : Round(grammar, n, S) \subseteq S => L \subseteq S
  BY <1>1, DerivationsResult DEF Derived
<1> HIDE DEF L
<1>3. M \in Strings /\ M \subseteq L /\ \A p \in M : Finds(grammar, t, r.chart, p)
  BY <1>2 DEF Strings
<1>4. ASSUME NEW p \in Round(grammar, n, M)
      PROVE  p \in M
  <2> HIDE DEF M, n
  <2>1. p \in L
    <3>1. Round(grammar, n, M) \subseteq Round(grammar, n, L)
      BY <1>1, <1>2, <1>3, RoundGrows
    <3> QED BY <1>2, <3>1
  <2>2. PICK x \in ToSet(grammar.rules) : p = <<x.lhs, p[2]>> /\ p[2] \in DerivedFrom(x.rhs, M, n)
    BY <1>1, <1>3, RoundResult
  <2>3. p[1] = x.lhs /\ p[2] \in Seq(Byte)
    <3> DEFINE w == p[2]
    <3>1. p = <<x.lhs, w>> /\ w \in Seq(Byte)
      BY <1>2, <2>1, <2>2, StringTypes
    <3> HIDE DEF w
    <3>2. p[1] = x.lhs
      BY <3>1
    <3> QED BY <3>1, <3>2 DEF w
  <2>4. PICK i \in 1..Len(RulesIn(grammar)) : i # Len(RulesIn(grammar)) /\ RulesIn(grammar)[i] = x
    BY RulesNumbered
  <2> DEFINE rhs == RulesIn(grammar)[i].rhs
             all == Len(rhs)
  <2>5. rhs \in Seq(RhsSymbol) /\ rhs = x.rhs /\ RulesIn(grammar)[i].lhs = p[1]
    BY <2>3, <2>4, RulesNumbered
  <2>6. SubSeq(rhs, 1, all) = rhs /\ all \in Nat /\ all \in 0..all
    <3> HIDE DEF rhs
    <3> QED BY <2>5, AllSymbols
  <2>7. ASSUME NEW o \in 0..m, NEW c \in 0..m, o < c, p[2] = Between(t, o, c),
               BeginsAt(grammar, r.chart, o, p[1])
        PROVE  Completes(grammar, r.chart, c + 1, p[1], o)
    <3> DEFINE y == At(i, all, o)
    <3>1. At(i, 0, o) \in ToSet(r.chart[o + 1].items)
      BY <2>5, <2>7 DEF BeginsAt, At
    <3>2. o \in Nat /\ c \in Nat /\ o <= c
      <4> HIDE DEF m
      <4> QED BY <1>1, <2>7
    <3>3. p[2] \in DerivedFrom(SubSeq(rhs, 1, all), M, n)
      BY <2>2, <2>5, <2>6
    <3>4. Had(grammar, r.chart, c + 1, y)
      <4>1. L = Derived(grammar) /\ n = MaxInputBytes
        BY DEF L, n
      <4>2. \A j \in 0..Len(RulesIn(grammar)[i].rhs) :
              \A u \in DerivedFrom(SubSeq(RulesIn(grammar)[i].rhs, 1, j), M, MaxInputBytes) :
                \A e \in 0..Len(t) : o <= e /\ u = Between(t, o, e) => Had(grammar, r.chart, e + 1, At(i, j, o))
        BY <1>3, <2>4, <3>1, <4>1, RuleFound
      <4> QED BY <2>6, <2>7, <3>2, <3>3, <4>1, <4>2
    <3>5. /\ y.rule = i /\ y.origin = o /\ RhsIn(grammar, y) = rhs /\ LhsIn(grammar, y) = p[1] /\ y.dot = all
      <4>1. all \in Nat
        BY <2>6
      <4>2. RulesIn(grammar)[i].rhs = rhs /\ RulesIn(grammar)[i].lhs = p[1]
        BY <2>5
      <4> HIDE DEF rhs, all
      <4> QED BY <2>4, <3>2, <4>1, <4>2, AtFields
    <3> HIDE DEF y, rhs, all
    <3>6. IsDone(grammar, y)
      BY <3>5 DEF IsDone, all
    <3>7. (c + 1) - 1 = c /\ WorkedColumn(grammar, r.chart, c + 1)
      BY <1>1
    <3>8. y \in ToSet(r.chart[c + 1].items) => WorkedAt(grammar, r.chart, c + 1, y)
      BY <3>7 DEF WorkedColumn
    <3> QED BY <2>4, <2>7, <3>4, <3>5, <3>6, <3>7, <3>8 DEF Had, WorkedAt
  <2>8. Finds(grammar, t, r.chart, p)
    BY <2>7 DEF Finds
  <2> QED BY <2>1, <2>8 DEF M
<1>5. L \subseteq M
  <2> HIDE DEF M
  <2> QED BY <1>2, <1>3, <1>4
<1> QED BY <1>5 DEF L

-----------------------------------------------------------------------------
(***************************************************************************)
(* What the last column answers.                                           *)
(***************************************************************************)

\* The start waits for the start symbol, and for nothing else.
LEMMA StartWaits ==
  ASSUME IsGrammar(grammar)
  PROVE  LET s == StartOf(grammar)
         IN /\ s \in Item /\ s.rule = Len(RulesIn(grammar)) /\ s.dot = 0 /\ s.origin = 0
            /\ Waits(grammar, s, grammar.start) /\ grammar.start \in Nonterminal
            /\ Advanced(s) = FinalItem /\ Advanced(s).rule = Len(RulesIn(grammar))
<1> DEFINE s == StartOf(grammar)
           n == Len(RulesIn(grammar))
<1>1. n \in Nat /\ RulesIn(grammar)[n].rhs = <<grammar.start>> /\ Len(Rules) = n
  BY RulesNumbered, RuleTypes
<1>2. s \in Item /\ s.rule = n /\ s.dot = 0 /\ s.origin = 0
  BY <1>1 DEF StartOf, Item
<1>3. RhsIn(grammar, s) = <<grammar.start>>
  BY <1>1, <1>2 DEF RhsIn
<1>4. Advanced(s).rule = n /\ Advanced(s) = [rule |-> n, dot |-> 1, origin |-> 0]
  <2>1. Advanced(s) = [rule |-> s.rule, dot |-> s.dot + 1, origin |-> s.origin]
    BY <1>2, AdvancedFields
  <2> QED BY <1>2, <2>1
<1>5. FinalItem = [rule |-> n, dot |-> 1, origin |-> 0]
  BY <1>1 DEF FinalItem, StartItem
<1>6. grammar.start \in Nonterminal
  BY DEF IsGrammar
<1>7. Waits(grammar, s, grammar.start)
  <2> HIDE DEF s, n
  <2> QED BY <1>2, <1>3 DEF Waits, IsDone
<1> QED BY <1>2, <1>4, <1>5, <1>6, <1>7

\* What the grammar derives is accepted.
LEMMA DerivedIsAccepted ==
  ASSUME IsGrammar(grammar), NEW r, Core(grammar, leo, limits, r),
         NEW t, SoundChart(grammar, t, r.chart),
         ExactChart(grammar, leo, t, r.chart, Len(r.chart)),
         <<grammar.start, t>> \in Derived(grammar)
  PROVE  IsAccepting(r)
<1> DEFINE s == StartOf(grammar)
           m == Len(t)
           N == Len(r.chart)
           start == grammar.start
<1>1. /\ t \in Seq(Byte) /\ m \in Nat /\ N = m + 1 /\ MaxInputBytes \in Nat
      /\ \A c \in 0..m : /\ c \in Nat /\ c + 1 \in 1..N /\ (c + 1) - 1 = c
                         /\ LeoAt(grammar, leo, r.chart, c + 1)
                         /\ WorkedColumn(grammar, r.chart, c + 1)
  BY ExactFacts
<1>2. s \in ToSet(r.chart[1].items)
  BY DEF ExactChart
<1>3. /\ s.rule = Len(RulesIn(grammar)) /\ Waits(grammar, s, start) /\ start \in Nonterminal
      /\ Advanced(s) = FinalItem /\ Advanced(s).rule = Len(RulesIn(grammar))
  BY StartWaits
<1>4. /\ BeginsAt(grammar, r.chart, 0, start)
      /\ start \in Nullable(grammar) => FinalItem \in ToSet(r.chart[1].items)
  <2>1. 0 \in 0..m /\ 0 + 1 = 1 /\ 1 - 1 = 0
    BY <1>1
  <2>2. WorkedColumn(grammar, r.chart, 1)
    BY <1>1, <2>1
  <2> QED BY <1>2, <1>3, <2>1, <2>2 DEF WorkedColumn, WorkedAt
<1>5. FinalItem \in ToSet(r.chart[N].items)
  <2>c1. CASE m = 0
    <3>1. t = << >> /\ N = 1
      BY <1>1, <2>c1
    <3>2. start \in Nullable(grammar)
      BY <1>1, <3>1, EmptyOnlyIfNullable DEF Derived
    <3> QED BY <1>4, <3>1, <3>2
  <2>c2. CASE m # 0
    <3> DEFINE p == <<start, t>>
    <3>1. Finds(grammar, t, r.chart, p) /\ p[1] = start /\ p[2] = t
      BY AllFound
    <3>2. 0 \in 0..m /\ m \in 0..m /\ 0 < m /\ m = Len(t)
      <4> HIDE DEF m
      <4>1. 0 \in 0..m /\ m \in 0..m /\ 0 < m
        BY <1>1, <2>c2
      <4> QED BY <4>1 DEF m
    <3>3. t = Between(t, 0, m)
      BY <1>1 DEF Between
    <3> HIDE DEF p, m
    <3>4. Completes(grammar, r.chart, m + 1, start, 0)
      BY <1>4, <3>1, <3>2, <3>3 DEF Finds
    <3>5. /\ m + 1 \in 1..N /\ 0 \in Nat /\ 0 < (m + 1) - 1
          /\ LeoAt(grammar, leo, r.chart, 0 + 1) /\ s \in ToSet(r.chart[0 + 1].items)
      BY <1>1, <1>2, <3>2
    <3> HIDE DEF s
    <3>6. Had(grammar, r.chart, m + 1, Advanced(s))
      BY <1>3, <3>4, <3>5, WaitersMove
    <3> QED BY <1>1, <1>3, <3>6 DEF Had
  <2> QED BY <2>c1, <2>c2
<1> QED BY <1>5 DEF IsAccepting, Last

\* A terminal has begun, and may go on.
Pending(g, t, chart) ==
  \E i \in 1..Len(chart) : \E w \in ToSet(chart[i].items) : \E T \in Terminal : \E v \in Words[T] :
    Waits(g, w, T) /\ IsStrictPrefix(Between(t, i - 1, Len(t)), v)

\* If none has, the last column waits for nonterminals only.
LEMMA NoTerminalAtEnd ==
  ASSUME IsGrammar(grammar), NEW r, Core(grammar, leo, limits, r),
         NEW t, SoundChart(grammar, t, r.chart),
         ExactChart(grammar, leo, t, r.chart, Len(r.chart)),
         ~Pending(grammar, t, r.chart),
         NEW x \in ToSet(r.chart[Len(t) + 1].items), NEW X, Waits(grammar, x, X)
  PROVE  X \in Nonterminal
<1> DEFINE m == Len(t)
<1>1. /\ t \in Seq(Byte) /\ m \in Nat
      /\ \A c \in 0..m : /\ c \in Nat /\ c + 1 \in 1..Len(r.chart) /\ (c + 1) - 1 = c
                         /\ \A y \in ToSet(r.chart[c + 1].items) : MayHold(grammar, c, y)
  BY ExactFacts
<1>2. m + 1 \in 1..Len(r.chart) /\ (m + 1) - 1 = m /\ MayHold(grammar, m, x)
  <2> HIDE DEF m
  <2>1. m \in 0..m
    BY <1>1
  <2>2. x \in ToSet(r.chart[m + 1].items)
    BY DEF m
  <2> QED BY <1>1, <2>1, <2>2
<1>3. X \in Nonterminal \cup Terminal
  BY <1>1, <1>2, ItemTypes
<1>4. X \notin Terminal
  <2> SUFFICES ASSUME X \in Terminal PROVE FALSE
    OBVIOUS
  <2>1. PICK v \in Words[X] : TRUE
    BY TerminalAssumption
  <2>2. v \in Seq(Byte) /\ v # << >>
    BY TerminalAssumption
  <2>3. Between(t, (m + 1) - 1, Len(t)) = << >>
    BY <1>1, <1>2, BetweenResult
  <2>4. IsStrictPrefix(<< >>, v)
    <3> DEFINE e == << >>
    <3>1. e \in Seq(Byte) /\ Len(e) = 0
      OBVIOUS
    <3>2. SubSeq(e, 1, 0) = << >> /\ SubSeq(v, 1, 0) = << >> /\ Len(v) \in Nat
      BY <2>2
    <3> HIDE DEF e
    <3>3. IsPrefix(e, v)
      BY <3>1, <3>2 DEF IsPrefix
    <3> QED BY <2>2, <3>3 DEF IsStrictPrefix, e
  <2> QED BY <1>2, <2>3, <2>4 DEF Pending
<1> QED BY <1>3, <1>4

\* Then what it waits for is nullable, for every nonterminal derives some string, and one
\* that derives no empty string waits for a terminal, at the end.
LEMMA WaitedAreNullable ==
  ASSUME IsGrammar(grammar), IsReduced(grammar), NEW r, Core(grammar, leo, limits, r),
         NEW t, SoundChart(grammar, t, r.chart),
         ExactChart(grammar, leo, t, r.chart, Len(r.chart)),
         ~Pending(grammar, t, r.chart),
         NEW x \in ToSet(r.chart[Len(t) + 1].items), x.rule # Len(RulesIn(grammar)),
         NEW B, Waits(grammar, x, B)
  PROVE  B \in Nullable(grammar)
<1> DEFINE m == Len(t)
           items == ToSet(r.chart[Len(t) + 1].items)
           D == {A \in Nonterminal : \E y \in items : Waits(grammar, y, A)}
           S == (Nonterminal \ D) \cup Nullable(grammar)
<1>1. /\ t \in Seq(Byte) /\ m \in Nat /\ (m + 1) - 1 = m
      /\ WorkedColumn(grammar, r.chart, m + 1)
      /\ \A y \in items : MayHold(grammar, m, y)
  <2>1. /\ t \in Seq(Byte) /\ m \in Nat
        /\ \A c \in 0..m : /\ (c + 1) - 1 = c /\ WorkedColumn(grammar, r.chart, c + 1)
                           /\ \A y \in ToSet(r.chart[c + 1].items) : MayHold(grammar, c, y)
    BY ExactFacts
  <2>2. m \in 0..m
    <3> HIDE DEF m
    <3> QED BY <2>1
  <2> QED BY <2>1, <2>2
<1>2. \A y \in items : \A X : Waits(grammar, y, X) =>
        X \in D /\ X \notin Terminal /\ BeginsAt(grammar, r.chart, m, X)
        /\ (X \in Nullable(grammar) => Advanced(y) \in items)
  <2> SUFFICES ASSUME NEW y \in items, NEW X, Waits(grammar, y, X)
               PROVE  X \in D /\ X \notin Terminal /\ BeginsAt(grammar, r.chart, m, X)
                      /\ (X \in Nullable(grammar) => Advanced(y) \in items)
    OBVIOUS
  <2>1. X \in Nonterminal
    BY NoTerminalAtEnd
  <2>2. WorkedAt(grammar, r.chart, m + 1, y)
    BY <1>1 DEF WorkedColumn
  <2>3. X \notin Terminal
    BY <2>1, TerminalAssumption
  <2> QED BY <1>1, <2>1, <2>2, <2>3 DEF WorkedAt
<1>3. Nullable(grammar) \subseteq Nonterminal /\ Erased(grammar, Nullable(grammar)) \subseteq Nullable(grammar)
  BY NullableResult
<1> HIDE DEF m, items, D
<1>4. ASSUME NEW p \in ToSet(grammar.rules), ToSet(p.rhs) \subseteq S \cup Terminal
      PROVE  p.lhs \in S
  <2>1. p.lhs \in Nonterminal /\ p.rhs \in Seq(RhsSymbol)
    BY RuleShapes
  <2> SUFFICES ASSUME p.lhs \in D
               PROVE  p.lhs \in Nullable(grammar)
    BY <2>1
  <2>2. BeginsAt(grammar, r.chart, m, p.lhs)
    <3>1. PICK y \in items : Waits(grammar, y, p.lhs)
      BY DEF D
    <3> QED BY <1>2, <3>1
  <2>3. PICK i \in 1..Len(RulesIn(grammar)) : i # Len(RulesIn(grammar)) /\ RulesIn(grammar)[i] = p
    BY RulesNumbered
  <2> DEFINE rhs == RulesIn(grammar)[i].rhs
             l == Len(rhs)
             J == {j \in 0..l : At(i, j, m) \in items /\ \A k \in 1..j : rhs[k] \in Nullable(grammar)}
  <2>4. rhs \in Seq(RhsSymbol) /\ l \in Nat /\ rhs = p.rhs /\ (\A k \in 1..l : rhs[k] \in ToSet(rhs))
    <3>1. rhs = p.rhs /\ rhs \in Seq(RhsSymbol)
      BY <2>1, <2>3
    <3> HIDE DEF rhs
    <3>2. l \in Nat
      BY <3>1
    <3> QED BY <3>1, <3>2 DEF ToSet
  <2>5. 0 \in J
    <3>1. At(i, 0, m) \in items
      BY <1>1, <2>2, <2>3 DEF BeginsAt, At, items, m
    <3> HIDE DEF l, rhs
    <3>2. 0 \in 0..l /\ \A k \in 1..0 : FALSE
      BY <2>4
    <3> QED BY <3>1, <3>2
  <2>6. ASSUME NEW j \in 0..l - 1, j \in J
        PROVE  j + 1 \in J
    <3> DEFINE y == At(i, j, m)
               X == rhs[j + 1]
    <3>1. j \in Nat /\ j + 1 \in 1..l /\ j + 1 \in 0..l /\ j # l
      <4> HIDE DEF l
      <4> QED BY <2>4
    <3>2. y.dot = j /\ RhsIn(grammar, y) = rhs
      <4> HIDE DEF rhs, l, m
      <4>1. RhsIn(grammar, y) = RulesIn(grammar)[i].rhs /\ y.dot = j
        BY <1>1, <2>3, <3>1, AtFields
      <4> QED BY <4>1 DEF rhs
    <3>3. Advanced(y) = At(i, j + 1, m)
      BY <1>1, <2>3, <3>1, AtAdvanced
    <3>4. y \in items /\ \A k \in 1..j : rhs[k] \in Nullable(grammar)
      BY <2>6
    <3> HIDE DEF y, rhs, l
    <3>5. Waits(grammar, y, X)
      BY <3>1, <3>2 DEF Waits, IsDone, l
    <3>6. X \in D /\ X \notin Terminal /\ (X \in Nullable(grammar) => Advanced(y) \in items)
      BY <1>2, <3>4, <3>5
    <3>7. X \in ToSet(p.rhs)
      BY <2>4, <3>1
    <3>8. X \in Nullable(grammar)
      BY <1>4, <3>6, <3>7
    <3>9. \A k \in 1..j + 1 : k \in 1..j \/ k = j + 1
      BY <3>1
    <3> QED BY <3>1, <3>3, <3>4, <3>6, <3>8, <3>9
  <2>7. \A j \in 0..l : j \in J
    <3> HIDE DEF J, l
    <3> QED BY <2>4, <2>5, <2>6, UpTo
  <2>8. ToSet(p.rhs) \subseteq Nullable(grammar)
    <3>1. l \in 0..l
      <4> HIDE DEF l
      <4> QED BY <2>4
    <3>2. \A k \in 1..l : rhs[k] \in Nullable(grammar)
      BY <2>7, <3>1
    <3> HIDE DEF rhs
    <3> QED BY <2>4, <3>2 DEF ToSet
  <2> QED BY <1>3, <2>1, <2>8 DEF Erased, RulesOf
<1>5. S \in SUBSET Nonterminal
  BY <1>3
<1>6. \A p \in ToSet(grammar.rules) : ToSet(p.rhs) \cap Nonterminal \subseteq S
  <2> HIDE DEF S
  <2> QED BY <1>4, <1>5 DEF IsReduced
<1>7. x \in items /\ B \in D /\ MayHold(grammar, m, x)
  BY <1>1, <1>2 DEF items
<1>8. B \in ToSet(RhsIn(grammar, x)) /\ RulesIn(grammar)[x.rule] \in ToSet(grammar.rules)
  <2>1. x.rule \in 1..Len(RulesIn(grammar)) /\ x.rule # Len(RulesIn(grammar))
    BY <1>7 DEF MayHold
  <2>2. x.dot + 1 \in 1..Len(RhsIn(grammar, x)) /\ RhsIn(grammar, x) \in Seq(RhsSymbol)
    BY <1>1, <1>7, ItemTypes DEF RhsSymbol
  <2>3. B = RhsIn(grammar, x)[x.dot + 1]
    BY DEF Waits
  <2> QED BY <2>1, <2>2, <2>3, RulesNumbered DEF ToSet
<1> QED BY <1>6, <1>7, <1>8 DEF D, RhsIn

\* So an item of the last column has read what all of its rule derives.
LEMMA RestOfRule ==
  ASSUME IsGrammar(grammar), IsReduced(grammar), NEW r, Core(grammar, leo, limits, r),
         NEW t, SoundChart(grammar, t, r.chart),
         ExactChart(grammar, leo, t, r.chart, Len(r.chart)),
         ~Pending(grammar, t, r.chart),
         NEW i \in 1..Len(RulesIn(grammar)), i # Len(RulesIn(grammar)), NEW o \in Nat,
         NEW j \in 0..Len(RulesIn(grammar)[i].rhs), Had(grammar, r.chart, Len(t) + 1, At(i, j, o)),
         NEW u, u \in DerivedFrom(SubSeq(RulesIn(grammar)[i].rhs, 1, j), Derived(grammar), MaxInputBytes)
  PROVE  u \in DerivedFrom(RulesIn(grammar)[i].rhs, Derived(grammar), MaxInputBytes)
<1> DEFINE rhs == RulesIn(grammar)[i].rhs
           l == Len(rhs)
           n == MaxInputBytes
           L == Derived(grammar)
           N == Len(t) + 1
           Fine(k) == Had(grammar, r.chart, N, At(i, k, o)) /\ u \in DerivedFrom(SubSeq(rhs, 1, k), L, n)
           J == {k \in 0..l : k >= j => Fine(k)}
<1>1. rhs \in Seq(RhsSymbol) /\ l \in Nat /\ n \in Nat /\ L \in Strings
  BY RulesNumbered, AllSymbols, EarleyAssumption, DerivationsResult DEF Derived
<1>2. WorkedColumn(grammar, r.chart, N)
  <2>1. /\ Len(t) \in Nat /\ \A c \in 0..Len(t) : WorkedColumn(grammar, r.chart, c + 1)
    BY ExactFacts
  <2> QED BY <2>1
<1>3. j \in 0..l /\ Fine(j)
  OBVIOUS
<1> HIDE DEF l, N, n, L
<1>4. 0 \in J
  <2> HIDE DEF Fine, rhs
  <2>1. 0 \in 0..l /\ (0 >= j => j = 0)
    BY <1>1, <1>3
  <2> QED BY <1>3, <2>1
<1>5. ASSUME NEW k \in 0..l - 1, k \in J
      PROVE  k + 1 \in J
  <2>1. k \in Nat /\ k + 1 \in 0..l /\ k # l /\ k + 1 \in 1..l /\ (k + 1 >= j => k >= j \/ k + 1 = j)
    BY <1>1, <1>3
  <2> SUFFICES ASSUME k >= j
               PROVE  Fine(k + 1)
    <3> HIDE DEF Fine, rhs
    <3> QED BY <1>3, <2>1
  <2>2. Had(grammar, r.chart, N, At(i, k, o)) /\ u \in DerivedFrom(SubSeq(rhs, 1, k), L, n)
    BY <1>5
  <2> DEFINE y == At(i, k, o)
             X == rhs[k + 1]
  <2>3. y.rule = i /\ y.dot = k /\ RhsIn(grammar, y) = rhs /\ Advanced(y) = At(i, k + 1, o)
    <3> HIDE DEF rhs
    <3>1. y.rule = i /\ RhsIn(grammar, y) = RulesIn(grammar)[i].rhs /\ y.dot = k
      BY <2>1, AtFields
    <3>2. Advanced(y) = At(i, k + 1, o)
      BY <2>1, AtAdvanced
    <3> QED BY <3>1, <3>2 DEF rhs
  <2> HIDE DEF y, rhs
  <2>4. Waits(grammar, y, X) /\ ~IsDone(grammar, y)
    BY <2>1, <2>3 DEF Waits, IsDone, l
  <2>5. y \in ToSet(r.chart[N].items)
    BY <2>2, <2>4 DEF Had, y
  <2>6. X \in Nullable(grammar)
    BY <2>3, <2>4, <2>5, WaitedAreNullable DEF N
  <2>7. X \in Nonterminal /\ <<X, << >>>> \in L
    BY <1>1, <2>6, NullableResult, NullableDerives DEF Derived, L, n
  <2>8. Had(grammar, r.chart, N, At(i, k + 1, o))
    <3>1. Advanced(y) \in ToSet(r.chart[N].items)
      BY <1>2, <2>4, <2>5, <2>6, <2>7 DEF WorkedColumn, WorkedAt
    <3> QED BY <2>3, <3>1 DEF Had
  <2>9. u \in DerivedFrom(SubSeq(rhs, 1, k + 1), L, n)
    <3> DEFINE front == SubSeq(rhs, 1, k)
               none == << >>
    <3>1. /\ X \in RhsSymbol /\ front \in Seq(RhsSymbol)
          /\ \A w : w \in DerivedFrom(SubSeq(rhs, 1, k + 1), L, n) <=> Joins(DerivedFrom(front, L, n), StringsOf(X, L), n, w)
      BY <1>1, DerivedAt DEF l
    <3>2. none \in StringsOf(X, L)
      BY <1>1, <2>7, <3>1, StringsResult
    <3>3. u \in DerivedFrom(front, L, n)
      BY <2>2
    <3> HIDE DEF front, X
    <3>4. u \in Seq(Byte) /\ Len(u) <= n
      BY <1>1, <3>1, <3>3, DerivedNeeds
    <3>5. u = u \o none /\ Len(u) + Len(none) <= n
      <4>1. u = u \o << >> /\ Len(<< >>) = 0 /\ Len(u) \in Nat
        BY <3>4
      <4> QED BY <1>1, <3>4, <4>1
    <3> HIDE DEF none
    <3>6. Joins(DerivedFrom(front, L, n), StringsOf(X, L), n, u)
      BY <3>2, <3>3, <3>5 DEF Joins
    <3> QED BY <3>1, <3>6
  <2> QED BY <2>8, <2>9
<1>6. \A k \in 0..l : k \in J
  <2> HIDE DEF J
  <2> QED BY <1>1, <1>4, <1>5, UpTo
<1>7. Fine(l)
  <2> HIDE DEF Fine
  <2>1. l \in 0..l /\ l >= j
    BY <1>1, <1>3
  <2> QED BY <1>6, <2>1
<1>8. SubSeq(rhs, 1, l) = rhs
  <2> HIDE DEF rhs
  <2> QED BY <1>1, AllSymbols DEF l
<1> QED BY <1>7, <1>8 DEF L, n

\* What begins a string of a nonterminal that has begun, and reaches to the end of the
\* bytes, is one.
Ends(g, t, chart, p) ==
  \A o \in 0..Len(t) :
    p[2] = Between(t, o, Len(t)) /\ BeginsAt(g, chart, o, p[1]) => p \in Derived(g)

\* So does what begins a rule: its first symbols are found, what begins the next is all
\* of it, and the rest is nullable.
LEMMA RuleEnds ==
  ASSUME IsGrammar(grammar), IsReduced(grammar), NEW r, Core(grammar, leo, limits, r),
         NEW t, SoundChart(grammar, t, r.chart),
         ExactChart(grammar, leo, t, r.chart, Len(r.chart)),
         ~Pending(grammar, t, r.chart),
         NEW i \in 1..Len(RulesIn(grammar)), i # Len(RulesIn(grammar)), NEW o \in 0..Len(t),
         At(i, 0, o) \in ToSet(r.chart[o + 1].items),
         NEW j \in 0..Len(RulesIn(grammar)[i].rhs) - 1,
         NEW u \in DerivedFrom(SubSeq(RulesIn(grammar)[i].rhs, 1, j), Derived(grammar), MaxInputBytes),
         NEW X, X = RulesIn(grammar)[i].rhs[j + 1], NEW v \in Seq(Byte),
         X \in Terminal => \E z \in Words[X] : IsPrefix(v, z),
         X \in Nonterminal => Ends(grammar, t, r.chart, <<X, v>>),
         u \o v = Between(t, o, Len(t))
  PROVE  u \o v \in DerivedFrom(RulesIn(grammar)[i].rhs, Derived(grammar), MaxInputBytes)
<1> DEFINE rhs == RulesIn(grammar)[i].rhs
           l == Len(rhs)
           n == MaxInputBytes
           L == Derived(grammar)
           m == Len(t)
           y == At(i, j, o)
           front == SubSeq(rhs, 1, j)
<1>1. /\ t \in Seq(Byte) /\ m \in Nat /\ m <= n /\ n \in Nat
      /\ \A c \in 0..m : /\ c \in Nat /\ c + 1 \in 1..Len(r.chart) /\ (c + 1) - 1 = c
                         /\ WorkedColumn(grammar, r.chart, c + 1)
  BY ExactFacts
<1>2. rhs \in Seq(RhsSymbol) /\ l \in Nat /\ L \in Strings
  BY <1>1, RulesNumbered, AllSymbols, DerivationsResult DEF Derived
<1>3. /\ X \in RhsSymbol /\ front \in Seq(RhsSymbol) /\ j \in Nat /\ j \in 0..l /\ j # l
      /\ j + 1 \in 0..l
      /\ \A w : w \in DerivedFrom(SubSeq(rhs, 1, j + 1), L, n) <=>
           Joins(DerivedFrom(front, L, n), StringsOf(X, L), n, w)
  <2>1. X = rhs[j + 1] /\ j \in 0..l - 1
    OBVIOUS
  <2>2. j \in Nat /\ j \in 0..l /\ j # l /\ j + 1 \in 0..l
    <3> HIDE DEF l, rhs
    <3> QED BY <1>2, <2>1
  <2>3. L \in Strings /\ n \in Nat /\ rhs \in Seq(RhsSymbol) /\ j \in 0..Len(rhs) - 1
    BY <1>1, <1>2, <2>1
  <2> HIDE DEF rhs, n, L
  <2>4. rhs[j + 1] \in RhsSymbol /\ SubSeq(rhs, 1, j) \in Seq(RhsSymbol)
    BY <2>3, DerivedAt, Zenon
  <2>5. \A w : w \in DerivedFrom(SubSeq(rhs, 1, j + 1), L, n) <=>
              Joins(DerivedFrom(SubSeq(rhs, 1, j), L, n), StringsOf(rhs[j + 1], L), n, w)
    BY <2>3, DerivedAt, Zenon
  <2> QED BY <2>1, <2>2, <2>4, <2>5
<1>4. u \in Seq(Byte) /\ u \in DerivedFrom(front, L, n)
  <2>1. u \in DerivedFrom(front, L, n)
    OBVIOUS
  <2> HIDE DEF front, L, n
  <2> QED BY <1>1, <1>2, <1>3, <2>1, DerivedNeeds
<1>5. o \in Nat /\ o <= m /\ m \in 0..m /\ u \o v = Between(t, o, m)
  <2>1. o \in 0..m /\ u \o v = Between(t, o, m)
    OBVIOUS
  <2> HIDE DEF m
  <2> QED BY <1>1, <2>1
<1>6. \E d : SplitAt(t, o, m, u, v, d)
  <2>1. m <= Len(t) /\ Between(t, o, m) = u \o v
    BY <1>1, <1>5
  <2> HIDE DEF m, rhs, L, n, l, front, y
  <2> QED BY <1>1, <1>4, <1>5, <2>1, BetweenSplit
<1>d. PICK d : SplitAt(t, o, m, u, v, d)
  BY <1>6
<1>7. d \in Nat /\ o <= d /\ d <= m /\ u = Between(t, o, d) /\ v = Between(t, d, m)
      /\ d = o + Len(u) /\ m = d + Len(v)
  BY <1>d DEF SplitAt
<1>8. d \in 0..m /\ (d + 1) - 1 = d /\ d + 1 \in 1..Len(r.chart) /\ WorkedColumn(grammar, r.chart, d + 1)
  <2> HIDE DEF m
  <2>1. d \in 0..m
    BY <1>1, <1>7
  <2> QED BY <1>1, <2>1
<1>9. Had(grammar, r.chart, d + 1, y)
  <2>1. L \subseteq Derived(grammar) /\ (\A p \in L : Finds(grammar, t, r.chart, p))
    BY AllFound
  <2>2. \A k \in 0..Len(RulesIn(grammar)[i].rhs) :
          \A w \in DerivedFrom(SubSeq(RulesIn(grammar)[i].rhs, 1, k), L, MaxInputBytes) :
            \A c \in 0..Len(t) : o <= c /\ w = Between(t, o, c) => Had(grammar, r.chart, c + 1, At(i, k, o))
    <3> HIDE DEF L
    <3> QED BY <1>2, <2>1, RuleFound
  <2>3. j \in 0..Len(RulesIn(grammar)[i].rhs) /\ d \in 0..Len(t)
    BY <1>3, <1>8
  <2> QED BY <1>4, <1>7, <2>2, <2>3
<1>10. y.rule = i /\ y.dot = j /\ RhsIn(grammar, y) = rhs
  <2> HIDE DEF rhs, m
  <2>1. y.rule = i /\ RhsIn(grammar, y) = RulesIn(grammar)[i].rhs /\ y.dot = j
    BY <1>3, <1>5, AtFields
  <2> QED BY <2>1 DEF rhs
<1>11. Waits(grammar, y, X) /\ ~IsDone(grammar, y)
  <2>1. X = rhs[j + 1]
    OBVIOUS
  <2> HIDE DEF y, rhs
  <2> QED BY <1>3, <1>10, <2>1 DEF Waits, IsDone, l
<1>12. y \in ToSet(r.chart[d + 1].items)
  BY <1>9, <1>11 DEF Had
<1> HIDE DEF y, rhs, L, n, front, l
<1>13. (X \in Terminal => v \in Words[X]) /\ (X \in Nonterminal => <<X, v>> \in L)
  <2>1. ASSUME X \in Terminal
        PROVE  v \in Words[X]
    <3>1. PICK z \in Words[X] : IsPrefix(v, z)
      BY <2>1
    <3>2. v = z
      <4> SUFFICES ASSUME v # z PROVE FALSE
        OBVIOUS
      <4>1. IsStrictPrefix(Between(t, (d + 1) - 1, Len(t)), z)
        BY <1>7, <1>8, <3>1 DEF IsStrictPrefix
      <4> QED BY <1>8, <1>11, <1>12, <2>1, <4>1 DEF Pending
    <3> QED BY <3>1, <3>2
  <2>2. ASSUME X \in Nonterminal
        PROVE  <<X, v>> \in L
    <3>1. WorkedAt(grammar, r.chart, d + 1, y)
      BY <1>8, <1>12 DEF WorkedColumn
    <3>2. BeginsAt(grammar, r.chart, d, X)
      BY <1>8, <1>11, <2>2, <3>1 DEF WorkedAt
    <3> DEFINE p == <<X, v>>
    <3>3. Ends(grammar, t, r.chart, p) /\ p[1] = X /\ p[2] = v
      BY <2>2
    <3> HIDE DEF p
    <3>4. p \in L
      BY <1>7, <1>8, <3>2, <3>3 DEF Ends, L
    <3> QED BY <3>4 DEF p
  <2> QED BY <2>1, <2>2
<1>14. Had(grammar, r.chart, m + 1, At(i, j + 1, o))
  <2>1. j \in 0..Len(RulesIn(grammar)[i].rhs) - 1 /\ X = RulesIn(grammar)[i].rhs[j + 1] /\ m <= Len(t)
    BY <1>1
  <2>2. X \in Terminal => Between(t, d, m) \in Words[X]
    BY <1>7, <1>13
  <2>3. X \in Nonterminal => /\ <<X, Between(t, d, m)>> \in Derived(grammar)
                             /\ Finds(grammar, t, r.chart, <<X, Between(t, d, m)>>)
    BY <1>7, <1>13, AllFound DEF L
  <2>4. Had(grammar, r.chart, d + 1, At(i, j, o))
    BY <1>9 DEF y
  <2> HIDE DEF m
  <2> QED BY <1>1, <1>5, <1>7, <2>1, <2>2, <2>3, <2>4, WalkOn
<1>15. u \o v \in DerivedFrom(SubSeq(rhs, 1, j + 1), L, n)
  <2>1. v \in StringsOf(X, L)
    BY <1>2, <1>3, <1>13, StringsResult DEF RhsSymbol
  <2>2. Len(u) + Len(v) <= n
    <3> DEFINE a == Len(u)
               b == Len(v)
    <3>1. a \in Nat /\ b \in Nat /\ d = o + a /\ m = d + b
      <4>1. a \in Nat
        BY <1>4
      <4>2. b \in Nat
        OBVIOUS
      <4> HIDE DEF m, a, b
      <4>3. d = o + a /\ m = d + b
        BY <1>7 DEF a, b
      <4> QED BY <4>1, <4>2, <4>3
    <3> HIDE DEF a, b, m
    <3>2. a + b <= n
      BY <1>1, <1>5, <3>1
    <3> QED BY <3>2 DEF a, b
  <2>3. Joins(DerivedFrom(front, L, n), StringsOf(X, L), n, u \o v)
    BY <1>4, <2>1, <2>2 DEF Joins
  <2> QED BY <1>3, <2>3
<1> DEFINE w == u \o v
<1>16. w \in DerivedFrom(SubSeq(RulesIn(grammar)[i].rhs, 1, j + 1), Derived(grammar), MaxInputBytes)
       /\ j + 1 \in 0..Len(RulesIn(grammar)[i].rhs) /\ Had(grammar, r.chart, Len(t) + 1, At(i, j + 1, o))
  BY <1>3, <1>14, <1>15 DEF rhs, L, n, l
<1> HIDE DEF w
<1>17. w \in DerivedFrom(RulesIn(grammar)[i].rhs, Derived(grammar), MaxInputBytes)
  BY <1>5, <1>16, RestOfRule
<1> QED BY <1>17 DEF w

\* So where no terminal may go on, what begins a string of the grammar is one.
LEMMA PrefixEnds ==
  ASSUME IsGrammar(grammar), IsReduced(grammar), NEW r, Core(grammar, leo, limits, r),
         NEW t, SoundChart(grammar, t, r.chart),
         ExactChart(grammar, leo, t, r.chart, Len(r.chart)),
         ~Pending(grammar, t, r.chart)
  PROVE  \A p \in Prefixed(grammar) : Ends(grammar, t, r.chart, p)
<1> DEFINE n == MaxInputBytes
           L == Derived(grammar)
           P == Prefixed(grammar)
           M == {p \in P : Ends(grammar, t, r.chart, p)}
<1>1. n \in Nat /\ L \in Strings /\ Round(grammar, n, L) \subseteq L
  BY EarleyAssumption, DerivationsResult DEF Derived
<1>2. /\ P \in Strings /\ PrefixRound(grammar, n, L, P) \subseteq P
      /\ \A S \in Strings : PrefixRound(grammar, n, L, S) \subseteq S => P \subseteq S
  BY <1>1, DerivablePrefixesResult DEF Derived, Prefixed
<1> HIDE DEF n, L, P
<1>3. M \in Strings /\ M \subseteq P /\ \A p \in M : Ends(grammar, t, r.chart, p)
  BY <1>2 DEF Strings
<1> HIDE DEF M
<1>4. ASSUME NEW p \in PrefixRound(grammar, n, L, M)
      PROVE  p \in M
  <2>1. p \in P
    <3>1. PrefixesRound(grammar, n, L)[M] \subseteq PrefixesRound(grammar, n, L)[P]
      <4>1. IsGradual(PrefixesRound(grammar, n, L), n)
        BY <1>1, PrefixesIsGradual
      <4> QED BY <1>2, <1>3, <4>1, Zenon DEF IsGradual
    <3>2. PrefixRound(grammar, n, L, M) \subseteq PrefixRound(grammar, n, L, P)
      BY <1>2, <1>3, <3>1 DEF PrefixesRound
    <3> QED BY <1>2, <3>2
  <2>2. PICK x \in ToSet(grammar.rules) : p = <<x.lhs, p[2]>> /\ p[2] \in OfRule(x, n, L, M)
    BY <1>1, <1>3, PrefixRoundResult
  <2> DEFINE w == p[2]
  <2>3. p = <<x.lhs, w>> /\ w \in Seq(Byte) /\ p[1] = x.lhs
    <3>1. p = <<x.lhs, w>> /\ w \in Seq(Byte)
      BY <1>2, <2>1, <2>2, StringTypes
    <3> HIDE DEF w
    <3>2. p[1] = x.lhs
      BY <3>1
    <3> QED BY <3>1, <3>2
  <2>4. x.rhs \in Seq(RhsSymbol) /\ x.lhs \in Nonterminal
    BY RuleShapes
  <2>5. BeginsRule(x, n, L, M, w)
    BY <1>1, <1>3, <2>2, <2>4, OfRuleResult
  <2>6. PICK i \in 1..Len(RulesIn(grammar)) : i # Len(RulesIn(grammar)) /\ RulesIn(grammar)[i] = x
    BY RulesNumbered
  <2> HIDE DEF w
  <2>7. ASSUME NEW o \in 0..Len(t), w = Between(t, o, Len(t)), BeginsAt(grammar, r.chart, o, p[1])
        PROVE  w \in DerivedFrom(x.rhs, L, n)
    <3> SUFFICES ASSUME NEW k \in 1..Len(x.rhs), NEW u \in DerivedFrom(SubSeq(x.rhs, 1, k - 1), L, n),
                        NEW v \in BegunBy(x.rhs[k], M), w = u \o v /\ Len(u) + Len(v) <= n
                 PROVE  w \in DerivedFrom(x.rhs, L, n)
      BY <2>5 DEF BeginsRule
    <3> DEFINE j == k - 1
               X == x.rhs[k]
    <3>1. j \in 0..Len(x.rhs) - 1 /\ j + 1 = k /\ X \in RhsSymbol
      <4> DEFINE all == x.rhs
                 l == Len(x.rhs)
      <4>1. l \in Nat /\ k \in 1..l
        BY <2>4
      <4>2. X \in RhsSymbol
        BY <2>4
      <4> HIDE DEF l, X
      <4>3. j \in 0..l - 1 /\ j + 1 = k
        BY <4>1
      <4> QED BY <4>2, <4>3 DEF l
    <3>2. At(i, 0, o) \in ToSet(r.chart[o + 1].items)
      BY <2>3, <2>6, <2>7 DEF BeginsAt, At
    <3>3. v \in BegunBy(X, M) /\ u \in DerivedFrom(SubSeq(x.rhs, 1, j), L, n)
      OBVIOUS
    <3> HIDE DEF X, j
    <3>4. /\ v \in Seq(Byte) /\ (X \in Terminal => \E z \in Words[X] : IsPrefix(v, z))
          /\ (X \in Nonterminal => <<X, v>> \in M)
      BY <1>3, <3>1, <3>3, BegunByResult
    <3>5. X \in Nonterminal => Ends(grammar, t, r.chart, <<X, v>>)
      BY <1>3, <3>4
    <3>6. /\ j \in 0..Len(RulesIn(grammar)[i].rhs) - 1 /\ X = RulesIn(grammar)[i].rhs[j + 1]
          /\ u \in DerivedFrom(SubSeq(RulesIn(grammar)[i].rhs, 1, j), Derived(grammar), MaxInputBytes)
          /\ u \o v = Between(t, o, Len(t))
      BY <2>6, <2>7, <3>1, <3>3 DEF X, L, n
    <3>7. u \o v \in DerivedFrom(RulesIn(grammar)[i].rhs, Derived(grammar), MaxInputBytes)
      BY <2>6, <3>2, <3>4, <3>5, <3>6, RuleEnds
    <3> QED BY <2>6, <3>7 DEF L, n
  <2>8. Ends(grammar, t, r.chart, p)
    <3> SUFFICES ASSUME NEW o \in 0..Len(t), p[2] = Between(t, o, Len(t)), BeginsAt(grammar, r.chart, o, p[1])
                 PROVE  p \in Derived(grammar)
      BY DEF Ends
    <3>1. w \in DerivedFrom(x.rhs, L, n)
      BY <2>7 DEF w
    <3>2. <<x.lhs, w>> \in Round(grammar, n, L)
      BY <1>1, <3>1, RoundResult
    <3> QED BY <1>1, <2>3, <3>2 DEF L
  <2> QED BY <2>1, <2>8 DEF M
<1>5. P \subseteq M
  BY <1>2, <1>3, <1>4
<1> QED BY <1>3, <1>5 DEF P

\* What is accepted is derived.
LEMMA AcceptedIsDerived ==
  ASSUME IsGrammar(grammar), NEW r, Core(grammar, leo, limits, r),
         NEW t, SoundChart(grammar, t, r.chart), IsAccepting(r)
  PROVE  <<grammar.start, t>> \in Derived(grammar)
<1> DEFINE N == Len(r.chart)
           m == Len(t)
           n == MaxInputBytes
           L == Derived(grammar)
           start == grammar.start
           none == << >>
<1>1. /\ t \in Seq(Byte) /\ m \in Nat /\ N - 1 = m /\ N \in 1..N
      /\ SoundColumn(grammar, t, N - 1, r.chart[N]) /\ n \in Nat
  BY SoundChartFacts, EarleyAssumption
<1>2. Means(grammar, t, m, FinalItem)
  <2>1. FinalItem \in ToSet(r.chart[N].items)
    BY DEF IsAccepting, Last
  <2> QED BY <1>1, <2>1 DEF SoundColumn
<1>3. FinalItem.dot = 1 /\ FinalItem.origin = 0 /\ RhsIn(grammar, FinalItem) = <<start>>
  <2>1. FinalItem.dot = 1 /\ FinalItem.origin = 0 /\ FinalItem.rule = Len(Rules)
    BY DEF FinalItem, StartItem
  <2> QED BY <2>1, RuleTypes DEF RhsIn
<1>4. L \in Strings /\ start \in Nonterminal /\ start \in RhsSymbol
  BY <1>1, DerivationsResult DEF Derived, IsGrammar, RhsSymbol
<1> DEFINE one == <<start>>
<1>5. one \in Seq(RhsSymbol) /\ Len(one) = 1 /\ one[1] = start /\ SubSeq(one, 1, 0) = << >>
  BY <1>4
<1> HIDE DEF one, L, start, n
<1>6. /\ 0 \in 0..Len(one) - 1 /\ 0 + 1 = 1 /\ SubSeq(one, 1, 1) = one
      /\ one[0 + 1] = start /\ SubSeq(one, 1, 0) = none
  BY <1>5
<1>7. t \in DerivedFrom(SubSeq(one, 1, 0 + 1), L, n)
  <2>1. Between(t, 0, m) = t
    BY <1>1 DEF Between
  <2>2. t \in DerivedFrom(SubSeq(one, 1, 1), L, n)
    BY <1>2, <1>3, <2>1 DEF Means, Reads, one, L, n
  <2> QED BY <1>6, <2>2
<1>8. Joins(DerivedFrom(SubSeq(one, 1, 0), L, n), StringsOf(one[0 + 1], L), n, t)
  BY <1>1, <1>4, <1>5, <1>6, <1>7, DerivedAt
<1>9. DerivedFrom(none, L, n) = {<< >>}
  BY <1>1, <1>4, DerivedEmpty
<1> HIDE DEF none
<1>10. PICK u \in DerivedFrom(none, L, n), v \in StringsOf(start, L) : t = u \o v
  BY <1>6, <1>8 DEF Joins
<1>11. v \in Seq(Byte) /\ <<start, v>> \in L
  <2>1. StringsOf(start, L) \in SUBSET Seq(Byte) /\ \A x : x \in StringsOf(start, L) <=> <<start, x>> \in L
    BY <1>4, StringsResult
  <2> QED BY <1>10, <2>1
<1>12. t = v
  <2>1. u = << >>
    BY <1>9, <1>10
  <2>2. << >> \o v = v
    BY <1>11
  <2> QED BY <1>10, <2>1, <2>2
<1> QED BY <1>11, <1>12 DEF L, start

\* What is derived begins itself.
LEMMA DerivedIsPrefix ==
  ASSUME NEW g, IsGrammar(g)
  PROVE  Derived(g) \subseteq Prefixed(g)
<1> DEFINE n == MaxInputBytes
           L == Derived(g)
           P == Prefixed(g)
           M == L \cap P
<1>1. n \in Nat /\ L \in Strings /\ Round(g, n, L) \subseteq L
      /\ \A S \in Strings : Round(g, n, S) \subseteq S => L \subseteq S
  BY EarleyAssumption, DerivationsResult DEF Derived
<1>2. P \in Strings /\ PrefixRound(g, n, L, P) \subseteq P
  BY <1>1, DerivablePrefixesResult DEF Derived, Prefixed
<1> HIDE DEF n, L, P
<1>3. M \in Strings /\ M \subseteq L
  BY <1>1 DEF Strings
<1>4. ASSUME NEW p \in Round(g, n, L)
      PROVE  p \in P
  <2>1. PICK x \in ToSet(g.rules) : p = <<x.lhs, p[2]>> /\ p[2] \in DerivedFrom(x.rhs, L, n)
    BY <1>1, RoundResult
  <2> DEFINE w == p[2]
  <2>2. p = <<x.lhs, w>> /\ w \in OfRule(x, n, L, P)
    BY <2>1 DEF OfRule
  <2> HIDE DEF w
  <2>3. <<x.lhs, w>> \in PrefixRound(g, n, L, P)
    BY <1>1, <1>2, <2>2, PrefixRoundResult
  <2> QED BY <1>2, <2>2, <2>3
<1>5. Round(g, n, M) \subseteq Round(g, n, L)
  <2> HIDE DEF M
  <2> QED BY <1>1, <1>3, RoundGrows
<1>6. L \subseteq M
  <2>1. Round(g, n, M) \subseteq M
    BY <1>1, <1>4, <1>5
  <2> HIDE DEF M
  <2> QED BY <1>1, <1>3, <2>1
<1> QED BY <1>6 DEF L, P

\* The bytes between three columns.
LEMMA BetweenJoins ==
  ASSUME NEW t \in Seq(Byte), NEW a \in Nat, NEW b \in Nat, NEW c \in Nat, a <= b, b <= c, c <= Len(t)
  PROVE  /\ Between(t, a, b) \in Seq(Byte) /\ Len(Between(t, a, b)) = b - a
         /\ Between(t, b, c) \in Seq(Byte) /\ Len(Between(t, b, c)) = c - b
         /\ Between(t, a, c) \in Seq(Byte) /\ Len(Between(t, a, c)) = c - a
         /\ Between(t, a, b) \o Between(t, b, c) = Between(t, a, c)
<1> DEFINE m == Len(t)
<1>1. m \in Nat /\ c <= m
  OBVIOUS
<1>2. b <= m /\ a <= c
  <2> HIDE DEF m
  <2> QED BY <1>1
<1> HIDE DEF m
<1>3. Between(t, a, b) \in Seq(Byte) /\ Len(Between(t, a, b)) = b - a
      /\ Between(t, a, b) \o Between(t, b, c) = Between(t, a, c)
  BY <1>2, BetweenResult DEF m
<1>4. Between(t, b, c) \in Seq(Byte) /\ Len(Between(t, b, c)) = c - b
  BY BetweenResult
<1>5. Between(t, a, c) \in Seq(Byte) /\ Len(Between(t, a, c)) = c - a
  BY <1>2, BetweenResult
<1> QED BY <1>3, <1>4, <1>5

\* A scan that runs begins what the grammar derives.
LEMMA ScanIsPrefix ==
  ASSUME IsGrammar(grammar), NEW r, Core(grammar, leo, limits, r),
         NEW t, ExactAt(grammar, leo, t, r), r.scans # {}
  PROVE  <<grammar.start, t>> \in Prefixed(grammar)
<1> DEFINE m == Len(t)
           n == MaxInputBytes
           L == Derived(grammar)
           P == Prefixed(grammar)
           R == RulesIn(grammar)
<1>1. SoundChart(grammar, t, r.chart) /\ ExactChart(grammar, leo, t, r.chart, Len(r.chart))
      /\ Scanning(t, r.scans) /\ Founded(grammar, r.chart, r.scans)
  BY DEF ExactAt, SoundAt
<1>2. /\ t \in Seq(Byte) /\ m \in Nat /\ m <= n /\ n \in Nat /\ Len(r.chart) = m + 1
      /\ \A c \in 0..m : /\ c \in Nat /\ c + 1 \in 1..Len(r.chart) /\ (c + 1) - 1 = c
                         /\ \A x \in ToSet(r.chart[c + 1].items) :
                              MayHold(grammar, c, x) /\ Means(grammar, t, c, x) /\ ViableItem(grammar, t, x)
  BY <1>1, ExactFacts
<1>3. PICK q \in r.scans : TRUE
  OBVIOUS
<1>4. q.start \in 0..m /\ q.terminal \in Terminal /\ q.cursor \in Seq(Byte)
  <2>1. r.scans \in SUBSET Cursors /\ Begun(r.scans, Len(r.chart))
    BY DEF Core, Recognizer
  <2>2. q.start \in Nat /\ q.terminal \in Terminal /\ q.cursor \in Seq(Byte) /\ q.start < Len(r.chart)
    BY <2>1 DEF Cursors, Begun
  <2> HIDE DEF m
  <2> QED BY <1>2, <2>2
<1> DEFINE c == q.start
           T == q.terminal
<1>5. PICK w \in ToSet(r.chart[c + 1].items) : Waits(grammar, w, T)
  BY <1>1 DEF Founded
<1>6. PICK z \in Words[T] : IsPrefix(q.cursor, z)
  BY <1>1 DEF Founded
<1>7. q.cursor = Between(t, c, m)
  BY <1>1 DEF Scanning
<1> HIDE DEF c, T
<1>8. MayHold(grammar, c, w) /\ Means(grammar, t, c, w) /\ ViableItem(grammar, t, w)
  BY <1>2, <1>4, <1>5 DEF c
<1>9. c \in Nat /\ c <= m /\ w.origin \in Nat /\ w.origin <= c /\ c \in 0..m /\ T \in Terminal
  <2>1. c \in 0..m
    BY <1>4 DEF c
  <2>2. w.origin \in Nat /\ w.origin <= c
    BY <1>8 DEF MayHold, Item
  <2> HIDE DEF m
  <2> QED BY <1>2, <1>4, <2>1, <2>2 DEF T
<1>10. w.rule # Len(R)
  <2> SUFFICES ASSUME w.rule = Len(R) PROVE FALSE
    OBVIOUS
  <2>1. RhsIn(grammar, w) = <<grammar.start>>
    BY RulesNumbered DEF RhsIn
  <2>2. w.dot + 1 \in 1..Len(RhsIn(grammar, w)) /\ w.dot \in Nat
    BY <1>5, <1>8, <1>9, ItemTypes
  <2>3. Len(RhsIn(grammar, w)) = 1 /\ RhsIn(grammar, w)[1] = grammar.start
    BY <2>1
  <2>4. w.dot + 1 = 1
    BY <2>2, <2>3
  <2>5. T = grammar.start
    BY <1>5, <2>3, <2>4 DEF Waits
  <2> QED BY <1>9, <2>5, TerminalAssumption DEF IsGrammar
<1> DEFINE rhs == RhsIn(grammar, w)
           k == w.dot + 1
           x == R[w.rule]
           o == w.origin
           u == Between(t, o, c)
           v == Between(t, c, m)
<1>11. k \in 1..Len(rhs) /\ rhs[k] = T /\ k - 1 = w.dot
  <2>1. k \in 1..Len(rhs) /\ w.dot \in Nat
    BY <1>5, <1>8, <1>9, ItemTypes
  <2>2. rhs[k] = T
    BY <1>5 DEF Waits
  <2> HIDE DEF rhs
  <2> QED BY <2>1, <2>2
<1>12. x \in ToSet(grammar.rules) /\ x.lhs = LhsIn(grammar, w) /\ x.rhs = rhs /\ x.lhs \in Nonterminal
       /\ rhs \in Seq(RhsSymbol)
  <2>1. w.rule \in 1..Len(R)
    BY <1>8 DEF MayHold
  <2> QED BY <1>10, <2>1, RulesNumbered DEF LhsIn, RhsIn
<1>13. u \in DerivedFrom(SubSeq(rhs, 1, k - 1), L, n)
  BY <1>8, <1>11 DEF Means, Reads
<1>14. /\ u \in Seq(Byte) /\ Len(u) = c - o /\ v \in Seq(Byte) /\ Len(v) = m - c
       /\ u \o v = Between(t, o, m) /\ Len(Between(t, o, m)) = m - o /\ Between(t, o, m) \in Seq(Byte)
       /\ Between(t, 0, o) \o Between(t, o, m) = Between(t, 0, m) /\ Between(t, 0, m) = t
  <2>1. m <= Len(t) /\ c <= Len(t) /\ o \in Nat /\ o <= c /\ c \in Nat /\ m \in Nat /\ 0 \in Nat /\ 0 <= o /\ o <= m
        /\ o <= Len(t) /\ c <= m
    <3>1. m = Len(t)
      OBVIOUS
    <3> HIDE DEF m
    <3> QED BY <1>2, <1>9, <3>1
  <2>2. Between(t, 0, m) = t
    BY <1>2 DEF Between
  <2>3. m <= Len(t)
    BY <2>1
  <2> HIDE DEF m, o
  <2>4. u \in Seq(Byte) /\ Len(u) = c - o /\ v \in Seq(Byte) /\ Len(v) = m - c /\ u \o v = Between(t, o, m)
        /\ Len(Between(t, o, m)) = m - o /\ Between(t, o, m) \in Seq(Byte)
    <3>1. t \in Seq(Byte) /\ o \in Nat /\ c \in Nat /\ m \in Nat /\ o <= c /\ c <= m /\ m <= Len(t)
      BY <1>2, <2>1, <2>3
    <3>2. u \o v = Between(t, o, m)
      BY <3>1, BetweenJoins
    <3>3. u \in Seq(Byte) /\ Len(u) = c - o
      BY <3>1, BetweenJoins
    <3>4. v \in Seq(Byte) /\ Len(v) = m - c
      BY <3>1, BetweenJoins
    <3>5. Len(Between(t, o, m)) = m - o /\ Between(t, o, m) \in Seq(Byte)
      BY <3>1, BetweenJoins
    <3> QED BY <3>2, <3>3, <3>4, <3>5
  <2>5. Between(t, 0, o) \o Between(t, o, m) = Between(t, 0, m)
    BY <1>2, <2>1, <2>3, BetweenJoins
  <2> QED BY <2>2, <2>4, <2>5
<1>15. L \in Strings /\ P \in Strings /\ PrefixRound(grammar, n, L, P) \subseteq P
  BY <1>2, DerivationsResult, DerivablePrefixesResult DEF Derived, Prefixed
<1> HIDE DEF L, P, R, n, rhs, x, u, v, k, o
<1>16. BeginsRule(x, n, L, P, u \o v)
  <2>1. v \in BegunBy(T, P)
    <3>1. IsPrefix(v, z) /\ z \in Words[T]
      BY <1>6, <1>7 DEF v
    <3> QED BY <1>9, <1>14, <1>15, <3>1, BegunByResult DEF RhsSymbol
  <2>2. Len(u) + Len(v) <= n
    <3> DEFINE a == Len(u)
               b == Len(v)
    <3>1. a = c - o /\ b = m - c /\ o \in Nat /\ o <= c
      BY <1>9, <1>14 DEF o
    <3> HIDE DEF a, b, m
    <3>2. a + b <= n
      BY <1>2, <1>9, <3>1
    <3> QED BY <3>2 DEF a, b
  <2> QED BY <1>11, <1>12, <1>13, <2>1, <2>2, Zenon DEF BeginsRule
<1>17. <<x.lhs, u \o v>> \in P
  <2>1. u \o v \in OfRule(x, n, L, P)
    BY <1>2, <1>12, <1>15, <1>16, OfRuleResult DEF n
  <2> DEFINE y == u \o v
  <2>2. y \in OfRule(x, n, L, P)
    BY <2>1
  <2> HIDE DEF y
  <2>3. <<x.lhs, y>> \in PrefixRound(grammar, n, L, P)
    BY <1>2, <1>12, <1>15, <2>2, PrefixRoundResult DEF n
  <2> QED BY <1>15, <2>3 DEF y
<1>18. Viable(grammar, t, x.lhs, o)
  BY <1>8, <1>10, <1>12 DEF ViableItem, R, o
<1> DEFINE s == Between(t, o, m)
<1>19. s \in Seq(Byte) /\ <<x.lhs, s>> \in P /\ o + Len(s) <= n /\ Between(t, 0, o) \o s = t
  <2>1. Len(s) = m - o /\ o \in Nat
    BY <1>9, <1>14 DEF o
  <2>2. o + Len(s) = m
    <3> DEFINE l == Len(s)
    <3>1. l = m - o
      BY <2>1
    <3> HIDE DEF l, m
    <3>2. o + l = m
      BY <1>2, <2>1, <3>1
    <3> QED BY <3>2 DEF l
  <2> QED BY <1>2, <1>14, <1>17, <2>2
<1> HIDE DEF s
<1> QED BY <1>18, <1>19 DEF Viable, P, n

\* The recognizer answers what the grammar says.
LEMMA AnswersOfExact ==
  ASSUME IsGrammar(grammar), IsReduced(grammar), NEW r, Core(grammar, leo, limits, r),
         NEW t, ExactAt(grammar, leo, t, r)
  PROVE  /\ IsAccepting(r) <=> <<grammar.start, t>> \in Derived(grammar)
         /\ IsLive(r) <=> <<grammar.start, t>> \in Prefixed(grammar)
<1> DEFINE p == <<grammar.start, t>>
           m == Len(t)
<1>1. SoundChart(grammar, t, r.chart) /\ ExactChart(grammar, leo, t, r.chart, Len(r.chart))
      /\ Covered(grammar, t, r.chart, r.scans, Len(r.chart))
  BY DEF ExactAt, SoundAt
<1>2. IsAccepting(r) <=> p \in Derived(grammar)
  BY <1>1, AcceptedIsDerived, DerivedIsAccepted
<1>3. p \in Derived(grammar) => p \in Prefixed(grammar)
  BY DerivedIsPrefix
<1>4. r.scans # {} => p \in Prefixed(grammar)
  BY ScanIsPrefix
<1>5. Pending(grammar, t, r.chart) => r.scans # {}
  BY <1>1 DEF Pending, Covered
<1>6. p \in Prefixed(grammar) /\ ~Pending(grammar, t, r.chart) => p \in Derived(grammar)
  <2> SUFFICES ASSUME p \in Prefixed(grammar), ~Pending(grammar, t, r.chart)
               PROVE  p \in Derived(grammar)
    OBVIOUS
  <2>1. Ends(grammar, t, r.chart, p)
    BY <1>1, PrefixEnds
  <2>2. t \in Seq(Byte) /\ m \in Nat /\ WorkedColumn(grammar, r.chart, 0 + 1) /\ (0 + 1) - 1 = 0 /\ 0 \in 0..m
    <3>1. /\ t \in Seq(Byte) /\ m \in Nat
          /\ \A c \in 0..m : WorkedColumn(grammar, r.chart, c + 1)
      BY <1>1, ExactFacts
    <3> HIDE DEF m
    <3>2. 0 \in 0..m /\ (0 + 1) - 1 = 0
      BY <3>1
    <3> QED BY <3>1, <3>2
  <2>3. p[1] = grammar.start /\ p[2] = t
    OBVIOUS
  <2>4. p[2] = Between(t, 0, m)
    BY <2>2, <2>3 DEF Between
  <2>5. BeginsAt(grammar, r.chart, 0, grammar.start)
    <3> DEFINE s == StartOf(grammar)
    <3>1. s \in ToSet(r.chart[0 + 1].items)
      BY <1>1 DEF ExactChart
    <3>2. Waits(grammar, s, grammar.start) /\ grammar.start \in Nonterminal
      BY StartWaits
    <3> HIDE DEF s
    <3>3. WorkedAt(grammar, r.chart, 0 + 1, s)
      BY <2>2, <3>1 DEF WorkedColumn
    <3> QED BY <2>2, <3>2, <3>3 DEF WorkedAt
  <2> HIDE DEF p
  <2> QED BY <2>1, <2>2, <2>3, <2>4, <2>5 DEF Ends
<1> QED BY <1>2, <1>3, <1>4, <1>5, <1>6 DEF IsLive

-----------------------------------------------------------------------------
(***************************************************************************)
(* What keeps a chart exact.                                               *)
(***************************************************************************)

\* The bytes s begin with the first m of t.
SameTo(s, t, m) == \A b \in 0..m : \A a \in 0..b : Between(s, a, b) = Between(t, a, b)

\* q has the columns of r, and perhaps more items in the last.
Widens(q, r) ==
  LET N == Len(r.chart)
  IN /\ Len(q.chart) = N
     /\ AgreeTo(q, r, N - 1)
     /\ \A x \in ToSet(r.chart[N].items) : x \in ToSet(q.chart[N].items)

\* What is known of a column does not depend on later ones, nor on later bytes.
LEMMA KnownKept ==
  ASSUME IsGrammar(grammar), NEW r, Core(grammar, leo, limits, r), NEW q,
         NEW m \in Nat, AgreeTo(q, r, m), NEW k \in 1..m,
         NEW t, NEW s, SameTo(s, t, k - 1), KnownColumn(grammar, leo, t, r.chart, k)
  PROVE  KnownColumn(grammar, leo, s, q.chart, k)
<1>1. /\ k \in 1..Len(r.chart) /\ k \in Nat /\ k >= 1 /\ k - 1 \in Nat /\ k <= m
      /\ Len(r.chart) \in Nat /\ m <= Len(r.chart)
  <2> DEFINE N == Len(r.chart)
  <2>1. N \in Nat /\ m <= N
    BY DEF Core, IsChart, AgreeTo
  <2> HIDE DEF N
  <2> QED BY <2>1 DEF N
<1>2. \A i \in 1..k : q.chart[i] = r.chart[i]
  BY <1>1 DEF AgreeTo
<1>3. q.chart[k] = r.chart[k]
  BY <1>1, <1>2
<1>4. LeoAt(grammar, leo, q.chart, k)
  <2> SUFFICES ASSUME NEW B \in DOMAIN r.chart[k].leo
               PROVE  leo /\ LeoStep(grammar, q.chart, k, B, r.chart[k].leo[B])
    BY <1>3 DEF LeoAt
  <2>1. leo /\ LeoStep(grammar, r.chart, k, B, r.chart[k].leo[B])
    BY DEF KnownColumn, LeoAt
  <2> DEFINE x == r.chart[k].leo[B]
  <2> HIDE DEF x
  <2>2. PICK w \in ToSet(r.chart[k].items) :
          /\ Waits(grammar, w, B) /\ IsDone(grammar, Advanced(w))
          /\ \A y \in ToSet(r.chart[k].items) : Waits(grammar, y, B) => y = w
          /\ \/ x = Advanced(w)
             \/ /\ w.origin < k - 1
                /\ LhsIn(grammar, w) \in DOMAIN r.chart[w.origin + 1].leo
                /\ x = r.chart[w.origin + 1].leo[LhsIn(grammar, w)]
    BY <2>1 DEF LeoStep, x
  <2> DEFINE o == w.origin
  <2>3. o \in Nat
    BY <1>1, ColumnHolds
  <2> HIDE DEF o
  <2>4. o < k - 1 => o + 1 \in 1..k
    BY <1>1, <2>3
  <2>5. o < k - 1 => q.chart[o + 1] = r.chart[o + 1]
    BY <1>2, <2>4
  <2> QED BY <1>3, <2>1, <2>2, <2>5 DEF LeoStep, o, x
<1>5. ShiftedAt(grammar, s, q.chart, k)
  <2> SUFFICES ASSUME NEW i \in 1..k - 1, NEW w \in ToSet(r.chart[i].items), NEW T \in Terminal,
                      Waits(grammar, w, T), Between(s, i - 1, k - 1) \in Words[T]
               PROVE  Advanced(w) \in ToSet(r.chart[k].items)
    <3>1. \A i \in 1..k - 1 : i \in 1..k
      BY <1>1
    <3> QED BY <1>2, <1>3, <3>1 DEF ShiftedAt
  <2>1. i - 1 \in 0..k - 1 /\ k - 1 \in 0..k - 1
    BY <1>1
  <2>2. Between(s, i - 1, k - 1) = Between(t, i - 1, k - 1)
    BY <2>1 DEF SameTo
  <2> QED BY <2>2 DEF KnownColumn, ShiftedAt
<1>6. ASSUME NEW x, x.origin \in Nat, x.origin <= k - 1, ViableItem(grammar, t, x)
      PROVE  ViableItem(grammar, s, x)
  <2> DEFINE o == x.origin
  <2>1. o \in 0..k - 1 /\ 0 \in 0..o
    <3>1. o \in Nat /\ o <= k - 1
      BY <1>6
    <3> HIDE DEF o
    <3> QED BY <1>1, <3>1
  <2>2. Between(s, 0, o) = Between(t, 0, o)
    BY <2>1 DEF SameTo
  <2> QED BY <1>6, <2>2 DEF ViableItem, Viable
<1>7. ViableColumn(grammar, s, q.chart[k])
  <2>1. /\ \A x \in ToSet(r.chart[k].items) : x.origin \in Nat /\ x.origin <= k - 1
        /\ \A B \in DOMAIN r.chart[k].leo :
             r.chart[k].leo[B].origin \in Nat /\ r.chart[k].leo[B].origin <= k - 1
    BY <1>1, ColumnHolds
  <2>2. \A x \in ToSet(r.chart[k].items) : ViableItem(grammar, s, x)
    BY <1>6, <2>1 DEF KnownColumn, ViableColumn
  <2>3. \A B \in DOMAIN r.chart[k].leo : ViableItem(grammar, s, r.chart[k].leo[B])
    BY <1>6, <2>1 DEF KnownColumn, ViableColumn
  <2> QED BY <1>3, <2>2, <2>3 DEF ViableColumn
<1> QED BY <1>4, <1>5, <1>7 DEF KnownColumn

\* What the agenda has done stays done, in an earlier column or when the last one grows.
LEMMA WorkedKept ==
  ASSUME IsGrammar(grammar), NEW r, Core(grammar, leo, limits, r), NEW q,
         NEW k \in 1..Len(r.chart), AgreeTo(q, r, k - 1),
         \A y \in ToSet(r.chart[k].items) : y \in ToSet(q.chart[k].items),
         NEW x, x.origin \in Nat, WorkedAt(grammar, r.chart, k, x)
  PROVE  WorkedAt(grammar, q.chart, k, x)
<1>1. k \in Nat /\ k >= 1 /\ (k - 1) + 1 = k
  <2> DEFINE N == Len(r.chart)
  <2>1. N \in Nat
    BY DEF Core, IsChart
  <2> HIDE DEF N
  <2> QED BY <2>1 DEF N
<1> DEFINE o == x.origin
           lhs == LhsIn(grammar, x)
<1>2. o \in Nat
  OBVIOUS
<1>3. ASSUME IsDone(grammar, x), x.rule # Len(RulesIn(grammar)), o < k - 1
      PROVE  Completes(grammar, q.chart, k, lhs, o)
  <2>1. Completes(grammar, r.chart, k, lhs, o)
    BY <1>3 DEF WorkedAt
  <2> HIDE DEF o
  <2>2. o + 1 \in 1..k - 1
    BY <1>1, <1>2, <1>3
  <2>3. q.chart[o + 1] = r.chart[o + 1]
    BY <2>2 DEF AgreeTo
  <2> HIDE DEF lhs
  <2> QED BY <2>1, <2>3 DEF Completes
<1>4. ASSUME NEW B \in Nonterminal, Waits(grammar, x, B)
      PROVE  /\ BeginsAt(grammar, q.chart, k - 1, B)
             /\ B \in Nullable(grammar) => Advanced(x) \in ToSet(q.chart[k].items)
  <2>1. /\ BeginsAt(grammar, r.chart, k - 1, B)
        /\ B \in Nullable(grammar) => Advanced(x) \in ToSet(r.chart[k].items)
    BY <1>4 DEF WorkedAt
  <2>2. BeginsAt(grammar, q.chart, k - 1, B)
    BY <1>1, <2>1 DEF BeginsAt
  <2> QED BY <2>1, <2>2
<1> QED BY <1>3, <1>4 DEF WorkedAt

\* So an earlier column stays worked off.
LEMMA WorkedColumnKept ==
  ASSUME IsGrammar(grammar), NEW r, Core(grammar, leo, limits, r), NEW q,
         NEW m \in Nat, AgreeTo(q, r, m), NEW k \in 1..m, WorkedColumn(grammar, r.chart, k)
  PROVE  WorkedColumn(grammar, q.chart, k)
<1>1. k \in 1..Len(r.chart) /\ q.chart[k] = r.chart[k] /\ AgreeTo(q, r, k - 1)
  <2> DEFINE N == Len(r.chart)
             M == Len(q.chart)
  <2>1. m <= N /\ m <= M /\ N \in Nat /\ \A c \in 1..m : q.chart[c] = r.chart[c]
    BY DEF AgreeTo, Core, IsChart
  <2> HIDE DEF N, M
  <2>2. k \in 1..N /\ k - 1 <= N /\ \A c \in 1..k - 1 : c \in 1..m
    BY <2>1
  <2> QED BY <2>1, <2>2 DEF N, M, AgreeTo
<1>2. \A x \in ToSet(r.chart[k].items) : x.origin \in Nat
  BY <1>1, ColumnHolds
<1>3. \A x \in ToSet(r.chart[k].items) : WorkedAt(grammar, r.chart, k, x)
  BY DEF WorkedColumn
<1>4. \A y \in ToSet(r.chart[k].items) : y \in ToSet(q.chart[k].items)
  BY <1>1
<1>5. ASSUME NEW x \in ToSet(r.chart[k].items)
      PROVE  WorkedAt(grammar, q.chart, k, x)
  BY <1>1, <1>2, <1>3, <1>4, WorkedKept
<1> QED BY <1>1, <1>5 DEF WorkedColumn

\* What begins a string of a nonterminal that an item of the last column waits for begins
\* one of the start symbol, after all the bytes read.
LEMMA BegunIsViable ==
  ASSUME IsGrammar(grammar), NEW t \in Seq(Byte), NEW c \in Nat, c <= Len(t), c <= MaxInputBytes,
         NEW w, MayHold(grammar, c, w), Means(grammar, t, c, w), ViableItem(grammar, t, w),
         NEW B \in Nonterminal, Waits(grammar, w, B)
  PROVE  Viable(grammar, t, B, c)
<1> DEFINE n == MaxInputBytes
           L == Derived(grammar)
           P == Prefixed(grammar)
           R == RulesIn(grammar)
           o == w.origin
           rhs == RhsIn(grammar, w)
           x == R[w.rule]
           k == w.dot + 1
           u == Between(t, o, c)
           a == Between(t, 0, o)
           all == Between(t, 0, c)
<1>1. o \in Nat /\ o <= c /\ 0 <= o /\ 0 \in Nat /\ n \in Nat
  BY EarleyAssumption DEF MayHold, Item
<1>2. /\ k \in 1..Len(rhs) /\ rhs[k] = B /\ k - 1 = w.dot /\ w.dot \in Nat
  <2>1. k \in 1..Len(rhs) /\ w.dot \in Nat
    BY ItemTypes
  <2>2. rhs[k] = B
    BY DEF Waits
  <2> HIDE DEF rhs
  <2> QED BY <2>1, <2>2
<1>3. L \in Strings /\ P \in Strings /\ PrefixRound(grammar, n, L, P) \subseteq P
  BY <1>1, DerivationsResult, DerivablePrefixesResult DEF Derived, Prefixed
<1>4. u \in DerivedFrom(SubSeq(rhs, 1, k - 1), L, n)
  BY <1>2 DEF Means, Reads
<1>5. /\ u \in Seq(Byte) /\ Len(u) = c - o /\ a \in Seq(Byte) /\ a \o u = all /\ all \in Seq(Byte)
  <2> HIDE DEF o
  <2>1. u \in Seq(Byte) /\ Len(u) = c - o
    BY <1>1, BetweenJoins
  <2>2. a \in Seq(Byte)
    BY <1>1, BetweenJoins
  <2>3. a \o u = all
    BY <1>1, BetweenJoins
  <2>4. all \in Seq(Byte)
    BY <1>1, BetweenJoins
  <2> QED BY <2>1, <2>2, <2>3, <2>4
<1> SUFFICES ASSUME NEW v \in Seq(Byte), <<B, v>> \in P, c + Len(v) <= n
             PROVE  <<grammar.start, all \o v>> \in P
  BY DEF Viable
<1>6. Len(v) \in Nat
  OBVIOUS
<1>7. u \in Seq(Byte) /\ a \in Seq(Byte) /\ v \in Seq(Byte)
  BY <1>5
<1>c1. CASE w.rule = Len(R)
  <2>1. rhs = <<grammar.start>> /\ o = 0
    BY <1>c1, RulesNumbered DEF RhsIn, ViableItem
  <2>2. Len(rhs) = 1 /\ rhs[1] = grammar.start
    BY <2>1
  <2>3. k = 1 /\ B = grammar.start
    BY <1>2, <2>2
  <2>4. SubSeq(rhs, 1, k - 1) = << >>
    <3> HIDE DEF rhs, k
    <3>1. SubSeq(rhs, 1, 0) = << >> /\ k - 1 = 0
      BY <2>3, <2>1
    <3> QED BY <3>1
  <2>5. u = << >>
    <3> HIDE DEF u, rhs, k, L, n
    <3>1. DerivedFrom(<< >>, L, n) = {<< >>}
      BY <1>1, <1>3, DerivedEmpty
    <3>2. u \in DerivedFrom(<< >>, L, n)
      BY <1>4, <2>4
    <3> QED BY <3>1, <3>2
  <2>6. all = << >>
    BY <2>1, <2>5
  <2>7. all \o v = v
    <3> HIDE DEF all
    <3> QED BY <2>6
  <2> HIDE DEF all, P
  <2> QED BY <2>3, <2>7
<1>c2. CASE w.rule # Len(R)
  <2>1. x \in ToSet(grammar.rules) /\ x.lhs = LhsIn(grammar, w) /\ x.rhs = rhs /\ rhs \in Seq(RhsSymbol)
        /\ x.lhs \in Nonterminal
    <3>1. w.rule \in 1..Len(R)
      BY DEF MayHold
    <3> QED BY <1>c2, <3>1, RulesNumbered DEF LhsIn, RhsIn
  <2>2. Viable(grammar, t, x.lhs, o)
    BY <1>c2, <2>1 DEF ViableItem
  <2> HIDE DEF L, P, R, n, rhs, x, u, k, o, a, all
  <2>3. Len(u) + Len(v) <= n
    <3> DEFINE l == Len(u)
               d == Len(v)
    <3>1. l = c - o /\ c + d <= n /\ d \in Nat
      BY <1>5, <1>6 DEF n
    <3> HIDE DEF l, d
    <3>2. l + d <= n
      BY <1>1, <3>1
    <3> QED BY <3>2 DEF l, d
  <2>4. BeginsRule(x, n, L, P, u \o v)
    <3>1. v \in BegunBy(rhs[k], P)
      <4>1. v \in BegunBy(B, P)
        BY <1>3, BegunByResult DEF RhsSymbol
      <4> QED BY <1>2, <4>1
    <3> QED BY <1>2, <1>4, <2>1, <2>3, <3>1, Zenon DEF BeginsRule
  <2> DEFINE y == u \o v
  <2>5. y \in OfRule(x, n, L, P) /\ y \in Seq(Byte)
    BY <1>1, <1>3, <1>5, <2>1, <2>4, OfRuleResult
  <2>6. o + Len(y) <= n
    <3> DEFINE l == Len(u)
               d == Len(v)
               e == Len(y)
    <3>1. l = c - o /\ c + d <= n /\ d \in Nat
      BY <1>5, <1>6 DEF n
    <3>3. e = l + d
      BY <1>7
    <3> HIDE DEF l, d, e
    <3>2. o + e <= n
      BY <1>1, <3>1, <3>3
    <3> QED BY <3>2 DEF e
  <2>7. a \o y = all \o v
    <3>0. a \in Seq(Byte) /\ u \in Seq(Byte) /\ v \in Seq(Byte)
      BY <1>7
    <3>1. (a \o u) \o v = a \o (u \o v)
      <4>1. Reassociates(a, u, v)
        BY <3>0, Reassociated, Zenon
      <4> QED BY <4>1 DEF Reassociates
    <3> QED BY <1>5, <3>1
  <2> HIDE DEF y
  <2>8. <<x.lhs, y>> \in P
    BY <1>1, <1>3, <2>1, <2>5, PrefixRoundResult
  <2>9. <<grammar.start, a \o y>> \in P
    BY <2>2, <2>5, <2>6, <2>8 DEF Viable, P, n, a
  <2> QED BY <2>7, <2>9
<1> QED BY <1>c1, <1>c2

\* What moves an item keeps it viable.
LEMMA AdvancedViable ==
  ASSUME NEW t, NEW w \in Item, ViableItem(grammar, t, w)
  PROVE  ViableItem(grammar, t, Advanced(w))
<1>1. Advanced(w).rule = w.rule /\ Advanced(w).origin = w.origin
      /\ LhsIn(grammar, Advanced(w)) = LhsIn(grammar, w)
  BY AdvancedFields
<1> HIDE DEF Advanced
<1> QED BY <1>1 DEF ViableItem

\* What follows from a chart of viable items is viable.
LEMMA FollowsViable ==
  ASSUME IsGrammar(grammar), NEW r, Core(grammar, leo, limits, r),
         NEW t, SoundChart(grammar, t, r.chart),
         \A k \in 1..Len(r.chart) : ViableColumn(grammar, t, r.chart[k]),
         NEW x, MayHold(grammar, Len(r.chart) - 1, x), Follows(grammar, r, x)
  PROVE  ViableItem(grammar, t, x)
<1> DEFINE N == Len(r.chart)
           c == N - 1
<1>1. /\ N \in Nat /\ N \in 1..N /\ c \in Nat /\ c = Len(t) /\ t \in Seq(Byte) /\ c <= MaxInputBytes
      /\ N = c + 1 /\ SoundColumn(grammar, t, c, r.chart[N])
  <2>1. /\ t \in Seq(Byte) /\ Len(t) \in Nat /\ Len(t) <= MaxInputBytes
        /\ N \in Nat /\ N \in 1..N /\ N - 1 = Len(t) /\ N = Len(t) + 1
    BY SoundChartFacts
  <2>2. SoundColumn(grammar, t, N - 1, r.chart[N])
    BY <2>1, SoundChartFacts
  <2> HIDE DEF N
  <2> QED BY <2>1, <2>2
<1>2. \A item \in ToSet(r.chart[N].items) :
        /\ MayHold(grammar, c, item) /\ Means(grammar, t, c, item) /\ ViableItem(grammar, t, item)
        /\ item \in Item /\ item.origin + 1 \in 1..N
  <2> SUFFICES ASSUME NEW item \in ToSet(r.chart[N].items)
               PROVE  /\ MayHold(grammar, c, item) /\ Means(grammar, t, c, item)
                      /\ ViableItem(grammar, t, item)
                      /\ item \in Item /\ item.origin + 1 \in 1..N
    OBVIOUS
  <2>1. MayHold(grammar, c, item) /\ item.origin \in Nat /\ item.origin <= c
    BY <1>1, ColumnHolds
  <2>2. Means(grammar, t, c, item) /\ ViableItem(grammar, t, item)
    BY <1>1 DEF SoundColumn, ViableColumn
  <2> DEFINE o == item.origin
  <2>3. o \in Nat /\ o <= c
    BY <2>1
  <2> HIDE DEF o, c, N
  <2>4. o + 1 \in 1..N
    BY <1>1, <2>3
  <2> QED BY <2>1, <2>2, <2>4 DEF o, MayHold
<1>3. ASSUME NEW k \in 1..N, NEW w \in ToSet(r.chart[k].items)
      PROVE  ViableItem(grammar, t, Advanced(w))
  <2>1. w \in Item
    BY <1>3, ColumnHolds DEF MayHold
  <2>2. ViableItem(grammar, t, w)
    BY <1>3 DEF ViableColumn
  <2> QED BY <2>1, <2>2, AdvancedViable
<1> HIDE DEF N, c
<1>c1. ASSUME x.dot = 0, x.origin = c,
              NEW item \in ToSet(r.chart[N].items), Waits(grammar, item, LhsIn(grammar, x))
       PROVE  ViableItem(grammar, t, x)
  <2>1. x.rule # Len(RulesIn(grammar))
    <3>1. ~Waits(grammar, item, Augmented)
      BY <1>1, <1>2, NothingWaitsForStart
    <3>2. x.rule = Len(RulesIn(grammar)) => LhsIn(grammar, x) = Augmented
      BY RulesNumbered DEF LhsIn
    <3> QED BY <1>c1, <3>1, <3>2
  <2>2. LhsIn(grammar, x) \in Nonterminal
    <3>1. x.rule \in 1..Len(RulesIn(grammar))
      BY DEF MayHold
    <3> QED BY <2>1, <3>1, RulesNumbered DEF LhsIn
  <2>3. Viable(grammar, t, LhsIn(grammar, x), c)
    BY <1>1, <1>2, <1>c1, <2>2, BegunIsViable
  <2> QED BY <1>c1, <2>1, <2>3 DEF ViableItem
<1>c2. ASSUME NEW item \in ToSet(r.chart[N].items), x = Advanced(item)
       PROVE  ViableItem(grammar, t, x)
  BY <1>1, <1>3, <1>c2
<1>c3. ASSUME NEW item \in ToSet(r.chart[N].items),
              NEW w \in ToSet(r.chart[item.origin + 1].items), x = Advanced(w)
       PROVE  ViableItem(grammar, t, x)
  <2> DEFINE k == item.origin + 1
  <2>1. k \in 1..N /\ w \in ToSet(r.chart[k].items)
    BY <1>2
  <2> HIDE DEF k
  <2> QED BY <1>3, <1>c3, <2>1
<1>c4. ASSUME NEW item \in ToSet(r.chart[N].items),
              LhsIn(grammar, item) \in DOMAIN r.chart[item.origin + 1].leo,
              x = r.chart[item.origin + 1].leo[LhsIn(grammar, item)]
       PROVE  ViableItem(grammar, t, x)
  <2> DEFINE k == item.origin + 1
  <2>1. k \in 1..N /\ LhsIn(grammar, item) \in DOMAIN r.chart[k].leo
        /\ x = r.chart[k].leo[LhsIn(grammar, item)]
    BY <1>2, <1>c4
  <2> HIDE DEF k
  <2>2. ViableColumn(grammar, t, r.chart[k])
    BY <2>1 DEF N
  <2> QED BY <2>1, <2>2 DEF ViableColumn
<1>4. \/ x.dot = 0 /\ x.origin = c /\ \E item \in ToSet(r.chart[N].items) : Waits(grammar, item, LhsIn(grammar, x))
      \/ \E item \in ToSet(r.chart[N].items) : x = Advanced(item)
      \/ \E item \in ToSet(r.chart[N].items) :
           \E w \in ToSet(r.chart[item.origin + 1].items) : x = Advanced(w)
      \/ \E item \in ToSet(r.chart[N].items) :
           /\ LhsIn(grammar, item) \in DOMAIN r.chart[item.origin + 1].leo
           /\ x = r.chart[item.origin + 1].leo[LhsIn(grammar, item)]
  BY Zenon DEF Follows, N, c
<1> QED BY <1>4, <1>c1, <1>c2, <1>c3, <1>c4

\* Nothing is lost of a chart whose last column gets more items, or its Leo items.
LEMMA WidenedKeeps ==
  ASSUME IsGrammar(grammar), NEW r, Core(grammar, leo, limits, r), NEW q, Widens(q, r),
         NEW t, SoundChart(grammar, t, r.chart), NEW n, NEW running, Begun(running, Len(r.chart)),
         running \in SUBSET Cursors,
         ExactWhile(grammar, leo, t, r, n, running)
  PROVE  LET N == Len(r.chart)
         IN /\ \A k \in 1..N - 1 : KnownColumn(grammar, leo, t, q.chart, k) /\ WorkedColumn(grammar, q.chart, k)
            /\ ShiftedAt(grammar, t, q.chart, N)
            /\ \A x \in ToSet(r.chart[N].items) :
                 WorkedAt(grammar, r.chart, N, x) => WorkedAt(grammar, q.chart, N, x)
            /\ StartOf(grammar) \in ToSet(q.chart[1].items)
            /\ Covered(grammar, t, q.chart, running, N - 1)
            /\ Founded(grammar, q.chart, running)
<1> DEFINE N == Len(r.chart)
           m == N - 1
<1>1. N \in Nat /\ N >= 1 /\ N \in 1..N /\ m \in Nat /\ m = Len(t) /\ N = m + 1
  <2>1. N \in Nat /\ N >= 1 /\ N \in 1..N /\ N - 1 = Len(t)
    BY SoundChartFacts
  <2> HIDE DEF N
  <2> QED BY <2>1
<1>2. /\ Len(q.chart) = N /\ AgreeTo(q, r, m) /\ \A k \in 1..m : q.chart[k] = r.chart[k]
      /\ \A x \in ToSet(r.chart[N].items) : x \in ToSet(q.chart[N].items)
  BY DEF Widens, AgreeTo
<1>3. /\ \A k \in 1..N : KnownColumn(grammar, leo, t, r.chart, k)
      /\ \A k \in 1..m : WorkedColumn(grammar, r.chart, k)
      /\ StartOf(grammar) \in ToSet(r.chart[1].items)
  BY DEF ExactWhile, ExactChart
<1>4. Covered(grammar, t, r.chart, running, m) /\ Founded(grammar, r.chart, running)
  BY DEF ExactWhile
<1> HIDE DEF N, m
<1>5. \A k \in 1..N : k \in 1..m \/ k = N
  BY <1>1
<1>6. \A k \in 1..N : \A x \in ToSet(r.chart[k].items) : x \in ToSet(q.chart[k].items)
  BY <1>2, <1>5
<1>7. ASSUME NEW k \in 1..m
      PROVE  KnownColumn(grammar, leo, t, q.chart, k) /\ WorkedColumn(grammar, q.chart, k)
  <2>1. SameTo(t, t, k - 1)
    BY DEF SameTo
  <2>2. KnownColumn(grammar, leo, t, r.chart, k) /\ WorkedColumn(grammar, r.chart, k)
    BY <1>1, <1>3
  <2>3. KnownColumn(grammar, leo, t, q.chart, k)
    BY <1>1, <1>2, <2>1, <2>2, KnownKept
  <2>4. WorkedColumn(grammar, q.chart, k)
    BY <1>1, <1>2, <2>2, WorkedColumnKept
  <2> QED BY <2>3, <2>4
<1>8. ShiftedAt(grammar, t, q.chart, N)
  <2>1. ShiftedAt(grammar, t, r.chart, N)
    BY <1>1, <1>3 DEF KnownColumn
  <2>2. \A i \in 1..N - 1 : q.chart[i] = r.chart[i]
    BY <1>2 DEF m
  <2> QED BY <1>2, <2>1, <2>2 DEF ShiftedAt
<1>9. ASSUME NEW x \in ToSet(r.chart[N].items), WorkedAt(grammar, r.chart, N, x)
      PROVE  WorkedAt(grammar, q.chart, N, x)
  <2>1. x.origin \in Nat
    BY <1>1, ColumnHolds DEF N
  <2>2. AgreeTo(q, r, N - 1) /\ N \in 1..Len(r.chart)
    BY <1>1, <1>2 DEF m, N
  <2> QED BY <1>2, <1>9, <2>1, <2>2, WorkedKept
<1>10. StartOf(grammar) \in ToSet(q.chart[1].items)
  <2>1. 1 \in 1..N
    BY <1>1
  <2> QED BY <1>3, <1>6, <2>1
<1>11. Covered(grammar, t, q.chart, running, m)
  BY <1>2, <1>4 DEF Covered
<1>12. Founded(grammar, q.chart, running)
  <2> SUFFICES ASSUME NEW s \in running
               PROVE  /\ \E w \in ToSet(q.chart[s.start + 1].items) : Waits(grammar, w, s.terminal)
                      /\ \E v \in Words[s.terminal] : IsPrefix(s.cursor, v)
    BY DEF Founded
  <2>1. /\ \E w \in ToSet(r.chart[s.start + 1].items) : Waits(grammar, w, s.terminal)
        /\ \E v \in Words[s.terminal] : IsPrefix(s.cursor, v)
    BY <1>4 DEF Founded
  <2> DEFINE k == s.start + 1
  <2>2. k \in 1..N
    <3> DEFINE b == s.start
    <3>1. b \in Nat /\ b < N
      BY DEF Begun, N, Cursors
    <3> HIDE DEF b
    <3>2. b + 1 \in 1..N
      BY <1>1, <3>1
    <3> QED BY <3>2 DEF b
  <2>3. \E w \in ToSet(r.chart[k].items) : Waits(grammar, w, s.terminal)
    BY <2>1
  <2> HIDE DEF k
  <2>4. \E w \in ToSet(q.chart[k].items) : Waits(grammar, w, s.terminal)
    BY <1>6, <2>2, <2>3
  <2> QED BY <2>1, <2>4 DEF k
<1> QED BY <1>7, <1>8, <1>9, <1>10, <1>11, <1>12 DEF m, N

\* One turn of the agenda.
LEMMA ProcessedExact ==
  ASSUME IsGrammar(grammar), leo \in BOOLEAN, limits \in LimitSet,
         NEW r, Core(grammar, leo, limits, r), r.chart[Len(r.chart)].leo = << >>,
         NEW n \in 1..Len(r.chart[Len(r.chart)].items), ~Processed(r, n).over,
         NEW running \in SUBSET Cursors, Begun(running, Len(r.chart)),
         NEW t, ExactWhile(grammar, leo, t, r, n - 1, running)
  PROVE  ExactWhile(grammar, leo, t, Processed(r, n), n, running)
<1> DEFINE q == Processed(r, n)
           N == Len(r.chart)
           items == r.chart[N].items
<1>1. SoundChart(grammar, t, r.chart) /\ Scanning(t, running)
  BY DEF ExactWhile
<1>2. SoundChart(grammar, t, q.chart)
  BY <1>1, ProcessedSound
<1>3. N \in Nat /\ N \in 1..N /\ items \in Seq(Item) /\ N >= 1
  <2>1. N \in Nat /\ N \in 1..N /\ N >= 1
    BY <1>1, SoundChartFacts
  <2>2. items \in Seq(Item)
    BY <2>1, ColumnHolds
  <2> QED BY <2>1, <2>2
<1>4. /\ Core(grammar, leo, limits, q) /\ Grows(q, r)
      /\ \A x \in ToSet(q.chart[N].items) : x \in ToSet(items) \/ Follows(grammar, r, x)
  BY ProcessedKeeps
<1>5. LeoOnlyIf(leo, r.chart) => WorkedAt(grammar, q.chart, N, items[n])
  BY ProcessedKeeps
<1>6. \A k \in 1..N : KnownColumn(grammar, leo, t, r.chart, k)
  BY DEF ExactWhile, ExactChart
<1>7. LeoOnlyIf(leo, r.chart)
  BY <1>6 DEF KnownColumn, LeoAt, LeoOnlyIf
<1> HIDE DEF q
<1>8. /\ Len(q.chart) = N /\ q.chart[N].leo = << >> /\ Extends(q.chart[N].items, items)
      /\ \A k \in 1..N - 1 : q.chart[k] = r.chart[k]
  BY <1>4 DEF Grows
<1>9. \A i \in 1..Len(items) : q.chart[N].items[i] = items[i] /\ items[i] \in ToSet(items)
  <2> HIDE DEF items
  <2> QED BY <1>3, <1>8 DEF Extends, ToSet
<1>10. \A x \in ToSet(items) : x \in ToSet(q.chart[N].items)
  <2> DEFINE more == q.chart[N].items
  <2>1. more \in Seq(Item) /\ Len(items) <= Len(more) /\ \A i \in 1..Len(items) : more[i] = items[i]
    BY <1>8 DEF Extends
  <2> HIDE DEF items, more
  <2>2. \A i \in 1..Len(items) : i \in 1..Len(more) /\ items[i] \in ToSet(more)
    <3>1. Len(items) \in Nat /\ Len(more) \in Nat
      BY <1>3, <2>1
    <3>2. \A i \in 1..Len(items) : i \in 1..Len(more)
      BY <2>1, <3>1
    <3> QED BY <2>1, <3>2 DEF ToSet
  <2> QED BY <1>3, <2>2 DEF ToSet, more
<1>11. Widens(q, r)
  <2>1. AgreeTo(q, r, N - 1)
    <3>1. N - 1 <= N
      BY <1>3
    <3> QED BY <1>8, <3>1 DEF AgreeTo
  <2> QED BY <1>8, <1>10, <2>1 DEF Widens
<1>12. /\ \A k \in 1..N - 1 : KnownColumn(grammar, leo, t, q.chart, k) /\ WorkedColumn(grammar, q.chart, k)
       /\ ShiftedAt(grammar, t, q.chart, N)
       /\ \A x \in ToSet(items) : WorkedAt(grammar, r.chart, N, x) => WorkedAt(grammar, q.chart, N, x)
       /\ StartOf(grammar) \in ToSet(q.chart[1].items)
       /\ Covered(grammar, t, q.chart, running, N - 1)
       /\ Founded(grammar, q.chart, running)
  BY <1>1, <1>11, WidenedKeeps
<1>13. KnownColumn(grammar, leo, t, q.chart, N)
  <2>1. DOMAIN q.chart[N].leo = {}
    BY <1>8
  <2>2. \A x \in ToSet(q.chart[N].items) : ViableItem(grammar, t, x)
    <3> SUFFICES ASSUME NEW x \in ToSet(q.chart[N].items)
                 PROVE  ViableItem(grammar, t, x)
      OBVIOUS
    <3>1. \A k \in 1..N : ViableColumn(grammar, t, r.chart[k])
      BY <1>6 DEF KnownColumn
    <3>2. CASE x \in ToSet(items)
      BY <1>3, <3>1, <3>2 DEF ViableColumn
    <3>3. CASE Follows(grammar, r, x)
      <4>1. MayHold(grammar, N - 1, x)
        <5>1. N \in 1..Len(q.chart)
          BY <1>3, <1>8
        <5> HIDE DEF N
        <5> QED BY <1>4, <5>1, ColumnHolds
      <4> QED BY <1>1, <3>1, <3>3, <4>1, FollowsViable
    <3> QED BY <1>4, <3>2, <3>3
  <2> QED BY <1>12, <2>1, <2>2 DEF KnownColumn, LeoAt, ViableColumn
<1>14. ExactChart(grammar, leo, t, q.chart, N - 1)
  <2>1. \A k \in 1..N : k \in 1..N - 1 \/ k = N
    BY <1>3
  <2> HIDE DEF N
  <2> QED BY <1>8, <1>12, <1>13, <2>1 DEF ExactChart
<1>15. ASSUME NEW i \in 1..n
       PROVE  WorkedAt(grammar, q.chart, N, q.chart[N].items[i])
  <2>1. i \in 1..Len(items) /\ (i = n \/ i \in 1..n - 1)
    <3> DEFINE l == Len(items)
    <3>1. n \in 1..l /\ l \in Nat
      BY <1>3
    <3> HIDE DEF l
    <3> QED BY <3>1 DEF l
  <2>2. CASE i = n
    BY <1>5, <1>7, <1>9, <2>1, <2>2
  <2>3. CASE i \in 1..n - 1
    <3>1. WorkedAt(grammar, r.chart, N, items[i])
      BY <2>3 DEF ExactWhile
    <3> QED BY <1>9, <1>12, <2>1, <3>1
  <2> QED BY <2>1, <2>2, <2>3
<1> HIDE DEF N
<1> QED BY <1>1, <1>2, <1>8, <1>12, <1>14, <1>15 DEF ExactWhile, q

LEMMA PrefixOfAppend ==
  ASSUME NEW u \in Seq(Byte), NEW v \in Seq(Byte), NEW b \in Byte, IsPrefix(Append(u, b), v)
  PROVE  IsStrictPrefix(u, v)
<1> DEFINE w == Append(u, b)
           l == Len(u)
<1>1. w \in Seq(Byte) /\ Len(w) = l + 1 /\ l \in Nat /\ Len(v) \in Nat /\ \A i \in 1..l : w[i] = u[i]
  OBVIOUS
<1> HIDE DEF w, l
<1>2. l + 1 <= Len(v) /\ SubSeq(w, 1, l + 1) = SubSeq(v, 1, l + 1)
  BY <1>1 DEF IsPrefix, w
<1>3. \A i \in 1..l : v[i] = u[i]
  <2>1. \A i \in 1..l : i \in 1..l + 1
    BY <1>1
  <2>2. \A i \in 1..l + 1 : SubSeq(w, 1, l + 1)[i] = w[i]
    BY <1>1
  <2>3. \A i \in 1..l + 1 : SubSeq(v, 1, l + 1)[i] = v[i]
    BY <1>1, <1>2
  <2> QED BY <1>1, <1>2, <2>1, <2>2, <2>3
<1>4. l <= Len(v) /\ v # u
  BY <1>1, <1>2 DEF l
<1>5. SubSeq(u, 1, l) = SubSeq(v, 1, l)
  <2> DEFINE x == SubSeq(u, 1, l)
             y == SubSeq(v, 1, l)
  <2>1. x \in Seq(Byte) /\ Len(x) = l /\ \A i \in 1..l : x[i] = u[i]
    BY <1>1 DEF l
  <2>2. y \in Seq(Byte) /\ Len(y) = l /\ \A i \in 1..l : y[i] = v[i]
    BY <1>1, <1>4
  <2> HIDE DEF x, y
  <2>3. x = y
    BY <1>1, <1>3, <2>1, <2>2
  <2> QED BY <2>3 DEF x, y
<1> QED BY <1>4, <1>5 DEF IsStrictPrefix, IsPrefix, l

\* A byte moves the cursor of a scan that it feeds.
LEMMA FedHas ==
  ASSUME NEW scans, NEW T, NEW a, NEW u, [terminal |-> T, start |-> a, cursor |-> u] \in scans,
         NEW b, CanAdvance(T, u, b)
  PROVE  [terminal |-> T, start |-> a, cursor |-> Append(u, b)] \in Fed(scans, b)
<1> DEFINE s == [terminal |-> T, start |-> a, cursor |-> u]
           f == [terminal |-> T, start |-> a, cursor |-> Append(u, b)]
<1>1. s \in scans /\ CanAdvance(s.terminal, s.cursor, b)
  OBVIOUS
<1>2. f = [s EXCEPT !.cursor = Append(@, b)]
  OBVIOUS
<1> HIDE DEF s, f
<1>3. f \in Fed(scans, b)
  BY <1>1, <1>2, Zenon DEF Fed
<1> QED BY <1>3 DEF f

LEMMA FedFrom ==
  ASSUME NEW scans \in SUBSET Cursors, NEW b, NEW f \in Fed(scans, b)
  PROVE  \E s \in scans :
           /\ f.terminal = s.terminal /\ f.start = s.start /\ f.cursor = Append(s.cursor, b)
           /\ CanAdvance(s.terminal, s.cursor, b)
<1>1. PICK s \in scans : CanAdvance(s.terminal, s.cursor, b) /\ f = [s EXCEPT !.cursor = Append(@, b)]
  BY Zenon DEF Fed
<1>2. s \in Cursors
  OBVIOUS
<1>3. f.terminal = s.terminal /\ f.start = s.start /\ f.cursor = Append(s.cursor, b)
  BY <1>1, <1>2 DEF Cursors
<1> QED BY <1>1, <1>3

\* The scans that a byte leaves running.
Running(r, b) == {s \in Fed(r.scans, b) : IsLiveCursor(s.terminal, s.cursor)}

\* A byte feeds every scan of a terminal that can go on.
LEMMA FedCovers ==
  ASSUME IsGrammar(grammar), NEW r, Core(grammar, leo, limits, r), NEW b \in Byte,
         NEW t, ExactAt(grammar, leo, t, r),
         NEW i \in 1..Len(r.chart), NEW w \in ToSet(r.chart[i].items), NEW T \in Terminal,
         Waits(grammar, w, T), NEW v \in Words[T],
         IsPrefix(Between(Append(t, b), i - 1, Len(r.chart)), v)
  PROVE  [terminal |-> T, start |-> i - 1, cursor |-> Between(Append(t, b), i - 1, Len(r.chart))]
           \in Fed(r.scans, b)
<1> DEFINE m == Len(t)
           N == Len(r.chart)
           a == i - 1
           u == Between(t, a, m)
           z == Between(Append(t, b), a, N)
<1>1. t \in Seq(Byte) /\ m \in Nat /\ N = m + 1
  <2>1. SoundChart(grammar, t, r.chart)
    BY DEF ExactAt, SoundAt
  <2> QED BY <2>1, SoundChartFacts
<1>2. a \in Nat /\ a <= m
  <2> HIDE DEF N, m
  <2>1. i \in 1..N
    BY DEF N
  <2> QED BY <1>1, <2>1
<1>3. v \in Seq(Byte)
  BY TerminalAssumption
<1> HIDE DEF a
<1>4. u \in Seq(Byte)
  <2>1. m <= Len(t)
    BY <1>1
  <2> HIDE DEF m
  <2> QED BY <1>1, <1>2, <2>1, BetweenJoins
<1>5. Append(u, b) = z
  <2>1. Append(Between(t, a, Len(t)), b) = Between(Append(t, b), a, Len(t) + 1)
    BY <1>1, <1>2, BetweenMore
  <2> QED BY <1>1, <2>1
<1> HIDE DEF u, z, N
<1>6. IsPrefix(Append(u, b), v)
  BY <1>5 DEF z, a, N
<1>7. IsStrictPrefix(u, v)
  BY <1>3, <1>4, <1>6, PrefixOfAppend
<1>8. [terminal |-> T, start |-> a, cursor |-> u] \in r.scans
  <2>1. Covered(grammar, t, r.chart, r.scans, N)
    BY DEF ExactAt, N
  <2> HIDE DEF m
  <2> QED BY <1>7, <2>1 DEF Covered, u, a, N, m
<1>9. CanAdvance(T, u, b)
  BY <1>6 DEF CanAdvance
<1>10. [terminal |-> T, start |-> a, cursor |-> Append(u, b)] \in Fed(r.scans, b)
  BY <1>8, <1>9, FedHas
<1> QED BY <1>5, <1>10 DEF z, a, N

\* A byte.
LEMMA ScannedExact ==
  ASSUME IsGrammar(grammar), leo \in BOOLEAN, limits \in LimitSet,
         NEW r, Core(grammar, leo, limits, r), NEW b \in Byte, ~Scanned(r, b).over, Fits(r),
         NEW t, ExactAt(grammar, leo, t, r)
  PROVE  ExactWhile(grammar, leo, Append(t, b), Scanned(r, b), 0, Running(r, b))
<1> DEFINE q == Scanned(r, b)
           N == Len(r.chart)
           s == Append(t, b)
           fed == Fed(r.scans, b)
           running == Running(r, b)
<1>1. SoundAt(grammar, t, r) /\ SoundChart(grammar, t, r.chart)
  BY DEF ExactAt, SoundAt
<1>2. SoundChart(grammar, s, q.chart) /\ Scanning(s, fed)
  BY <1>1, ScannedSound
<1>3. Scanning(s, running)
  BY <1>2 DEF Scanning, Running
<1>4. /\ Len(q.chart) = N + 1 /\ AgreeTo(q, r, N) /\ q.chart[N + 1].leo = << >>
  BY ScannedKeeps
<1>5. \A y : y \in ToSet(q.chart[N + 1].items) <=> \E T \in Terminal : WaitedIn(r, fed, T, y)
  BY ScannedKeeps, Zenon
<1> HIDE DEF q
<1>6. t \in Seq(Byte) /\ N \in Nat /\ N >= 1 /\ N = Len(t) + 1 /\ Len(t) \in Nat /\ N - 1 = Len(t)
  BY <1>1, SoundChartFacts
<1>7. Len(s) = N /\ SameTo(s, t, Len(t))
  <2>1. Len(s) = N
    BY <1>6, BetweenMore
  <2> DEFINE m == Len(t)
  <2>2. \A c \in Nat, d \in Nat : c <= d /\ d <= Len(t) => Between(s, c, d) = Between(t, c, d)
    BY <1>6, BetweenMore
  <2>3. ASSUME NEW d \in 0..m, NEW c \in 0..d
        PROVE  Between(s, c, d) = Between(t, c, d)
    <3>1. d \in Nat /\ c \in Nat /\ c <= d /\ d <= Len(t)
      BY <1>6
    <3> HIDE DEF s
    <3> QED BY <2>2, <3>1
  <2> QED BY <2>1, <2>3 DEF SameTo
<1> HIDE DEF s
<1>8. /\ \A k \in 1..N : KnownColumn(grammar, leo, t, r.chart, k)
      /\ \A k \in 1..N : WorkedColumn(grammar, r.chart, k)
      /\ StartOf(grammar) \in ToSet(r.chart[1].items)
      /\ Founded(grammar, r.chart, r.scans)
  BY DEF ExactAt, ExactChart
<1>9. ASSUME NEW i \in 1..N, NEW w \in ToSet(r.chart[i].items), NEW T \in Terminal,
             Waits(grammar, w, T), NEW v \in Words[T], IsPrefix(Between(s, i - 1, N), v)
      PROVE  [terminal |-> T, start |-> i - 1, cursor |-> Between(s, i - 1, N)] \in fed
  BY <1>9, FedCovers DEF s
<1> HIDE DEF fed, N
<1>10. \A k \in 1..N : q.chart[k] = r.chart[k]
  BY <1>4 DEF AgreeTo
<1>11. ASSUME NEW k \in 1..N
       PROVE  KnownColumn(grammar, leo, s, q.chart, k) /\ WorkedColumn(grammar, q.chart, k)
  <2>1. SameTo(s, t, k - 1)
    <3>1. \A d \in 0..k - 1 : d \in 0..Len(t)
      BY <1>6
    <3> QED BY <1>7, <3>1 DEF SameTo
  <2>2. KnownColumn(grammar, leo, t, r.chart, k) /\ WorkedColumn(grammar, r.chart, k)
    BY <1>8
  <2>3. KnownColumn(grammar, leo, s, q.chart, k)
    BY <1>4, <1>6, <2>1, <2>2, KnownKept
  <2>4. WorkedColumn(grammar, q.chart, k)
    BY <1>4, <1>6, <2>2, WorkedColumnKept
  <2> QED BY <2>3, <2>4
<1>12. ShiftedAt(grammar, s, q.chart, N + 1)
  <2> SUFFICES ASSUME NEW i \in 1..N, NEW w \in ToSet(r.chart[i].items), NEW T \in Terminal,
                      Waits(grammar, w, T), Between(s, i - 1, N) \in Words[T]
               PROVE  Advanced(w) \in ToSet(q.chart[N + 1].items)
    <3>1. (N + 1) - 1 = N
      BY <1>6
    <3> QED BY <1>10, <3>1 DEF ShiftedAt
  <2> DEFINE u == Between(s, i - 1, N)
             f == [terminal |-> T, start |-> i - 1, cursor |-> u]
  <2>1. IsPrefix(u, u)
    <3>1. u \in Seq(Byte)
      BY TerminalAssumption
    <3>2. Len(u) \in Nat
      <4> HIDE DEF u
      <4> QED BY <3>1
    <3> HIDE DEF u
    <3> QED BY <3>2 DEF IsPrefix
  <2>2. f \in fed
    BY <1>9, <2>1
  <2>3. f.terminal = T /\ f.start = i - 1 /\ IsAcceptingCursor(T, f.cursor)
    BY DEF IsAcceptingCursor
  <2>4. i - 1 \in 0..Len(r.chart) - 1 /\ (i - 1) + 1 = i
    <3>1. i \in 1..N /\ N \in Nat
      BY <1>6
    <3> QED BY <3>1 DEF N
  <2>5. Expects(w, T)
    BY ItemOperators
  <2> HIDE DEF f, u
  <2>6. \E c \in 0..Len(r.chart) - 1 :
          /\ \E d \in fed : d.terminal = T /\ d.start = c /\ IsAcceptingCursor(T, d.cursor)
          /\ \E item \in ToSet(r.chart[c + 1].items) : Expects(item, T) /\ Advanced(w) = Advanced(item)
    <3> DEFINE c == i - 1
    <3>1. c \in 0..Len(r.chart) - 1 /\ f.start = c /\ w \in ToSet(r.chart[c + 1].items)
      BY <2>3, <2>4
    <3> HIDE DEF c
    <3>2. \E item \in ToSet(r.chart[c + 1].items) : Expects(item, T) /\ Advanced(w) = Advanced(item)
      BY <2>5, <3>1
    <3> QED BY <2>2, <2>3, <3>1, <3>2
  <2>7. WaitedIn(r, fed, T, Advanced(w))
    BY <2>6 DEF WaitedIn
  <2> QED BY <1>5, <2>7
<1>13. \A y \in ToSet(q.chart[N + 1].items) : ViableItem(grammar, s, y)
  <2> SUFFICES ASSUME NEW y \in ToSet(q.chart[N + 1].items)
               PROVE  ViableItem(grammar, s, y)
    OBVIOUS
  <2>1. PICK T \in Terminal : WaitedIn(r, fed, T, y)
    BY <1>5
  <2>2. PICK c \in 0..Len(r.chart) - 1 :
          \E item \in ToSet(r.chart[c + 1].items) : Expects(item, T) /\ y = Advanced(item)
    BY <2>1 DEF WaitedIn
  <2>3. PICK w \in ToSet(r.chart[c + 1].items) : y = Advanced(w)
    BY <2>2
  <2> DEFINE k == c + 1
  <2>4. k \in 1..N
    <3>1. c \in 0..N - 1
      BY DEF N
    <3> QED BY <1>6, <3>1
  <2>5. w \in ToSet(r.chart[k].items)
    BY <2>3
  <2> HIDE DEF k
  <2>6. w \in Item
    <3>1. k \in 1..Len(r.chart)
      BY <2>4 DEF N
    <3> QED BY <2>5, <3>1, ColumnHolds DEF MayHold
  <2>7. ViableItem(grammar, s, w)
    BY <1>10, <1>11, <2>4, <2>5 DEF KnownColumn, ViableColumn
  <2> QED BY <2>3, <2>6, <2>7, AdvancedViable
<1>14. KnownColumn(grammar, leo, s, q.chart, N + 1)
  <2>1. DOMAIN q.chart[N + 1].leo = {}
    BY <1>4
  <2> QED BY <1>12, <1>13, <2>1 DEF KnownColumn, LeoAt, ViableColumn
<1>15. ExactChart(grammar, leo, s, q.chart, N)
  <2>1. \A k \in 1..N + 1 : k \in 1..N \/ k = N + 1
    BY <1>6
  <2>2. 1 \in 1..N
    BY <1>6
  <2> QED BY <1>4, <1>8, <1>10, <1>11, <1>14, <2>1, <2>2 DEF ExactChart
<1>16. Covered(grammar, s, q.chart, running, N)
  <2> SUFFICES ASSUME NEW i \in 1..N, NEW w \in ToSet(r.chart[i].items), NEW T \in Terminal,
                      NEW v \in Words[T],
                      Waits(grammar, w, T), IsStrictPrefix(Between(s, i - 1, N), v)
               PROVE  [terminal |-> T, start |-> i - 1, cursor |-> Between(s, i - 1, N)] \in running
    BY <1>7, <1>10 DEF Covered
  <2> DEFINE u == Between(s, i - 1, N)
             f == [terminal |-> T, start |-> i - 1, cursor |-> u]
  <2>1. IsPrefix(u, v)
    BY DEF IsStrictPrefix
  <2>2. f \in fed
    BY <1>9, <2>1
  <2>3. IsLiveCursor(f.terminal, f.cursor)
    BY DEF IsLiveCursor
  <2> HIDE DEF f
  <2>4. f \in running
    BY <2>2, <2>3 DEF Running, fed
  <2> QED BY <2>4 DEF f
<1>17. Founded(grammar, q.chart, running)
  <2> SUFFICES ASSUME NEW f \in running
               PROVE  /\ \E w \in ToSet(q.chart[f.start + 1].items) : Waits(grammar, w, f.terminal)
                      /\ \E v \in Words[f.terminal] : IsPrefix(f.cursor, v)
    BY DEF Founded
  <2>1. f \in Fed(r.scans, b) /\ r.scans \in SUBSET Cursors /\ Begun(r.scans, N)
    BY DEF Running, Core, Recognizer, N
  <2>2. PICK x \in r.scans :
          /\ f.terminal = x.terminal /\ f.start = x.start /\ f.cursor = Append(x.cursor, b)
          /\ CanAdvance(x.terminal, x.cursor, b)
    BY <2>1, FedFrom
  <2>3. \E v \in Words[f.terminal] : IsPrefix(f.cursor, v)
    BY <2>2 DEF CanAdvance
  <2>4. \E w \in ToSet(r.chart[x.start + 1].items) : Waits(grammar, w, x.terminal)
    BY <1>8 DEF Founded
  <2> DEFINE k == x.start + 1
  <2>5. k \in 1..N
    <3> DEFINE a == x.start
    <3>1. a \in Nat /\ a < N
      BY <2>1 DEF Begun, Cursors
    <3> HIDE DEF a
    <3>2. a + 1 \in 1..N
      BY <1>6, <3>1
    <3> QED BY <3>2 DEF a
  <2>6. f.start + 1 = k /\ \E w \in ToSet(r.chart[k].items) : Waits(grammar, w, f.terminal)
    BY <2>2, <2>4
  <2> HIDE DEF k
  <2>7. \E w \in ToSet(q.chart[f.start + 1].items) : Waits(grammar, w, f.terminal)
    BY <1>10, <2>5, <2>6
  <2> QED BY <2>3, <2>7
<1>18. (N + 1) - 1 = N /\ \A i \in 1..0 : FALSE
  BY <1>6
<1> HIDE DEF running
<1> QED BY <1>2, <1>3, <1>4, <1>15, <1>16, <1>17, <1>18 DEF ExactWhile, q, s, running

\* The end of a column.
LEMMA FinishedExact ==
  ASSUME IsGrammar(grammar), leo \in BOOLEAN, limits \in LimitSet,
         NEW r, Core(grammar, leo, limits, r), r.chart[Len(r.chart)].leo = << >>,
         NEW running \in SUBSET Cursors, Begun(running, Len(r.chart)),
         ~Finished(r, running).over,
         NEW t, ExactWhile(grammar, leo, t, r, Len(r.chart[Len(r.chart)].items), running)
  PROVE  ExactAt(grammar, leo, t, Finished(r, running))
<1> DEFINE q == Finished(r, running)
           N == Len(r.chart)
           items == r.chart[N].items
<1>1. SoundChart(grammar, t, r.chart) /\ Scanning(t, running)
  BY DEF ExactWhile
<1>2. SoundAt(grammar, t, q)
  BY <1>1, FinishedSound
<1>3. /\ Core(grammar, leo, limits, q) /\ Len(q.chart) = N /\ AgreeTo(q, r, N - 1)
      /\ q.chart[N].items = items
      /\ q.chart[N].leo = (IF leo THEN LeoItems(r) ELSE << >>)
  BY FinishedKeeps
<1>4. \A s : s \in q.scans <=> s \in running \/ Starts(grammar, r.chart, N, s)
  BY FinishedKeeps, Zenon
<1> HIDE DEF q
<1>5. N \in Nat /\ N \in 1..N /\ N >= 1 /\ N - 1 = Len(t) /\ t \in Seq(Byte) /\ N - 1 \in Nat /\ items \in Seq(Item)
  <2>1. N \in Nat /\ N \in 1..N /\ N >= 1 /\ N - 1 = Len(t) /\ t \in Seq(Byte) /\ Len(t) \in Nat
    BY <1>1, SoundChartFacts
  <2>2. items \in Seq(Item)
    BY <2>1, ColumnHolds
  <2> QED BY <2>1, <2>2
<1>6. Widens(q, r)
  BY <1>3 DEF Widens
<1>7. /\ \A k \in 1..N - 1 : KnownColumn(grammar, leo, t, q.chart, k) /\ WorkedColumn(grammar, q.chart, k)
      /\ ShiftedAt(grammar, t, q.chart, N)
      /\ \A x \in ToSet(items) : WorkedAt(grammar, r.chart, N, x) => WorkedAt(grammar, q.chart, N, x)
      /\ StartOf(grammar) \in ToSet(q.chart[1].items)
      /\ Covered(grammar, t, q.chart, running, N - 1)
      /\ Founded(grammar, q.chart, running)
  BY <1>1, <1>6, WidenedKeeps
<1>8. \A k \in 1..N : ViableColumn(grammar, t, r.chart[k])
  BY DEF ExactWhile, ExactChart, KnownColumn
<1>9. /\ \A w \in ToSet(items) : w \in Item /\ w.origin \in Nat
      /\ \A w \in ToSet(items) : ViableItem(grammar, t, w)
  <2>1. \A w \in ToSet(items) : w \in Item /\ w.origin \in Nat
    BY <1>5, ColumnHolds DEF MayHold
  <2> QED BY <1>5, <1>8, <2>1 DEF ViableColumn
<1>10. ASSUME NEW B \in DOMAIN q.chart[N].leo
       PROVE  /\ leo /\ LeoStep(grammar, q.chart, N, B, q.chart[N].leo[B])
              /\ ViableItem(grammar, t, q.chart[N].leo[B])
  <2> DEFINE x == q.chart[N].leo[B]
  <2>1. leo /\ B \in DOMAIN LeoItems(r) /\ x = LeoItems(r)[B]
    <3>1. DOMAIN << >> = {}
      OBVIOUS
    <3>2. leo
      BY <1>3, <1>10, <3>1
    <3> QED BY <1>3, <1>10, <3>2
  <2>2. LeoStep(grammar, r.chart, N, B, x)
    BY <2>1, LeoItemsResult
  <2> HIDE DEF x
  <2>3. PICK w \in ToSet(items) :
          /\ Waits(grammar, w, B) /\ IsDone(grammar, Advanced(w))
          /\ \A y \in ToSet(items) : Waits(grammar, y, B) => y = w
          /\ \/ x = Advanced(w)
             \/ /\ w.origin < N - 1
                /\ LhsIn(grammar, w) \in DOMAIN r.chart[w.origin + 1].leo
                /\ x = r.chart[w.origin + 1].leo[LhsIn(grammar, w)]
    BY <2>2 DEF LeoStep
  <2> DEFINE o == w.origin
             k == o + 1
  <2>4. o \in Nat
    BY <1>9
  <2> HIDE DEF o
  <2>5. o < N - 1 => k \in 1..N - 1 /\ k \in 1..N
    BY <1>5, <2>4
  <2>6. o < N - 1 => q.chart[k] = r.chart[k]
    BY <1>3, <2>5 DEF AgreeTo
  <2>7. LeoStep(grammar, q.chart, N, B, x)
    <3> HIDE DEF items, N
    <3>1. \/ x = Advanced(w)
          \/ /\ w.origin < N - 1
             /\ LhsIn(grammar, w) \in DOMAIN q.chart[w.origin + 1].leo
             /\ x = q.chart[w.origin + 1].leo[LhsIn(grammar, w)]
      BY <2>3, <2>6 DEF o
    <3>2. w \in ToSet(q.chart[N].items) /\ \A y \in ToSet(q.chart[N].items) : Waits(grammar, y, B) => y = w
      BY <1>3, <2>3
    <3> QED BY <2>3, <3>1, <3>2, Zenon DEF LeoStep
  <2>8. ViableItem(grammar, t, x)
    <3>1. CASE x = Advanced(w)
      BY <1>9, <3>1, AdvancedViable
    <3>2. CASE x # Advanced(w)
      <4>1. o < N - 1 /\ LhsIn(grammar, w) \in DOMAIN r.chart[k].leo /\ x = r.chart[k].leo[LhsIn(grammar, w)]
        BY <2>3, <3>2 DEF o
      <4> HIDE DEF k
      <4> QED BY <1>8, <2>5, <4>1 DEF ViableColumn
    <3> QED BY <3>1, <3>2
  <2> QED BY <2>1, <2>7, <2>8 DEF x
<1>11. KnownColumn(grammar, leo, t, q.chart, N)
  <2>1. LeoAt(grammar, leo, q.chart, N)
    BY <1>10 DEF LeoAt
  <2>2. ViableColumn(grammar, t, q.chart[N])
    BY <1>3, <1>9, <1>10 DEF ViableColumn
  <2> QED BY <1>7, <2>1, <2>2 DEF KnownColumn
<1>12. WorkedColumn(grammar, q.chart, N)
  <2> SUFFICES ASSUME NEW x \in ToSet(items)
               PROVE  WorkedAt(grammar, q.chart, N, x)
    BY <1>3 DEF WorkedColumn
  <2>1. PICK i \in 1..Len(items) : items[i] = x
    <3> HIDE DEF items
    <3> QED BY <1>5 DEF ToSet
  <2>2. WorkedAt(grammar, r.chart, N, items[i])
    BY DEF ExactWhile
  <2> QED BY <1>7, <2>1, <2>2
<1>13. \A k \in 1..N : k \in 1..N - 1 \/ k = N
  BY <1>5
<1> HIDE DEF items, N
<1>14. ExactChart(grammar, leo, t, q.chart, N)
  BY <1>3, <1>7, <1>11, <1>12, <1>13 DEF ExactChart
<1>15. Between(t, N - 1, Len(t)) = << >>
  <2> DEFINE m == Len(t)
  <2>1. m \in Nat /\ m <= m /\ m <= Len(t) /\ N - 1 = m
    BY <1>5
  <2> HIDE DEF m
  <2>2. Between(t, m, m) = << >>
    BY <1>5, <2>1, BetweenResult
  <2> QED BY <2>1, <2>2 DEF m
<1>16. ASSUME NEW i \in 1..N, NEW w \in ToSet(q.chart[i].items), NEW T \in Terminal, NEW v \in Words[T],
              Waits(grammar, w, T), IsStrictPrefix(Between(t, i - 1, Len(t)), v)
       PROVE  [terminal |-> T, start |-> i - 1, cursor |-> Between(t, i - 1, Len(t))] \in q.scans
  <2> DEFINE f == [terminal |-> T, start |-> i - 1, cursor |-> Between(t, i - 1, Len(t))]
  <2>1. CASE i \in 1..N - 1
    <3>1. f \in running
      BY <1>7, <1>16, <2>1 DEF Covered
    <3> HIDE DEF f
    <3>2. f \in q.scans
      BY <1>4, <3>1
    <3> QED BY <3>2 DEF f
  <2>2. CASE i = N
    <3>1. w \in ToSet(r.chart[N].items)
      BY <1>3, <2>2 DEF items
    <3>2. f = [terminal |-> T, start |-> N - 1, cursor |-> << >>]
      BY <1>15, <2>2
    <3> HIDE DEF f
    <3>3. Starts(grammar, r.chart, N, f)
      BY <1>16, <3>1, <3>2 DEF Starts
    <3>4. f \in q.scans
      BY <1>4, <3>3
    <3> QED BY <3>4 DEF f
  <2> QED BY <1>13, <2>1, <2>2
<1>17. Covered(grammar, t, q.chart, q.scans, N)
  BY <1>16 DEF Covered
<1>18. ASSUME NEW f \in q.scans
       PROVE  /\ \E w \in ToSet(q.chart[f.start + 1].items) : Waits(grammar, w, f.terminal)
              /\ \E v \in Words[f.terminal] : IsPrefix(f.cursor, v)
  <2>1. CASE f \in running
    BY <1>7, <2>1 DEF Founded
  <2>2. CASE Starts(grammar, r.chart, N, f)
    <3>1. PICK T \in Terminal, w \in ToSet(r.chart[N].items) :
            Waits(grammar, w, T) /\ f = [terminal |-> T, start |-> N - 1, cursor |-> << >>]
      BY <2>2 DEF Starts
    <3>2. f.terminal = T /\ f.start = N - 1 /\ f.cursor = << >> /\ (N - 1) + 1 = N
      BY <1>5, <3>1
    <3>3. w \in ToSet(q.chart[N].items)
      BY <1>3, <3>1 DEF items
    <3>4. PICK v \in Words[T] : TRUE
      BY TerminalAssumption
    <3>5. IsPrefix(<< >>, v)
      <4>1. v \in Seq(Byte)
        BY TerminalAssumption
      <4> DEFINE e == SubSeq(v, 1, 0)
      <4>2. e = << >> /\ Len(v) \in Nat /\ Len(<< >>) = 0 /\ SubSeq(<< >>, 1, 0) = << >>
        BY <4>1
      <4> QED BY <4>2 DEF IsPrefix
    <3> QED BY <3>1, <3>2, <3>3, <3>5
  <2> QED BY <1>4, <2>1, <2>2
<1>19. Founded(grammar, q.chart, q.scans)
  BY <1>18 DEF Founded
<1> QED BY <1>2, <1>3, <1>14, <1>17, <1>19 DEF ExactAt, q

-----------------------------------------------------------------------------
(***************************************************************************)
(* An exact recognizer, between calls and within one.                      *)
(***************************************************************************)

\* The caller's checkpoints lead back to the texts they were taken at.
ExactSaved(g, lo, checkpoints, r) ==
  \A i \in 1..Len(checkpoints) :
    ExactAt(g, lo, checkpoints[i].text, Restore(r, checkpoints[i].checkpoint))

\* The call x under way has read t, and x.rest of its chunk is left.
ExactCall(g, lo, txt, checkpoints, r, x) ==
  /\ \E t \in Seq(Byte) :
       /\ t \o x.rest = txt \o x.chunk
       /\ x.at = "byte" => ExactAt(g, lo, t, r)
       /\ x.at = "saturate" => ExactWhile(g, lo, t, r, x.agenda, x.running)
  /\ IF x.entry = << >> THEN txt = << >> /\ x.rest = << >> /\ x.chunk = << >>
     ELSE ExactAt(g, lo, txt, x.before) /\ ExactSaved(g, lo, checkpoints, x.before)

ExactInv ==
  /\ call = Idle => ExactAt(grammar, leo, text, rec) /\ ExactSaved(grammar, leo, saved, rec)
  /\ UnderWay => ExactCall(grammar, leo, text, saved, rec, call)

\* A checkpoint that needs no more columns than two recognizers share.
LEMMA SavedLeadsBack ==
  ASSUME NEW q, NEW r, q.chart \in Seq(Column), r.chart \in Seq(Column),
         NEW m \in Nat, AgreeTo(q, r, m),
         NEW checkpoints \in Seq([checkpoint : Checkpoints, text : Seq(Byte)]),
         NEW i \in 1..Len(checkpoints), checkpoints[i].checkpoint.columns <= m
  PROVE  Restore(q, checkpoints[i].checkpoint) = Restore(r, checkpoints[i].checkpoint)
<1> DEFINE T == [checkpoint : Checkpoints, text : Seq(Byte)]
           x == checkpoints[i].checkpoint
<1>1. checkpoints[i] \in T
  <2>1. checkpoints \in Seq(T)
    OBVIOUS
  <2> HIDE DEF T
  <2> QED BY <2>1
<1>2. x.columns \in Nat /\ x.columns <= m
  BY <1>1 DEF Checkpoints
<1> HIDE DEF x
<1>3. Restore(q, x) = Restore(r, x)
  BY <1>2, RestoreAgrees
<1> QED BY <1>3 DEF x

\* A call under way is neither idle nor refused.
LEMMA UnderWayResult ==
  ASSUME EarleyInv, ExactInv, UnderWay
  PROVE  /\ InCall(grammar, leo, limits, saved, rec, call)
         /\ ExactCall(grammar, leo, text, saved, rec, call)
         /\ grammar \in Grammars /\ leo \in BOOLEAN /\ limits \in Limits /\ text \in Seq(Byte)
         /\ IsGrammar(grammar) /\ limits \in LimitSet
<1>1. call # Idle /\ call # Refused
  BY DEF UnderWay, Idle, Refused
<1>2. InCall(grammar, leo, limits, saved, rec, call)
  BY <1>1 DEF EarleyInv
<1> QED BY <1>2, Assumed DEF EarleyInv, ExactInv

\* The construction begins with the start item in column 0, which has read nothing.
LEMMA InitExact == Init => ExactInv
<1> SUFFICES ASSUME Init
             PROVE  ExactInv
  OBVIOUS
<1> DEFINE r == InsertAll(Blank, <<StartItem>>)
           refused == limits.columns < 1 \/ r.over
           begun == [at |-> "saturate", agenda |-> 0, running |-> {}, rest |-> << >>,
                     chunk |-> << >>, entry |-> << >>, before |-> << >>]
<1>1. /\ grammar \in Grammars /\ leo \in BOOLEAN /\ limits \in Limits
      /\ rec = (IF refused THEN Blank ELSE r)
      /\ call = (IF refused THEN Refused ELSE begun)
      /\ text = << >> /\ saved = << >>
  BY DEF Init, Refused
<1>2. IsGrammar(grammar) /\ limits \in LimitSet
  BY <1>1, Assumed
<1>3. CASE refused
  BY <1>1, <1>3 DEF ExactInv, UnderWay, Idle, Refused
<1>4. CASE ~refused
  <2>1. StartItem \in Item /\ Holds(grammar, leo, 0, StartItem) /\ StartItem.dot = 0 /\ StartItem.origin = 0
    BY <1>2, StartHolds DEF StartItem
  <2>2. /\ Len(Blank.chart) = 1 /\ Blank.chart[1] = NewColumn
        /\ NewColumn.leo = << >> /\ NewColumn.items = << >>
    BY DEF Blank, NewColumn
  <2>n. ~r.over
    BY <1>4
  <2>r. rec = r /\ call = begun
    BY <1>1, <1>4
  <2> HIDE DEF r
  <2>3. /\ Core(grammar, leo, limits, r) /\ Grows(r, Blank)
        /\ ToSet(r.chart[1].items) = {StartItem}
    <3>1. <<StartItem>> \in Seq(Item) /\ ToSet(<<StartItem>>) = {StartItem} /\ ToSet(<< >>) = {}
      BY <2>1 DEF ToSet
    <3>2. \A x \in ToSet(<<StartItem>>) : Holds(grammar, leo, Len(Blank.chart) - 1, x)
      BY <2>1, <2>2, <3>1
    <3>3. Core(grammar, leo, limits, Blank)
      BY <1>2, BlankCore
    <3> DEFINE p == Blank
               one == <<StartItem>>
    <3>4. one \in Seq(Item) /\ Core(grammar, leo, limits, p) /\ r = InsertAll(p, one) /\ ~r.over
      BY <2>n, <3>1, <3>3 DEF r
    <3>5. \A x \in ToSet(one) : Holds(grammar, leo, Len(p.chart) - 1, x)
      BY <3>2
    <3> HIDE DEF p, one
    <3>6. /\ Core(grammar, leo, limits, r) /\ Grows(r, p)
          /\ ToSet(r.chart[Len(p.chart)].items) = ToSet(p.chart[Len(p.chart)].items) \cup ToSet(one)
      BY <1>2, <3>4, <3>5, InsertAllKeeps
    <3> QED BY <2>2, <3>1, <3>6 DEF p, one
  <2>4. Len(r.chart) = 1 /\ r.chart[1].leo = << >> /\ r.chart[1].items \in Seq(Item)
    BY <2>2, <2>3 DEF Grows, Extends
  <2>5. Means(grammar, << >>, 0, StartItem)
    <3>1. << >> \in Reads(grammar, StartItem)
      BY <1>2, <2>1, ReadsResult DEF Holds, MayHold
    <3>2. Between(<< >>, 0, 0) = << >>
      BY DEF Between
    <3> QED BY <2>1, <3>1, <3>2 DEF Means
  <2>6. SoundChart(grammar, << >>, r.chart)
    <3>1. << >> \in Seq(Byte) /\ Len(<< >>) = 0 /\ 0 <= MaxInputBytes
      BY EarleyAssumption
    <3>2. SoundColumn(grammar, << >>, 0, r.chart[1])
      <4>1. DOMAIN << >> = {}
        OBVIOUS
      <4> QED BY <2>3, <2>4, <2>5, <4>1 DEF SoundColumn
    <3>3. \A k \in 1..1 : k = 1 /\ k - 1 = 0
      OBVIOUS
    <3> QED BY <2>4, <3>1, <3>2, <3>3 DEF SoundChart
  <2>7. ExactWhile(grammar, leo, << >>, r, 0, {})
    <3> DEFINE none == << >>
               chart == r.chart
    <3>1. StartItem = StartOf(grammar) /\ StartItem.rule = Len(RulesIn(grammar))
      BY <1>2, RuleTypes DEF StartItem, StartOf
    <3>2. /\ Len(chart) = 1 /\ ToSet(chart[1].items) = {StartItem}
          /\ chart[1].leo = none /\ DOMAIN none = {}
      BY <2>3, <2>4
    <3>3. SoundChart(grammar, none, chart)
      BY <2>6
    <3> HIDE DEF none, chart
    <3>4. KnownColumn(grammar, leo, none, chart, 1)
      <4>1. LeoAt(grammar, leo, chart, 1)
        BY <3>2 DEF LeoAt
      <4>2. ShiftedAt(grammar, none, chart, 1)
        BY DEF ShiftedAt
      <4>3. ViableColumn(grammar, none, chart[1])
        BY <2>1, <3>1, <3>2 DEF ViableColumn, ViableItem
      <4> QED BY <4>1, <4>2, <4>3 DEF KnownColumn
    <3>5. ExactChart(grammar, leo, none, chart, 0)
      <4>1. \A k \in 1..1 : k = 1
        OBVIOUS
      <4>2. 1..0 = {}
        OBVIOUS
      <4>3. \A k \in 1..Len(chart) : KnownColumn(grammar, leo, none, chart, k)
        BY <3>2, <3>4, <4>1
      <4>4. StartOf(grammar) \in ToSet(chart[1].items)
        BY <3>1, <3>2
      <4> QED BY <4>2, <4>3, <4>4 DEF ExactChart
    <3>6. Covered(grammar, none, chart, {}, 0) /\ Founded(grammar, chart, {}) /\ Scanning(none, {})
      BY DEF Covered, Founded, Scanning
    <3>7. Len(chart) - 1 = 0
      BY <3>2
    <3>8. \A i \in 1..0 : WorkedAt(grammar, chart, Len(chart), chart[Len(chart)].items[i])
      OBVIOUS
    <3>9. ExactWhile(grammar, leo, none, r, 0, {})
      BY <3>3, <3>5, <3>6, <3>7, <3>8 DEF ExactWhile, chart
    <3> QED BY <3>9 DEF none
  <2>8. ExactCall(grammar, leo, text, saved, r, begun)
    <3>1. << >> \in Seq(Byte)
      OBVIOUS
    <3>2. /\ begun.rest = << >> /\ begun.chunk = << >> /\ begun.at = "saturate"
          /\ begun.running = {} /\ begun.entry = << >> /\ begun.agenda = 0
      OBVIOUS
    <3> HIDE DEF begun
    <3> QED BY <1>1, <2>7, <3>1, <3>2 DEF ExactCall
  <2> QED BY <2>8, <2>r DEF ExactInv, Idle
<1> QED BY <1>3, <1>4

\* A call begins.
LEMMA TryAdvanceExact ==
  ASSUME EarleyInv, ExactInv, NEW chunk \in Chunk, TryAdvance(chunk)
  PROVE  ExactInv'
<1> DEFINE y == [at |-> "byte", agenda |-> 0, running |-> {}, rest |-> chunk,
                 chunk |-> chunk, entry |-> <<Checkpoint(rec)>>, before |-> rec]
<1>1. /\ call = Idle /\ call' = y /\ UNCHANGED <<grammar, leo, limits, rec, text, saved>>
  BY DEF TryAdvance
<1>2. ExactAt(grammar, leo, text, rec) /\ ExactSaved(grammar, leo, saved, rec) /\ text \in Seq(Byte)
  BY <1>1, IdleResult DEF ExactInv
<1>3. ExactCall(grammar, leo, text, saved, rec, y)
  BY <1>2 DEF ExactCall
<1>4. y # Idle
  BY DEF Idle
<1> HIDE DEF y
<1> QED BY <1>1, <1>3, <1>4 DEF ExactInv

\* A failed call.
LEMMA FailExact ==
  ASSUME EarleyInv, ExactInv, UnderWay, NEW out, Fail(out)
  PROVE  ExactInv'
<1>1. UNCHANGED <<grammar, leo, limits, text, saved>>
  BY DEF Fail
<1>2. /\ InCall(grammar, leo, limits, saved, rec, call)
      /\ ExactCall(grammar, leo, text, saved, rec, call)
  BY UnderWayResult
<1>3. CASE call.entry = << >>
  <2>1. call' = Refused
    BY <1>2, <1>3, FailRestores
  <2> QED BY <2>1 DEF ExactInv, UnderWay, Idle, Refused
<1>4. CASE call.entry # << >>
  <2>1. rec' = call.before /\ call' = Idle
    BY <1>2, <1>4, FailRestores
  <2>2. ExactAt(grammar, leo, text, call.before) /\ ExactSaved(grammar, leo, saved, call.before)
    BY <1>2, <1>4 DEF ExactCall
  <2> QED BY <1>1, <2>1, <2>2 DEF ExactInv, UnderWay, Idle
<1> QED BY <1>3, <1>4

\* A call that goes on.
LEMMA ContinueExact ==
  ASSUME EarleyInv, ExactInv, UnderWay,
         NEW r, NEW at \in {"byte", "saturate"}, NEW agenda \in Nat,
         NEW running \in SUBSET Cursors, NEW rest \in Seq(Byte),
         Continue(r, at, agenda, running, rest),
         NEW t \in Seq(Byte), t \o rest = text \o call.chunk,
         call.entry = << >> => rest = call.rest,
         at = "byte" => ExactAt(grammar, leo, t, r),
         at = "saturate" => ExactWhile(grammar, leo, t, r, agenda, running)
  PROVE  ExactInv'
<1>1. /\ InCall(grammar, leo, limits, saved, rec, call) /\ call \in Calls
      /\ ExactCall(grammar, leo, text, saved, rec, call)
  BY UnderWayResult DEF InCall
<1>2. /\ rec' = r /\ UNCHANGED <<grammar, leo, limits, reply, text, saved>>
      /\ call'.at = at /\ call'.running = running /\ call'.agenda = agenda
      /\ call'.entry = call.entry /\ call'.before = call.before
      /\ call'.chunk = call.chunk /\ call'.rest = rest
  <2>1. call \in Calls /\ Continue(r, at, agenda, running, rest)
    BY <1>1
  <2>2. rec' = r /\ UNCHANGED <<grammar, leo, limits, reply, text, saved>>
    BY DEF Continue
  <2>3. /\ call'.at = at /\ call'.agenda = agenda /\ call'.running = running /\ call'.rest = rest
        /\ call'.entry = call.entry /\ call'.before = call.before /\ call'.chunk = call.chunk
    <3>1. call' = [call EXCEPT !.at = at, !.agenda = agenda, !.running = running, !.rest = rest]
      BY DEF Continue
    <3> QED BY <2>1, <3>1 DEF Calls
  <2> QED BY <2>2, <2>3
<1>3. ExactCall(grammar, leo, text, saved, r, call')
  BY <1>1, <1>2 DEF ExactCall
<1>4. call' # Idle
  <2>1. Idle.at = "idle"
    BY DEF Idle
  <2> QED BY <1>2, <2>1
<1> QED BY <1>2, <1>3, <1>4 DEF ExactInv

\* The beginning of a byte, or the end of the call.
LEMMA ScanExact ==
  ASSUME EarleyInv, ExactInv, Scan
  PROVE  ExactInv'
<1>1. UnderWay /\ call.at = "byte"
  BY DEF Scan, UnderWay
<1>2. /\ InCall(grammar, leo, limits, saved, rec, call)
      /\ ExactCall(grammar, leo, text, saved, rec, call)
      /\ grammar \in Grammars /\ leo \in BOOLEAN /\ text \in Seq(Byte)
      /\ IsGrammar(grammar) /\ limits \in LimitSet
  BY <1>1, UnderWayResult
<1>3. /\ Core(grammar, leo, limits, rec) /\ rec.chart \in Seq(Column) /\ call \in Calls
      /\ call.chunk \in Seq(Byte) /\ call.rest \in Seq(Byte) /\ call.entry # << >>
  BY <1>1, <1>2, InCallCore DEF Calls, InCall
<1>4. PICK t \in Seq(Byte) : t \o call.rest = text \o call.chunk /\ ExactAt(grammar, leo, t, rec)
  BY <1>1, <1>2 DEF ExactCall
<1>c1. CASE call.rest = << >>
  <2>1. /\ rec' = rec /\ call' = Idle /\ text' = text \o call.chunk
        /\ UNCHANGED <<grammar, leo, limits, saved>>
    BY <1>1, <1>c1 DEF Scan, Succeed
  <2>2. t = text \o call.chunk
    <3>1. t \o << >> = t
      OBVIOUS
    <3> QED BY <1>4, <1>c1, <3>1
  <2>3. ExactSaved(grammar, leo, saved, rec)
    <3> DEFINE b == call.before
               m == Len(b.chart)
    <3>1. /\ Settled(grammar, leo, limits, b) /\ AgreeTo(b, rec, m)
          /\ AreSaved(grammar, leo, limits, saved, rec, m)
      BY <1>2, <1>3 DEF InCall
    <3>2. b.chart \in Seq(Column) /\ m \in Nat
      BY <3>1 DEF Settled, Core, IsChart
    <3>3. ExactSaved(grammar, leo, saved, b)
      BY <1>2, <1>3 DEF ExactCall
    <3> HIDE DEF b, m
    <3>4. ASSUME NEW i \in 1..Len(saved)
          PROVE  Restore(b, saved[i].checkpoint) = Restore(rec, saved[i].checkpoint)
      <4>1. /\ saved \in Seq([checkpoint : Checkpoints, text : Seq(Byte)])
            /\ saved[i].checkpoint.columns <= m
        BY <3>1 DEF AreSaved
      <4> QED BY <1>3, <3>1, <3>2, <4>1, SavedLeadsBack
    <3> QED BY <3>3, <3>4 DEF ExactSaved
  <2> QED BY <1>4, <2>1, <2>2, <2>3 DEF ExactInv, UnderWay, Idle
<1>c2. CASE call.rest # << >>
  <2> DEFINE b == Head(call.rest)
             rest == Tail(call.rest)
             r == Scanned(rec, b)
             running == Running(rec, b)
             s == Append(t, b)
  <2>1. IF ~Fits(rec) \/ r.over THEN Fail("limit")
        ELSE Continue(r, "saturate", 0, running, rest)
    BY <1>1, <1>c2 DEF Scan, Running
  <2>2. CASE ~Fits(rec) \/ r.over
    <3>1. Fail("limit")
      BY <2>1, <2>2
    <3> QED BY <1>1, <3>1, FailExact
  <2>3. CASE ~(~Fits(rec) \/ r.over)
    <3>1. b \in Byte /\ rest \in Seq(Byte) /\ s \in Seq(Byte) /\ s \o rest = t \o call.rest
      <4> DEFINE w == call.rest
      <4>1. w \in Seq(Byte) /\ w # << >>
        BY <1>3, <1>c2
      <4> HIDE DEF w
      <4>2. Head(w) \in Byte /\ Tail(w) \in Seq(Byte)
        BY <4>1
      <4>3. Append(t, Head(w)) \in Seq(Byte) /\ Append(t, Head(w)) \o Tail(w) = t \o w
        BY <4>1, <4>2
      <4> QED BY <4>2, <4>3 DEF w
    <3>2. ExactWhile(grammar, leo, s, r, 0, running)
      <4> HIDE DEF b
      <4> QED BY <1>2, <1>3, <1>4, <2>3, <3>1, ScannedExact
    <3>3. running \in SUBSET Cursors
      <4>1. rec.scans \in SUBSET Cursors /\ Begun(rec.scans, Len(rec.chart))
        BY <1>3 DEF Core, Recognizer
      <4>2. Fed(rec.scans, b) \subseteq Cursors
        <5> HIDE DEF b
        <5> QED BY <3>1, <4>1, FedTypes
      <4> QED BY <4>2 DEF Running
    <3>4. Continue(r, "saturate", 0, running, rest)
      BY <2>1, <2>3
    <3>5. s \o rest = text \o call.chunk
      BY <1>4, <3>1
    <3> HIDE DEF b, rest, r, running, s
    <3> QED BY <1>1, <1>3, <3>1, <3>2, <3>3, <3>4, <3>5, ContinueExact
  <2> QED BY <2>2, <2>3
<1> QED BY <1>c1, <1>c2

\* One turn of the agenda.
LEMMA ProcessItemExact ==
  ASSUME EarleyInv, ExactInv, ProcessItem
  PROVE  ExactInv'
<1> DEFINE N == Len(rec.chart)
           items == rec.chart[N].items
           n == call.agenda + 1
           r == Processed(rec, n)
<1>1. UnderWay /\ call.at = "saturate"
  BY DEF ProcessItem, UnderWay
<1>2. /\ InCall(grammar, leo, limits, saved, rec, call)
      /\ ExactCall(grammar, leo, text, saved, rec, call)
      /\ grammar \in Grammars /\ leo \in BOOLEAN /\ text \in Seq(Byte)
      /\ IsGrammar(grammar) /\ limits \in LimitSet
  BY <1>1, UnderWayResult
<1>3. /\ Core(grammar, leo, limits, rec) /\ rec.chart \in Seq(Column) /\ call \in Calls
      /\ N \in Nat /\ N >= 1
      /\ call.rest \in Seq(Byte) /\ call.running \in SUBSET Cursors /\ call.agenda \in Nat
  BY <1>2, InCallCore DEF Calls
<1>r. rec.chart[N].leo = << >> /\ Begun(call.running, N)
  BY <1>1, <1>2 DEF InCall, Filling
<1>4. PICK t \in Seq(Byte) : /\ t \o call.rest = text \o call.chunk
                             /\ ExactWhile(grammar, leo, t, rec, call.agenda, call.running)
  BY <1>1, <1>2 DEF ExactCall
<1>5. /\ call.agenda < Len(items)
      /\ IF r.over THEN Fail("limit") ELSE Continue(r, "saturate", n, call.running, call.rest)
  BY DEF ProcessItem, Last
<1>c1. CASE r.over
  BY <1>1, <1>5, <1>c1, FailExact
<1>c2. CASE ~r.over
  <2>1. n \in Nat /\ n \in 1..Len(items)
    <3>1. Len(items) \in Nat
      <4> DEFINE all == rec.chart
      <4>1. all \in Seq(Column) /\ Len(all) \in 1..Len(all)
        BY <1>3
      <4> HIDE DEF all
      <4>2. all[Len(all)] \in Column
        BY <4>1
      <4>3. Len(all[Len(all)].items) \in Nat
        BY <4>2 DEF Column
      <4> QED BY <4>3 DEF all
    <3> DEFINE k == call.agenda
               L == Len(items)
    <3>2. k < L /\ k \in Nat /\ L \in Nat
      BY <1>3, <1>5, <3>1
    <3> HIDE DEF k, L
    <3>3. k + 1 \in Nat /\ k + 1 \in 1..L
      BY <3>2
    <3> QED BY <3>3 DEF k, L
  <2>2. ExactWhile(grammar, leo, t, r, n, call.running)
    <3>1. ExactWhile(grammar, leo, t, rec, n - 1, call.running)
      <4>1. n - 1 = call.agenda
        BY <1>3
      <4> HIDE DEF n
      <4> QED BY <1>4, <4>1
    <3> HIDE DEF n
    <3> QED BY <1>2, <1>3, <1>r, <1>c2, <2>1, <3>1, ProcessedExact
  <2>3. Continue(r, "saturate", n, call.running, call.rest)
    BY <1>5, <1>c2
  <2> HIDE DEF n, r
  <2> QED BY <1>1, <1>3, <1>4, <2>1, <2>2, <2>3, ContinueExact
<1> QED BY <1>c1, <1>c2

\* The end of a column.
LEMMA FinishColumnExact ==
  ASSUME EarleyInv, ExactInv, FinishColumn
  PROVE  ExactInv'
<1> DEFINE N == Len(rec.chart)
           r == Finished(rec, call.running)
<1>1. UnderWay /\ call.at = "saturate"
  BY DEF FinishColumn, UnderWay
<1>2. /\ InCall(grammar, leo, limits, saved, rec, call)
      /\ ExactCall(grammar, leo, text, saved, rec, call)
      /\ grammar \in Grammars /\ leo \in BOOLEAN /\ text \in Seq(Byte)
      /\ IsGrammar(grammar) /\ limits \in LimitSet
  BY <1>1, UnderWayResult
<1>3. /\ Core(grammar, leo, limits, rec) /\ call \in Calls
      /\ call.rest \in Seq(Byte) /\ call.running \in SUBSET Cursors
      /\ rec.chart[N].leo = << >> /\ Begun(call.running, N)
  BY <1>1, <1>2, InCallCore DEF Calls, InCall, Filling
<1>4. PICK t \in Seq(Byte) : /\ t \o call.rest = text \o call.chunk
                             /\ ExactWhile(grammar, leo, t, rec, call.agenda, call.running)
  BY <1>1, <1>2 DEF ExactCall
<1>5. call.agenda = Len(rec.chart[N].items)
  BY DEF FinishColumn, Last
<1>6. IF r.over THEN Fail("limit")
      ELSE IF call.entry = << >> THEN
        rec' = r /\ call' = Idle /\ UNCHANGED <<grammar, leo, limits, reply, text, saved>>
      ELSE IF ~IsLive(r) THEN Fail("rejected")
      ELSE Continue(r, "byte", 0, {}, call.rest)
  BY DEF FinishColumn
<1>c1. CASE r.over
  BY <1>1, <1>6, <1>c1, FailExact
<1>c2. CASE ~r.over
  <2>1. ExactAt(grammar, leo, t, r)
    BY <1>2, <1>3, <1>4, <1>5, <1>c2, FinishedExact
  <2> HIDE DEF r
  <2>c1. CASE call.entry = << >>
    <3>1. rec' = r /\ call' = Idle /\ UNCHANGED <<grammar, leo, limits, reply, text, saved>>
      BY <1>6, <1>c2, <2>c1
    <3>2. text = << >> /\ call.rest = << >> /\ call.chunk = << >> /\ saved = << >>
      BY <1>2, <2>c1 DEF ExactCall, InCall
    <3>3. t = text
      <4>1. t \o << >> = t /\ << >> \o << >> = << >>
        OBVIOUS
      <4> QED BY <1>4, <3>2, <4>1
    <3>4. ExactSaved(grammar, leo, << >>, r)
      <4>1. 1..Len(<< >>) = {}
        OBVIOUS
      <4> QED BY <4>1 DEF ExactSaved
    <3> QED BY <2>1, <3>1, <3>2, <3>3, <3>4 DEF ExactInv, UnderWay, Idle
  <2>c2. CASE call.entry # << >> /\ ~IsLive(r)
    <3>1. Fail("rejected")
      BY <1>6, <1>c2, <2>c2
    <3> QED BY <1>1, <3>1, FailExact
  <2>c3. CASE call.entry # << >> /\ IsLive(r)
    <3>1. Continue(r, "byte", 0, {}, call.rest)
      BY <1>6, <1>c2, <2>c3
    <3>2. {} \in SUBSET Cursors /\ 0 \in Nat
      OBVIOUS
    <3> QED BY <1>1, <1>3, <1>4, <2>1, <3>1, <3>2, ContinueExact
  <2> QED BY <2>c1, <2>c2, <2>c3
<1> QED BY <1>c1, <1>c2

\* A checkpoint of an exact recognizer.
LEMMA TakeCheckpointExact ==
  ASSUME EarleyInv, ExactInv, TakeCheckpoint
  PROVE  ExactInv'
<1> DEFINE T == [checkpoint : Checkpoints, text : Seq(Byte)]
           one == [checkpoint |-> Checkpoint(rec), text |-> text]
           all == Append(saved, one)
           n == Len(saved)
<1>1. /\ call = Idle /\ saved' = all /\ UNCHANGED <<grammar, leo, limits, rec, call, text>>
  BY DEF TakeCheckpoint
<1>2. /\ ExactAt(grammar, leo, text, rec) /\ ExactSaved(grammar, leo, saved, rec)
      /\ AreSaved(grammar, leo, limits, saved, rec, Len(rec.chart))
      /\ rec \in Recognizer /\ ~rec.over
  BY <1>1, IdleResult DEF ExactInv
<1>3. ExactAt(grammar, leo, one.text, Restore(rec, one.checkpoint))
  <2>1. Restore(rec, Checkpoint(rec)) = rec
    BY <1>2, RestoreOwn
  <2> QED BY <1>2, <2>1
<1>4. saved \in Seq(T)
  BY <1>2 DEF AreSaved
<1>5. \A i \in 1..n : ExactAt(grammar, leo, saved[i].text, Restore(rec, saved[i].checkpoint))
  BY <1>2 DEF ExactSaved
<1> HIDE DEF one, T
<1>6. /\ Len(all) = n + 1 /\ n \in Nat
      /\ \A i \in 1..n : all[i] = saved[i]
      /\ all[n + 1] = one
  BY <1>4
<1> HIDE DEF all, n
<1>7. \A i \in 1..n + 1 : i \in 1..n \/ i = n + 1
  BY <1>6
<1>8. ExactSaved(grammar, leo, all, rec)
  BY <1>3, <1>5, <1>6, <1>7 DEF ExactSaved
<1> QED BY <1>1, <1>2, <1>8 DEF ExactInv, UnderWay, Idle

\* What is restored is what was saved, and the older checkpoints stay good.
LEMMA RestoreCheckpointExact ==
  ASSUME EarleyInv, ExactInv, NEW i \in 1..Len(saved), RestoreCheckpoint(i)
  PROVE  ExactInv'
<1> DEFINE T == [checkpoint : Checkpoints, text : Seq(Byte)]
           x == saved[i].checkpoint
           q == Restore(rec, x)
           m == x.columns
           rest == SubSeq(saved, 1, i - 1)
           n == Len(saved)
<1>1. /\ call = Idle /\ rec' = q /\ text' = saved[i].text /\ saved' = rest
      /\ UNCHANGED <<grammar, leo, limits, call>>
  BY DEF RestoreCheckpoint
<1>2. /\ AreSaved(grammar, leo, limits, saved, rec, Len(rec.chart))
      /\ rec.chart \in Seq(Column) /\ ExactSaved(grammar, leo, saved, rec)
  BY <1>1, IdleResult DEF ExactInv
<1>3. saved \in Seq(T) /\ n \in Nat /\ i \in 1..n
  BY <1>2 DEF AreSaved
<1>4. x \in Checkpoints /\ m \in Nat
  <2>1. saved[i] \in T
    <3> HIDE DEF T
    <3> QED BY <1>3
  <2> QED BY <2>1 DEF Checkpoints
<1>5. \A k \in 1..n : ExactAt(grammar, leo, saved[k].text, Restore(rec, saved[k].checkpoint))
  BY <1>2 DEF ExactSaved
<1>6. /\ x.columns <= Len(rec.chart) /\ Settled(grammar, leo, limits, q)
      /\ \A k \in 1..i : saved[k].checkpoint.columns <= m
  BY <1>2 DEF AreSaved
<1>7. AgreeTo(q, rec, m)
  BY <1>2, <1>4, <1>6, RestoreShares
<1>8. q.chart \in Seq(Column)
  BY <1>6 DEF Settled, Core, IsChart
<1>9. ExactAt(grammar, leo, saved[i].text, q)
  BY <1>5
<1> HIDE DEF q
<1>10. Len(rest) = i - 1 /\ \A k \in 1..i - 1 : k \in 1..n /\ k \in 1..i /\ rest[k] = saved[k]
  <2> HIDE DEF T, n
  <2>1. \A k \in 1..i - 1 : k \in 1..n /\ k \in 1..i
    BY <1>3
  <2>2. i - 1 \in 0..n /\ n = Len(saved)
    BY <1>3 DEF n
  <2>3. Len(rest) = i - 1 /\ \A k \in 1..i - 1 : rest[k] = saved[k]
    BY <1>3, <2>2
  <2> QED BY <2>1, <2>3
<1> HIDE DEF rest, m
<1>11. ExactSaved(grammar, leo, rest, q)
  <2> SUFFICES ASSUME NEW k \in 1..i - 1
               PROVE  ExactAt(grammar, leo, rest[k].text, Restore(q, rest[k].checkpoint))
    BY <1>10 DEF ExactSaved
  <2>1. k \in 1..n /\ k \in 1..i /\ rest[k] = saved[k]
    BY <1>10
  <2>2. Restore(q, saved[k].checkpoint) = Restore(rec, saved[k].checkpoint)
    <3>1. q.chart \in Seq(Column) /\ rec.chart \in Seq(Column) /\ m \in Nat /\ AgreeTo(q, rec, m)
      BY <1>2, <1>4, <1>7, <1>8
    <3>2. /\ saved \in Seq([checkpoint : Checkpoints, text : Seq(Byte)])
          /\ k \in 1..Len(saved) /\ saved[k].checkpoint.columns <= m
      BY <1>3, <1>6, <2>1
    <3> QED BY <3>1, <3>2, SavedLeadsBack, Zenon
  <2> QED BY <1>5, <2>1, <2>2
<1> QED BY <1>1, <1>9, <1>11 DEF ExactInv, UnderWay, Idle

\* Exactness is inductive, on top of the chart's own invariant.
LEMMA NextExact ==
  ASSUME EarleyInv, ExactInv, [Next]_vars
  PROVE  ExactInv'
<1>1. ASSUME NEW chunk \in Chunk, TryAdvance(chunk)
      PROVE  ExactInv'
  BY <1>1, TryAdvanceExact
<1>2. CASE Step
  BY <1>2, ScanExact, ProcessItemExact, FinishColumnExact DEF Step
<1>3. CASE TakeCheckpoint
  BY <1>3, TakeCheckpointExact
<1>4. ASSUME NEW i \in 1..Len(saved), RestoreCheckpoint(i)
      PROVE  ExactInv'
  BY <1>4, RestoreCheckpointExact
<1>5. CASE UNCHANGED vars
  BY <1>5 DEF vars, ExactInv, UnderWay
<1> QED BY <1>1, <1>2, <1>3, <1>4, <1>5 DEF Next

\* An item of a recognizer at rest means what it says: the symbols before its dot derive
\* the bytes between its origin and its column, in whatever order the columns were
\* saturated, also where a Leo item has skipped completions, a nullable nonterminal was
\* passed over, or a call was rejected, stopped by a limit or rolled back before.
THEOREM ItemsAreAlwaysDerivations == Spec => []ItemsAreDerivations
<1>1. ASSUME EarleyInv, ExactInv
      PROVE  ItemsAreDerivations
  <2> SUFFICES ASSUME call = Idle, NEW c \in 0..LastColumn(rec),
                      NEW item \in ToSet(rec.chart[c + 1].items)
               PROVE  SubSeq(text, item.origin + 1, c)
                        \in DerivedFrom(SubSeq(Rhs(item), 1, item.dot), Language[grammar], MaxInputBytes)
    BY DEF ItemsAreDerivations
  <2>1. /\ ExactAt(grammar, leo, text, rec) /\ grammar \in Grammars /\ IsGrammar(grammar)
        /\ Core(grammar, leo, limits, rec) /\ Len(rec.chart) \in Nat
    BY <1>1, IdleResult, AlwaysCore DEF ExactInv
  <2> DEFINE N == Len(rec.chart)
             k == c + 1
  <2>2. k \in 1..N /\ k - 1 = c
    <3>1. c \in 0..N - 1 /\ N \in Nat
      BY <2>1 DEF LastColumn
    <3> HIDE DEF N
    <3> QED BY <3>1
  <2>3. Means(grammar, text, c, item)
    <3>1. SoundColumn(grammar, text, k - 1, rec.chart[k])
      <4> HIDE DEF k
      <4> QED BY <2>1, <2>2 DEF ExactAt, SoundAt, SoundChart
    <3> QED BY <2>2, <3>1 DEF SoundColumn
  <2>4. Language[grammar] = Derived(grammar)
    BY <2>1 DEF Language, Derived
  <2>5. Rhs(item) = RhsIn(grammar, item)
    BY <2>1, ItemOperators
  <2> QED BY <2>3, <2>4, <2>5 DEF Means, Between, Reads
<1>2. EarleyInv /\ ExactInv => ItemsAreDerivations
  BY <1>1
<1>3. Init => EarleyInv /\ ExactInv
  BY InitKeeps, InitExact
<1>4. EarleyInv /\ ExactInv /\ [Next]_vars => EarleyInv' /\ ExactInv'
  BY NextKeeps, NextExact
<1> QED BY <1>2, <1>3, <1>4, PTL DEF Spec

\* What the recognizer accepts is derived: half of AnswersExactly, with Leo items and
\* without, for texts of every length up to MaxInputBytes (is_accepting).
THEOREM AcceptedTextIsDerived ==
  Spec => [](call = Idle /\ IsAccepting(rec) => <<grammar.start, text>> \in Language[grammar])
<1>1. ASSUME EarleyInv, ExactInv, call = Idle, IsAccepting(rec)
      PROVE  <<grammar.start, text>> \in Language[grammar]
  <2>1. /\ SoundChart(grammar, text, rec.chart) /\ grammar \in Grammars /\ IsGrammar(grammar)
        /\ Core(grammar, leo, limits, rec)
    BY <1>1, IdleResult, AlwaysCore DEF ExactInv, ExactAt, SoundAt
  <2>2. <<grammar.start, text>> \in Derived(grammar)
    BY <1>1, <2>1, AcceptedIsDerived
  <2> QED BY <2>1, <2>2 DEF Language, Derived
<1>2. EarleyInv /\ ExactInv =>
        (call = Idle /\ IsAccepting(rec) => <<grammar.start, text>> \in Language[grammar])
  BY <1>1
<1>3. Init => EarleyInv /\ ExactInv
  BY InitKeeps, InitExact
<1>4. EarleyInv /\ ExactInv /\ [Next]_vars => EarleyInv' /\ ExactInv'
  BY NextKeeps, NextExact
<1> QED BY <1>2, <1>3, <1>4, PTL DEF Spec

\* The recognizer answers what the grammar says: between calls it is accepting exactly
\* when the bytes so far are derived, and live exactly when something derived begins
\* with them, with Leo items and without, after calls that succeeded, were rejected,
\* stopped by a limit or rolled back to a checkpoint (is_accepting, is_live,
\* try_advance, finish_column, process_item, restore_checkpoint).
THEOREM AnswersAreExact == Spec => []AnswersExactly
<1>1. ASSUME EarleyInv, ExactInv, call = Idle
      PROVE  /\ IsAccepting(rec) <=> <<grammar.start, text>> \in Language[grammar]
             /\ IsLive(rec) <=> <<grammar.start, text>> \in PrefixLanguage[grammar]
  <2>1. /\ ExactAt(grammar, leo, text, rec) /\ grammar \in Grammars /\ IsGrammar(grammar)
        /\ Core(grammar, leo, limits, rec)
    BY <1>1, IdleResult, AlwaysCore DEF ExactInv
  <2>2. IsReduced(grammar)
    BY <2>1, EarleyAssumption
  <2>3. /\ IsAccepting(rec) <=> <<grammar.start, text>> \in Derived(grammar)
        /\ IsLive(rec) <=> <<grammar.start, text>> \in Prefixed(grammar)
    BY <2>1, <2>2, AnswersOfExact
  <2>4. Language[grammar] = Derived(grammar) /\ PrefixLanguage[grammar] = Prefixed(grammar)
    BY <2>1 DEF Language, PrefixLanguage, Derived, Prefixed
  <2> QED BY <2>3, <2>4
<1>2. EarleyInv /\ ExactInv => AnswersExactly
  BY <1>1 DEF AnswersExactly
<1>3. Init => EarleyInv /\ ExactInv
  BY InitKeeps, InitExact
<1>4. EarleyInv /\ ExactInv /\ [Next]_vars => EarleyInv' /\ ExactInv'
  BY NextKeeps, NextExact
<1> QED BY <1>2, <1>3, <1>4, PTL DEF Spec
=============================================================================
