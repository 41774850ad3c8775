------------------------------ MODULE FoldLemmas ------------------------------
(***************************************************************************)
(* What FoldLeft computes, for the proofs about the modules that use it.   *)
(*                                                                         *)
(* FoldLeft takes an operator, and a fact about every operator cannot be   *)
(* applied to one; so the facts are stated about Folded, whose step is a   *)
(* function F on pairs.  A module that folds an operator shows, with       *)
(* StepsDetermineFold, that it folds a function, and has the rest from     *)
(* here.                                                                   *)
(***************************************************************************)
EXTENDS Integers, Sequences, SequencesExt, TLAPS, SequenceTheorems, WellFoundedInduction,
        FiniteSetTheorems

Less == {p \in Nat \X Nat : p[1] < p[2]}

\* A set of naturals that is not empty has a least element.
LEMMA LeastExists ==
  ASSUME NEW S \in SUBSET Nat, S # {}
  PROVE  \E m \in S : \A k \in S : m <= k
<1>1. IsWellFoundedOn(Less, Nat)
  BY NatLessThanWellFounded DEF OpToRel, Less
<1>2. PICK m \in S : \A k \in S : <<k, m>> \notin Less
  BY <1>1, WFMin
<1>3. ASSUME NEW k \in S
      PROVE  m <= k
  <2>1. <<k, m>> \in Less <=> k < m
    BY DEF Less
  <2> QED BY <1>2, <2>1
<1> QED BY <1>3

\* Induction over a set of naturals: S has all naturals up to n if it has 0 and,
\* with every number below n, the next one.
LEMMA UpTo ==
  ASSUME NEW n \in Nat, NEW S, 0 \in S,
         \A k \in 0..n - 1 : k \in S => k + 1 \in S
  PROVE  \A k \in 0..n : k \in S
<1> DEFINE missing == {k \in 0..n : k \notin S}
<1> SUFFICES ASSUME missing # {}
             PROVE  FALSE
  OBVIOUS
<1>0. missing \in SUBSET Nat
  OBVIOUS
<1>1. PICK m \in missing : \A k \in missing : m <= k
  <2> HIDE DEF missing
  <2> QED BY <1>0, LeastExists
<1>2. m \in 1..n /\ m - 1 \in 0..n - 1 /\ m - 1 \notin missing
  BY <1>1
<1>3. m - 1 \in S
  BY <1>2
<1>4. (m - 1) + 1 \in S
  BY <1>2, <1>3
<1>5. (m - 1) + 1 = m
  BY <1>2
<1> QED BY <1>1, <1>4, <1>5

\* The greatest element of a set of indices.
LEMMA MaxIndex ==
  ASSUME NEW n \in Nat, NEW T \in SUBSET (1..n), T # {}
  PROVE  Max(T) \in T /\ \A y \in T : Max(T) >= y
<1> DEFINE above == {k \in Nat : \A y \in T : k >= y}
<1>1. n \in above
  OBVIOUS
<1>2. PICK m \in above : \A k \in above : m <= k
  BY <1>1, LeastExists
<1>3. m \in T
  <2> SUFFICES ASSUME m \notin T
               PROVE  FALSE
    OBVIOUS
  <2>1. PICK y \in T : TRUE
    OBVIOUS
  <2>2. m > y /\ y \in Nat /\ m \in Nat
    BY <1>2
  <2>3. \A z \in T : m - 1 >= z
    BY <1>2
  <2>4. m - 1 \in above
    BY <2>2, <2>3
  <2> QED BY <1>2, <2>2, <2>4
<1>4. \E x \in T : \A y \in T : x >= y
  BY <1>2, <1>3
<1> QED BY <1>4 DEF Max

-----------------------------------------------------------------------------

\* F takes what is computed so far and an element to what is computed then.
IsStep(F, A, B) == F \in [A \X B -> A]

\* g is what a fold of s with steps F computes for each set of the first n indices.
Computes(g, F, a, s, n) ==
  g = [T \in SUBSET (1..n) |-> IF T = {} THEN a ELSE F[<<g[T \ {Max(T)}], s[Max(T)]>>]]

Partial(F, a, s) == CHOOSE g : Computes(g, F, a, s, Len(s))

\* The fold of s, from the left, that begins with a and steps with F.
Folded(F, a, s) == Partial(F, a, s)[1..Len(s)]

\* Functions on sets of indices that agree, and that agree on a set whenever they
\* agree on it without its greatest element.
Agree(g, h, n) == \A T \in SUBSET (1..n) : g[T] = h[T]

StepAlike(g, h, n) ==
  /\ g[{}] = h[{}]
  /\ \A T \in SUBSET (1..n) : T # {} /\ g[T \ {Max(T)}] = h[T \ {Max(T)}] => g[T] = h[T]

\* Such functions are the same.
LEMMA StepsDetermineFold ==
  ASSUME NEW n \in Nat, NEW g, NEW h, StepAlike(g, h, n)
  PROVE  Agree(g, h, n)
<1> USE DEF StepAlike, Agree
<1> DEFINE S == {k \in Nat : k <= n => \A T \in SUBSET (1..k) : g[T] = h[T]}
<1>1. 0 \in S
  <2>1. \A T \in SUBSET (1..0) : T = {}
    OBVIOUS
  <2> QED BY <2>1
<1>2. ASSUME NEW k \in 0..n - 1, k \in S
      PROVE  k + 1 \in S
  <2>0. k + 1 \in Nat /\ k \in Nat
    OBVIOUS
  <2>1. ASSUME NEW T \in SUBSET (1..k + 1)
        PROVE  g[T] = h[T]
    <3>1. CASE T = {}
      BY <3>1
    <3>2. CASE T # {}
      <4>1. Max(T) \in T /\ \A y \in T : Max(T) >= y
        BY <3>2, <2>0, MaxIndex
      <4>2. T \ {Max(T)} \in SUBSET (1..k)
        <5> SUFFICES ASSUME NEW y \in T, y # Max(T)
                     PROVE  y \in 1..k
          OBVIOUS
        <5>1. y \in 1..k + 1 /\ Max(T) \in 1..k + 1 /\ Max(T) >= y
          BY <4>1
        <5> QED BY <5>1
      <4>3. g[T \ {Max(T)}] = h[T \ {Max(T)}]
        BY <4>2, <1>2
      <4>4. T \in SUBSET (1..n)
        OBVIOUS
      <4> QED BY <3>2, <4>3, <4>4
    <3> QED BY <3>1, <3>2
  <2> QED BY <2>1
<1>3. \A k \in 0..n : k \in S
  <2> HIDE DEF S
  <2> QED BY <1>1, <1>2, UpTo
<1> QED BY <1>3

\* A fold computes something, within the set its steps lead to.
LEMMA PartialExists ==
  ASSUME NEW A, NEW B, NEW F, IsStep(F, A, B), NEW a \in A, NEW s \in Seq(B),
         NEW n \in 0..Len(s)
  PROVE  \E g : g \in [SUBSET (1..n) -> A] /\ Computes(g, F, a, s, n)
<1> DEFINE S == {k \in Nat : k <= Len(s) =>
                   \E g : g \in [SUBSET (1..k) -> A] /\ Computes(g, F, a, s, k)}
<1> USE DEF IsStep
<1>1. 0 \in S
  <2> DEFINE g == [T \in SUBSET (1..0) |-> a]
  <2>1. \A T \in SUBSET (1..0) : T = {}
    OBVIOUS
  <2>2. g \in [SUBSET (1..0) -> A] /\ Computes(g, F, a, s, 0)
    BY <2>1 DEF Computes
  <2> QED BY <2>2
<1>2. ASSUME NEW k \in 0..Len(s) - 1, k \in S
      PROVE  k + 1 \in S
  <2>0. k \in Nat /\ k + 1 \in Nat /\ k <= Len(s)
    OBVIOUS
  <2>1. PICK g : g \in [SUBSET (1..k) -> A] /\ Computes(g, F, a, s, k)
    BY <1>2, <2>0
  <2> DEFINE h == [T \in SUBSET (1..k + 1) |->
                     IF k + 1 \in T THEN F[<<g[T \ {k + 1}], s[k + 1]>>] ELSE g[T]]
  <2>2. ASSUME NEW T \in SUBSET (1..k + 1)
        PROVE  /\ h[T] \in A
               /\ h[T] = IF T = {} THEN a ELSE F[<<h[T \ {Max(T)}], s[Max(T)]>>]
    <3>1. CASE k + 1 \in T
      <4>1. Max(T) \in T /\ \A y \in T : Max(T) >= y
        BY <3>1, <2>0, MaxIndex
      <4>2. Max(T) = k + 1
        <5>1. Max(T) \in 1..k + 1 /\ Max(T) >= k + 1
          BY <4>1, <3>1
        <5> QED BY <5>1
      <4>3. T \ {k + 1} \in SUBSET (1..k) /\ T \ {k + 1} \in SUBSET (1..k + 1)
        OBVIOUS
      <4>4. g[T \ {k + 1}] \in A /\ s[k + 1] \in B
        <5>1. k + 1 \in 1..Len(s)
          BY <2>0
        <5> QED BY <4>3, <5>1, <2>1
      <4>5. h[T] = F[<<g[T \ {k + 1}], s[k + 1]>>] /\ h[T] \in A
        BY <3>1, <4>4
      <4>6. h[T \ {k + 1}] = g[T \ {k + 1}]
        BY <4>3
      <4> QED BY <3>1, <4>2, <4>5, <4>6
    <3>2. CASE k + 1 \notin T
      <4>1. T \in SUBSET (1..k)
        BY <3>2
      <4>2. h[T] = g[T] /\ h[T] \in A
        BY <3>2, <4>1, <2>1
      <4>3. g[T] = IF T = {} THEN a ELSE F[<<g[T \ {Max(T)}], s[Max(T)]>>]
        BY <2>1, <4>1 DEF Computes
      <4>4. h[T \ {Max(T)}] = g[T \ {Max(T)}]
        BY <3>2, <4>1
      <4> QED BY <4>2, <4>3, <4>4
    <3> QED BY <3>1, <3>2
  <2> HIDE DEF h
  <2>3. h \in [SUBSET (1..k + 1) -> A]
    BY <2>2 DEF h
  <2>4. Computes(h, F, a, s, k + 1)
    BY <2>2 DEF h, Computes
  <2> QED BY <2>0, <2>3, <2>4
<1>3. \A k \in 0..Len(s) : k \in S
  <2>1. Len(s) \in Nat
    OBVIOUS
  <2> HIDE DEF S
  <2> QED BY <1>1, <1>2, <2>1, UpTo
<1>4. n \in S /\ n <= Len(s)
  <2>1. n \in Nat /\ n <= Len(s)
    OBVIOUS
  <2> HIDE DEF S
  <2> QED BY <1>3, <2>1
<1> QED BY <1>4

\* What it computes is determined, and Partial is it.
LEMMA PartialResult ==
  ASSUME NEW A, NEW B, NEW F, IsStep(F, A, B), NEW a \in A, NEW s \in Seq(B)
  PROVE  /\ Partial(F, a, s) \in [SUBSET (1..Len(s)) -> A]
         /\ Computes(Partial(F, a, s), F, a, s, Len(s))
<1>1. Len(s) \in Nat /\ Len(s) \in 0..Len(s)
  OBVIOUS
<1>2. PICK g : g \in [SUBSET (1..Len(s)) -> A] /\ Computes(g, F, a, s, Len(s))
  BY <1>1, PartialExists, Zenon
<1>3. Computes(Partial(F, a, s), F, a, s, Len(s))
  BY <1>2, Zenon DEF Partial
<1>4. StepAlike(Partial(F, a, s), g, Len(s))
  BY <1>2, <1>3 DEF Computes, StepAlike
<1>5. Agree(Partial(F, a, s), g, Len(s))
  BY <1>1, <1>4, StepsDetermineFold, Zenon
<1>6. Partial(F, a, s) \in [SUBSET (1..Len(s)) -> A]
  <2>1. \A T \in SUBSET (1..Len(s)) : Partial(F, a, s)[T] \in A
    BY <1>2, <1>5 DEF Agree
  <2>2. Partial(F, a, s) = [T \in SUBSET (1..Len(s)) |-> Partial(F, a, s)[T]]
    BY <1>3 DEF Computes
  <2> QED BY <2>1, <2>2
<1> QED BY <1>3, <1>6

\* The result of a fold, and the fold of nothing.
LEMMA FoldedType ==
  ASSUME NEW A, NEW B, NEW F, IsStep(F, A, B), NEW a \in A, NEW s \in Seq(B)
  PROVE  Folded(F, a, s) \in A
<1>1. Partial(F, a, s) \in [SUBSET (1..Len(s)) -> A]
  BY PartialResult, Zenon
<1> QED BY <1>1 DEF Folded

\* A fold over nothing.
LEMMA FoldedEmpty ==
  ASSUME NEW A, NEW B, NEW F, IsStep(F, A, B), NEW a \in A
  PROVE  Folded(F, a, << >>) = a
<1>1. << >> \in Seq(B) /\ 1..Len(<< >>) = {}
  OBVIOUS
<1>2. Computes(Partial(F, a, << >>), F, a, << >>, Len(<< >>))
  BY <1>1, PartialResult, Zenon
<1>3. Partial(F, a, << >>)[{}] = a
  BY <1>2 DEF Computes
<1> QED BY <1>1, <1>3, Zenon DEF Folded

\* A fold ends with the step of the last element.
LEMMA FoldedLast ==
  ASSUME NEW A, NEW B, NEW F, IsStep(F, A, B), NEW a \in A, NEW s \in Seq(B), NEW x \in B
  PROVE  Folded(F, a, Append(s, x)) = F[<<Folded(F, a, s), x>>]
<1> DEFINE n == Len(s)
           t == Append(s, x)
           p == Partial(F, a, s)
           q == Partial(F, a, t)
<1>1. t \in Seq(B) /\ Len(t) = n + 1 /\ t[n + 1] = x /\ \A i \in 1..n : t[i] = s[i]
  OBVIOUS
<1>2. n \in Nat
  OBVIOUS
<1>3. Computes(p, F, a, s, n)
  BY PartialResult, Zenon
<1>4. Computes(q, F, a, t, Len(t))
  BY <1>1, PartialResult, Zenon
<1> HIDE DEF n, t, p, q
<1>5. \A T \in SUBSET (1..n) : T # {} /\ p[T \ {Max(T)}] = q[T \ {Max(T)}] => p[T] = q[T]
  <2> SUFFICES ASSUME NEW T \in SUBSET (1..n), T # {}, p[T \ {Max(T)}] = q[T \ {Max(T)}]
               PROVE  p[T] = q[T]
    OBVIOUS
  <2>1. Max(T) \in 1..n
    BY <1>2, MaxIndex
  <2>2. T \in SUBSET (1..Len(t))
    BY <1>1, <1>2
  <2>3. t[Max(T)] = s[Max(T)]
    BY <1>1, <2>1
  <2>4. p[T] = F[<<p[T \ {Max(T)}], s[Max(T)]>>]
    BY <1>3 DEF Computes
  <2>5. q[T] = F[<<q[T \ {Max(T)}], t[Max(T)]>>]
    BY <1>4, <2>2 DEF Computes
  <2> QED BY <2>3, <2>4, <2>5
<1>6. Agree(p, q, n)
  <2>1. p[{}] = q[{}]
    BY <1>3, <1>4 DEF Computes
  <2>2. StepAlike(p, q, n)
    BY <2>1, <1>5 DEF StepAlike
  <2> QED BY <1>2, <2>2, StepsDetermineFold, Zenon
<1>7. Max(1..n + 1) = n + 1 /\ (1..n + 1) \ {n + 1} = 1..n
  <2>1. n + 1 \in Nat /\ 1..n + 1 \in SUBSET (1..n + 1) /\ 1..n + 1 # {}
    <3>1. 1 \in 1..n + 1 /\ n + 1 \in Nat
      BY <1>2
    <3>2. 1..n + 1 # {}
      BY <3>1
    <3> QED BY <3>1, <3>2
  <2>2. Max(1..n + 1) \in 1..n + 1 /\ \A y \in 1..n + 1 : Max(1..n + 1) >= y
    BY <2>1, MaxIndex
  <2>3. n + 1 \in 1..n + 1
    BY <1>2
  <2>4. Max(1..n + 1) >= n + 1 /\ Max(1..n + 1) <= n + 1 /\ Max(1..n + 1) \in Int
    BY <2>2, <2>3, <1>2
  <2>5. Max(1..n + 1) = n + 1
    BY <2>4, <1>2
  <2> QED BY <2>5, <1>2
<1>8. 1..n + 1 # {}
  <2>1. 1 \in 1..n + 1
    BY <1>2
  <2> QED BY <2>1
<1>9. q[1..n + 1] = F[<<q[1..n], x>>]
  <2>1. 1..n + 1 \in SUBSET (1..Len(t))
    BY <1>1
  <2>2. q[1..n + 1] = F[<<q[(1..n + 1) \ {Max(1..n + 1)}], t[Max(1..n + 1)]>>]
    BY <2>1, <1>4, <1>8 DEF Computes
  <2> QED BY <2>2, <1>7, <1>1
<1>10. q[1..n] = p[1..n]
  BY <1>6 DEF Agree
<1>11. Folded(F, a, t) = q[1..n + 1] /\ Folded(F, a, s) = p[1..n]
  BY <1>1 DEF Folded, n, p, q
<1> QED BY <1>9, <1>10, <1>11 DEF t

Concatenates(F, A, B) ==
  \A a \in A, s \in Seq(B), t \in Seq(B) : Folded(F, a, s \o t) = Folded(F, Folded(F, a, s), t)

\* So a fold may stop anywhere and go on from what it has.
LEMMA FoldedConcat ==
  ASSUME NEW A, NEW B, NEW F, IsStep(F, A, B)
  PROVE  Concatenates(F, A, B)
<1> SUFFICES ASSUME NEW a \in A, NEW s \in Seq(B), NEW t \in Seq(B)
             PROVE  Folded(F, a, s \o t) = Folded(F, Folded(F, a, s), t)
  BY DEF Concatenates
<1> DEFINE b == Folded(F, a, s)
           S == {k \in Nat : k <= Len(t) =>
                   Folded(F, a, s \o SubSeq(t, 1, k)) = Folded(F, b, SubSeq(t, 1, k))}
<1>1. b \in A
  BY FoldedType, Zenon
<1> HIDE DEF b
<1>2. 0 \in S
  <2>1. SubSeq(t, 1, 0) = << >> /\ s \o << >> = s
    OBVIOUS
  <2>2. Folded(F, b, << >>) = b
    BY <1>1, FoldedEmpty, Zenon
  <2> QED BY <2>1, <2>2 DEF b
<1>3. ASSUME NEW k \in 0..Len(t) - 1, k \in S
      PROVE  k + 1 \in S
  <2> DEFINE u == SubSeq(t, 1, k)
  <2>1. PICK x : x = t[k + 1]
    OBVIOUS
  <2>2. u \in Seq(B) /\ x \in B /\ s \o u \in Seq(B)
    BY <2>1
  <2>3. SubSeq(t, 1, k + 1) = Append(u, x)
    BY <2>1
  <2>4. s \o Append(u, x) = Append(s \o u, x)
    BY <2>2
  <2>5. Folded(F, a, s \o u) = Folded(F, b, u)
    BY <1>3
  <2> HIDE DEF u
  <2>6. \A v \in Seq(B), y \in B : Folded(F, a, Append(v, y)) = F[<<Folded(F, a, v), y>>]
    BY FoldedLast
  <2>7. \A v \in Seq(B), y \in B : Folded(F, b, Append(v, y)) = F[<<Folded(F, b, v), y>>]
    BY <1>1, FoldedLast
  <2>8. Folded(F, a, s \o SubSeq(t, 1, k + 1)) = Folded(F, b, SubSeq(t, 1, k + 1))
    <3>1. Folded(F, a, Append(s \o u, x)) = F[<<Folded(F, a, s \o u), x>>]
      BY <2>2, <2>6
    <3>2. Folded(F, b, Append(u, x)) = F[<<Folded(F, b, u), x>>]
      BY <2>2, <2>7
    <3> QED BY <2>3, <2>4, <2>5, <3>1, <3>2, Zenon
  <2> QED BY <2>8
<1>4. \A k \in 0..Len(t) : k \in S
  <2>1. Len(t) \in Nat
    OBVIOUS
  <2> HIDE DEF S
  <2> QED BY <1>2, <1>3, <2>1, UpTo
<1>5. Len(t) \in S /\ Len(t) <= Len(t) /\ Len(t) \in Nat
  <2>1. Len(t) \in 0..Len(t) /\ Len(t) <= Len(t)
    OBVIOUS
  <2> HIDE DEF S
  <2> QED BY <1>4, <2>1
<1>6. SubSeq(t, 1, Len(t)) = t
  OBVIOUS
<1> QED BY <1>5, <1>6 DEF b

\* p computes the fold of s from a, with values in A and elements in B, in the form
\* in which the definition of FoldLeft has it.
StepsAs(p, A, B, F, a, s) ==
  /\ p = [T \in SUBSET DOMAIN s |-> p[T]]
  /\ p[{}] = a
  /\ \A T \in SUBSET DOMAIN s : T # {} =>
       /\ p[T \ {Max(T)}] \in A
       /\ s[Max(T)] \in B
       /\ p[T] = F[<<p[T \ {Max(T)}], s[Max(T)]>>]

\* So does Partial.
LEMMA PartialSteps ==
  ASSUME NEW A, NEW B, NEW F, IsStep(F, A, B), NEW a \in A, NEW s \in Seq(B)
  PROVE  StepsAs(Partial(F, a, s), A, B, F, a, s)
<1> DEFINE p == Partial(F, a, s)
<1>1. DOMAIN s = 1..Len(s) /\ Len(s) \in Nat
  OBVIOUS
<1>2. p \in [SUBSET (1..Len(s)) -> A] /\ Computes(p, F, a, s, Len(s))
  BY PartialResult, Zenon
<1> HIDE DEF p
<1>3. ASSUME NEW T \in SUBSET (1..Len(s)), T # {}
      PROVE  /\ p[T \ {Max(T)}] \in A /\ s[Max(T)] \in B
             /\ p[T] = F[<<p[T \ {Max(T)}], s[Max(T)]>>]
  <2>1. Max(T) \in 1..Len(s)
    BY <1>1, <1>3, MaxIndex
  <2>2. p[T \ {Max(T)}] \in A
    BY <1>2
  <2>3. s[Max(T)] \in B
    BY <2>1
  <2>4. p[T] = F[<<p[T \ {Max(T)}], s[Max(T)]>>]
    BY <1>2, <1>3 DEF Computes
  <2> QED BY <2>2, <2>3, <2>4
<1>4. p = [T \in SUBSET (1..Len(s)) |-> p[T]] /\ p[{}] = a
  BY <1>2 DEF Computes
<1> QED BY <1>1, <1>3, <1>4 DEF p, StepsAs

\* g ends with the fold.
FoldsTo(g, F, a, s) == g[DOMAIN s] = Folded(F, a, s)

\* What steps like Partial does computes the fold.
LEMMA FoldsAlike ==
  ASSUME NEW A, NEW B, NEW F, IsStep(F, A, B), NEW a \in A, NEW s \in Seq(B),
         NEW g, StepAlike(g, Partial(F, a, s), Len(s))
  PROVE  FoldsTo(g, F, a, s)
<1>1. DOMAIN s = 1..Len(s) /\ Len(s) \in Nat
  OBVIOUS
<1>2. Agree(g, Partial(F, a, s), Len(s))
  BY <1>1, StepsDetermineFold, Zenon
<1> QED BY <1>1, <1>2 DEF Agree, Folded, FoldsTo

\* What holds with which index before a fold, and is kept by its steps, holds at its end.
LEMMA FoldedKeeps ==
  ASSUME NEW A, NEW B, NEW F, IsStep(F, A, B), NEW a \in A, NEW s \in Seq(B),
         NEW I, <<0, a>> \in I,
         \A k \in 0..Len(s) - 1, x \in A :
           <<k, x>> \in I => <<k + 1, F[<<x, s[k + 1]>>]>> \in I
  PROVE  <<Len(s), Folded(F, a, s)>> \in I
<1> DEFINE S == {k \in Nat : k <= Len(s) => <<k, Folded(F, a, SubSeq(s, 1, k))>> \in I}
<1>0. Len(s) \in Nat
  OBVIOUS
<1>1. 0 \in S
  <2>1. SubSeq(s, 1, 0) = << >>
    OBVIOUS
  <2>2. Folded(F, a, << >>) = a
    BY FoldedEmpty, Zenon
  <2> QED BY <2>1, <2>2
<1>2. ASSUME NEW k \in 0..Len(s) - 1, k \in S
      PROVE  k + 1 \in S
  <2> DEFINE u == SubSeq(s, 1, k)
             x == s[k + 1]
  <2>1. k \in Nat /\ k + 1 \in Nat /\ k + 1 <= Len(s) /\ k <= Len(s)
    BY <1>0
  <2>2. u \in Seq(B) /\ x \in B
    BY <2>1
  <2>2a. SubSeq(s, 1, k + 1) = Append(u, x)
    BY <2>1
  <2>3. <<k, Folded(F, a, u)>> \in I
    BY <1>2, <2>1
  <2> HIDE DEF u, x
  <2>4. Folded(F, a, u) \in A
    BY <2>2, FoldedType, Zenon
  <2>5. Folded(F, a, Append(u, x)) = F[<<Folded(F, a, u), x>>]
    <3>1. \A v \in Seq(B), z \in B : Folded(F, a, Append(v, z)) = F[<<Folded(F, a, v), z>>]
      BY FoldedLast
    <3> QED BY <2>2, <3>1, Zenon
  <2>6. <<k + 1, F[<<Folded(F, a, u), x>>]>> \in I
    BY <2>3, <2>4 DEF x
  <2> QED BY <2>1, <2>2a, <2>5, <2>6
<1>3. \A k \in 0..Len(s) : k \in S
  <2> HIDE DEF S
  <2> QED BY <1>0, <1>1, <1>2, UpTo
<1>4. Len(s) \in S
  <2> HIDE DEF S
  <2> QED BY <1>0, <1>3
<1>5. <<Len(s), Folded(F, a, SubSeq(s, 1, Len(s)))>> \in I
  BY <1>0, <1>4
<1>6. SubSeq(s, 1, Len(s)) = s
  OBVIOUS
<1> QED BY <1>5, <1>6, Zenon

\* Two folds of the same elements whose steps keep a relation.
LEMMA FoldedTogether ==
  ASSUME NEW A, NEW B, NEW C, NEW F, NEW G, IsStep(F, A, B), IsStep(G, C, B),
         NEW a \in A, NEW c \in C, NEW s \in Seq(B), NEW R, <<a, c>> \in R,
         \A x \in A, y \in C, b \in B :
           <<x, y>> \in R => <<F[<<x, b>>], G[<<y, b>>]>> \in R
  PROVE  <<Folded(F, a, s), Folded(G, c, s)>> \in R
<1> DEFINE n == Len(s)
           before(k) == SubSeq(s, 1, k)
           I == {p \in Nat \X A : p[1] <= n => <<p[2], Folded(G, c, before(p[1]))>> \in R}
<1>0. n \in Nat
  OBVIOUS
<1>1. <<0, a>> \in I
  <2>1. before(0) = << >>
    OBVIOUS
  <2>2. Folded(G, c, << >>) = c
    <3>1. \A z \in C : Folded(G, z, << >>) = z
      BY FoldedEmpty
    <3> QED BY <3>1, Zenon
  <2> QED BY <2>1, <2>2
<1>2. ASSUME NEW k \in 0..n - 1, NEW x \in A, <<k, x>> \in I
      PROVE  <<k + 1, F[<<x, s[k + 1]>>]>> \in I
  <2> DEFINE u == before(k)
             y == Folded(G, c, u)
             b == s[k + 1]
  <2>1. k \in Nat /\ k + 1 \in Nat /\ k + 1 <= n /\ k <= n
    BY <1>0
  <2>2. u \in Seq(B) /\ b \in B
    BY <2>1
  <2>2a. before(k + 1) = Append(u, b)
    BY <2>1
  <2>3. <<x, y>> \in R
    BY <1>2, <2>1
  <2>4. F[<<x, b>>] \in A
    BY <2>2 DEF IsStep
  <2> HIDE DEF u, b
  <2>5. y \in C /\ Folded(G, c, Append(u, b)) = G[<<y, b>>]
    <3>1. y \in C
      BY <2>2, FoldedType, Zenon
    <3>2. \A v \in Seq(B), z \in B : Folded(G, c, Append(v, z)) = G[<<Folded(G, c, v), z>>]
      BY FoldedLast
    <3> QED BY <2>2, <3>1, <3>2, Zenon
  <2> HIDE DEF y
  <2>6. <<F[<<x, b>>], G[<<y, b>>]>> \in R
    BY <2>2, <2>3, <2>5
  <2>7. <<F[<<x, b>>], Folded(G, c, before(k + 1))>> \in R
    BY <2>2a, <2>5, <2>6
  <2>8. <<k + 1, F[<<x, b>>]>> \in I
    BY <2>1, <2>4, <2>7
  <2> QED BY <2>8 DEF b
<1>3. <<n, Folded(F, a, s)>> \in I
  <2> HIDE DEF I
  <2> QED BY <1>1, <1>2, FoldedKeeps
<1>4. <<Folded(F, a, s), Folded(G, c, before(n))>> \in R
  <2> HIDE DEF before
  <2> QED BY <1>0, <1>3
<1>5. before(n) = s
  OBVIOUS
<1> QED BY <1>4, <1>5, Zenon

\* A fold over 1..k that takes no notice of the number: f, k times.
Upward(k) == [h \in 1..k |-> h]
Repeats(A, f) == [q \in A \X Nat |-> f[q[1]]]
Repeated(A, f, a, k) == Folded(Repeats(A, f), a, Upward(k))

LEMMA RepeatsIsStep ==
  ASSUME NEW A, NEW f \in [A -> A]
  PROVE  /\ IsStep(Repeats(A, f), A, Nat)
         /\ \A x \in A, j \in Nat : Repeats(A, f)[<<x, j>>] = f[x]
BY DEF IsStep, Repeats

LEMMA RepeatedGoesOn ==
  ASSUME NEW A, NEW f \in [A -> A], NEW a \in A, NEW k \in Nat
  PROVE  /\ Repeated(A, f, a, 0) = a
         /\ Repeated(A, f, a, k) \in A
         /\ Repeated(A, f, a, k + 1) = f[Repeated(A, f, a, k)]
<1> DEFINE G == Repeats(A, f)
<1>1. IsStep(G, A, Nat) /\ \A x \in A, j \in Nat : G[<<x, j>>] = f[x]
  BY RepeatsIsStep
<1>2. /\ Upward(k) \in Seq(Nat) /\ Upward(k + 1) = Append(Upward(k), k + 1) /\ k + 1 \in Nat
      /\ Upward(0) = << >>
  BY DEF Upward
<1> HIDE DEF G
<1>3. Folded(G, a, << >>) = a
  BY <1>1, FoldedEmpty, Zenon
<1>4. Folded(G, a, Upward(k)) \in A
  BY <1>1, <1>2, FoldedType, Zenon
<1>5. Folded(G, a, Append(Upward(k), k + 1)) = G[<<Folded(G, a, Upward(k)), k + 1>>]
  <2>1. \A s \in Seq(Nat), x \in Nat : Folded(G, a, Append(s, x)) = G[<<Folded(G, a, s), x>>]
    BY <1>1, FoldedLast
  <2> QED BY <1>2, <2>1, Zenon
<1> QED BY <1>1, <1>2, <1>3, <1>4, <1>5 DEF G, Repeated

\* A fold that appends what G has for each element collects all of it.
Collects(B, C, G) == [p \in Seq(C) \X B |-> p[1] \o G[p[2]]]

Gathers(v, G, s) == \A x : x \in ToSet(v) <=> \E i \in 1..Len(s) : x \in ToSet(G[s[i]])

\* An interval grows by its next number.
LEMMA IntervalGrows ==
  ASSUME NEW k \in Nat
  PROVE  1..k + 1 = (1..k) \cup {k + 1}
OBVIOUS

\* A fold that appends sequences gathers the elements of all of them.
LEMMA FoldedCollects ==
  ASSUME NEW B, NEW C, NEW G \in [B -> Seq(C)], NEW s \in Seq(B)
  PROVE  /\ IsStep(Collects(B, C, G), Seq(C), B)
         /\ Folded(Collects(B, C, G), << >>, s) \in Seq(C)
         /\ Gathers(Folded(Collects(B, C, G), << >>, s), G, s)
<1> DEFINE F == Collects(B, C, G)
           all(k) == UNION {ToSet(G[s[i]]) : i \in 1..k}
           I == {p \in Nat \X Seq(C) : ToSet(p[2]) = all(p[1])}
<1>1. IsStep(F, Seq(C), B)
  <2>1. \A w \in Seq(C), b \in B : w \o G[b] \in Seq(C)
    OBVIOUS
  <2> QED BY <2>1 DEF IsStep, Collects
<1>2. << >> \in Seq(C) /\ Len(s) \in Nat
  OBVIOUS
<1>3. <<0, << >>>> \in I
  <2>1. ToSet(<< >>) = {} /\ all(0) = {}
    BY DEF ToSet
  <2> QED BY <1>2, <2>1
<1>4. ASSUME NEW k \in 0..Len(s) - 1, NEW w \in Seq(C), <<k, w>> \in I
      PROVE  <<k + 1, F[<<w, s[k + 1]>>]>> \in I
  <2> DEFINE b == s[k + 1]
             v == G[b]
  <2>1. b \in B /\ k \in Nat /\ k + 1 \in Nat
    OBVIOUS
  <2>2. 1..k + 1 = (1..k) \cup {k + 1}
    BY <2>1, IntervalGrows
  <2>3. all(k + 1) = all(k) \cup ToSet(v)
    BY <2>2
  <2> HIDE DEF b
  <2>4. v \in Seq(C) /\ F[<<w, b>>] = w \o v
    BY <2>1 DEF Collects
  <2> HIDE DEF v
  <2>5. ToSet(w \o v) = ToSet(w) \cup ToSet(v)
    <3> DEFINE u == w \o v
    <3>1. \A i \in 1..Len(w) : u[i] = w[i] /\ i \in DOMAIN u
      BY <2>4
    <3>2. \A i \in 1..Len(v) : u[Len(w) + i] = v[i] /\ Len(w) + i \in DOMAIN u
      BY <2>4
    <3>3. \A i \in DOMAIN u :
            \/ i \in 1..Len(w) /\ u[i] = w[i]
            \/ \E j \in 1..Len(v) : u[i] = v[j]
      <4> SUFFICES ASSUME NEW i \in DOMAIN u, i \notin 1..Len(w)
                   PROVE  \E j \in 1..Len(v) : u[i] = v[j]
        BY <3>1
      <4>1. i - Len(w) \in 1..Len(v) /\ u[i] = v[i - Len(w)]
        BY <2>4
      <4> QED BY <4>1
    <3>4. DOMAIN w = 1..Len(w) /\ DOMAIN v = 1..Len(v)
      BY <2>4
    <3> HIDE DEF u
    <3>5. ASSUME NEW x
          PROVE  x \in ToSet(u) <=> x \in ToSet(w) \/ x \in ToSet(v)
      <4>1. ASSUME x \in ToSet(u)
            PROVE  x \in ToSet(w) \/ x \in ToSet(v)
        <5>1. PICK i \in DOMAIN u : x = u[i]
          BY <4>1, Zenon DEF ToSet
        <5> QED BY <5>1, <3>3, <3>4, Zenon DEF ToSet
      <4>2. ASSUME x \in ToSet(w)
            PROVE  x \in ToSet(u)
        BY <4>2, <3>1, <3>4, Zenon DEF ToSet
      <4>3. ASSUME x \in ToSet(v)
            PROVE  x \in ToSet(u)
        <5>1. PICK i \in 1..Len(v) : x = v[i]
          BY <4>3, <3>4, Zenon DEF ToSet
        <5> QED BY <5>1, <3>2, Zenon DEF ToSet
      <4> QED BY <4>1, <4>2, <4>3
    <3>6. ToSet(u) = ToSet(w) \cup ToSet(v)
      BY <3>5, Zenon
    <3> QED BY <3>6 DEF u
  <2>6. w \o v \in Seq(C)
    BY <2>4
  <2>7. ToSet(w) = all(k)
    BY <1>4
  <2> HIDE DEF all, F
  <2> QED BY <2>1, <2>3, <2>4, <2>5, <2>6, <2>7 DEF b
<1>5. <<Len(s), Folded(F, << >>, s)>> \in I
  <2> HIDE DEF I, F
  <2> QED BY <1>1, <1>2, <1>3, <1>4, FoldedKeeps
<1> HIDE DEF F
<1>6. Folded(F, << >>, s) \in Seq(C) /\ ToSet(Folded(F, << >>, s)) = all(Len(s))
  BY <1>5
<1>7. Gathers(Folded(F, << >>, s), G, s)
  BY <1>6 DEF Gathers
<1> QED BY <1>1, <1>6, <1>7 DEF F
-----------------------------------------------------------------------------
(* Numbers in ascending order. *)

IsAscending(s) == \A i, j \in DOMAIN s : i < j => s[i] < s[j]

\* s is the finite set S in ascending order.
Arranges(s, S) == s \in SetToSeqs(S) /\ IsAscending(s)

\* A finite set of numbers can be arranged: its least element first.
LEMMA AscendingExists ==
  ASSUME NEW S \in SUBSET Nat, IsFiniteSet(S)
  PROVE  \E s : Arranges(s, S)
<1> DEFINE P == {k \in Nat : \A T \in SUBSET Nat :
                   IsFiniteSet(T) /\ Cardinality(T) = k => \E s : Arranges(s, T)}
<1>1. 0 \in P
  <2>1. Arranges(<< >>, {})
    <3>1. Cardinality({}) = 0
      BY FS_EmptySet
    <3> QED BY <3>1 DEF Arranges, SetToSeqs, IsAscending
  <2> QED BY <2>1, FS_EmptySet
<1>2. ASSUME NEW k \in Nat, k \in P
      PROVE  k + 1 \in P
  <2>1. ASSUME NEW T \in SUBSET Nat, IsFiniteSet(T), Cardinality(T) = k + 1
        PROVE  \E s : Arranges(s, T)
    <3>1. T # {}
      BY <2>1, FS_EmptySet
    <3>2. PICK m \in T : \A x \in T : m <= x
      BY <3>1, LeastExists
    <3> DEFINE U == T \ {m}
    <3>3. IsFiniteSet(U) /\ Cardinality(U) = k /\ U \in SUBSET Nat
      <4>1. IsFiniteSet(U) /\ Cardinality(U) = Cardinality(T) - 1
        BY <2>1, <3>2, FS_RemoveElement, Zenon
      <4> QED BY <2>1, <4>1
    <3>4. PICK s : Arranges(s, U)
      BY <1>2, <3>3
    <3>5. s \in [1..k -> U] /\ (\A i, j \in 1..k : i # j => s[i] # s[j]) /\ IsAscending(s)
      BY <3>3, <3>4 DEF Arranges, SetToSeqs
    <3> DEFINE r == [i \in 1..k + 1 |-> IF i = 1 THEN m ELSE s[i - 1]]
    <3>6. \A i \in 2..k + 1 : i - 1 \in 1..k /\ r[i] = s[i - 1] /\ s[i - 1] \in U
      BY <3>5
    <3>7. r \in [1..k + 1 -> T]
      <4>1. ASSUME NEW i \in 1..k + 1
            PROVE  r[i] \in T
        <5>1. CASE i = 1
          BY <3>2, <5>1
        <5>2. CASE i # 1
          <6>1. i \in 2..k + 1
            BY <5>2
          <6>2. r[i] \in U
            BY <3>6, <6>1
          <6> QED BY <6>2
        <5> QED BY <5>1, <5>2
      <4> QED BY <4>1
    <3>8. \A i, j \in 1..k + 1 : i < j => r[i] < r[j]
      <4> SUFFICES ASSUME NEW i \in 1..k + 1, NEW j \in 1..k + 1, i < j
                   PROVE  r[i] < r[j]
        OBVIOUS
      <4>1. j \in 2..k + 1
        OBVIOUS
      <4>2. CASE i = 1
        <5>1. r[j] \in U /\ r[i] = m
          BY <3>6, <4>1, <4>2
        <5>2. r[j] \in Nat /\ r[j] # m /\ m \in Nat
          BY <5>1, <3>2
        <5>3. m <= r[j]
          BY <5>1, <3>2
        <5> QED BY <5>1, <5>2, <5>3
      <4>3. CASE i # 1
        <5>1. i - 1 \in DOMAIN s /\ j - 1 \in DOMAIN s /\ i - 1 < j - 1
          BY <3>5, <4>1, <4>3
        <5>2. s[i - 1] < s[j - 1]
          BY <3>5, <5>1 DEF IsAscending
        <5> QED BY <5>2, <4>1, <4>3, <3>6
      <4> QED BY <4>2, <4>3
    <3>9. \A i, j \in 1..k + 1 : i # j => r[i] # r[j]
      <4> SUFFICES ASSUME NEW i \in 1..k + 1, NEW j \in 1..k + 1, i < j
                   PROVE  r[i] # r[j]
        OBVIOUS
      <4>1. r[i] < r[j] /\ r[i] \in Nat /\ r[j] \in Nat
        BY <3>7, <3>8
      <4> QED BY <4>1
    <3>10. Arranges(r, T)
      BY <2>1, <3>7, <3>8, <3>9 DEF Arranges, SetToSeqs, IsAscending
    <3> QED BY <3>10
  <2> QED BY <2>1
<1>3. Cardinality(S) \in Nat
  BY FS_CardinalityType
<1>4. Cardinality(S) \in P
  <2> HIDE DEF P
  <2>1. \A k \in 0..Cardinality(S) : k \in P
    BY <1>1, <1>2, <1>3, UpTo
  <2> QED BY <1>3, <2>1
<1> QED BY <1>4

\* It then has every element of S, once.
LEMMA ArrangedResult ==
  ASSUME NEW S, IsFiniteSet(S), NEW s, Arranges(s, S)
  PROVE  /\ s \in Seq(S) /\ Len(s) = Cardinality(S) /\ Cardinality(S) \in Nat
         /\ ToSet(s) = S
<1> DEFINE n == Cardinality(S)
<1>1. n \in Nat
  BY FS_CardinalityType
<1>2. s \in [1..n -> S] /\ (\A i, j \in 1..n : i # j => s[i] # s[j])
  BY DEF Arranges, SetToSeqs
<1>3. s \in Injection(1..n, S)
  BY <1>2 DEF Injection, IsInjective
<1>4. Cardinality(1..n) = n
  BY <1>1, FS_Interval
<1>5. s \in Surjection(1..n, S)
  BY <1>3, <1>4, FS_Injection
<1>6. ToSet(s) = S
  BY <1>2, <1>5 DEF Surjection, ToSet
<1>7. s \in Seq(S) /\ Len(s) = n
  BY <1>1, <1>2
<1> QED BY <1>1, <1>6, <1>7
=============================================================================
