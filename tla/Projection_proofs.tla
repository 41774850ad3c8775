-------------------------- MODULE Projection_proofs --------------------------
(***************************************************************************)
(* The compiled automaton is the library's, state for state, its live      *)
(* states are those from which acceptance can be reached, and the index    *)
(* made of it has exactly the rows and tokens the automaton allows; the    *)
(* index made of the library's automaton alone allows no less, and the     *)
(* same where no state is lost; and a walk of the trie meets the tokens    *)
(* that the index has in its row, and no others.                           *)
(***************************************************************************)
EXTENDS Projection, FoldLemmas, FiniteSetTheorems

(***************************************************************************)
(* Numbers in ascending order.                                             *)
(***************************************************************************)

\* Ascending arranges its set: each element once.
LEMMA AscendingResult ==
  ASSUME NEW S \in SUBSET Nat, IsFiniteSet(S)
  PROVE  /\ Ascending(S) \in Seq(S)
         /\ Len(Ascending(S)) = Cardinality(S) /\ Cardinality(S) \in Nat
         /\ ToSet(Ascending(S)) = S
<1> DEFINE s == Ascending(S)
<1>1. Arranges(s, S)
  <2>1. PICK t : Arranges(t, S)
    BY AscendingExists
  <2>2. t \in SetToSeqs(S) /\ (\A i, j \in DOMAIN t : i < j => t[i] < t[j])
    BY <2>1 DEF Arranges, IsAscending
  <2>3. s \in SetToSeqs(S) /\ (\A i, j \in DOMAIN s : i < j => s[i] < s[j])
    BY <2>2 DEF Ascending
  <2> QED BY <2>3 DEF Arranges, IsAscending
<1> HIDE DEF s
<1>2. /\ s \in Seq(S) /\ Len(s) = Cardinality(S) /\ Cardinality(S) \in Nat
      /\ ToSet(s) = S
  BY <1>1, ArrangedResult
<1> QED BY <1>2 DEF s

-----------------------------------------------------------------------------
(***************************************************************************)
(* Numbering.                                                              *)
(***************************************************************************)

RawStates == DOMAIN raw.step
Targets == RawStates \cup {RawDead}

TargetStep == [p \in Seq(RawStates) \X Targets |-> WithTarget(p[1], p[2])]

\* Finding targets is a fold.
LEMMA TargetsFold ==
  ASSUME NEW s \in Seq(Targets)
  PROVE  /\ IsStep(TargetStep, Seq(RawStates), Targets)
         /\ FoldLeft(WithTarget, << >>, s) = Folded(TargetStep, << >>, s)
<1> DEFINE Equation(g) ==
             g = [T \in SUBSET DOMAIN s |->
                    IF T = {} THEN << >>
                    ELSE LET x == Max(T) IN WithTarget(g[T \ {x}], s[x])]
           iter == CHOOSE g : Equation(g)
           p == Partial(TargetStep, << >>, s)
<1>1. IsStep(TargetStep, Seq(RawStates), Targets)
  BY DEF IsStep, TargetStep, WithTarget, Targets
<1>2. << >> \in Seq(RawStates)
  OBVIOUS
<1>3. StepsAs(p, Seq(RawStates), Targets, TargetStep, << >>, s)
  BY <1>1, <1>2, PartialSteps, Zenon
<1>4. DOMAIN s = 1..Len(s)
  OBVIOUS
<1>5. FoldLeft(WithTarget, << >>, s) = iter[DOMAIN s]
  BY Zenon DEF FoldLeft, MapThenFoldSet
<1> HIDE DEF p
<1>6. Equation(p)
  BY <1>3 DEF StepsAs, TargetStep
<1>7. Equation(iter)
  <2> HIDE DEF Equation
  <2> QED BY <1>6
<1> HIDE DEF iter
<1>8. StepAlike(iter, p, Len(s))
  BY <1>4, <1>6, <1>7 DEF StepAlike
<1>9. FoldsTo(iter, TargetStep, << >>, s)
  BY <1>1, <1>2, <1>8, FoldsAlike, Zenon DEF p
<1> QED BY <1>1, <1>5, <1>9 DEF FoldsTo

\* The elements of a sequence are different ones.
Distinct(s) == \A i, j \in DOMAIN s : s[i] = s[j] => i = j

\* Targets are found once each: all those before index k of s that have no number.
LEMMA TargetsFound ==
  ASSUME NEW s \in Seq(Targets)
  PROVE  LET found == FoldLeft(WithTarget, << >>, s)
         IN /\ found \in Seq(RawStates)
            /\ Distinct(found)
            /\ ToSet(found) = ToSet(s) \ (DOMAIN dfa.number \cup {RawDead})
<1> DEFINE A == Seq(RawStates)
           old == DOMAIN dfa.number \cup {RawDead}
           upTo(k) == {s[i] : i \in 1..k}
           I == {p \in Nat \X A : p[1] <= Len(s) =>
                   Distinct(p[2]) /\ ToSet(p[2]) = upTo(p[1]) \ old}
<1>0. Len(s) \in Nat
  OBVIOUS
<1>1. <<0, << >> >> \in I
  <2>1. upTo(0) = {}
    OBVIOUS
  <2>2. Distinct(<< >>) /\ ToSet(<< >>) = {}
    BY DEF Distinct, ToSet
  <2>3. ToSet(<< >>) = upTo(0) \ old
    BY <2>1, <2>2, Zenon
  <2>4. << >> \in A /\ 0 \in Nat
    OBVIOUS
  <2> HIDE DEF upTo, old, A
  <2>5. <<0, << >> >> \in Nat \X A
    BY <2>4
  <2> QED BY <2>2, <2>3, <2>5
<1>2. ASSUME NEW k \in 0..Len(s) - 1, NEW x \in A, <<k, x>> \in I
      PROVE  <<k + 1, TargetStep[<<x, s[k + 1]>>]>> \in I
  <2> DEFINE y == s[k + 1]
             z == WithTarget(x, y)
  <2>1. k \in Nat /\ k + 1 \in Nat /\ k <= Len(s) /\ k + 1 <= Len(s) /\ y \in Targets
    BY <1>0
  <2>2. Distinct(x) /\ ToSet(x) = upTo(k) \ old
    BY <1>2, <2>1
  <2>3. upTo(k + 1) = upTo(k) \cup {y}
    BY <2>1
  <2>4. CASE y \in old \cup ToSet(x)
    <3>1. z = x
      BY <2>4 DEF WithTarget
    <3>2. ToSet(x) = upTo(k + 1) \ old
      <4> HIDE DEF y, upTo
      <4> QED BY <2>2, <2>3, <2>4
    <3>3. <<k + 1, x>> \in I
      BY <2>1, <2>2, <3>2
    <3> QED BY <2>1, <3>1, <3>3 DEF TargetStep
  <2>5. CASE y \notin old \cup ToSet(x)
    <3>1. z = Append(x, y) /\ y \in RawStates
      BY <2>1, <2>5 DEF WithTarget, Targets
    <3>2. z \in A /\ Len(z) = Len(x) + 1 /\ z[Len(x) + 1] = y /\ \A i \in 1..Len(x) : z[i] = x[i]
      BY <3>1
    <3>3. ToSet(z) = ToSet(x) \cup {y}
      <4>1. DOMAIN z = 1..Len(x) + 1 /\ DOMAIN x = 1..Len(x) /\ Len(x) \in Nat
        BY <3>2
      <4> HIDE DEF z, y
      <4>2. \A i \in DOMAIN z : z[i] \in ToSet(x) \cup {y}
        BY <3>2, <4>1 DEF ToSet
      <4>3. \A i \in DOMAIN x : x[i] \in ToSet(z)
        BY <3>2, <4>1 DEF ToSet
      <4>4. y \in ToSet(z)
        BY <3>2, <4>1 DEF ToSet
      <4> QED BY <4>2, <4>3, <4>4 DEF ToSet
    <3>4. Distinct(z)
      <4> SUFFICES ASSUME NEW i \in DOMAIN z, NEW j \in DOMAIN z, z[i] = z[j], i # j
                   PROVE  FALSE
        BY DEF Distinct
      <4>1. i \in 1..Len(x) + 1 /\ j \in 1..Len(x) + 1 /\ DOMAIN x = 1..Len(x) /\ Len(x) \in Nat
        BY <3>2
      <4>2. \A l \in 1..Len(x) : z[l] # y
        BY <2>5, <3>2, <4>1 DEF ToSet
      <4>3. i \in 1..Len(x) /\ j \in 1..Len(x)
        BY <3>2, <4>1, <4>2
      <4> QED BY <2>2, <3>2, <4>1, <4>3 DEF Distinct
    <3>5. ToSet(z) = upTo(k + 1) \ old
      <4> HIDE DEF y, z, upTo
      <4> QED BY <2>2, <2>3, <2>5, <3>3
    <3>6. <<k + 1, z>> \in I
      BY <2>1, <3>2, <3>4, <3>5
    <3> QED BY <2>1, <3>6 DEF TargetStep
  <2> QED BY <2>4, <2>5
<1>3. <<Len(s), Folded(TargetStep, << >>, s)>> \in I
  <2> HIDE DEF I
  <2>1. IsStep(TargetStep, A, Targets) /\ << >> \in A
    BY TargetsFold
  <2> HIDE DEF A
  <2> QED BY <1>1, <1>2, <2>1, FoldedKeeps
<1>4. upTo(Len(s)) = ToSet(s)
  BY DEF ToSet
<1>5. FoldLeft(WithTarget, << >>, s) = Folded(TargetStep, << >>, s)
  BY TargetsFold, Zenon
<1> HIDE DEF upTo
<1> QED BY <1>0, <1>3, <1>4, <1>5

\* The row of the state at the head of the queue, as raw states.
RowBytes(A, r) == {A.step[r][byte] : byte \in Byte}

\* What NewTargets finds.
AreNew(N, A, d, r) ==
  /\ N \in Seq(DOMAIN A.step)
  /\ Distinct(N)
  /\ ToSet(N) = RowBytes(A, r) \ (DOMAIN d.number \cup {RawDead})

\* The new targets of a state are those of its bytes that have no number, each once.
LEMMA NewTargetsResult ==
  ASSUME raw \in Automata, NEW r \in RawStates
  PROVE  AreNew(NewTargets(r), raw, dfa, r)
<1> DEFINE bytes == Ascending(Byte)
           s == [k \in DOMAIN bytes |-> raw.step[r][bytes[k]]]
<1>1. bytes \in Seq(Byte) /\ ToSet(bytes) = Byte
  BY ByteAssumption, AscendingResult
<1>2. raw.step \in [RawStates -> [Byte -> Targets]]
  BY AutomataAssumption DEF RawStates, Targets
<1>3. s \in Seq(Targets) /\ ToSet(s) = RowBytes(raw, r)
  <2> HIDE DEF bytes
  <2>1. DOMAIN bytes = 1..Len(bytes) /\ Len(bytes) \in Nat
    BY <1>1
  <2>2. \A k \in DOMAIN bytes : bytes[k] \in Byte
    BY <1>1
  <2>3. \A k \in DOMAIN bytes : raw.step[r][bytes[k]] \in Targets
    BY <1>2, <2>2
  <2>4. s \in Seq(Targets)
    BY <2>1, <2>3
  <2>5. \A x \in RowBytes(raw, r) : x \in ToSet(s)
    BY <1>1 DEF ToSet, RowBytes
  <2>6. \A x \in ToSet(s) : x \in RowBytes(raw, r)
    BY <2>2 DEF ToSet, RowBytes
  <2> QED BY <2>4, <2>5, <2>6
<1>4. NewTargets(r) = FoldLeft(WithTarget, << >>, s)
  BY Zenon DEF NewTargets
<1> HIDE DEF s
<1> QED BY <1>3, <1>4, TargetsFound DEF AreNew, RawStates

Maps(R) == UNION {[S -> Nat] : S \in SUBSET R}

DfaType(A) ==
  [at : {"numbering", "refused", "marking", "done"}, number : Maps(DOMAIN A.step),
   queue : Seq(DOMAIN A.step), rows : Seq([Byte -> Int]), accepting : SUBSET Nat,
   offsets : Seq(Nat), predecessors : Seq(Nat), live : SUBSET Nat, stack : Seq(Nat)]

NumberOf(number, q) == IF q = RawDead THEN Dead ELSE number[q]

\* States are numbered from 0 on, without a gap or a number given twice; those not in
\* the queue have a row, those in it have the numbers that follow.
Counted(d) ==
  /\ IsFiniteSet(DOMAIN d.number)
  /\ Cardinality(DOMAIN d.number) = Len(d.rows) + Len(d.queue)
  /\ \A q, r \in DOMAIN d.number : d.number[q] = d.number[r] => q = r
  /\ \A r \in DOMAIN d.number : d.number[r] < Len(d.rows) + Len(d.queue)
  /\ \A i \in 1..Len(d.queue) :
       d.queue[i] \in DOMAIN d.number /\ d.number[d.queue[i]] = Len(d.rows) + i - 1

\* The rows lead where the library's automaton does.
RowsMatch(A, d) ==
  \A r \in DOMAIN d.number : d.number[r] < Len(d.rows) =>
    \A byte \in Byte :
      LET q == A.step[r][byte]
      IN /\ q \in DOMAIN d.number \cup {RawDead}
         /\ d.rows[d.number[r] + 1][byte] = NumberOf(d.number, q)

AcceptingMatch(A, d) ==
  d.accepting = {d.number[r] : r \in {q \in DOMAIN d.number : d.number[q] < Len(d.rows) /\ q \in A.accepting}}

NumberInv(A, d) ==
  /\ d \in DfaType(A)
  /\ Counted(d)
  /\ RowsMatch(A, d)
  /\ AcceptingMatch(A, d)
  /\ A.start \in DOMAIN d.number /\ d.number[A.start] = 0
  /\ d.rows # << >> => Len(d.rows) + Len(d.queue) <= MaxDfaStates

\* The automaton once the row of the head of the queue is filled.
Extended(A, d, N) ==
  LET number == [r \in DOMAIN d.number \cup ToSet(N) |->
                   IF r \in DOMAIN d.number THEN d.number[r]
                   ELSE Cardinality(DOMAIN d.number) + (CHOOSE k \in DOMAIN N : N[k] = r) - 1]
  IN [d EXCEPT
        !.number = number,
        !.queue = Tail(@) \o N,
        !.rows = Append(@, [byte \in Byte |->
                   LET next == A.step[Head(d.queue)][byte]
                   IN IF next = RawDead THEN Dead ELSE number[next]]),
        !.accepting = IF Head(d.queue) \in A.accepting THEN @ \cup {number[Head(d.queue)]} ELSE @]

HaveRoom(N, d) == Cardinality(DOMAIN d.number) + Len(N) <= MaxDfaStates

\* Numbering the new targets of the state at the head of the queue, and taking that state
\* off, keeps the numbering sound.
LEMMA ExtendedKeepsInv ==
  ASSUME NEW A \in Automata, NEW d, NumberInv(A, d), d.queue # << >>,
         NEW N, AreNew(N, A, d, Head(d.queue)),
         HaveRoom(N, d)
  PROVE  NumberInv(A, Extended(A, d, N))
<1> DEFINE R == DOMAIN A.step
           D == DOMAIN d.number
           K == Cardinality(D)
           n == Len(d.rows)
           current == Head(d.queue)
           E == Extended(A, d, N)
           place(r) == CHOOSE k \in DOMAIN N : N[k] = r
           m == E.number
<1>1. /\ d \in DfaType(A) /\ Counted(d) /\ RowsMatch(A, d) /\ AcceptingMatch(A, d)
      /\ A.start \in D /\ d.number[A.start] = 0
  BY DEF NumberInv
<1>2. /\ d.queue \in Seq(R) /\ d.rows \in Seq([Byte -> Int]) /\ d.accepting \in SUBSET Nat
      /\ n \in Nat /\ Len(d.queue) \in Nat /\ Len(d.queue) >= 1
      /\ N \in Seq(R) /\ Len(N) \in Nat /\ DOMAIN N = 1..Len(N)
  BY <1>1 DEF DfaType, AreNew
<1>2a. n \in Nat /\ Len(d.queue) \in Nat /\ Len(d.queue) >= 1 /\ Len(N) \in Nat
  BY <1>2
<1>3. PICK S \in SUBSET R : d.number \in [S -> Nat]
  BY <1>1 DEF DfaType, Maps
<1>4. D \in SUBSET R /\ d.number \in [D -> Nat]
  BY <1>3
<1>5. IsFiniteSet(D) /\ K = n + Len(d.queue) /\ K \in Nat
  <2>1. IsFiniteSet(D) /\ K = n + Len(d.queue)
    BY <1>1 DEF Counted
  <2>2. K \in Nat
    BY <2>1, FS_CardinalityType
  <2> QED BY <2>1, <2>2
<1>6. Distinct(N) /\ ToSet(N) = RowBytes(A, current) \ (D \cup {RawDead})
  BY DEF AreNew
<1>7. A.step \in [R -> [Byte -> R \cup {RawDead}]] /\ RawDead \notin R
  BY AutomataAssumption
<1>8. /\ E.at = d.at /\ E.queue = Tail(d.queue) \o N
      /\ m = [r \in D \cup ToSet(N) |-> IF r \in D THEN d.number[r] ELSE K + place(r) - 1]
      /\ E.rows = Append(d.rows, [byte \in Byte |-> NumberOf(m, A.step[current][byte])])
      /\ E.accepting = IF current \in A.accepting THEN d.accepting \cup {m[current]} ELSE d.accepting
      /\ E = [d EXCEPT !.number = m, !.queue = E.queue, !.rows = E.rows, !.accepting = E.accepting]
  <2> DEFINE u == [r \in D \cup ToSet(N) |-> IF r \in D THEN d.number[r] ELSE K + place(r) - 1]
             v == Tail(d.queue) \o N
             row == [byte \in Byte |-> LET next == A.step[current][byte]
                                      IN IF next = RawDead THEN Dead ELSE u[next]]
             w == Append(d.rows, row)
             z == IF current \in A.accepting THEN d.accepting \cup {u[current]} ELSE d.accepting
  <2>1. E = [d EXCEPT !.number = u, !.queue = v, !.rows = w, !.accepting = z]
    BY DEF Extended
  <2>2. d = [at |-> d.at, number |-> d.number, queue |-> d.queue, rows |-> d.rows,
             accepting |-> d.accepting, offsets |-> d.offsets, predecessors |-> d.predecessors,
             live |-> d.live, stack |-> d.stack]
    BY <1>1 DEF DfaType
  <2>3. row = [byte \in Byte |-> NumberOf(u, A.step[current][byte])]
    BY DEF NumberOf
  <2> HIDE DEF E, u, v, row, w, z
  <2>4. E.at = d.at /\ E.number = u /\ E.queue = v /\ E.rows = w /\ E.accepting = z
    BY <2>1, <2>2
  <2>5. E = [d EXCEPT !.number = E.number, !.queue = E.queue, !.rows = E.rows, !.accepting = E.accepting]
    BY <2>1, <2>4
  <2>6. m = u
    BY <2>4
  <2> HIDE DEF m
  <2> QED BY <2>3, <2>4, <2>5, <2>6 DEF u, v, w, z
<1>9. current \in D /\ d.number[current] = n /\ current \in R
  <2>1. d.queue[1] \in D /\ d.number[d.queue[1]] = n + 1 - 1
    BY <1>1, <1>2 DEF Counted
  <2> QED BY <1>2, <1>4, <2>1
<1> HIDE DEF E, m
<1>10. ASSUME NEW k \in 1..Len(N)
       PROVE  N[k] \in ToSet(N) /\ N[k] \notin D /\ N[k] \in R /\ place(N[k]) = k
  <2>1. N[k] \in ToSet(N)
    BY <1>2 DEF ToSet
  <2>2. place(N[k]) \in DOMAIN N /\ N[place(N[k])] = N[k]
    BY <1>2
  <2>3. place(N[k]) = k
    BY <1>2, <1>6, <2>2 DEF Distinct
  <2> QED BY <1>2, <1>6, <2>1, <2>3
<1>11. ASSUME NEW r \in ToSet(N)
       PROVE  place(r) \in 1..Len(N) /\ N[place(r)] = r /\ r \notin D /\ r \in R
  <2>1. PICK k \in 1..Len(N) : r = N[k]
    BY <1>2 DEF ToSet
  <2> QED BY <1>2, <1>10, <2>1
<1>12. /\ DOMAIN m = D \cup ToSet(N)
       /\ \A r \in D : m[r] = d.number[r] /\ m[r] \in Nat /\ m[r] < K
       /\ \A r \in ToSet(N) : m[r] = K + place(r) - 1 /\ m[r] \in Nat
  <2>1. \A r \in D : d.number[r] \in Nat /\ d.number[r] < K
    BY <1>1, <1>4, <1>5, ZenonT(40) DEF Counted
  <2> HIDE DEF place
  <2> QED BY <1>5, <1>8, <1>11, <2>1
<1>13. Cardinality(DOMAIN m) = K + Len(N) /\ IsFiniteSet(DOMAIN m)
  <2>1. N \in [1..Len(N) -> ToSet(N)]
    BY <1>2, <1>10
  <2>2. N \in Bijection(1..Len(N), ToSet(N))
    <3>1. \A t \in ToSet(N) : \E s \in 1..Len(N) : N[s] = t
      BY <1>2 DEF ToSet
    <3>2. \A i, j \in 1..Len(N) : N[i] = N[j] => i = j
      BY <1>2, <1>6 DEF Distinct
    <3>3. N \in Injection(1..Len(N), ToSet(N))
      BY <2>1, <3>2 DEF Injection, IsInjective
    <3>4. N \in Surjection(1..Len(N), ToSet(N))
      BY <2>1, <3>1 DEF Surjection
    <3> QED BY <3>3, <3>4 DEF Bijection
  <2>3. IsFiniteSet(1..Len(N)) /\ Cardinality(1..Len(N)) = Len(N)
    <3>1. Len(N) \in Int /\ 1 \in Int /\ Len(N) >= 0
      BY <1>2
    <3>2. IsFiniteSet(1..Len(N)) /\ Cardinality(1..Len(N)) = IF 1 > Len(N) THEN 0 ELSE Len(N) - 1 + 1
      BY <3>1, FS_Interval
    <3> QED BY <3>1, <3>2
  <2>4. IsFiniteSet(ToSet(N)) /\ Cardinality(ToSet(N)) = Len(N)
    <3>1. ExistsBijection(1..Len(N), ToSet(N))
      BY <2>2 DEF ExistsBijection
    <3> QED BY <2>3, <3>1, FS_Bijection
  <2>5. D \cap ToSet(N) = {} /\ Cardinality({}) = 0
    BY <1>6, FS_EmptySet
  <2> HIDE DEF D
  <2>6. /\ IsFiniteSet(D \cup ToSet(N))
        /\ Cardinality(D \cup ToSet(N)) = K + Cardinality(ToSet(N)) - Cardinality(D \cap ToSet(N))
    BY <1>5, <2>4, FS_Union
  <2>7. Cardinality(D \cup ToSet(N)) = K + Len(N)
    <3> DEFINE c == Cardinality(D \cup ToSet(N))
    <3>1. c = K + Len(N) - 0
      BY <2>4, <2>5, <2>6, Zenon
    <3> HIDE DEF K, c
    <3>2. c = K + Len(N)
      BY <1>2a, <1>5, <3>1
    <3> QED BY <3>2 DEF c
  <2> QED BY <1>12, <2>6, <2>7, Zenon
<1> HIDE DEF place
<1>14. E \in DfaType(A)
  <2>1. m \in Maps(R)
    <3>1. m \in [D \cup ToSet(N) -> Nat] /\ D \cup ToSet(N) \in SUBSET R
      BY <1>4, <1>8, <1>11, <1>12
    <3> QED BY <3>1 DEF Maps
  <2>2. E.queue \in Seq(R)
    <3>1. Tail(d.queue) \in Seq(R)
      <4> DEFINE q == d.queue
      <4>1. q \in Seq(R) /\ q # << >>
        BY <1>2
      <4> HIDE DEF q, R
      <4>2. Tail(q) \in Seq(R)
        BY <4>1
      <4> QED BY <4>2 DEF q
    <3> HIDE DEF R
    <3>2. Tail(d.queue) \o N \in Seq(R)
      BY <1>2, <3>1
    <3> QED BY <1>8, <3>2
  <2>3. [byte \in Byte |-> NumberOf(m, A.step[current][byte])] \in [Byte -> Int]
    <3>1. ASSUME NEW byte \in Byte
          PROVE  NumberOf(m, A.step[current][byte]) \in Int
      <4>1. A.step[current][byte] \in D \cup ToSet(N) \cup {RawDead}
        BY <1>6, <1>7, <1>9 DEF RowBytes
      <4> QED BY <1>12, <4>1 DEF NumberOf, Dead
    <3> QED BY <3>1
  <2>4. E.rows \in Seq([Byte -> Int])
    <3> DEFINE row == [byte \in Byte |-> NumberOf(m, A.step[current][byte])]
    <3>1. row \in [Byte -> Int]
      BY <2>3
    <3>2. E.rows = Append(d.rows, row)
      BY <1>8
    <3> HIDE DEF row
    <3> QED BY <1>2, <3>1, <3>2
  <2>5. E.accepting \in SUBSET Nat
    <3>1. d.accepting \in SUBSET Nat /\ m[current] \in Nat
      BY <1>2, <1>9, <1>12
    <3>2. E.accepting = IF current \in A.accepting THEN d.accepting \cup {m[current]} ELSE d.accepting
      BY <1>8
    <3> QED BY <3>1, <3>2
  <2> QED BY <1>1, <1>8, <2>1, <2>2, <2>4, <2>5 DEF DfaType
<1>15. Len(E.rows) = n + 1 /\ Len(E.queue) = Len(d.queue) - 1 + Len(N)
  BY <1>2, <1>8
<1>20. Len(E.rows) + Len(E.queue) = K + Len(N)
  <2> DEFINE e == Len(E.rows)
             f == Len(E.queue)
             q == Len(d.queue)
  <2>1. /\ e = n + 1 /\ f = q - 1 + Len(N) /\ K = n + q
        /\ n \in Nat /\ q \in Nat /\ Len(N) \in Nat
    BY <1>2a, <1>5, <1>15
  <2> HIDE DEF n, K, e, f, q
  <2>2. e + f = K + Len(N)
    BY <2>1
  <2> QED BY <2>2 DEF e, f
<1>16. Counted(E)
  <2>2. ASSUME NEW q \in DOMAIN m, NEW r \in DOMAIN m, m[q] = m[r]
        PROVE  q = r
    <3>1. CASE q \in D /\ r \in D
      BY <1>1, <1>12, <2>2, <3>1 DEF Counted
    <3>2. CASE q \in ToSet(N) /\ r \in ToSet(N)
      <4>1. place(q) = place(r)
        BY <1>5, <1>11, <1>12, <2>2, <3>2
      <4> QED BY <1>11, <3>2, <4>1
    <3>3. ASSUME NEW x \in D, NEW y \in ToSet(N)
          PROVE  m[x] # m[y]
      <4>1. m[x] < K /\ m[x] \in Nat /\ m[y] = K + place(y) - 1 /\ place(y) \in 1..Len(N)
        BY <1>11, <1>12
      <4> QED BY <1>5, <4>1
    <3> QED BY <1>12, <2>2, <3>1, <3>2, <3>3
  <2>3. ASSUME NEW r \in DOMAIN m
        PROVE  m[r] < K + Len(N)
    <3>1. CASE r \in D
      BY <1>2, <1>5, <1>12, <3>1
    <3>2. CASE r \in ToSet(N)
      <4>1. m[r] = K + place(r) - 1 /\ place(r) \in 1..Len(N)
        BY <1>11, <1>12, <3>2
      <4> QED BY <1>2, <1>5, <4>1
    <3> QED BY <1>12, <3>1, <3>2
  <2>4. ASSUME NEW i \in 1..Len(E.queue)
        PROVE  E.queue[i] \in DOMAIN m /\ m[E.queue[i]] = n + 1 + i - 1
    <3>1. CASE i <= Len(d.queue) - 1
      <4>0. i + 1 \in 1..Len(d.queue) /\ i \in 1..Len(d.queue) - 1
        BY <1>2a, <1>15, <3>1
      <4>1. E.queue[i] = d.queue[i + 1] /\ i + 1 \in 1..Len(d.queue)
        <5>1. E.queue = Tail(d.queue) \o N /\ d.queue \in Seq(R) /\ N \in Seq(R)
          BY <1>2, <1>8
        <5> HIDE DEF E, R
        <5>2. Tail(d.queue) \in Seq(R) /\ Len(Tail(d.queue)) = Len(d.queue) - 1
              /\ Tail(d.queue)[i] = d.queue[i + 1]
          BY <1>2a, <4>0, <5>1
        <5>3. (Tail(d.queue) \o N)[i] = Tail(d.queue)[i]
          BY <4>0, <5>1, <5>2
        <5> QED BY <4>0, <5>1, <5>2, <5>3
      <4>2. d.queue[i + 1] \in D /\ d.number[d.queue[i + 1]] = n + (i + 1) - 1
        BY <1>1, <4>1 DEF Counted
      <4> QED BY <1>2, <1>12, <4>1, <4>2
    <3>2. CASE i > Len(d.queue) - 1
      <4> DEFINE k == i - (Len(d.queue) - 1)
      <4>1. k \in 1..Len(N) /\ E.queue[i] = N[k]
        BY <1>2, <1>8, <1>15, <3>2, SMTT(30)
      <4>2. m[N[k]] = K + k - 1 /\ N[k] \in DOMAIN m
        <5>1. N[k] \in ToSet(N) /\ place(N[k]) = k
          BY <1>10, <4>1 DEF place
        <5> HIDE DEF k
        <5> QED BY <1>12, <5>1
      <4>3. E.queue[i] \in DOMAIN m /\ m[E.queue[i]] = K + k - 1
        <5> HIDE DEF k, K
        <5> QED BY <4>1, <4>2
      <4> DEFINE q == Len(d.queue)
      <4>4. K = n + q /\ k = i - (q - 1) /\ n \in Nat /\ q \in Nat /\ i \in Int
        <5>1. K = n + q
          BY <1>5, Zenon
        <5>2. k = i - (q - 1)
          BY Zenon
        <5>3. i \in Int
          OBVIOUS
        <5> QED BY <1>2a, <5>1, <5>2, <5>3, Zenon
      <4>5. K + k - 1 = n + 1 + i - 1
        <5> HIDE DEF K, n, k, q
        <5> QED BY <4>4
      <4> HIDE DEF k, K, n
      <4> QED BY <4>3, <4>5
    <3> QED BY <1>2a, <1>15, <3>1, <3>2
  <2> QED BY <1>13, <1>15, <1>20, <2>2, <2>3, <2>4 DEF Counted, m
<1>17. RowsMatch(A, E)
  <2> SUFFICES ASSUME NEW r \in DOMAIN m, m[r] < n + 1, NEW byte \in Byte
               PROVE  /\ A.step[r][byte] \in DOMAIN m \cup {RawDead}
                      /\ E.rows[m[r] + 1][byte] = NumberOf(m, A.step[r][byte])
    BY <1>15 DEF RowsMatch, m
  <2>1. r \in D
    <3>1. CASE r \in ToSet(N)
      <4>1. m[r] = K + place(r) - 1 /\ place(r) \in 1..Len(N)
        BY <1>11, <1>12, <3>1
      <4>2. m[r] < n + 1
        OBVIOUS
      <4> HIDE DEF n, K
      <4> QED BY <1>2, <1>5, <4>1, <4>2
    <3> QED BY <1>12, <3>1
  <2>2. m[r] = d.number[r] /\ m[r] \in Nat
    BY <1>12, <2>1
  <2>3. CASE m[r] < n
    <3>1. /\ A.step[r][byte] \in D \cup {RawDead}
          /\ d.rows[m[r] + 1][byte] = NumberOf(d.number, A.step[r][byte])
      BY <1>1, <2>1, <2>2, <2>3 DEF RowsMatch
    <3>2. E.rows[m[r] + 1] = d.rows[m[r] + 1]
      <4> DEFINE row == [b \in Byte |-> NumberOf(m, A.step[current][b])]
                 i == m[r] + 1
      <4>0. E.rows = Append(d.rows, row) /\ d.rows \in Seq([Byte -> Int])
        BY <1>2, <1>8
      <4>1. i \in 1..Len(d.rows)
        <5> HIDE DEF m
        <5> QED BY <1>2a, <2>2, <2>3
      <4> HIDE DEF row, i
      <4>2. E.rows[i] = d.rows[i]
        BY <4>0, <4>1
      <4> QED BY <4>2 DEF i
    <3> QED BY <1>12, <3>1, <3>2 DEF NumberOf
  <2>4. CASE m[r] = n
    <3>1. r = current
      BY <1>1, <1>9, <2>1, <2>2, <2>4 DEF Counted
    <3>2. E.rows[m[r] + 1] = [b \in Byte |-> NumberOf(m, A.step[current][b])]
      <4> DEFINE row == [b \in Byte |-> NumberOf(m, A.step[current][b])]
                 i == m[r] + 1
      <4>1. E.rows = Append(d.rows, row) /\ i = Len(d.rows) + 1 /\ d.rows \in Seq([Byte -> Int])
        BY <1>2, <1>8, <2>4
      <4> HIDE DEF row, i
      <4>2. E.rows[i] = row
        BY <4>1
      <4> QED BY <4>2 DEF i, row
    <3>3. A.step[current][byte] \in DOMAIN m \cup {RawDead}
      BY <1>6, <1>7, <1>9, <1>12 DEF RowBytes
    <3> QED BY <3>1, <3>2, <3>3
  <2> QED BY <1>2, <2>2, <2>3, <2>4
<1>18. AcceptingMatch(A, E)
  <2> DEFINE old == {q \in D : d.number[q] < n /\ q \in A.accepting}
             new == {q \in DOMAIN m : m[q] < n + 1 /\ q \in A.accepting}
  <2>1. d.accepting = {d.number[r] : r \in old}
    BY <1>1 DEF AcceptingMatch
  <2>2. \A q \in DOMAIN m : m[q] < n + 1 <=> q = current \/ (q \in D /\ d.number[q] < n)
    <3> SUFFICES ASSUME NEW q \in DOMAIN m
                 PROVE  m[q] < n + 1 <=> q = current \/ (q \in D /\ d.number[q] < n)
      OBVIOUS
    <3>1. CASE q \in D
      <4>1. m[q] = d.number[q] /\ m[q] \in Nat
        BY <1>12, <3>1
      <4>2. m[q] = n <=> q = current
        BY <1>1, <1>9, <3>1, <4>1 DEF Counted
      <4> QED BY <1>2, <3>1, <4>1, <4>2
    <3>2. CASE q \in ToSet(N)
      <4>1. m[q] = K + place(q) - 1 /\ place(q) \in 1..Len(N) /\ q \notin D
        BY <1>11, <1>12, <3>2
      <4>2. ~(m[q] < n + 1)
        <5> HIDE DEF n, K
        <5> QED BY <1>2, <1>5, <4>1
      <4> QED BY <1>9, <4>1, <4>2
    <3> QED BY <1>12, <3>1, <3>2
  <2>3. new = IF current \in A.accepting THEN old \cup {current} ELSE old
    BY <1>9, <1>12, <2>2
  <2>4. \A r \in old \cup {current} : m[r] = d.number[r]
    BY <1>9, <1>12
  <2>5. E.accepting = {m[r] : r \in new}
    <3> HIDE DEF old, new, m
    <3>1. CASE current \in A.accepting
      <4>1. E.accepting = {d.number[r] : r \in old} \cup {m[current]} /\ new = old \cup {current}
        BY <1>8, <2>1, <2>3, <3>1
      <4> QED BY <2>4, <4>1
    <3>2. CASE current \notin A.accepting
      <4>1. E.accepting = {d.number[r] : r \in old} /\ new = old
        BY <1>8, <2>1, <2>3, <3>2
      <4> QED BY <2>4, <4>1
    <3> QED BY <3>1, <3>2
  <2> QED BY <1>15, <2>5 DEF AcceptingMatch, m
<1>19. A.start \in DOMAIN E.number /\ E.number[A.start] = 0
  BY <1>1, <1>12 DEF m
<1>21. Len(E.rows) + Len(E.queue) <= MaxDfaStates
  <2>1. K + Len(N) <= MaxDfaStates
    BY DEF HaveRoom
  <2> HIDE DEF K
  <2> QED BY <1>20, <2>1
<1> QED BY <1>14, <1>16, <1>17, <1>18, <1>19, <1>21 DEF NumberInv, E

-----------------------------------------------------------------------------
(***************************************************************************)
(* The automaton in use.                                                   *)
(***************************************************************************)

StatesOf(rows) == 0..(Len(rows) - 1)

StepIn(rows) ==
  [p \in Int \X Byte |-> IF p[1] \in StatesOf(rows) THEN rows[p[1] + 1][p[2]] ELSE Dead]

\* After, as a fold.
AfterIn(rows, s, u) == Folded(StepIn(rows), s, u)

\* Rows lead from a number to a number.
LEMMA StepInType ==
  ASSUME NEW rows \in Seq([Byte -> Int])
  PROVE  IsStep(StepIn(rows), Int, Byte)
<1>1. ASSUME NEW s \in StatesOf(rows), NEW byte \in Byte
      PROVE  rows[s + 1][byte] \in Int
  <2>1. s + 1 \in 1..Len(rows)
    BY DEF StatesOf
  <2>2. rows[s + 1] \in [Byte -> Int]
    BY <2>1
  <2> QED BY <2>2
<1>2. \A p \in Int \X Byte :
        (IF p[1] \in StatesOf(rows) THEN rows[p[1] + 1][p[2]] ELSE Dead) \in Int
  BY <1>1 DEF Dead
<1> QED BY <1>2 DEF IsStep, StepIn

\* Reading a text in the compiled automaton is such a fold.
LEMMA AfterFolds ==
  ASSUME dfa.rows \in Seq([Byte -> Int]), NEW s \in Int, NEW u \in Seq(Byte)
  PROVE  After(s, u) = AfterIn(dfa.rows, s, u)
<1> DEFINE F == StepIn(dfa.rows)
           Equation(g) ==
             g = [T \in SUBSET DOMAIN u |->
                    IF T = {} THEN s
                    ELSE LET x == Max(T) IN NextState(g[T \ {x}], u[x])]
           iter == CHOOSE g : Equation(g)
           p == Partial(F, s, u)
<1>1. IsStep(F, Int, Byte)
  BY StepInType
<1>2. \A q \in Int, byte \in Byte : F[<<q, byte>>] = NextState(q, byte)
  BY DEF StepIn, NextState, StatesOf, States, RowOf
<1>3. StepsAs(p, Int, Byte, F, s, u)
  <2> HIDE DEF F
  <2> QED BY <1>1, PartialSteps, Zenon
<1>4. DOMAIN u = 1..Len(u)
  OBVIOUS
<1>5. After(s, u) = iter[DOMAIN u]
  BY Zenon DEF After, FoldLeft, MapThenFoldSet
<1> HIDE DEF p, F
<1>6. Equation(p)
  BY <1>2, <1>3 DEF StepsAs
<1>7. Equation(iter)
  <2> HIDE DEF Equation
  <2> QED BY <1>6
<1> HIDE DEF iter
<1>8. StepAlike(iter, p, Len(u))
  BY <1>4, <1>6, <1>7 DEF StepAlike
<1>9. FoldsTo(iter, F, s, u)
  BY <1>1, <1>8, FoldsAlike, Zenon DEF p
<1> QED BY <1>5, <1>9, Zenon DEF FoldsTo, AfterIn, F

RawStepIn(A) ==
  [p \in (DOMAIN A.step \cup {RawDead}) \X Byte |->
     IF p[1] = RawDead THEN RawDead ELSE A.step[p[1]][p[2]]]

\* RawAfter, as a fold.
RawAfterIn(A, r, u) == Folded(RawStepIn(A), r, u)

\* A given automaton leads from a state, or the dead one, to another.
LEMMA RawStepInType ==
  ASSUME NEW A \in Automata
  PROVE  IsStep(RawStepIn(A), DOMAIN A.step \cup {RawDead}, Byte)
BY AutomataAssumption DEF IsStep, RawStepIn

\* Reading a text in the given automaton is such a fold.
LEMMA RawAfterFolds ==
  ASSUME raw \in Automata, NEW r \in Targets, NEW u \in Seq(Byte)
  PROVE  RawAfter(r, u) = RawAfterIn(raw, r, u)
<1> DEFINE F == RawStepIn(raw)
           Equation(g) ==
             g = [T \in SUBSET DOMAIN u |->
                    IF T = {} THEN r
                    ELSE LET x == Max(T) IN RawNext(g[T \ {x}], u[x])]
           iter == CHOOSE g : Equation(g)
           p == Partial(F, r, u)
<1>1. IsStep(F, Targets, Byte)
  BY RawStepInType DEF Targets, RawStates
<1>2. \A q \in Targets, byte \in Byte : F[<<q, byte>>] = RawNext(q, byte)
  BY DEF RawStepIn, RawNext, Targets, RawStates
<1>3. StepsAs(p, Targets, Byte, F, r, u)
  <2> HIDE DEF F
  <2> QED BY <1>1, PartialSteps, Zenon
<1>4. DOMAIN u = 1..Len(u)
  OBVIOUS
<1>5. RawAfter(r, u) = iter[DOMAIN u]
  BY Zenon DEF RawAfter, FoldLeft, MapThenFoldSet
<1> HIDE DEF p, F
<1>6. Equation(p)
  BY <1>2, <1>3 DEF StepsAs
<1>7. Equation(iter)
  <2> HIDE DEF Equation
  <2> QED BY <1>6
<1> HIDE DEF iter
<1>8. StepAlike(iter, p, Len(u))
  BY <1>4, <1>6, <1>7 DEF StepAlike
<1>9. FoldsTo(iter, F, r, u)
  BY <1>1, <1>8, FoldsAlike, Zenon DEF p
<1> QED BY <1>5, <1>9, Zenon DEF FoldsTo, RawAfterIn, F

\* Once every numbered state has its row, both automata read alike from each of them.
LEMMA ReadAlike ==
  ASSUME NEW A \in Automata, NEW d, NumberInv(A, d), d.queue = << >>,
         NEW r \in DOMAIN d.number \cup {RawDead}, NEW u \in Seq(Byte)
  PROVE  /\ RawAfterIn(A, r, u) \in DOMAIN d.number \cup {RawDead}
         /\ AfterIn(d.rows, NumberOf(d.number, r), u) = NumberOf(d.number, RawAfterIn(A, r, u))
<1> DEFINE D == DOMAIN d.number \cup {RawDead}
           T == DOMAIN A.step \cup {RawDead}
           no(q) == NumberOf(d.number, q)
           R == {<<q, no(q)>> : q \in D}
           n == Len(d.rows)
<1>1. /\ d.rows \in Seq([Byte -> Int]) /\ d.number \in Maps(DOMAIN A.step) /\ n \in Nat
      /\ Counted(d) /\ RowsMatch(A, d)
  BY DEF NumberInv, DfaType
<1>2. \A q \in DOMAIN d.number : d.number[q] \in Nat /\ d.number[q] < n /\ q \in DOMAIN A.step
  <2>1. \A q \in DOMAIN d.number : d.number[q] \in Nat /\ q \in DOMAIN A.step
    BY <1>1 DEF Maps
  <2>2. Len(d.queue) = 0
    OBVIOUS
  <2>3. \A q \in DOMAIN d.number : d.number[q] < n + 0
    BY <1>1, <2>2 DEF Counted
  <2> QED BY <1>1, <2>1, <2>3
<1>3. \A q \in D : no(q) \in Int /\ q \in T
  BY <1>2 DEF NumberOf, Dead
<1>4. ASSUME NEW q \in D, NEW byte \in Byte
      PROVE  /\ RawStepIn(A)[<<q, byte>>] \in D
             /\ StepIn(d.rows)[<<no(q), byte>>] = no(RawStepIn(A)[<<q, byte>>])
  <2>1. CASE q = RawDead
    BY <2>1, <1>1 DEF RawStepIn, StepIn, NumberOf, StatesOf, Dead
  <2>2. CASE q # RawDead
    <3>1. q \in DOMAIN d.number /\ q \in DOMAIN A.step /\ no(q) = d.number[q]
      BY <1>2, <2>2 DEF NumberOf
    <3>2. no(q) \in StatesOf(d.rows)
      BY <1>1, <1>2, <3>1 DEF StatesOf
    <3>3. RawStepIn(A)[<<q, byte>>] = A.step[q][byte]
      BY <2>2, <3>1 DEF RawStepIn
    <3>4. StepIn(d.rows)[<<no(q), byte>>] = d.rows[no(q) + 1][byte]
      BY <1>3, <3>2 DEF StepIn
    <3>5. A.step[q][byte] \in D /\ d.rows[d.number[q] + 1][byte] = no(A.step[q][byte])
      BY <1>1, <1>2, <3>1 DEF RowsMatch
    <3> QED BY <3>1, <3>3, <3>4, <3>5
  <2> QED BY <2>1, <2>2
<1>5. IsStep(RawStepIn(A), T, Byte) /\ IsStep(StepIn(d.rows), Int, Byte)
  BY <1>1, RawStepInType, StepInType
<1>6. r \in T /\ no(r) \in Int /\ <<r, no(r)>> \in R
  BY <1>3
<1>7. ASSUME NEW x \in T, NEW y \in Int, NEW byte \in Byte, <<x, y>> \in R
      PROVE  <<RawStepIn(A)[<<x, byte>>], StepIn(d.rows)[<<y, byte>>]>> \in R
  <2>1. x \in D /\ y = no(x)
    BY <1>7
  <2> QED BY <1>4, <2>1
<1> HIDE DEF R, T, no
<1>8. <<Folded(RawStepIn(A), r, u), Folded(StepIn(d.rows), no(r), u)>> \in R
  BY <1>5, <1>6, <1>7, FoldedTogether
<1> QED BY <1>8 DEF R, no, RawAfterIn, AfterIn

\* A number is accepting if its state is.
LEMMA AcceptAlike ==
  ASSUME NEW A \in Automata, NEW d, NumberInv(A, d), d.queue = << >>,
         NEW r \in DOMAIN d.number \cup {RawDead}
  PROVE  NumberOf(d.number, r) \in d.accepting <=> r \in A.accepting
<1> DEFINE n == Len(d.rows)
<1>1. d.number \in Maps(DOMAIN A.step) /\ Counted(d) /\ AcceptingMatch(A, d) /\ d.rows \in Seq([Byte -> Int])
  BY DEF NumberInv, DfaType
<1>2. \A q \in DOMAIN d.number : d.number[q] \in Nat /\ d.number[q] < n
  <2>1. \A q \in DOMAIN d.number : d.number[q] \in Nat
    BY <1>1 DEF Maps
  <2>2. Len(d.queue) = 0 /\ n \in Nat
    BY <1>1
  <2>3. \A q \in DOMAIN d.number : d.number[q] < n + 0
    BY <1>1, <2>2 DEF Counted
  <2> QED BY <2>1, <2>2, <2>3
<1>3. d.accepting = {d.number[q] : q \in {x \in DOMAIN d.number : x \in A.accepting}}
  BY <1>1, <1>2 DEF AcceptingMatch
<1>4. CASE r = RawDead
  <2>1. r \notin A.accepting
    BY <1>4, AutomataAssumption
  <2>2. Dead \notin d.accepting
    BY <1>2, <1>3 DEF Dead
  <2> QED BY <1>4, <2>1, <2>2 DEF NumberOf
<1>5. CASE r # RawDead
  <2>1. r \in DOMAIN d.number /\ NumberOf(d.number, r) = d.number[r]
    BY <1>5 DEF NumberOf
  <2>2. \A q \in DOMAIN d.number : d.number[q] = d.number[r] => q = r
    BY <1>1, <2>1 DEF Counted
  <2> QED BY <1>3, <2>1, <2>2
<1> QED BY <1>4, <1>5

-----------------------------------------------------------------------------
(***************************************************************************)
(* Predecessors.                                                           *)
(***************************************************************************)

\* The states with a byte that leads to t.
SourcesIn(rows, t) == {s \in StatesOf(rows) : \E byte \in Byte : rows[s + 1][byte] = t}

\* The predecessors that are counted are the states with a byte that leads to the target.
LEMMA Sources ==
  ASSUME dfa.rows \in Seq([Byte -> Int]), NEW t \in Nat
  PROVE  /\ {s \in States(dfa) : t \in TargetsOf(s)} = SourcesIn(dfa.rows, t)
         /\ SourcesIn(dfa.rows, t) \in SUBSET Nat
         /\ IsFiniteSet(SourcesIn(dfa.rows, t))
         /\ PredecessorCount(t) = Cardinality(SourcesIn(dfa.rows, t)) /\ PredecessorCount(t) \in Nat
<1>1. Len(dfa.rows) \in Nat
  OBVIOUS
<1>2. {s \in States(dfa) : t \in TargetsOf(s)} = SourcesIn(dfa.rows, t)
  <2>1. t # Dead
    BY DEF Dead
  <2>2. \A s : t \in TargetsOf(s) <=> \E byte \in Byte : dfa.rows[s + 1][byte] = t
    BY <2>1 DEF TargetsOf, RowOf
  <2> QED BY <2>2 DEF States, StatesOf, SourcesIn
<1>3. StatesOf(dfa.rows) \in SUBSET Nat /\ IsFiniteSet(StatesOf(dfa.rows))
  <2>1. 0 \in Int /\ Len(dfa.rows) - 1 \in Int
    BY <1>1
  <2>2. IsFiniteSet(0..(Len(dfa.rows) - 1))
    BY <2>1, FS_Interval
  <2> QED BY <1>1, <2>2 DEF StatesOf
<1>4. SourcesIn(dfa.rows, t) \in SUBSET StatesOf(dfa.rows)
  BY DEF SourcesIn
<1>5. IsFiniteSet(SourcesIn(dfa.rows, t))
  BY <1>3, <1>4, FS_Subset
<1>6. Cardinality(SourcesIn(dfa.rows, t)) \in Nat
  BY <1>5, FS_CardinalityType
<1>7. PredecessorCount(t) = Cardinality(SourcesIn(dfa.rows, t))
  BY <1>2, Zenon DEF PredecessorCount
<1> QED BY <1>2, <1>3, <1>4, <1>5, <1>6, <1>7

OffsetLists == {o \in Seq(Nat) : o # << >>}

OffsetStep == [p \in OffsetLists \X Nat |-> WithOffset(p[1], p[2])]

\* Adding an offset to a list gives a list.
LEMMA OffsetStepType ==
  ASSUME dfa.rows \in Seq([Byte -> Int])
  PROVE  IsStep(OffsetStep, OffsetLists, Nat)
<1>1. ASSUME NEW o \in OffsetLists, NEW t \in Nat
      PROVE  WithOffset(o, t) \in OffsetLists
  <2>1. PredecessorCount(t) \in Nat
    BY Sources
  <2>2. o \in Seq(Nat) /\ Len(o) \in 1..Len(o)
    BY DEF OffsetLists
  <2>3. Last(o) \in Nat
    BY <2>2 DEF Last
  <2>4. Last(o) + PredecessorCount(t) \in Nat
    BY <2>1, <2>3
  <2> QED BY <2>2, <2>4 DEF WithOffset, OffsetLists
<1> QED BY <1>1 DEF IsStep, OffsetStep

\* Laying out offsets is a fold.
LEMMA OffsetsFold ==
  ASSUME dfa.rows \in Seq([Byte -> Int]), NEW s \in Seq(Nat)
  PROVE  FoldLeft(WithOffset, <<0>>, s) = Folded(OffsetStep, <<0>>, s)
<1> DEFINE a == <<0>>
           Equation(g) ==
             g = [T \in SUBSET DOMAIN s |->
                    IF T = {} THEN a
                    ELSE LET x == Max(T) IN WithOffset(g[T \ {x}], s[x])]
           iter == CHOOSE g : Equation(g)
           p == Partial(OffsetStep, a, s)
<1>1. IsStep(OffsetStep, OffsetLists, Nat)
  BY OffsetStepType
<1>2. a \in OffsetLists
  BY DEF OffsetLists
<1>5. FoldLeft(WithOffset, a, s) = iter[DOMAIN s]
  BY Zenon DEF FoldLeft, MapThenFoldSet
<1> HIDE DEF a
<1>3. StepsAs(p, OffsetLists, Nat, OffsetStep, a, s)
  BY <1>1, <1>2, PartialSteps, Zenon
<1>4. DOMAIN s = 1..Len(s)
  OBVIOUS
<1> HIDE DEF p
<1>6. Equation(p)
  BY <1>3 DEF StepsAs, OffsetStep
<1>7. Equation(iter)
  <2> HIDE DEF Equation
  <2> QED BY <1>6
<1> HIDE DEF iter
<1>8. StepAlike(iter, p, Len(s))
  BY <1>4, <1>6, <1>7 DEF StepAlike
<1>9. FoldsTo(iter, OffsetStep, a, s)
  BY <1>1, <1>2, <1>8, FoldsAlike, Zenon DEF p
<1> QED BY <1>5, <1>9 DEF FoldsTo, a

\* The slices follow one another, each with as many places as its state has sources.
AreOffsets(o, rows) ==
  /\ o \in Seq(Nat)
  /\ Len(o) = Len(rows) + 1
  /\ o[1] = 0
  /\ \A t \in StatesOf(rows) : o[t + 2] = o[t + 1] + Cardinality(SourcesIn(rows, t))

\* Each state's slice is as long as it has predecessors, and begins where the one before it
\* ends.
LEMMA OffsetsResult ==
  ASSUME dfa.rows \in Seq([Byte -> Int])
  PROVE  AreOffsets(Offsets, dfa.rows)
<1> DEFINE n == Len(dfa.rows)
           s == [k \in 1..n |-> k - 1]
           I == {p \in Nat \X OffsetLists :
                   /\ Len(p[2]) = p[1] + 1
                   /\ p[2][1] = 0
                   /\ \A t \in 0..p[1] - 1 : p[2][t + 2] = p[2][t + 1] + PredecessorCount(t)}
<1>1. n \in Nat /\ s \in Seq(Nat) /\ Len(s) = n
  OBVIOUS
<1>2. <<0, <<0>> >> \in I
  <2> DEFINE a == <<0>>
  <2>1. a \in OffsetLists /\ Len(a) = 1 /\ a[1] = 0
    BY DEF OffsetLists
  <2> HIDE DEF a
  <2>2. <<0, a>> \in Nat \X OffsetLists /\ <<0, a>>[1] = 0 /\ <<0, a>>[2] = a
    BY <2>1
  <2>3. \A t \in 0..0 - 1 : FALSE
    OBVIOUS
  <2>4. Len(<<0, a>>[2]) = <<0, a>>[1] + 1 /\ <<0, a>>[2][1] = 0
    BY <2>1, <2>2
  <2>5. \A t \in 0..<<0, a>>[1] - 1 : <<0, a>>[2][t + 2] = <<0, a>>[2][t + 1] + PredecessorCount(t)
    BY <2>2, <2>3
  <2>6. <<0, a>> \in I
    BY <2>2, <2>4, <2>5, Zenon
  <2> QED BY <2>6 DEF a
<1>3. ASSUME NEW k \in 0..Len(s) - 1, NEW o \in OffsetLists, <<k, o>> \in I
      PROVE  <<k + 1, OffsetStep[<<o, s[k + 1]>>]>> \in I
  <2> DEFINE c == PredecessorCount(k)
             e == Append(o, o[k + 1] + c)
  <2>1. s[k + 1] = k /\ k \in Nat /\ k + 1 \in Nat
    BY <1>1
  <2>2. o \in Seq(Nat) /\ Len(o) = k + 1 /\ o[1] = 0
    BY <1>3 DEF OffsetLists
  <2>3. \A t \in 0..k - 1 : o[t + 2] = o[t + 1] + PredecessorCount(t)
    BY <1>3
  <2>4. c \in Nat /\ o[k + 1] \in Nat
    <3>1. k + 1 \in 1..Len(o)
      BY <2>1, <2>2
    <3>2. o[k + 1] \in Nat
      BY <2>2, <3>1
    <3> QED BY <2>1, <3>2, Sources
  <2>5. WithOffset(o, k) = e
    BY <2>2 DEF WithOffset, Last
  <2> HIDE DEF c
  <2> DEFINE x == o[k + 1] + c
  <2>6. x \in Nat
    BY <2>4
  <2> HIDE DEF x
  <2>7. e \in OffsetLists /\ Len(e) = k + 2 /\ e[k + 2] = o[k + 1] + c /\ \A i \in 1..k + 1 : e[i] = o[i]
    <3> DEFINE f == Append(o, x)
    <3>1. f \in Seq(Nat) /\ Len(f) = k + 2 /\ f[k + 2] = x /\ \A i \in 1..k + 1 : f[i] = o[i]
      BY <2>1, <2>2, <2>6
    <3>2. f # << >>
      BY <2>1, <3>1
    <3>3. e = f
      BY Zenon DEF x
    <3> HIDE DEF e, f
    <3> QED BY <3>1, <3>2, <3>3 DEF OffsetLists, x
  <2> HIDE DEF e
  <2>8. \A t \in 0..k : e[t + 2] = e[t + 1] + PredecessorCount(t)
    <3> SUFFICES ASSUME NEW t \in 0..k
                 PROVE  e[t + 2] = e[t + 1] + PredecessorCount(t)
      OBVIOUS
    <3>1. CASE t = k
      <4>1. e[k + 1] = o[k + 1]
        BY <2>1, <2>7
      <4> QED BY <2>7, <3>1, <4>1 DEF c
    <3>2. CASE t # k
      <4>1. t \in 0..k - 1 /\ t + 1 \in 1..k + 1 /\ t + 2 \in 1..k + 1
        BY <2>1, <3>2
      <4> QED BY <2>3, <2>7, <4>1
    <3> QED BY <3>1, <3>2
  <2>9. e[1] = 0 /\ Len(e) = k + 1 + 1 /\ 0..(k + 1) - 1 = 0..k
    BY <2>1, <2>2, <2>7
  <2>10. <<k + 1, e>> \in I
    BY <2>1, <2>7, <2>8, <2>9
  <2>11. OffsetStep[<<o, k>>] = e
    BY <2>1, <2>5 DEF OffsetStep
  <2> QED BY <2>1, <2>10, <2>11
<1>4. <<Len(s), Folded(OffsetStep, <<0>>, s)>> \in I
  <2> HIDE DEF I, s
  <2>1. IsStep(OffsetStep, OffsetLists, Nat) /\ <<0>> \in OffsetLists
    BY OffsetStepType DEF OffsetLists
  <2> QED BY <1>1, <1>2, <1>3, <2>1, FoldedKeeps
<1>5. Offsets = Folded(OffsetStep, <<0>>, s)
  BY <1>1, OffsetsFold DEF Offsets
<1>6. <<n, Offsets>> \in I
  BY <1>1, <1>4, <1>5
<1>7. \A t \in StatesOf(dfa.rows) : t \in 0..n - 1 /\ PredecessorCount(t) = Cardinality(SourcesIn(dfa.rows, t))
  BY <1>1, Sources DEF StatesOf
<1> QED BY <1>1, <1>6, <1>7 DEF AreOffsets, OffsetLists

\* A slice of c elements after a.
LEMMA SliceOfSeq ==
  ASSUME NEW p \in Seq(Nat), NEW a \in Nat, NEW c \in Nat, a + c <= Len(p)
  PROVE  /\ SubSeq(p, a + 1, a + c) \in Seq(Nat)
         /\ Len(SubSeq(p, a + 1, a + c)) = c
         /\ \A i \in 1..c : SubSeq(p, a + 1, a + c)[i] = p[a + i]
<1>1. \A i \in 1..c : a + i \in 1..Len(p) /\ a + 1 + i - 1 = a + i
  OBVIOUS
<1>2. \A i \in 1..c : p[a + i] \in Nat
  BY <1>1
<1>3. SubSeq(p, a + 1, a + c) = [i \in 1..c |-> p[a + i]]
  BY <1>1
<1> QED BY <1>2, <1>3

\* Offsets do not decrease.
LEMMA OffsetsGrow ==
  ASSUME NEW rows, Len(rows) \in Nat, NEW o, AreOffsets(o, rows),
         \A t \in StatesOf(rows) : Cardinality(SourcesIn(rows, t)) \in Nat,
         NEW i \in 1..Len(rows) + 1, NEW j \in i..Len(rows) + 1
  PROVE  o[i] \in Nat /\ o[j] \in Nat /\ o[i] <= o[j]
<1> DEFINE n == Len(rows)
           S == {k \in Nat : i + k <= n + 1 => o[i] <= o[i + k]}
<1>1. n \in Nat /\ o \in Seq(Nat) /\ Len(o) = n + 1
  BY DEF AreOffsets
<1>2. \A k \in 1..n + 1 : o[k] \in Nat
  BY <1>1
<1>3. 0 \in S
  <2>1. i + 0 = i /\ o[i] \in Nat
    BY <1>1, <1>2
  <2> QED BY <2>1
<1>4. ASSUME NEW k \in 0..(n + 1 - i) - 1, k \in S
      PROVE  k + 1 \in S
  <2> DEFINE t == i + k - 1
             c == Cardinality(SourcesIn(rows, t))
  <2>1. t \in StatesOf(rows) /\ t + 1 = i + k /\ t + 2 = i + (k + 1) /\ k \in Nat /\ k + 1 \in Nat
        /\ i + k \in 1..n + 1 /\ i + (k + 1) \in 1..n + 1 /\ i + k <= n + 1
    BY <1>1 DEF StatesOf
  <2>2. o[t + 2] = o[t + 1] + c /\ c \in Nat
    BY <2>1 DEF AreOffsets
  <2> HIDE DEF t, c
  <2>3. o[i] <= o[i + k]
    BY <1>4, <2>1
  <2>4. o[i + (k + 1)] = o[i + k] + c
    BY <2>1, <2>2
  <2>5. o[i] \in Nat /\ o[i + k] \in Nat
    BY <1>2, <2>1
  <2>6. o[i] <= o[i + (k + 1)]
    BY <2>2, <2>3, <2>4, <2>5
  <2> QED BY <2>1, <2>6
<1>5. \A k \in 0..n + 1 - i : k \in S
  <2>1. n + 1 - i \in Nat
    BY <1>1
  <2> HIDE DEF S, n
  <2> QED BY <1>3, <1>4, <2>1, UpTo
<1>6. j - i \in 0..n + 1 - i /\ i + (j - i) = j /\ j <= n + 1 /\ j \in 1..n + 1
  BY <1>1
<1>7. j - i \in S
  BY <1>5, <1>6
<1> QED BY <1>1, <1>2, <1>6, <1>7

\* The slice of a state.
SliceIn(o, p, t) == SubSeq(p, o[t + 1] + 1, o[t + 2])

\* Every state's slice holds its sources.
SlicesMatch(d) ==
  \A t \in StatesOf(d.rows) :
    /\ SliceIn(d.offsets, d.predecessors, t) \in Seq(StatesOf(d.rows))
    /\ ToSet(SliceIn(d.offsets, d.predecessors, t)) = SourcesIn(d.rows, t)

\* Placed fills each slice with the sources of its state in order.
LEMMA PlacedResult ==
  ASSUME dfa.rows \in Seq([Byte -> Int]), NEW o, AreOffsets(o, dfa.rows),
         NEW t \in StatesOf(dfa.rows)
  PROVE  /\ Placed(o) \in Seq(Nat)
         /\ SliceIn(o, Placed(o), t) = Ascending(SourcesIn(dfa.rows, t))
<1> DEFINE rows == dfa.rows
           n == Len(rows)
           sources(q) == SourcesIn(rows, q)
           owner(cursor) == CHOOSE q \in States(dfa) : o[q + 1] < cursor /\ cursor <= o[q + 2]
           p == Placed(o)
<1>1. n \in Nat /\ o \in Seq(Nat) /\ Len(o) = n + 1 /\ o[1] = 0 /\ Last(o) = o[n + 1]
  BY DEF AreOffsets, Last
<1>2. \A q \in StatesOf(rows) : q \in Nat /\ q + 1 \in 1..n + 1 /\ q + 2 \in 1..n + 1
  BY <1>1 DEF StatesOf
<1>3. \A q \in StatesOf(rows) : Cardinality(sources(q)) \in Nat
  BY <1>2, Sources
<1>4. \A i \in 1..n + 1 : \A j \in i..n + 1 : o[i] \in Nat /\ o[j] \in Nat /\ o[i] <= o[j]
  BY <1>1, <1>3, OffsetsGrow
<1>5. ASSUME NEW q \in StatesOf(rows)
      PROVE  /\ o[q + 1] \in Nat /\ o[q + 2] \in Nat
             /\ o[q + 2] = o[q + 1] + Cardinality(sources(q))
             /\ o[q + 2] <= Last(o) /\ Last(o) \in Nat
  <2>1. q + 1 \in 1..n + 1 /\ q + 2 \in 1..n + 1 /\ n + 1 \in (q + 2)..n + 1 /\ n + 1 \in (q + 1)..n + 1
    BY <1>1, <1>2
  <2>2. o[q + 1] \in Nat /\ o[q + 2] \in Nat /\ o[n + 1] \in Nat /\ o[q + 2] <= o[n + 1]
    BY <1>4, <2>1
  <2>3. o[q + 2] = o[q + 1] + Cardinality(sources(q))
    BY DEF AreOffsets
  <2> QED BY <1>1, <2>2, <2>3
<1>6. ASSUME NEW q \in StatesOf(rows), NEW r \in StatesOf(rows), NEW cursor \in Nat,
             o[q + 1] < cursor, cursor <= o[q + 2], o[r + 1] < cursor, cursor <= o[r + 2]
      PROVE  q = r
  <2>1. ASSUME NEW x \in StatesOf(rows), NEW y \in StatesOf(rows), x < y
        PROVE  o[x + 2] <= o[y + 1]
    <3>1. x \in Nat /\ y \in Nat /\ x + 2 \in 1..n + 1 /\ y + 1 \in 1..n + 1
      BY <1>2
    <3> HIDE DEF n, rows
    <3>2. y + 1 \in (x + 2)..n + 1
      BY <2>1, <3>1
    <3> QED BY <1>4, <3>1, <3>2
  <2>2. q \in Nat /\ r \in Nat
    BY <1>2
  <2>3. /\ o[q + 1] \in Nat /\ o[q + 2] \in Nat /\ o[r + 1] \in Nat /\ o[r + 2] \in Nat
    BY <1>5
  <2>4. ~(q < r)
    <3> SUFFICES ASSUME q < r
                 PROVE  FALSE
      OBVIOUS
    <3>1. o[q + 2] <= o[r + 1]
      BY <2>1
    <3> QED BY <1>6, <2>3, <3>1
  <2>5. ~(r < q)
    <3> SUFFICES ASSUME r < q
                 PROVE  FALSE
      OBVIOUS
    <3>1. o[r + 2] <= o[q + 1]
      BY <2>1
    <3> QED BY <1>6, <2>3, <3>1
  <2> QED BY <2>2, <2>4, <2>5
<1>7. States(dfa) = StatesOf(rows)
  BY DEF States, StatesOf
<1>8. ASSUME NEW q \in StatesOf(rows), NEW cursor \in Nat, o[q + 1] < cursor, cursor <= o[q + 2]
      PROVE  owner(cursor) = q
  <2>1. owner(cursor) \in StatesOf(rows) /\ o[owner(cursor) + 1] < cursor /\ cursor <= o[owner(cursor) + 2]
    BY <1>7, <1>8
  <2> HIDE DEF owner
  <2> QED BY <1>6, <1>8, <2>1
<1>9. ASSUME NEW q \in StatesOf(rows)
      PROVE  /\ Ascending(sources(q)) \in Seq(Nat)
             /\ Len(Ascending(sources(q))) = Cardinality(sources(q))
  <2>1. sources(q) \in SUBSET Nat /\ IsFiniteSet(sources(q))
    BY <1>2, Sources
  <2>2. Ascending(sources(q)) \in Seq(sources(q)) /\ Len(Ascending(sources(q))) = Cardinality(sources(q))
    BY <2>1, AscendingResult
  <2> QED BY <2>1, <2>2
<1>10. ASSUME NEW cursor \in 1..Last(o)
       PROVE  /\ owner(cursor) \in StatesOf(rows)
              /\ o[owner(cursor) + 1] < cursor /\ cursor <= o[owner(cursor) + 2]
  <2> DEFINE later == {k \in 1..n + 1 : cursor <= o[k]}
  <2>1. n + 1 \in later /\ later \in SUBSET Nat
    BY <1>1, <1>4
  <2>2. PICK k \in later : \A x \in later : k <= x
    <3> HIDE DEF later
    <3> QED BY <2>1, LeastExists
  <2>3. k # 1
    BY <1>1, <2>2
  <2>4. k - 1 \in 1..n + 1 /\ k - 1 \notin later /\ k - 2 \in StatesOf(rows)
        /\ k - 2 + 1 = k - 1 /\ k - 2 + 2 = k
    <3>1. k \in 1..n + 1 /\ \A x \in later : k <= x
      BY <2>2
    <3>2. k - 1 \notin later
      <4> HIDE DEF later, n
      <4> QED BY <1>1, <3>1
    <3> HIDE DEF later
    <3>3. k - 1 \in 1..n + 1 /\ k - 2 \in 0..n - 1 /\ k - 2 + 1 = k - 1 /\ k - 2 + 2 = k
      <4> HIDE DEF n
      <4> QED BY <1>1, <2>3, <3>1
    <3> QED BY <3>2, <3>3 DEF StatesOf
  <2>5. o[k - 1] \in Nat /\ o[k - 1] < cursor
    <3> DEFINE x == k - 1
    <3>1. x \in 1..Len(o) /\ x \in 1..n + 1 /\ x \notin later
      BY <1>1, <2>4
    <3> HIDE DEF x
    <3>2. o[x] \in Nat
      <4>1. o \in Seq(Nat)
        BY <1>1
      <4> HIDE DEF n, later
      <4> QED BY <3>1, <4>1
    <3>3. o[x] < cursor
      BY <3>1, <3>2
    <3> QED BY <3>2, <3>3 DEF x
  <2>6. \E q \in States(dfa) : o[q + 1] < cursor /\ cursor <= o[q + 2]
    <3>1. o[k - 2 + 1] < cursor /\ cursor <= o[k - 2 + 2]
      BY <2>2, <2>4, <2>5
    <3> QED BY <1>7, <2>4, <3>1
  <2> QED BY <1>7, <2>6
<1>11. p = [cursor \in 1..Last(o) |-> Ascending(sources(owner(cursor)))[cursor - o[owner(cursor) + 1]]]
  <2>1. p = [cursor \in 1..Last(o) |->
               LET q == owner(cursor)
               IN Ascending({s \in States(dfa) : q \in TargetsOf(s)})[cursor - o[q + 1]]]
    BY Zenon DEF Placed
  <2>2. \A cursor \in 1..Last(o) :
          {s \in States(dfa) : owner(cursor) \in TargetsOf(s)} = sources(owner(cursor))
    <3> SUFFICES ASSUME NEW cursor \in 1..Last(o)
                 PROVE  {s \in States(dfa) : owner(cursor) \in TargetsOf(s)} = sources(owner(cursor))
      OBVIOUS
    <3> HIDE DEF owner
    <3>1. owner(cursor) \in Nat
      BY <1>2, <1>10
    <3> QED BY <3>1, Sources
  <2> HIDE DEF p, owner
  <2> QED BY <2>1, <2>2
<1>12. p \in Seq(Nat) /\ Len(p) = Last(o)
  <2>1. ASSUME NEW cursor \in 1..Last(o)
        PROVE  Ascending(sources(owner(cursor)))[cursor - o[owner(cursor) + 1]] \in Nat
    <3> DEFINE q == owner(cursor)
               c == Cardinality(sources(q))
    <3>1. /\ q \in StatesOf(rows) /\ o[q + 1] < cursor /\ cursor <= o[q + 2]
      BY <1>10
    <3> HIDE DEF q
    <3>2. o[q + 1] \in Nat /\ o[q + 2] = o[q + 1] + c /\ c \in Nat /\ cursor \in Nat
      BY <1>3, <1>5, <3>1
    <3> HIDE DEF c
    <3>3. cursor - o[q + 1] \in 1..c
      BY <3>1, <3>2
    <3>4. Ascending(sources(q)) \in Seq(Nat) /\ Len(Ascending(sources(q))) = c
      BY <1>9, <3>1 DEF c
    <3>5. Ascending(sources(q))[cursor - o[q + 1]] \in Nat
      BY <3>3, <3>4
    <3> QED BY <3>5 DEF q
  <2>2. Last(o) \in Nat
    <3>1. n + 1 \in 1..n + 1
      BY <1>1
    <3> QED BY <1>1, <3>1
  <2> HIDE DEF p, owner
  <2> QED BY <1>11, <2>1, <2>2
<1>13. SliceIn(o, p, t) = Ascending(sources(t))
  <2> DEFINE a == o[t + 1]
             b == o[t + 2]
             s == Ascending(sources(t))
             c == Cardinality(sources(t))
  <2>1. a \in Nat /\ b \in Nat /\ b = a + c /\ b <= Last(o) /\ c \in Nat
    BY <1>3, <1>5
  <2>2. s \in Seq(Nat) /\ Len(s) = c
    BY <1>9
  <2>3. ASSUME NEW i \in 1..c
        PROVE  p[a + i] = s[i]
    <3> HIDE DEF c
    <3>1. a + i \in 1..Last(o) /\ a + i \in Nat /\ a < a + i /\ a + i <= b /\ (a + i) - a = i
      BY <1>5, <2>1
    <3> HIDE DEF p
    <3>2. owner(a + i) = t
      BY <1>8, <3>1
    <3> HIDE DEF owner
    <3>3. \A cursor \in 1..Last(o) :
            p[cursor] = Ascending(sources(owner(cursor)))[cursor - o[owner(cursor) + 1]]
      BY <1>11, Zenon
    <3> DEFINE j == a + i
    <3>4. j \in 1..Last(o) /\ owner(j) = t /\ j - a = i
      <4>1. j \in 1..Last(o) /\ j - a = i
        BY <3>1, Zenon
      <4>2. owner(j) = t
        BY <3>2, Zenon
      <4> QED BY <4>1, <4>2
    <3> HIDE DEF j
    <3>5. p[j] = Ascending(sources(owner(j)))[j - o[owner(j) + 1]]
      BY <3>3, <3>4, Zenon
    <3>6. p[j] = s[j - a]
      BY <3>4, <3>5, Zenon
    <3>7. p[j] = s[i]
      BY <3>4, <3>6, Zenon
    <3> QED BY <3>7 DEF j
  <2> HIDE DEF p, a, b, s, c
  <2>4. SubSeq(p, a + 1, b) \in Seq(Nat) /\ Len(SubSeq(p, a + 1, b)) = c
        /\ \A i \in 1..c : SubSeq(p, a + 1, b)[i] = p[a + i]
    <3>1. p \in Seq(Nat) /\ a \in Nat /\ c \in Nat /\ a + c <= Len(p) /\ b = a + c
      BY <1>12, <2>1
    <3> QED BY <3>1, SliceOfSeq
  <2>5. SubSeq(p, a + 1, b) = s
    BY <2>1, <2>2, <2>3, <2>4
  <2> QED BY <2>5 DEF SliceIn, a, b, s
<1> QED BY <1>12, <1>13

-----------------------------------------------------------------------------
(***************************************************************************)
(* Marking.                                                                *)
(***************************************************************************)

MarkStates(n) == [live : SUBSET (0..n - 1), stack : Seq(0..n - 1)]

MarkStep(n) == [p \in MarkStates(n) \X (0..n - 1) |-> Marked(p[1], p[2])]

\* Marking a predecessor keeps live states and stack in their types.
LEMMA MarkStepType ==
  ASSUME NEW n \in Nat
  PROVE  IsStep(MarkStep(n), MarkStates(n), 0..n - 1)
<1>1. ASSUME NEW m \in MarkStates(n), NEW s \in 0..n - 1
      PROVE  Marked(m, s) \in MarkStates(n)
  <2>1. m.live \in SUBSET (0..n - 1) /\ m.stack \in Seq(0..n - 1)
    BY DEF MarkStates
  <2>2. Append(m.stack, s) \in Seq(0..n - 1) /\ m.live \cup {s} \in SUBSET (0..n - 1)
    BY <2>1
  <2> QED BY <2>1, <2>2 DEF Marked, MarkStates
<1> QED BY <1>1 DEF IsStep, MarkStep

\* Marking the sources in a slice is a fold.
LEMMA MarksFold ==
  ASSUME NEW n \in Nat, NEW a \in MarkStates(n), NEW s \in Seq(0..n - 1)
  PROVE  FoldLeft(Marked, a, s) = Folded(MarkStep(n), a, s)
<1> DEFINE A == MarkStates(n)
           B == 0..n - 1
           F == MarkStep(n)
           Equation(g) ==
             g = [T \in SUBSET DOMAIN s |->
                    IF T = {} THEN a
                    ELSE LET x == Max(T) IN Marked(g[T \ {x}], s[x])]
           iter == CHOOSE g : Equation(g)
           p == Partial(F, a, s)
<1>1. IsStep(F, A, B)
  BY MarkStepType
<1>2. \A m \in A, x \in B : F[<<m, x>>] = Marked(m, x)
  BY DEF MarkStep
<1>4. DOMAIN s = 1..Len(s)
  OBVIOUS
<1>5. FoldLeft(Marked, a, s) = iter[DOMAIN s]
  BY Zenon DEF FoldLeft, MapThenFoldSet
<1> HIDE DEF A, B, F
<1>3. StepsAs(p, A, B, F, a, s)
  <2>1. a \in A /\ s \in Seq(B)
    BY DEF A, B
  <2> QED BY <1>1, <2>1, PartialSteps, Zenon
<1> HIDE DEF p
<1>6. Equation(p)
  BY <1>2, <1>3 DEF StepsAs
<1>7. Equation(iter)
  <2> HIDE DEF Equation
  <2> QED BY <1>6
<1> HIDE DEF iter
<1>8. StepAlike(iter, p, Len(s))
  BY <1>4, <1>6, <1>7 DEF StepAlike
<1>9. FoldsTo(iter, F, a, s)
  <2>1. a \in A /\ s \in Seq(B)
    BY DEF A, B
  <2> QED BY <1>1, <1>8, <2>1, FoldsAlike, Zenon DEF p
<1> QED BY <1>5, <1>9, Zenon DEF FoldsTo, F

\* From every state of L some string shorter than L is large leads to a state in goal.
AreWitnessed(rows, goal, L) ==
  \A s \in L : \E u \in Seq(Byte) : Len(u) < Cardinality(L) /\ AfterIn(rows, s, u) \in goal

\* The string that begins with a byte.
LEMMA AfterByte ==
  ASSUME NEW rows \in Seq([Byte -> Int]), NEW s \in StatesOf(rows), NEW byte \in Byte,
         NEW u \in Seq(Byte)
  PROVE  AfterIn(rows, s, <<byte>> \o u) = AfterIn(rows, rows[s + 1][byte], u)
<1> DEFINE F == StepIn(rows)
           v == <<byte>>
<1>1. IsStep(F, Int, Byte) /\ s \in Int
  BY StepInType DEF StatesOf
<1>2. F[<<s, byte>>] = rows[s + 1][byte]
  BY <1>1 DEF StepIn
<1> HIDE DEF F
<1>3. Folded(F, s, << >>) = s
  BY <1>1, FoldedEmpty
<1>4. << >> \in Seq(Byte) /\ Append(<< >>, byte) = v /\ v \in Seq(Byte)
  OBVIOUS
<1> HIDE DEF v
<1>5. \A w \in Seq(Byte), b \in Byte : Folded(F, s, Append(w, b)) = F[<<Folded(F, s, w), b>>]
  BY <1>1, FoldedLast
<1>6. Folded(F, s, v) = F[<<s, byte>>]
  BY <1>3, <1>4, <1>5
<1>7. Folded(F, s, v \o u) = Folded(F, Folded(F, s, v), u)
  <2>1. Concatenates(F, Int, Byte)
    BY <1>1, FoldedConcat
  <2> QED BY <1>1, <1>4, <2>1 DEF Concatenates
<1>8. Folded(F, s, v \o u) = Folded(F, rows[s + 1][byte], u)
  BY <1>2, <1>6, <1>7, Zenon
<1> QED BY <1>8 DEF AfterIn, F, v

\* A source of a witnessed state is one, in a set that is one larger.
LEMMA SourceIsWitnessed ==
  ASSUME NEW rows \in Seq([Byte -> Int]), NEW goal, NEW L \in SUBSET StatesOf(rows),
         AreWitnessed(rows, goal, L), NEW t \in L, NEW s \in SourcesIn(rows, t), s \notin L
  PROVE  AreWitnessed(rows, goal, L \cup {s})
<1>1. IsFiniteSet(L)
  <2>1. Len(rows) \in Nat
    OBVIOUS
  <2>2. IsFiniteSet(0..(Len(rows) - 1))
    BY <2>1, FS_Interval
  <2> QED BY <2>2, FS_Subset DEF StatesOf
<1>2. Cardinality(L \cup {s}) = Cardinality(L) + 1 /\ Cardinality(L) \in Nat
  BY <1>1, FS_AddElement, FS_CardinalityType
<1> DEFINE c == Cardinality(L)
<1> HIDE DEF c
<1>3. ASSUME NEW q \in L
      PROVE  \E u \in Seq(Byte) : Len(u) < c + 1 /\ AfterIn(rows, q, u) \in goal
  <2>1. PICK u \in Seq(Byte) : Len(u) < c /\ AfterIn(rows, q, u) \in goal
    BY DEF AreWitnessed, c
  <2>2. Len(u) < c + 1
    BY <1>2, <2>1 DEF c
  <2> QED BY <2>1, <2>2
<1>4. \E u \in Seq(Byte) : Len(u) < c + 1 /\ AfterIn(rows, s, u) \in goal
  <2>1. PICK u \in Seq(Byte) : Len(u) < c /\ AfterIn(rows, t, u) \in goal
    BY DEF AreWitnessed, c
  <2>2. PICK byte \in Byte : rows[s + 1][byte] = t
    BY DEF SourcesIn
  <2> DEFINE v == <<byte>> \o u
  <2>3. v \in Seq(Byte) /\ Len(v) = Len(u) + 1
    OBVIOUS
  <2>4. AfterIn(rows, s, v) = AfterIn(rows, t, u)
    BY <2>2, AfterByte DEF SourcesIn
  <2>5. Len(v) < c + 1
    BY <1>2, <2>1, <2>3 DEF c
  <2> HIDE DEF v
  <2> QED BY <2>1, <2>3, <2>4, <2>5
<1> QED BY <1>2, <1>3, <1>4 DEF AreWitnessed, c

\* A sequence is its last element after the others.
LEMMA FrontAndLast ==
  ASSUME NEW L, NEW s \in Seq(L), Len(s) >= 1
  PROVE  Last(s) \in L /\ Front(s) \in Seq(L) /\ ToSet(s) = ToSet(Front(s)) \cup {Last(s)}
<1> DEFINE n == Len(s) - 1
           f == SubSeq(s, 1, n)
<1>1. n \in Nat /\ Len(s) = n + 1 /\ DOMAIN s = 1..n + 1 /\ n + 1 \in 1..n + 1
  OBVIOUS
<1>2. Last(s) = s[n + 1] /\ Front(s) = f
  BY <1>1 DEF Last, Front
<1> HIDE DEF n
<1>3. \A i \in 1..n + 1 : s[i] \in L
  BY <1>1
<1>4. f \in Seq(L) /\ DOMAIN f = 1..n /\ \A i \in 1..n : f[i] = s[i]
  BY <1>1
<1> HIDE DEF f
<1>5. \A i \in 1..n + 1 : i \in 1..n \/ i = n + 1
  BY <1>1
<1>6. \A i \in 1..n : i \in 1..n + 1
  BY <1>1
<1>7. ToSet(s) = ToSet(f) \cup {s[n + 1]}
  BY <1>1, <1>4, <1>5, <1>6 DEF ToSet
<1> QED BY <1>1, <1>2, <1>3, <1>4, <1>7

MarkInv(d) ==
  /\ d.rows \in Seq([Byte -> Int])
  /\ SlicesMatch(d)
  /\ d.accepting \subseteq d.live
  /\ d.live \subseteq StatesOf(d.rows)
  /\ d.stack \in Seq(d.live)
  /\ \A t \in d.live \ ToSet(d.stack) : SourcesIn(d.rows, t) \subseteq d.live
  /\ AreWitnessed(d.rows, d.accepting, d.live)

\* What a turn of the marking makes of the live states and the stack.
LEMMA MarkResult ==
  ASSUME NEW d, MarkInv(d), d.stack # << >>
  PROVE  LET t == Last(d.stack)
             slice == SliceIn(d.offsets, d.predecessors, t)
             m == FoldLeft(Marked, [live |-> d.live, stack |-> Front(d.stack)], slice)
         IN /\ m.live \subseteq StatesOf(d.rows)
            /\ d.live \subseteq m.live
            /\ m.stack \in Seq(m.live)
            /\ \A q \in m.live \ ToSet(m.stack) : SourcesIn(d.rows, q) \subseteq m.live
            /\ AreWitnessed(d.rows, d.accepting, m.live)
<1> DEFINE t == Last(d.stack)
           slice == SliceIn(d.offsets, d.predecessors, t)
           n == Len(d.rows)
           front == Front(d.stack)
           a == [live |-> d.live, stack |-> front]
           A == MarkStates(n)
           I == {p \in Nat \X A : p[1] <= Len(slice) =>
                   /\ d.live \subseteq p[2].live
                   /\ p[2].stack \in Seq(p[2].live)
                   /\ \A i \in 1..p[1] : slice[i] \in p[2].live
                   /\ ToSet(front) \subseteq ToSet(p[2].stack)
                   /\ p[2].live \ ToSet(p[2].stack) \subseteq d.live
                   /\ AreWitnessed(d.rows, d.accepting, p[2].live)}
<1>1. n \in Nat /\ StatesOf(d.rows) = 0..n - 1 /\ d.live \subseteq 0..n - 1 /\ d.stack \in Seq(d.live)
      /\ d.rows \in Seq([Byte -> Int])
  BY DEF MarkInv, StatesOf
<1>2. t \in d.live /\ front \in Seq(d.live) /\ ToSet(d.stack) = ToSet(front) \cup {t}
  <2> DEFINE s == d.stack
             L == d.live
  <2>1. s \in Seq(L) /\ Len(s) \in Nat /\ Len(s) >= 1
    BY <1>1
  <2> HIDE DEF s, L
  <2>2. Last(s) \in L /\ Front(s) \in Seq(L) /\ ToSet(s) = ToSet(Front(s)) \cup {Last(s)}
    BY <2>1, FrontAndLast
  <2> QED BY <2>2 DEF s, L
<1>3. slice \in Seq(0..n - 1) /\ ToSet(slice) = SourcesIn(d.rows, t)
  BY <1>1, <1>2 DEF MarkInv, SlicesMatch
<1>4. a \in A
  <2>1. front \in Seq(0..n - 1)
    BY <1>1, <1>2
  <2> QED BY <1>1, <2>1 DEF MarkStates
<1> HIDE DEF t, slice, front, n
<1>5. <<0, a>> \in I
  <2>1. \A i \in 1..0 : FALSE
    OBVIOUS
  <2>2. AreWitnessed(d.rows, d.accepting, d.live)
    BY DEF MarkInv
  <2> QED BY <1>2, <1>4, <2>1, <2>2
<1>6. ASSUME NEW k \in 0..Len(slice) - 1, NEW m \in A, <<k, m>> \in I
      PROVE  <<k + 1, MarkStep(n)[<<m, slice[k + 1]>>]>> \in I
  <2> DEFINE s == slice[k + 1]
             e == Marked(m, s)
  <2>1. k \in Nat /\ k + 1 \in Nat /\ k <= Len(slice) /\ k + 1 <= Len(slice) /\ k + 1 \in 1..Len(slice)
    BY <1>3
  <2>2. s \in 0..n - 1 /\ s \in SourcesIn(d.rows, t)
    <3>1. k + 1 \in DOMAIN slice
      BY <1>3, <2>1
    <3>2. s \in ToSet(slice)
      BY <3>1 DEF ToSet
    <3>3. \A i \in DOMAIN slice : slice[i] \in 0..n - 1
      <4> DEFINE B == 0..n - 1
      <4>1. slice \in Seq(B)
        BY <1>3
      <4> HIDE DEF B
      <4>2. \A i \in DOMAIN slice : slice[i] \in B
        BY <4>1
      <4> QED BY <4>2 DEF B
    <3> QED BY <1>3, <3>1, <3>2, <3>3
  <2>3. /\ d.live \subseteq m.live
        /\ m.stack \in Seq(m.live)
        /\ \A i \in 1..k : slice[i] \in m.live
        /\ ToSet(front) \subseteq ToSet(m.stack)
        /\ m.live \ ToSet(m.stack) \subseteq d.live
        /\ AreWitnessed(d.rows, d.accepting, m.live)
    BY <1>6, <2>1
  <2>4. m.live \subseteq StatesOf(d.rows)
    BY <1>1 DEF MarkStates
  <2> HIDE DEF s
  <2>5. e \in A
    <3>1. MarkStep(n) \in [A \X (0..n - 1) -> A]
      BY <1>1, MarkStepType, Zenon DEF IsStep
    <3>2. MarkStep(n)[<<m, s>>] = e
      BY <2>2 DEF MarkStep
    <3> HIDE DEF A, e
    <3> QED BY <2>2, <3>1, <3>2
  <2>6. CASE s \in m.live
    <3>1. e = m
      BY <2>6 DEF Marked
    <3>2. \A i \in 1..k + 1 : slice[i] \in m.live
      BY <2>1, <2>3, <2>6 DEF s
    <3>3. <<k + 1, m>> \in I
      BY <2>1, <2>3, <3>2
    <3> QED BY <2>2, <3>1, <3>3 DEF MarkStep, s
  <2>7. CASE s \notin m.live
    <3>1. e.live = m.live \cup {s} /\ e.stack = Append(m.stack, s)
      BY <2>7 DEF Marked
    <3>2. AreWitnessed(d.rows, d.accepting, e.live)
      <4>1. t \in m.live
        BY <1>2, <2>3
      <4>2. AreWitnessed(d.rows, d.accepting, m.live \cup {s})
        BY <1>1, <2>2, <2>3, <2>4, <2>7, <4>1, SourceIsWitnessed, Zenon
      <4> QED BY <3>1, <4>2, Zenon
    <3>3. e.stack \in Seq(e.live) /\ ToSet(e.stack) = ToSet(m.stack) \cup {s}
      <4> DEFINE x == m.stack
                 L == m.live
      <4>1. x \in Seq(L)
        BY <2>3
      <4> HIDE DEF x, L
      <4>2. Append(x, s) \in Seq(L \cup {s})
        BY <4>1
      <4>3. ToSet(Append(x, s)) = ToSet(x) \cup {s}
        <5>1. /\ Len(x) \in Nat /\ DOMAIN x = 1..Len(x) /\ DOMAIN Append(x, s) = 1..Len(x) + 1
              /\ Append(x, s)[Len(x) + 1] = s /\ \A i \in 1..Len(x) : Append(x, s)[i] = x[i]
          BY <4>1
        <5> DEFINE y == Append(x, s)
        <5> HIDE DEF y
        <5>2. \A i \in DOMAIN y : y[i] \in ToSet(x) \cup {s}
          BY <5>1 DEF ToSet, y
        <5>3. \A i \in DOMAIN x : x[i] \in ToSet(y)
          BY <5>1 DEF ToSet, y
        <5>4. s \in ToSet(y)
          BY <5>1 DEF ToSet, y
        <5> QED BY <5>2, <5>3, <5>4 DEF ToSet, y
      <4> QED BY <3>1, <4>2, <4>3 DEF x, L
    <3>4. \A i \in 1..k + 1 : slice[i] \in e.live
      BY <2>1, <2>3, <3>1 DEF s
    <3> HIDE DEF e
    <3>5. <<k + 1, e>> \in I
      <4>1. d.live \subseteq e.live /\ ToSet(front) \subseteq ToSet(e.stack)
            /\ e.live \ ToSet(e.stack) \subseteq d.live
        BY <2>3, <3>1, <3>3
      <4> QED BY <2>1, <2>5, <3>2, <3>3, <3>4, <4>1
    <3> QED BY <2>2, <3>5 DEF MarkStep, s, e
  <2> QED BY <2>6, <2>7
<1>7. <<Len(slice), Folded(MarkStep(n), a, slice)>> \in I
  <2>1. IsStep(MarkStep(n), A, 0..n - 1)
    BY <1>1, MarkStepType
  <2> HIDE DEF I, A, a
  <2> QED BY <1>3, <1>4, <1>5, <1>6, <2>1, FoldedKeeps
<1>8. FoldLeft(Marked, a, slice) = Folded(MarkStep(n), a, slice)
  <2> HIDE DEF a
  <2> QED BY <1>1, <1>3, <1>4, MarksFold
<1> DEFINE m == FoldLeft(Marked, a, slice)
<1>9. <<Len(slice), m>> \in I /\ Len(slice) \in Nat
  BY <1>3, <1>7, <1>8
<1> HIDE DEF m
<1>10. /\ m \in A
       /\ d.live \subseteq m.live
       /\ m.stack \in Seq(m.live)
       /\ \A i \in 1..Len(slice) : slice[i] \in m.live
       /\ ToSet(front) \subseteq ToSet(m.stack)
       /\ m.live \ ToSet(m.stack) \subseteq d.live
       /\ AreWitnessed(d.rows, d.accepting, m.live)
  BY <1>9
<1>11. SourcesIn(d.rows, t) \subseteq m.live
  BY <1>3, <1>10 DEF ToSet
<1>12. ASSUME NEW q \in m.live \ ToSet(m.stack)
       PROVE  SourcesIn(d.rows, q) \subseteq m.live
  <2>1. CASE q = t
    BY <1>11, <2>1
  <2>2. CASE q # t
    <3>1. q \in d.live \ ToSet(d.stack)
      BY <1>2, <1>10, <2>2
    <3> QED BY <1>10, <3>1 DEF MarkInv
  <2> QED BY <2>1, <2>2
<1>13. m.live \subseteq StatesOf(d.rows)
  BY <1>1, <1>10 DEF MarkStates
<1> QED BY <1>10, <1>12, <1>13 DEF m, slice, t, front

-----------------------------------------------------------------------------
(***************************************************************************)
(* The compilation.                                                        *)
(***************************************************************************)

IsMarking(d) == d.at \in {"marking", "done"}

DfaInv ==
  /\ raw \in Automata
  /\ NumberInv(raw, dfa)
  /\ IsMarking(dfa) => dfa.queue = << >> /\ dfa.rows # << >> /\ MarkInv(dfa)
  /\ dfa.at = "done" => dfa.stack = << >>

\* The invariant of the automaton: it holds to begin with.
LEMMA InitDfaInv == InitDfa => DfaInv
<1> SUFFICES ASSUME InitDfa
             PROVE  DfaInv
  OBVIOUS
<1> USE DEF InitDfa
<1>1. raw \in Automata /\ raw.start \in DOMAIN raw.step
  BY AutomataAssumption
<1> DEFINE number == [r \in {raw.start} |-> 0]
<1>2. number \in [{raw.start} -> Nat] /\ DOMAIN number = {raw.start} /\ number[raw.start] = 0
  OBVIOUS
<1>3. dfa.number = number /\ dfa.queue = <<raw.start>> /\ dfa.rows = << >> /\ dfa.accepting = {}
      /\ dfa.at = "numbering"
  OBVIOUS
<1>4. dfa \in DfaType(raw)
  <2>1. number \in Maps(DOMAIN raw.step)
    BY <1>1, <1>2 DEF Maps
  <2>2. <<raw.start>> \in Seq(DOMAIN raw.step)
    <3> DEFINE x == raw.start
               R == DOMAIN raw.step
    <3>1. x \in R
      BY <1>1
    <3> HIDE DEF x, R
    <3>2. <<x>> \in Seq(R)
      BY <3>1
    <3> QED BY <3>2 DEF x, R
  <2> QED BY <2>1, <2>2 DEF DfaType
<1>5. Counted(dfa)
  <2>1. IsFiniteSet({raw.start}) /\ Cardinality({raw.start}) = 1
    BY FS_Singleton
  <2>2. Len(dfa.rows) = 0 /\ Len(dfa.queue) = 1 /\ dfa.queue[1] = raw.start
    BY <1>3
  <2> HIDE DEF number
  <2> QED BY <1>2, <1>3, <2>1, <2>2 DEF Counted
<1>6. RowsMatch(raw, dfa) /\ AcceptingMatch(raw, dfa)
  <2>1. \A r \in DOMAIN dfa.number : ~(dfa.number[r] < Len(dfa.rows))
    BY <1>2, <1>3
  <2> QED BY <1>3, <2>1 DEF RowsMatch, AcceptingMatch
<1>7. NumberInv(raw, dfa)
  BY <1>1, <1>2, <1>3, <1>4, <1>5, <1>6 DEF NumberInv
<1> QED BY <1>1, <1>3, <1>7 DEF DfaInv, IsMarking

\* NumberInv is about some of the tables.
LEMMA SameTables ==
  ASSUME NEW A, NEW d, NEW e, NumberInv(A, d), e \in DfaType(A),
         e.number = d.number, e.queue = d.queue, e.rows = d.rows, e.accepting = d.accepting
  PROVE  NumberInv(A, e)
<1>1. Counted(d) /\ RowsMatch(A, d) /\ AcceptingMatch(A, d)
  BY DEF NumberInv
<1>2. Counted(e)
  BY <1>1 DEF Counted
<1>3. RowsMatch(A, e)
  BY <1>1 DEF RowsMatch
<1>4. AcceptingMatch(A, e)
  BY <1>1 DEF AcceptingMatch
<1> QED BY <1>2, <1>3, <1>4 DEF NumberInv

\* Numbering a state.
LEMMA NumberStateKeepsInv == DfaInv /\ NumberState => DfaInv'
<1> SUFFICES ASSUME DfaInv, NumberState
             PROVE  DfaInv'
  OBVIOUS
<1> DEFINE current == Head(dfa.queue)
           new == NewTargets(current)
<1>1. raw \in Automata /\ NumberInv(raw, dfa) /\ raw' = raw
      /\ dfa.at = "numbering" /\ dfa.queue # << >>
  BY DEF DfaInv, NumberState
<1>2. dfa.queue \in Seq(DOMAIN raw.step) /\ dfa \in DfaType(raw)
  BY <1>1 DEF NumberInv, DfaType
<1>3. AreNew(new, raw, dfa, current)
  <2>1. current \in RawStates
    BY <1>1, <1>2 DEF RawStates
  <2> QED BY <1>1, <2>1, NewTargetsResult
<1> DEFINE sum == Cardinality(DOMAIN dfa.number) + Len(new)
<1>4a. sum > MaxDfaStates <=> ~HaveRoom(new, dfa)
  <2>1. IsFiniteSet(DOMAIN dfa.number)
    BY <1>1 DEF NumberInv, Counted
  <2>2. Cardinality(DOMAIN dfa.number) \in Nat /\ Len(new) \in Nat /\ MaxDfaStates \in Nat
    BY <1>3, <2>1, FS_CardinalityType, AutomataAssumption DEF AreNew
  <2>3. sum \in Nat
    BY <2>2
  <2>4. HaveRoom(new, dfa) <=> sum <= MaxDfaStates
    BY DEF HaveRoom
  <2> HIDE DEF sum
  <2> QED BY <2>2, <2>3, <2>4
<1>4. CASE ~HaveRoom(new, dfa)
  <2>1. dfa' = [dfa EXCEPT !.at = "refused"]
    <3>1. sum > MaxDfaStates
      BY <1>4, <1>4a
    <3> QED BY <3>1, Zenon DEF NumberState
  <2>2. /\ dfa'.at = "refused" /\ dfa'.number = dfa.number /\ dfa'.queue = dfa.queue
        /\ dfa'.rows = dfa.rows /\ dfa'.accepting = dfa.accepting /\ dfa' \in DfaType(raw)
    BY <1>2, <2>1 DEF DfaType
  <2>3. NumberInv(raw, dfa')
    BY <1>1, <2>2, SameTables
  <2> QED BY <1>1, <2>2, <2>3 DEF DfaInv, IsMarking
<1>5. CASE HaveRoom(new, dfa)
  <2>1. dfa' = Extended(raw, dfa, new)
    <3>1. ~(sum > MaxDfaStates)
      BY <1>5, <1>4a
    <3> QED BY <3>1, Zenon DEF NumberState, Extended
  <2>2. NumberInv(raw, dfa')
    BY <1>1, <1>3, <1>5, <2>1, ExtendedKeepsInv
  <2>3. dfa'.at = "numbering"
    BY <1>1, <1>2, <2>1 DEF Extended, DfaType
  <2> QED BY <1>1, <2>2, <2>3 DEF DfaInv, IsMarking
<1> QED BY <1>4, <1>5

\* Laying out the predecessors.
LEMMA LayOutKeepsInv == DfaInv /\ LayOutPredecessors => DfaInv'
<1> SUFFICES ASSUME DfaInv, LayOutPredecessors
             PROVE  DfaInv'
  OBVIOUS
<1> DEFINE o == Offsets
           p == Placed(o)
           rows == dfa.rows
<1>1. raw \in Automata /\ NumberInv(raw, dfa) /\ raw' = raw
      /\ dfa.at = "numbering" /\ dfa.queue = << >>
  BY DEF DfaInv, LayOutPredecessors
<1>2. dfa \in DfaType(raw) /\ rows \in Seq([Byte -> Int]) /\ dfa.accepting \in SUBSET Nat
  BY <1>1 DEF NumberInv, DfaType
<1>3. dfa' = [dfa EXCEPT !.at = "marking", !.offsets = o, !.predecessors = p,
                         !.live = dfa.accepting, !.stack = Ascending(dfa.accepting)]
  BY Zenon DEF LayOutPredecessors
<1>4. AreOffsets(o, rows)
  BY <1>2, OffsetsResult
<1>5. rows # << >>
  <2>1. Counted(dfa) /\ raw.start \in DOMAIN dfa.number /\ dfa.number[raw.start] = 0
    BY <1>1 DEF NumberInv
  <2>2. dfa.number[raw.start] < Len(rows) + Len(dfa.queue)
    BY <2>1 DEF Counted
  <2>3. Len(dfa.queue) = 0
    BY <1>1
  <2> QED BY <2>1, <2>2, <2>3
<1>6. dfa.accepting \subseteq StatesOf(rows)
  <2>1. \A r \in DOMAIN dfa.number : dfa.number[r] \in Nat
    BY <1>2 DEF DfaType, Maps
  <2>2. AcceptingMatch(raw, dfa)
    BY <1>1 DEF NumberInv
  <2>3. Len(rows) \in Nat
    BY <1>2
  <2> QED BY <2>1, <2>2, <2>3 DEF AcceptingMatch, StatesOf
<1>7. IsFiniteSet(dfa.accepting)
  <2>1. Len(rows) \in Nat
    BY <1>2
  <2>2. IsFiniteSet(0..(Len(rows) - 1))
    BY <2>1, FS_Interval
  <2> QED BY <1>6, <2>2, FS_Subset DEF StatesOf
<1>8. /\ Ascending(dfa.accepting) \in Seq(dfa.accepting)
      /\ ToSet(Ascending(dfa.accepting)) = dfa.accepting
  BY <1>2, <1>7, AscendingResult
<1>9. \A t \in StatesOf(rows) :
        /\ SliceIn(o, p, t) \in Seq(StatesOf(rows))
        /\ ToSet(SliceIn(o, p, t)) = SourcesIn(rows, t)
  <2> SUFFICES ASSUME NEW t \in StatesOf(rows)
               PROVE  /\ SliceIn(o, p, t) \in Seq(StatesOf(rows))
                      /\ ToSet(SliceIn(o, p, t)) = SourcesIn(rows, t)
    OBVIOUS
  <2>1. SliceIn(o, p, t) = Ascending(SourcesIn(rows, t))
    BY <1>2, <1>4, PlacedResult
  <2>2. SourcesIn(rows, t) \in SUBSET Nat /\ IsFiniteSet(SourcesIn(rows, t))
    <3>1. dfa.rows \in Seq([Byte -> Int]) /\ t \in Nat
      BY <1>2 DEF StatesOf
    <3> QED BY <3>1, Sources, Zenon
  <2>3. /\ Ascending(SourcesIn(rows, t)) \in Seq(SourcesIn(rows, t))
        /\ ToSet(Ascending(SourcesIn(rows, t))) = SourcesIn(rows, t)
    BY <2>2, AscendingResult
  <2>4. SourcesIn(rows, t) \subseteq StatesOf(rows)
    BY DEF SourcesIn
  <2>5. Ascending(SourcesIn(rows, t)) \in Seq(StatesOf(rows))
    BY <2>3, <2>4
  <2> QED BY <2>1, <2>3, <2>5
<1>10. p \in Seq(Nat) /\ o \in Seq(Nat)
  <2>1. 0 \in StatesOf(rows)
    BY <1>2, <1>5 DEF StatesOf
  <2>2. p \in Seq(Nat)
    BY <1>2, <1>4, <2>1, PlacedResult
  <2> QED BY <1>4, <2>2 DEF AreOffsets
<1> HIDE DEF o, p
<1>11. /\ dfa'.at = "marking" /\ dfa'.number = dfa.number /\ dfa'.queue = dfa.queue
       /\ dfa'.rows = rows /\ dfa'.accepting = dfa.accepting
       /\ dfa'.offsets = o /\ dfa'.predecessors = p
       /\ dfa'.live = dfa.accepting /\ dfa'.stack = Ascending(dfa.accepting)
  BY <1>2, <1>3 DEF DfaType
<1>12. Ascending(dfa.accepting) \in Seq(Nat)
  BY <1>2, <1>8
<1>13. dfa' \in DfaType(raw)
  BY <1>2, <1>3, <1>10, <1>12 DEF DfaType
<1>14. NumberInv(raw, dfa')
  BY <1>1, <1>11, <1>13, SameTables
<1>15. AreWitnessed(rows, dfa.accepting, dfa.accepting)
  <2> SUFFICES ASSUME NEW s \in dfa.accepting
               PROVE  \E u \in Seq(Byte) : /\ Len(u) < Cardinality(dfa.accepting)
                                           /\ AfterIn(rows, s, u) \in dfa.accepting
    BY DEF AreWitnessed
  <2>1. Cardinality(dfa.accepting) \in Nat /\ Cardinality(dfa.accepting) # 0
    BY <1>7, FS_CardinalityType, FS_EmptySet
  <2>2. AfterIn(rows, s, << >>) = s
    <3>1. IsStep(StepIn(rows), Int, Byte) /\ s \in Int
      BY <1>2, StepInType
    <3>2. Folded(StepIn(rows), s, << >>) = s
      BY <3>1, FoldedEmpty
    <3> QED BY <3>2 DEF AfterIn
  <2>3. << >> \in Seq(Byte) /\ Len(<< >>) = 0
    OBVIOUS
  <2>4. Len(<< >>) < Cardinality(dfa.accepting)
    BY <2>1, <2>3
  <2>5. AfterIn(rows, s, << >>) \in dfa.accepting
    BY <2>2
  <2> QED BY <2>3, <2>4, <2>5, Zenon
<1>16. MarkInv(dfa')
  <2>1. \A t \in dfa'.live \ ToSet(dfa'.stack) : FALSE
    BY <1>8, <1>11
  <2>2. SlicesMatch(dfa')
    BY <1>9, <1>11 DEF SlicesMatch
  <2> QED BY <1>2, <1>6, <1>8, <1>11, <1>15, <2>1, <2>2 DEF MarkInv
<1> QED BY <1>1, <1>5, <1>11, <1>14, <1>16 DEF DfaInv, IsMarking

\* Marking the predecessors of a live state.
LEMMA MarkLiveKeepsInv == DfaInv /\ MarkLive => DfaInv'
<1> SUFFICES ASSUME DfaInv, MarkLive
             PROVE  DfaInv'
  OBVIOUS
<1>1. raw \in Automata /\ NumberInv(raw, dfa) /\ raw' = raw
      /\ dfa.at = "marking" /\ dfa.queue = << >> /\ dfa.rows # << >> /\ MarkInv(dfa) /\ dfa.stack # << >>
  BY DEF DfaInv, MarkLive, IsMarking
<1>2. dfa \in DfaType(raw)
  BY <1>1 DEF NumberInv
<1> DEFINE t == Last(dfa.stack)
           slice == SliceIn(dfa.offsets, dfa.predecessors, t)
           m == FoldLeft(Marked, [live |-> dfa.live, stack |-> Front(dfa.stack)], slice)
<1>3. dfa' = [dfa EXCEPT !.live = m.live, !.stack = m.stack]
  BY Zenon DEF MarkLive, SliceIn
<1>4. /\ m.live \subseteq StatesOf(dfa.rows)
      /\ dfa.live \subseteq m.live
      /\ m.stack \in Seq(m.live)
      /\ \A q \in m.live \ ToSet(m.stack) : SourcesIn(dfa.rows, q) \subseteq m.live
      /\ AreWitnessed(dfa.rows, dfa.accepting, m.live)
  BY <1>1, MarkResult
<1> HIDE DEF m
<1>5. /\ dfa'.at = "marking" /\ dfa'.number = dfa.number /\ dfa'.queue = dfa.queue
      /\ dfa'.rows = dfa.rows /\ dfa'.accepting = dfa.accepting
      /\ dfa'.offsets = dfa.offsets /\ dfa'.predecessors = dfa.predecessors
      /\ dfa'.live = m.live /\ dfa'.stack = m.stack
  BY <1>1, <1>2, <1>3 DEF DfaType
<1>6. m.live \in SUBSET Nat /\ m.stack \in Seq(Nat)
  <2>1. m.live \subseteq Nat
    BY <1>4 DEF StatesOf
  <2> QED BY <1>4, <2>1
<1>7. dfa' \in DfaType(raw)
  BY <1>2, <1>3, <1>6 DEF DfaType
<1>8. NumberInv(raw, dfa')
  BY <1>1, <1>5, <1>7, SameTables
<1>9. MarkInv(dfa')
  <2>1. SlicesMatch(dfa')
    BY <1>1, <1>5 DEF MarkInv, SlicesMatch
  <2> QED BY <1>1, <1>4, <1>5, <2>1 DEF MarkInv
<1> QED BY <1>1, <1>5, <1>8, <1>9 DEF DfaInv, IsMarking

\* The stack is empty.
LEMMA EndMarkingKeepsInv == DfaInv /\ EndMarking => DfaInv'
<1> SUFFICES ASSUME DfaInv, EndMarking
             PROVE  DfaInv'
  OBVIOUS
<1>1. raw \in Automata /\ NumberInv(raw, dfa) /\ raw' = raw
      /\ dfa.at = "marking" /\ dfa.queue = << >> /\ dfa.rows # << >> /\ MarkInv(dfa) /\ dfa.stack = << >>
      /\ dfa' = [dfa EXCEPT !.at = "done"]
  BY DEF DfaInv, EndMarking, IsMarking
<1>2. dfa \in DfaType(raw)
  BY <1>1 DEF NumberInv
<1>3. /\ dfa'.at = "done" /\ dfa'.number = dfa.number /\ dfa'.queue = dfa.queue
      /\ dfa'.rows = dfa.rows /\ dfa'.accepting = dfa.accepting
      /\ dfa'.offsets = dfa.offsets /\ dfa'.predecessors = dfa.predecessors
      /\ dfa'.live = dfa.live /\ dfa'.stack = dfa.stack
  BY <1>1, <1>2 DEF DfaType
<1>4. dfa' \in DfaType(raw)
  BY <1>1, <1>2 DEF DfaType
<1>5. NumberInv(raw, dfa')
  BY <1>1, <1>3, <1>4, SameTables
<1>6. MarkInv(dfa')
  BY <1>1, <1>3 DEF MarkInv, SlicesMatch
<1> QED BY <1>1, <1>3, <1>5, <1>6 DEF DfaInv, IsMarking

\* Every step keeps the invariant of the automaton.
LEMMA NextKeepsDfaInv == DfaInv /\ [Next]_vars => DfaInv'
<1> SUFFICES ASSUME DfaInv, [Next]_vars
             PROVE  DfaInv'
  OBVIOUS
<1>1. CASE Compiling
  <2>1. NumberState \/ LayOutPredecessors \/ MarkLive \/ EndMarking
    BY <1>1 DEF Compiling, CompileStep
  <2> QED BY <2>1, NumberStateKeepsInv, LayOutKeepsInv, MarkLiveKeepsInv, EndMarkingKeepsInv
<1>2. CASE Indexing \/ Entering \/ IndexingRegex \/ UNCHANGED vars
  <2>1. raw' = raw /\ dfa' = dfa
    BY <1>2 DEF Indexing, Entering, IndexingRegex, vars
  <2> QED BY <2>1 DEF DfaInv
<1> QED BY <1>1, <1>2 DEF Next

\* Strings that end in acceptance begin in live states, once nothing is left to mark.
LEMMA LiveIsClosed ==
  ASSUME NEW d, MarkInv(d), d.stack = << >>, NEW s \in Int, NEW u \in Seq(Byte),
         AfterIn(d.rows, s, u) \in d.live
  PROVE  s \in d.live
<1> SUFFICES ASSUME s \notin d.live
             PROVE  FALSE
  OBVIOUS
<1> DEFINE F == StepIn(d.rows)
           I == {p \in Nat \X Int : p[2] \notin d.live}
<1>1. /\ d.rows \in Seq([Byte -> Int]) /\ d.live \subseteq StatesOf(d.rows)
      /\ \A t \in d.live : SourcesIn(d.rows, t) \subseteq d.live
  <2>1. ToSet(d.stack) = {}
    BY DEF ToSet
  <2> QED BY <2>1 DEF MarkInv
<1>2. IsStep(F, Int, Byte)
  BY <1>1, StepInType
<1>3. <<0, s>> \in I
  OBVIOUS
<1>4. ASSUME NEW k \in 0..Len(u) - 1, NEW x \in Int, <<k, x>> \in I
      PROVE  <<k + 1, F[<<x, u[k + 1]>>]>> \in I
  <2> DEFINE b == u[k + 1]
  <2>1. b \in Byte /\ k + 1 \in Nat
    OBVIOUS
  <2> HIDE DEF b
  <2>2. F[<<x, b>>] \in Int
    BY <1>2, <2>1 DEF IsStep
  <2>3. F[<<x, b>>] = IF x \in StatesOf(d.rows) THEN d.rows[x + 1][b] ELSE Dead
    BY <2>1 DEF StepIn
  <2>4. F[<<x, b>>] \notin d.live
    <3>1. CASE x \in StatesOf(d.rows)
      <4>1. x \in SourcesIn(d.rows, F[<<x, b>>])
        BY <2>1, <2>3, <3>1 DEF SourcesIn
      <4> HIDE DEF F
      <4> QED BY <1>1, <1>4, <4>1
    <3>2. CASE x \notin StatesOf(d.rows)
      <4>1. Dead \notin StatesOf(d.rows)
        BY DEF StatesOf, Dead
      <4> QED BY <1>1, <2>3, <3>2, <4>1
    <3> QED BY <3>1, <3>2
  <2> HIDE DEF F
  <2> QED BY <2>1, <2>2, <2>4 DEF b
<1>5. <<Len(u), Folded(F, s, u)>> \in I
  <2> HIDE DEF I, F
  <2> QED BY <1>2, <1>3, <1>4, FoldedKeeps
<1>6. Folded(F, s, u) \notin d.live
  BY <1>5
<1> QED BY <1>6 DEF AfterIn

\* The tables hold for strings of any length.
Reads ==
  /\ \A u \in Seq(Byte) :
       LET r == RawAfter(raw.start, u)
           s == After(0, u)
       IN /\ s = IF r = RawDead THEN Dead ELSE dfa.number[r]
          /\ IsAccepting(s) <=> r \in raw.accepting
  /\ \A r \in DOMAIN dfa.number :
       IsLive(dfa.number[r]) <=> \E u \in Seq(Byte) : RawAfter(r, u) \in raw.accepting

\* Once marked, the compiled automaton reads every text as the given one does, and a live
\* state has a witness shorter than there are states.
LEMMA DoneReads ==
  ASSUME DfaInv, dfa.at = "done"
  PROVE  /\ Reads
         /\ \A r \in DOMAIN dfa.number : IsLive(dfa.number[r]) =>
              \E u \in Strings(MaxDfaStates - 1) : RawAfter(r, u) \in raw.accepting
<1> DEFINE D == DOMAIN dfa.number
           rows == dfa.rows
<1>1. /\ raw \in Automata /\ NumberInv(raw, dfa) /\ dfa.queue = << >> /\ rows # << >>
      /\ MarkInv(dfa) /\ dfa.stack = << >>
  BY DEF DfaInv, IsMarking
<1>2. /\ rows \in Seq([Byte -> Int]) /\ Len(rows) \in Nat /\ dfa.number \in Maps(RawStates)
      /\ raw.start \in D /\ dfa.number[raw.start] = 0
  BY <1>1 DEF NumberInv, DfaType, RawStates
<1>3. \A r \in D : r \in Targets /\ r # RawDead /\ dfa.number[r] \in Int
                   /\ NumberOf(dfa.number, r) = dfa.number[r]
  <2>1. RawDead \notin RawStates
    BY <1>1, AutomataAssumption DEF RawStates
  <2> QED BY <1>2, <2>1 DEF Maps, Targets, NumberOf
<1>4. Len(rows) <= MaxDfaStates
  <2>1. rows # << >> => Len(rows) + Len(dfa.queue) <= MaxDfaStates
    BY <1>1 DEF NumberInv
  <2>2. Len(dfa.queue) = 0
    BY <1>1
  <2> QED BY <1>1, <1>2, <2>1, <2>2
<1>5. ASSUME NEW r \in D, NEW u \in Seq(Byte)
      PROVE  /\ RawAfter(r, u) \in D \cup {RawDead}
             /\ After(dfa.number[r], u) = NumberOf(dfa.number, RawAfter(r, u))
             /\ After(dfa.number[r], u) = AfterIn(rows, dfa.number[r], u)
             /\ After(dfa.number[r], u) \in dfa.accepting <=> RawAfter(r, u) \in raw.accepting
  <2>1. RawAfter(r, u) = RawAfterIn(raw, r, u)
    BY <1>1, <1>3, RawAfterFolds
  <2>2. After(dfa.number[r], u) = AfterIn(rows, dfa.number[r], u)
    BY <1>2, <1>3, AfterFolds
  <2>3. /\ RawAfterIn(raw, r, u) \in D \cup {RawDead}
        /\ AfterIn(rows, NumberOf(dfa.number, r), u) = NumberOf(dfa.number, RawAfterIn(raw, r, u))
    BY <1>1, ReadAlike
  <2>4. NumberOf(dfa.number, RawAfter(r, u)) \in dfa.accepting <=> RawAfter(r, u) \in raw.accepting
    BY <1>1, <2>1, <2>3, AcceptAlike
  <2>5. NumberOf(dfa.number, r) = dfa.number[r]
    BY <1>3
  <2> QED BY <2>1, <2>2, <2>3, <2>4, <2>5
<1>6. ASSUME NEW u \in Seq(Byte)
      PROVE  LET r == RawAfter(raw.start, u)
                 s == After(0, u)
             IN /\ s = IF r = RawDead THEN Dead ELSE dfa.number[r]
                /\ IsAccepting(s) <=> r \in raw.accepting
  BY <1>2, <1>5 DEF NumberOf, IsAccepting
<1>7. ASSUME NEW r \in D, NEW u \in Seq(Byte), RawAfter(r, u) \in raw.accepting
      PROVE  IsLive(dfa.number[r])
  <2>1. AfterIn(rows, dfa.number[r], u) \in dfa.live
    BY <1>1, <1>5, <1>7 DEF MarkInv
  <2>2. dfa.number[r] \in dfa.live
    BY <1>1, <1>3, <2>1, LiveIsClosed
  <2> QED BY <2>2 DEF IsLive
<1>8. ASSUME NEW r \in D, IsLive(dfa.number[r])
      PROVE  \E u \in Seq(Byte) : u \in Strings(MaxDfaStates - 1) /\ RawAfter(r, u) \in raw.accepting
  <2> DEFINE c == Cardinality(dfa.live)
  <2>1. PICK u \in Seq(Byte) : Len(u) < c /\ AfterIn(rows, dfa.number[r], u) \in dfa.accepting
    BY <1>1, <1>8 DEF MarkInv, AreWitnessed, IsLive
  <2>2. RawAfter(r, u) \in raw.accepting
    BY <1>5, <2>1
  <2>3. c \in Nat /\ c <= Len(rows)
    <3>1. dfa.live \subseteq 0..(Len(rows) - 1)
      BY <1>1 DEF MarkInv, StatesOf
    <3>2. IsFiniteSet(0..(Len(rows) - 1)) /\ Cardinality(0..(Len(rows) - 1)) = Len(rows)
      <4> DEFINE n == Len(rows)
                 b == n - 1
      <4>1. n \in Nat
        BY <1>2
      <4>2. b \in Int /\ 0 \in Int /\ n = b + 1 /\ (0 > b => n = 0)
        <5> HIDE DEF n
        <5> QED BY <4>1
      <4> HIDE DEF b
      <4>3. IsFiniteSet(0..b) /\ Cardinality(0..b) = IF 0 > b THEN 0 ELSE b - 0 + 1
        BY <4>2, FS_Interval
      <4> HIDE DEF n
      <4>4. IsFiniteSet(0..b) /\ Cardinality(0..b) = n
        BY <4>1, <4>2, <4>3
      <4> QED BY <4>4 DEF n, b
    <3>3. IsFiniteSet(dfa.live) /\ c <= Cardinality(0..(Len(rows) - 1))
      BY <3>1, <3>2, FS_Subset
    <3> QED BY <3>2, <3>3, FS_CardinalityType
  <2>4. Len(u) \in 0..(MaxDfaStates - 1)
    <3>1. Len(u) \in Nat /\ MaxDfaStates \in Nat
      BY AutomataAssumption
    <3> HIDE DEF c
    <3> QED BY <1>2, <1>4, <2>1, <2>3, <3>1
  <2>5. u \in [1..Len(u) -> Byte]
    OBVIOUS
  <2>6. u \in Strings(MaxDfaStates - 1)
    BY <2>4, <2>5 DEF Strings
  <2> QED BY <2>2, <2>6
<1> QED BY <1>6, <1>7, <1>8 DEF Reads

\* The compiled automaton reads every string, of whatever length, as the library's
\* does, and a state is live if and only if some string leads on to acceptance: the
\* marking misses no state, however long its way, and marks none that has no way.
CompiledReads == dfa.at = "done" => Reads

\* A compiled automaton accepts every text the given one accepts and no other, of whatever
\* length, and a state is live in it exactly if some text leads from it to acceptance
\* (CompiledByteDfa::compile).
THEOREM DfaAlwaysReads == Spec => []CompiledReads
<1>1. Init => DfaInv
  BY InitDfaInv DEF Init
<1>2. DfaInv => CompiledReads
  BY DoneReads DEF CompiledReads
<1> QED BY <1>1, <1>2, NextKeepsDfaInv, PTL DEF Spec

\* Within the lengths that the automaton's size bounds, as the runs check it: a live
\* state is as few bytes from acceptance as there are states.
THEOREM DfaIsAlwaysExact == Spec => []DfaIsExact
<1>1. Init => DfaInv
  BY InitDfaInv DEF Init
<1>2. DfaInv => DfaIsExact
  <2> SUFFICES ASSUME DfaInv, dfa.at = "done"
               PROVE  /\ \A u \in Strings(MaxDfaStates) :
                           LET r == RawAfter(raw.start, u)
                               s == After(0, u)
                           IN /\ s = IF r = RawDead THEN Dead ELSE dfa.number[r]
                              /\ IsAccepting(s) <=> r \in raw.accepting
                      /\ \A r \in DOMAIN dfa.number :
                           IsLive(dfa.number[r]) <=>
                             \E u \in Strings(MaxDfaStates - 1) : RawAfter(r, u) \in raw.accepting
    BY DEF DfaIsExact
  <2>1. \A n \in Int : \A u \in Strings(n) : u \in Seq(Byte)
    BY DEF Strings
  <2>2. MaxDfaStates \in Int /\ MaxDfaStates - 1 \in Int
    BY AutomataAssumption
  <2>3. /\ Reads
        /\ \A r \in DOMAIN dfa.number : IsLive(dfa.number[r]) =>
             \E u \in Strings(MaxDfaStates - 1) : RawAfter(r, u) \in raw.accepting
    BY DoneReads
  <2> QED BY <2>1, <2>2, <2>3 DEF Reads
<1> QED BY <1>1, <1>2, NextKeepsDfaInv, PTL DEF Spec

-----------------------------------------------------------------------------
(***************************************************************************)
(* What tokens lead to.                                                    *)
(***************************************************************************)

\* The tokens of a vocabulary are byte strings, and no token has the id of EOS.
IsVocabulary(V) == \A t \in DOMAIN V : t \in Seq(Byte) /\ Eos \notin V[t]

EntriesOf(V) == UNION {{<<t, id>> : id \in V[t]} : t \in DOMAIN V}

\* Steps, of the tables d and the vocabulary V.
StepsOf(d, V, s) ==
  {e \in {<<entry[2], AfterIn(d.rows, s, entry[1])>> : entry \in EntriesOf(V)} : e[2] \in d.live}

TargetsIn(d, V, S) == {e[2] : e \in UNION {StepsOf(d, V, q) : q \in S}}

FurtherIn(d, V) ==
  [p \in (SUBSET StatesOf(d.rows)) \X [Byte -> Int] |-> p[1] \cup TargetsIn(d, V, p[1])]

\* Reached, as a fold.
ReachedIn(d, V) == Folded(FurtherIn(d, V), {0}, d.rows)

\* The steps of a state, as a set of constants.
LEMMA StepsAlike ==
  ASSUME dfa.rows \in Seq([Byte -> Int]), IsVocabulary(vocabulary), NEW s \in Int
  PROVE  Steps(s) = StepsOf(dfa, vocabulary, s)
<1>1. \A entry \in Entries : entry[1] \in Seq(Byte)
  BY DEF Entries, IsVocabulary
<1>2. \A u \in Seq(Byte) : After(s, u) = AfterIn(dfa.rows, s, u)
  BY AfterFolds
<1>3. Entries = EntriesOf(vocabulary)
  BY DEF Entries, EntriesOf
<1> HIDE DEF Entries
<1>4. \A entry \in Entries : After(s, entry[1]) = AfterIn(dfa.rows, s, entry[1])
  BY <1>1, <1>2
<1>5. {<<entry[2], After(s, entry[1])>> : entry \in Entries}
      = {<<entry[2], AfterIn(dfa.rows, s, entry[1])>> : entry \in Entries}
  BY <1>4
<1> QED BY <1>3, <1>5 DEF Steps, StepsOf, IsLive

\* Adding what a set of states leads to gives a set of states.
LEMMA FurtherInType ==
  ASSUME NEW d, NEW V, d.live \subseteq StatesOf(d.rows)
  PROVE  IsStep(FurtherIn(d, V), SUBSET StatesOf(d.rows), [Byte -> Int])
<1>1. \A S \in SUBSET StatesOf(d.rows) : S \cup TargetsIn(d, V, S) \in SUBSET StatesOf(d.rows)
  BY DEF TargetsIn, StepsOf
<1> QED BY <1>1 DEF IsStep, FurtherIn

\* The reached states, as a set of constants.
LEMMA ReachedFolds ==
  ASSUME dfa.rows \in Seq([Byte -> Int]), dfa.rows # << >>, dfa.live \subseteq StatesOf(dfa.rows),
         IsVocabulary(vocabulary)
  PROVE  Reached = ReachedIn(dfa, vocabulary)
<1> DEFINE A == SUBSET StatesOf(dfa.rows)
           B == [Byte -> Int]
           a == {0}
           s == dfa.rows
           F == FurtherIn(dfa, vocabulary)
           Equation(g) ==
             g = [T \in SUBSET DOMAIN s |->
                    IF T = {} THEN a
                    ELSE LET x == Max(T) IN Further(g[T \ {x}], s[x])]
           iter == CHOOSE g : Equation(g)
           p == Partial(F, a, s)
<1>0. a \in A /\ s \in Seq(B)
  BY DEF StatesOf
<1>1. IsStep(F, A, B)
  BY FurtherInType
<1>2. \A S \in A, row \in B : F[<<S, row>>] = Further(S, row)
  <2>1. ASSUME NEW S \in A
        PROVE  TargetsIn(dfa, vocabulary, S) = {e[2] : e \in UNION {Steps(q) : q \in S}}
    <3>1. \A q \in S : Steps(q) = StepsOf(dfa, vocabulary, q)
      BY StepsAlike DEF StatesOf
    <3> QED BY <3>1 DEF TargetsIn
  <2> QED BY <2>1 DEF FurtherIn, Further
<1>4. DOMAIN s = 1..Len(s)
  BY <1>0
<1>5. Reached = iter[DOMAIN s]
  BY Zenon DEF Reached, FoldLeft, MapThenFoldSet
<1> HIDE DEF A, B, F, a, s
<1>3. StepsAs(p, A, B, F, a, s)
  BY <1>0, <1>1, PartialSteps, Zenon
<1> HIDE DEF p
<1>6. Equation(p)
  BY <1>2, <1>3 DEF StepsAs
<1>7. Equation(iter)
  <2> HIDE DEF Equation
  <2> QED BY <1>6
<1> HIDE DEF iter
<1>8. StepAlike(iter, p, Len(s))
  BY <1>4, <1>6, <1>7 DEF StepAlike
<1>9. FoldsTo(iter, F, a, s)
  BY <1>0, <1>1, <1>8, FoldsAlike, Zenon DEF p
<1> QED BY <1>4, <1>5, <1>9, Zenon DEF FoldsTo, ReachedIn, F, a, s

\* The reached states are the least set that has the start state and, with a state,
\* all that its tokens lead to: there are as many turns as states, and a turn that
\* adds none is the last that could.
IsClosed(d, V, C) == TargetsIn(d, V, C) \subseteq C

\* The states reached by tokens are the least set that holds the start and is closed.
LEMMA ReachedIsLeast ==
  ASSUME NEW d, NEW V, d.rows \in Seq([Byte -> Int]), d.rows # << >>, d.live \subseteq StatesOf(d.rows)
  PROVE  /\ 0 \in ReachedIn(d, V)
         /\ ReachedIn(d, V) \subseteq StatesOf(d.rows)
         /\ IsClosed(d, V, ReachedIn(d, V))
         /\ \A C : 0 \in C /\ IsClosed(d, V, C) => ReachedIn(d, V) \subseteq C
<1> DEFINE Q == StatesOf(d.rows)
           A == SUBSET Q
           B == [Byte -> Int]
           F == FurtherIn(d, V)
           n == Len(d.rows)
           Grown(k, S) == IsClosed(d, V, S) \/ Cardinality(S) >= k + 1
           Least(S) == \A C : 0 \in C /\ IsClosed(d, V, C) => S \subseteq C
           I == {p \in Nat \X A : 0 \in p[2] /\ Grown(p[1], p[2]) /\ Least(p[2])}
<1>1. n \in Nat /\ {0} \in A
  BY DEF StatesOf
<1>2. IsStep(F, A, B)
  BY FurtherInType
<1>3. IsFiniteSet(Q) /\ Cardinality(Q) = n
  <2> DEFINE b == n - 1
  <2>1. b \in Int /\ 0 \in Int /\ n = b + 1 /\ (0 > b => n = 0)
    <3> HIDE DEF n
    <3> QED BY <1>1
  <2> HIDE DEF b
  <2>2. IsFiniteSet(0..b) /\ Cardinality(0..b) = IF 0 > b THEN 0 ELSE b - 0 + 1
    BY <2>1, FS_Interval
  <2> HIDE DEF n
  <2>3. IsFiniteSet(0..b) /\ Cardinality(0..b) = n
    BY <1>1, <2>1, <2>2
  <2> QED BY <2>3 DEF n, b, StatesOf
<1>4. \A S \in A : IsFiniteSet(S) /\ Cardinality(S) \in Nat /\ Cardinality(S) <= n
  <2> HIDE DEF Q, n
  <2> QED BY <1>1, <1>3, FS_Subset, FS_CardinalityType
<1>5. <<0, {0}>> \in I
  <2>1. Cardinality({0}) = 1
    BY FS_Singleton
  <2>2. Grown(0, {0})
    BY <2>1
  <2> QED BY <1>1, <2>2
<1>6. ASSUME NEW k \in 0..n - 1, NEW S \in A, <<k, S>> \in I
      PROVE  <<k + 1, F[<<S, d.rows[k + 1]>>]>> \in I
  <2> DEFINE b == d.rows[k + 1]
             T == S \cup TargetsIn(d, V, S)
  <2>1. b \in B /\ k \in Nat /\ k + 1 \in Nat
    BY <1>1
  <2> HIDE DEF b
  <2>2. F[<<S, b>>] = T
    BY <2>1 DEF FurtherIn
  <2>3. T \in A
    BY <1>2, <2>1, <2>2 DEF IsStep
  <2>4. Least(T)
    <3> SUFFICES ASSUME NEW C, 0 \in C, IsClosed(d, V, C)
                 PROVE  T \subseteq C
      BY DEF Least
    <3>1. S \subseteq C
      BY <1>6
    <3> QED BY <3>1 DEF IsClosed, TargetsIn
  <2>5. Grown(k + 1, T)
    <3>1. CASE T = S
      BY <3>1 DEF IsClosed
    <3>2. CASE T # S
      <4>1. ~IsClosed(d, V, S)
        BY <3>2 DEF IsClosed
      <4>2. Cardinality(S) >= k + 1
        BY <1>6, <4>1
      <4>3. Cardinality(S) < Cardinality(T)
        <5>1. S \subseteq T /\ IsFiniteSet(T)
          BY <1>4, <2>3
        <5> HIDE DEF T
        <5>2. Cardinality(S) <= Cardinality(T) /\ (Cardinality(S) = Cardinality(T) => S = T)
          BY <5>1, FS_Subset
        <5> QED BY <1>4, <2>3, <3>2, <5>2
      <4>4. Cardinality(S) \in Nat /\ Cardinality(T) \in Nat
        BY <1>4, <2>3
      <4> HIDE DEF T
      <4> QED BY <2>1, <4>2, <4>3, <4>4
    <3> QED BY <3>1, <3>2
  <2> HIDE DEF T, F, Grown, Least, A
  <2> QED BY <1>6, <2>1, <2>2, <2>3, <2>4, <2>5 DEF b, T
<1>7. <<n, Folded(F, {0}, d.rows)>> \in I
  <2> HIDE DEF I, F, A, B
  <2> QED BY <1>1, <1>2, <1>5, <1>6, FoldedKeeps DEF n, B
<1> DEFINE R == Folded(F, {0}, d.rows)
<1> HIDE DEF R, F
<1>8. R \in A /\ 0 \in R /\ Grown(n, R) /\ Least(R)
  BY <1>7 DEF R
<1>9. IsClosed(d, V, R)
  <2>1. Cardinality(R) \in Nat /\ Cardinality(R) <= n
    BY <1>4, <1>8
  <2> HIDE DEF n, A
  <2> QED BY <1>1, <1>8, <2>1
<1> QED BY <1>8, <1>9 DEF R, F, ReachedIn

-----------------------------------------------------------------------------
(***************************************************************************)
(* The index.                                                              *)
(***************************************************************************)

IsIndexRecord(x) ==
  x = [at |-> x.at, seen |-> x.seen, list |-> x.list, rows |-> x.rows, final |-> x.final]

\* State s may have a row, and this is it.
HasRow(d, V, s) ==
  LET steps == StepsOf(d, V, s)
  IN ~Disagree(steps) /\ (steps # {} \/ s \in d.accepting)

\* Between two turns: the states with a row are those that were worked off, and
\* what their tokens lead to was seen.
Exploring(d, V, x) ==
  /\ 0 \in d.live
  /\ 0 \in x.seen /\ x.list \subseteq x.seen
  /\ x.seen \subseteq ReachedIn(d, V)
  /\ DOMAIN x.rows = x.seen \ x.list
  /\ x.final = DOMAIN x.rows \cap d.accepting
  /\ \A s \in DOMAIN x.rows :
       /\ HasRow(d, V, s)
       /\ x.rows[s] = RowWith(StepsOf(d, V, s))
       /\ TargetsIn(d, V, {s}) \subseteq x.seen

\* The index of a language with words.
Complete(d, V, x) ==
  /\ DOMAIN x.rows = ReachedIn(d, V)
  /\ \A s \in DOMAIN x.rows :
       /\ HasRow(d, V, s)
       /\ x.rows[s] = IF s \in d.accepting THEN Put(RowWith(StepsOf(d, V, s)), Eos, s)
                      ELSE RowWith(StepsOf(d, V, s))

IndexInv ==
  /\ IsVocabulary(vocabulary)
  /\ IsIndexRecord(index)
  /\ index.at \in {"idle", "projecting", "done", "ambiguous", "incompatible"}
  /\ index.at = "idle" => index.rows = << >> /\ index.final = {}
  /\ index.at # "idle" => dfa.at = "done"
  /\ index.at = "projecting" => Exploring(dfa, vocabulary, index)
  /\ index.at = "done" =>
       IF 0 \in dfa.live THEN Complete(dfa, vocabulary, index) ELSE index.rows = << >>
  /\ index.at = "ambiguous" =>
       \E s \in ReachedIn(dfa, vocabulary) : Disagree(StepsOf(dfa, vocabulary, s))
  /\ index.at = "incompatible" =>
       \E s \in ReachedIn(dfa, vocabulary) :
         StepsOf(dfa, vocabulary, s) = {} /\ s \notin dfa.accepting

\* The tables of a compiled automaton.
LEMMA CompiledTables ==
  ASSUME DfaInv, dfa.at = "done"
  PROVE  /\ dfa.rows \in Seq([Byte -> Int]) /\ dfa.rows # << >>
         /\ dfa.live \subseteq StatesOf(dfa.rows) /\ dfa.accepting \subseteq dfa.live
BY DEF DfaInv, IsMarking, MarkInv

\* A token that is inserted, and one that is removed.
LEMMA VocabularyKept ==
  ASSUME IsVocabulary(vocabulary)
  PROVE  /\ \A t \in Token, id \in Id : TryInsert(t, id) => IsVocabulary(vocabulary')
         /\ \A t \in Token : RemoveToken(t) => IsVocabulary(vocabulary')
<1>1. ASSUME NEW t \in Token, NEW id \in Id, TryInsert(t, id)
      PROVE  IsVocabulary(vocabulary')
  <2>1. id # Eos /\ vocabulary' = Put(vocabulary, t, IdsOf(t) \cup {id}) /\ t \in Seq(Byte)
    BY <1>1, TokenAssumption DEF TryInsert
  <2>2. Eos \notin IdsOf(t) \cup {id}
    BY <2>1 DEF IdsOf, IsVocabulary
  <2> QED BY <2>1, <2>2 DEF Put, IsVocabulary
<1>2. ASSUME NEW t \in Token, RemoveToken(t)
      PROVE  IsVocabulary(vocabulary')
  BY <1>2 DEF RemoveToken, IsVocabulary
<1> QED BY <1>1, <1>2

\* One turn of the worklist.
LEMMA ExpandKeepsInv ==
  ASSUME DfaInv, IndexInv, dfa' = dfa, NEW s \in index.list, ExpandState(s)
  PROVE  IndexInv'
<1> DEFINE V == vocabulary
           T == StepsOf(dfa, V, s)
           found == {e[2] : e \in T}
<1>1. /\ index.at = "projecting" /\ dfa.at = "done" /\ vocabulary' = vocabulary
      /\ IsVocabulary(V) /\ IsIndexRecord(index) /\ Exploring(dfa, V, index)
      /\ index' = Turn(index, s, Steps(s), IsAccepting(s))
  BY DEF ExpandState, IndexInv
<1>2. /\ dfa.rows \in Seq([Byte -> Int]) /\ dfa.rows # << >>
      /\ dfa.live \subseteq StatesOf(dfa.rows)
  BY <1>1, CompiledTables
<1>3. /\ ReachedIn(dfa, V) \subseteq StatesOf(dfa.rows)
      /\ IsClosed(dfa, V, ReachedIn(dfa, V))
  BY <1>2, ReachedIsLeast
<1>4. s \in ReachedIn(dfa, V) /\ s \in Int /\ s \in index.seen
  BY <1>1, <1>3 DEF Exploring, StatesOf
<1>5. Steps(s) = T /\ (IsAccepting(s) <=> s \in dfa.accepting)
  BY <1>1, <1>2, <1>4, StepsAlike DEF IsAccepting
<1>6. found = TargetsIn(dfa, V, {s}) /\ found \subseteq ReachedIn(dfa, V)
  BY <1>3, <1>4 DEF TargetsIn, IsClosed
<1>7. CASE Disagree(T)
  <2>1. index' = [index EXCEPT !.at = "ambiguous"]
    BY <1>1, <1>5, <1>7 DEF Turn
  <2>2. index'.at = "ambiguous" /\ IsIndexRecord(index')
    BY <1>1, <2>1 DEF IsIndexRecord
  <2> QED BY <1>1, <1>4, <1>7, <2>2 DEF IndexInv
<1>8. CASE ~Disagree(T) /\ T = {} /\ s \notin dfa.accepting
  <2>1. index' = [index EXCEPT !.at = "incompatible"]
    BY <1>1, <1>5, <1>8 DEF Turn
  <2>2. index'.at = "incompatible" /\ IsIndexRecord(index')
    BY <1>1, <2>1 DEF IsIndexRecord
  <2> QED BY <1>1, <1>4, <1>8, <2>2 DEF IndexInv
<1>9. CASE ~Disagree(T) /\ (T # {} \/ s \in dfa.accepting)
  <2> DEFINE row == RowWith(T)
             rows == Put(index.rows, s, row)
             list == (index.list \ {s}) \cup (found \ index.seen)
             seen == index.seen \cup found
             final == IF IsAccepting(s) THEN index.final \cup {s} ELSE index.final
  <2>1. index' = [index EXCEPT !.final = final, !.rows = rows, !.list = list, !.seen = seen]
    BY <1>1, <1>5, <1>9 DEF Turn
  <2>2. /\ index'.at = "projecting" /\ index'.seen = seen /\ index'.list = list
        /\ index'.rows = rows /\ index'.final = final /\ IsIndexRecord(index')
    <3> HIDE DEF rows, list, seen, final
    <3> QED BY <1>1, <2>1 DEF IsIndexRecord
  <2>3. DOMAIN rows = DOMAIN index.rows \cup {s} /\ rows[s] = row
        /\ \A z \in DOMAIN index.rows : z # s => rows[z] = index.rows[z]
    BY DEF Put
  <2>4. DOMAIN rows = seen \ list
    BY <1>1, <1>4, <2>3 DEF Exploring
  <2>5. final = DOMAIN rows \cap dfa.accepting
    BY <1>1, <1>5, <2>3 DEF Exploring
  <2>6. ASSUME NEW z \in DOMAIN rows
        PROVE  /\ HasRow(dfa, V, z)
               /\ rows[z] = RowWith(StepsOf(dfa, V, z))
               /\ TargetsIn(dfa, V, {z}) \subseteq seen
    <3>1. CASE z = s
      <4>1. HasRow(dfa, V, s)
        BY <1>9 DEF HasRow
      <4> QED BY <1>6, <2>3, <3>1, <4>1
    <3>2. CASE z # s
      <4>1. z \in DOMAIN index.rows /\ rows[z] = index.rows[z]
        BY <2>3, <3>2
      <4> HIDE DEF rows
      <4> QED BY <1>1, <4>1 DEF Exploring
    <3> QED BY <3>1, <3>2
  <2>7. 0 \in dfa.live /\ 0 \in seen /\ list \subseteq seen /\ seen \subseteq ReachedIn(dfa, V)
    BY <1>1, <1>6 DEF Exploring
  <2> HIDE DEF rows, list, seen, final
  <2>8. Exploring(dfa, V, index')
    BY <2>2, <2>4, <2>5, <2>6, <2>7 DEF Exploring
  <2> QED BY <1>1, <2>2, <2>8 DEF IndexInv
<1> QED BY <1>7, <1>8, <1>9

\* The worklist is empty, and final states get the end token.
LEMMA FinishKeepsInv ==
  ASSUME DfaInv, IndexInv, dfa' = dfa, FinishIndex
  PROVE  IndexInv'
<1> DEFINE V == vocabulary
           rows == [s \in DOMAIN index.rows |->
                      IF s \in index.final THEN Put(index.rows[s], Eos, s) ELSE index.rows[s]]
<1>1. /\ index.at = "projecting" /\ dfa.at = "done" /\ vocabulary' = vocabulary
      /\ IsVocabulary(V) /\ IsIndexRecord(index) /\ Exploring(dfa, V, index)
      /\ index.list = {} /\ index' = [index EXCEPT !.at = "done", !.rows = rows]
  BY DEF FinishIndex, WithEos, IndexInv
<1>2. /\ dfa.rows \in Seq([Byte -> Int]) /\ dfa.rows # << >>
      /\ dfa.live \subseteq StatesOf(dfa.rows)
  BY <1>1, CompiledTables
<1>3. index'.at = "done" /\ index'.rows = rows /\ IsIndexRecord(index')
  <2> HIDE DEF rows
  <2> QED BY <1>1 DEF IsIndexRecord
<1>4. DOMAIN index.rows = ReachedIn(dfa, V)
  <2>1. DOMAIN index.rows = index.seen
    BY <1>1 DEF Exploring
  <2>2. IsClosed(dfa, V, index.seen)
    BY <1>1, <2>1 DEF IsClosed, Exploring, TargetsIn
  <2>3. ReachedIn(dfa, V) \subseteq index.seen
    BY <1>1, <1>2, <2>2, ReachedIsLeast DEF Exploring
  <2> QED BY <1>1, <2>1, <2>3 DEF Exploring
<1>5. Complete(dfa, V, index')
  <2>1. ASSUME NEW s \in DOMAIN rows
        PROVE  /\ HasRow(dfa, V, s)
               /\ rows[s] = IF s \in dfa.accepting THEN Put(RowWith(StepsOf(dfa, V, s)), Eos, s)
                            ELSE RowWith(StepsOf(dfa, V, s))
    <3>1. s \in DOMAIN index.rows /\ (s \in index.final <=> s \in dfa.accepting)
      BY <1>1 DEF Exploring
    <3>2. HasRow(dfa, V, s) /\ index.rows[s] = RowWith(StepsOf(dfa, V, s))
      BY <1>1, <3>1 DEF Exploring
    <3> QED BY <3>1, <3>2
  <2>2. DOMAIN rows = ReachedIn(dfa, V)
    BY <1>4
  <2> HIDE DEF rows
  <2> QED BY <1>3, <2>1, <2>2 DEF Complete
<1>6. 0 \in dfa.live
  BY <1>1 DEF Exploring
<1> HIDE DEF rows
<1> QED BY <1>1, <1>3, <1>5, <1>6 DEF IndexInv

\* The worklist starts with the start state, unless that is dead.
LEMMA BeginKeepsInv ==
  ASSUME DfaInv, IndexInv, dfa' = dfa, BeginIndex
  PROVE  IndexInv'
<1>1. /\ index.at = "idle" /\ dfa.at = "done" /\ vocabulary' = vocabulary
      /\ IsVocabulary(vocabulary) /\ IsIndexRecord(index) /\ index.rows = << >> /\ index.final = {}
      /\ index' = IF 0 \notin dfa.live /\ 0 \notin dfa.accepting THEN [index EXCEPT !.at = "done"]
                  ELSE [index EXCEPT !.at = "projecting", !.seen = {0}, !.list = {0}]
  BY DEF BeginIndex, IndexInv, IsLive, IsAccepting
<1>2. /\ dfa.rows \in Seq([Byte -> Int]) /\ dfa.rows # << >>
      /\ dfa.live \subseteq StatesOf(dfa.rows) /\ dfa.accepting \subseteq dfa.live
  BY <1>1, CompiledTables
<1>3. CASE 0 \notin dfa.live
  <2>1. index' = [index EXCEPT !.at = "done"]
    BY <1>1, <1>2, <1>3
  <2>2. index'.at = "done" /\ index'.rows = << >> /\ IsIndexRecord(index')
    BY <1>1, <2>1 DEF IsIndexRecord
  <2> QED BY <1>1, <1>3, <2>2 DEF IndexInv
<1>4. CASE 0 \in dfa.live
  <2>1. index' = [index EXCEPT !.at = "projecting", !.seen = {0}, !.list = {0}]
    BY <1>1, <1>4
  <2>2. /\ index'.at = "projecting" /\ index'.seen = {0} /\ index'.list = {0}
        /\ index'.rows = << >> /\ index'.final = {} /\ IsIndexRecord(index')
    BY <1>1, <2>1 DEF IsIndexRecord
  <2>3. 0 \in ReachedIn(dfa, vocabulary)
    BY <1>2, ReachedIsLeast
  <2>4. DOMAIN index'.rows = {}
    BY <2>2
  <2>5. Exploring(dfa, vocabulary, index')
    BY <1>4, <2>2, <2>3, <2>4 DEF Exploring
  <2> QED BY <1>1, <2>2, <2>5 DEF IndexInv
<1> QED BY <1>3, <1>4

\* Every step keeps the invariant of the index.
LEMMA NextKeepsIndexInv == DfaInv /\ IndexInv /\ [Next]_vars => IndexInv'
<1> SUFFICES ASSUME DfaInv, IndexInv, [Next]_vars
             PROVE  IndexInv'
  OBVIOUS
<1>1. CASE Compiling
  <2>1. dfa.at # "done" /\ vocabulary' = vocabulary /\ index' = index
    BY <1>1 DEF Compiling, CompileStep, NumberState, LayOutPredecessors, MarkLive, EndMarking
  <2>2. index.at = "idle"
    BY <2>1 DEF IndexInv
  <2> QED BY <2>1, <2>2 DEF IndexInv
<1>2. CASE Indexing
  <2>1. dfa' = dfa /\ IndexStep
    BY <1>2 DEF Indexing
  <2>2. CASE \/ \E t \in Token, id \in Id : TryInsert(t, id)
             \/ \E t \in Token : RemoveToken(t)
    <3>1. IsVocabulary(vocabulary') /\ index.at = "idle" /\ index' = index
      BY <2>2, VocabularyKept DEF IndexInv, TryInsert, RemoveToken
    <3> QED BY <3>1 DEF IndexInv
  <2>3. CASE BeginIndex
    BY <2>1, <2>3, BeginKeepsInv
  <2>4. CASE \E s \in index.list : ExpandState(s)
    BY <2>1, <2>4, ExpandKeepsInv
  <2>5. CASE FinishIndex
    BY <2>1, <2>5, FinishKeepsInv
  <2> QED BY <2>1, <2>2, <2>3, <2>4, <2>5 DEF IndexStep
<1>3. CASE Entering \/ IndexingRegex \/ UNCHANGED vars
  <2>1. dfa' = dfa /\ vocabulary' = vocabulary /\ index' = index
    BY <1>3 DEF Entering, IndexingRegex, vars
  <2> QED BY <2>1 DEF IndexInv
<1> QED BY <1>1, <1>2, <1>3 DEF Next

\* A row has the ids of its steps, each with where it leads.
LEMMA RowOfSteps ==
  ASSUME NEW steps, ~Disagree(steps)
  PROVE  /\ DOMAIN RowWith(steps) = {e[1] : e \in steps}
         /\ \A e \in steps : RowWith(steps)[e[1]] = e[2]
BY DEF RowWith, Disagree

\* The index is exact: rows for the states tokens lead to and no others, in each the
\* tokens after which the language can be completed and no others, and an error only
\* where every order of the worklist would end in one.
THEOREM IndexIsAlwaysExact == Spec => []IndexIsExact
<1>1. Init => DfaInv /\ IndexInv
  <2>1. Init => IndexInv
    BY DEF Init, InitIndex, IndexInv, IsVocabulary, IsIndexRecord
  <2> QED BY <2>1, InitDfaInv DEF Init
<1>2. DfaInv /\ IndexInv => IndexIsExact
  <2> SUFFICES ASSUME DfaInv, IndexInv
               PROVE  IndexIsExact
    OBVIOUS
  <2>1. CASE index.at = "idle" \/ index.at \notin {"done", "ambiguous", "incompatible"}
    BY <2>1 DEF IndexIsExact
  <2>2. CASE index.at \in {"done", "ambiguous", "incompatible"}
    <3> DEFINE V == vocabulary
               R == ReachedIn(dfa, V)
    <3>1. /\ dfa.at = "done" /\ IsVocabulary(V)
          /\ dfa.rows \in Seq([Byte -> Int]) /\ dfa.rows # << >>
          /\ dfa.live \subseteq StatesOf(dfa.rows)
      BY <2>2, CompiledTables DEF IndexInv
    <3>2. Reached = R /\ R \subseteq StatesOf(dfa.rows)
      BY <3>1, ReachedFolds, ReachedIsLeast
    <3>3. \A s \in R : s \in Int /\ Steps(s) = StepsOf(dfa, V, s)
      BY <3>1, <3>2, StepsAlike DEF StatesOf
    <3>4. \A s \in R : /\ IsAmbiguousAt(s) <=> Disagree(StepsOf(dfa, V, s))
                       /\ IsStuckAt(s) <=> StepsOf(dfa, V, s) = {} /\ s \notin dfa.accepting
      BY <3>3 DEF IsAmbiguousAt, IsStuckAt, IsAccepting, Disagree
    <3>5. ASSUME index.at = "done", IsLive(0)
          PROVE  /\ DOMAIN index.rows = Reached
                 /\ \A s \in Reached :
                      /\ ~IsAmbiguousAt(s) /\ ~IsStuckAt(s)
                      /\ DOMAIN index.rows[s] =
                           {e[1] : e \in Steps(s)} \cup (IF IsAccepting(s) THEN {Eos} ELSE {})
                      /\ \A entry \in Entries :
                           LET q == After(s, entry[1])
                           IN IsLive(q) => index.rows[s][entry[2]] = q
      <4>1. Complete(dfa, V, index)
        BY <3>5 DEF IndexInv, IsLive
      <4>2. ASSUME NEW s \in R
            PROVE  /\ ~IsAmbiguousAt(s) /\ ~IsStuckAt(s)
                   /\ DOMAIN index.rows[s] =
                        {e[1] : e \in Steps(s)} \cup (IF IsAccepting(s) THEN {Eos} ELSE {})
                   /\ \A entry \in Entries : IsLive(After(s, entry[1])) =>
                        index.rows[s][entry[2]] = After(s, entry[1])
        <5> DEFINE T == Steps(s)
                   row == RowWith(T)
        <5>1. ~IsAmbiguousAt(s) /\ ~IsStuckAt(s) /\ ~Disagree(T)
          BY <3>3, <3>4, <4>1 DEF Complete, HasRow
        <5>2. index.rows[s] = IF s \in dfa.accepting THEN Put(row, Eos, s) ELSE row
          BY <3>3, <4>1 DEF Complete
        <5>3. DOMAIN row = {e[1] : e \in T} /\ \A e \in T : row[e[1]] = e[2]
          <6> HIDE DEF T
          <6> QED BY <5>1, RowOfSteps
        <5>4. ASSUME NEW entry \in Entries, IsLive(After(s, entry[1]))
              PROVE  <<entry[2], After(s, entry[1])>> \in T /\ entry[2] # Eos
          <6>1. entry[2] # Eos
            BY <3>1 DEF Entries, IsVocabulary
          <6> HIDE DEF Entries, IsLive
          <6> QED BY <5>4, <6>1 DEF Steps
        <5> HIDE DEF T, row
        <5>5. DOMAIN index.rows[s] = DOMAIN row \cup (IF s \in dfa.accepting THEN {Eos} ELSE {})
          BY <5>2 DEF Put
        <5>6. \A id \in DOMAIN row : id # Eos => index.rows[s][id] = row[id]
          BY <5>2 DEF Put
        <5>7. ASSUME NEW entry \in Entries, IsLive(After(s, entry[1]))
              PROVE  index.rows[s][entry[2]] = After(s, entry[1])
          <6> DEFINE q == After(s, entry[1])
                     id == entry[2]
          <6>1. <<id, q>> \in T /\ id # Eos
            BY <5>4, <5>7
          <6> HIDE DEF q, id
          <6>2. id \in DOMAIN row /\ row[id] = q
            BY <5>3, <6>1
          <6>3. index.rows[s][id] = q
            BY <5>6, <6>1, <6>2
          <6> QED BY <6>3 DEF q, id
        <5> QED BY <5>1, <5>3, <5>5, <5>7 DEF IsAccepting, T
      <4>3. DOMAIN index.rows = Reached
        BY <3>2, <4>1 DEF Complete
      <4> HIDE DEF R
      <4> QED BY <3>2, <4>2, <4>3
    <3>6. ASSUME index.at = "done", ~IsLive(0)
          PROVE  index.rows = << >>
      BY <3>6 DEF IndexInv, IsLive
    <3>7. ASSUME index.at = "ambiguous"
          PROVE  \E s \in Reached : IsAmbiguousAt(s)
      BY <3>2, <3>4, <3>7 DEF IndexInv
    <3>8. ASSUME index.at = "incompatible"
          PROVE  \E s \in Reached : IsStuckAt(s)
      BY <3>2, <3>4, <3>8 DEF IndexInv
    <3> HIDE DEF R
    <3> QED BY <3>5, <3>6, <3>7, <3>8 DEF IndexIsExact
  <2> QED BY <2>1, <2>2
<1> QED BY <1>1, <1>2, NextKeepsDfaInv, NextKeepsIndexInv, PTL DEF Spec

-----------------------------------------------------------------------------
(***************************************************************************)
(* The index of the regular expression.                                    *)
(***************************************************************************)

RawLiveIn(A, r) == r # RawDead /\ (r \in A.accepting \/ \E byte \in Byte : A.step[r][byte] # RawDead)

\* RawSteps, of the automaton A and the vocabulary V.
RawStepsOf(A, V, r) ==
  {e \in {<<entry[2], RawAfterIn(A, r, entry[1])>> : entry \in EntriesOf(V)} : RawLiveIn(A, e[2])}

RawTargets(A, V, r) == {e[2] : e \in RawStepsOf(A, V, r)}

RawHasRow(A, V, r) ==
  LET steps == RawStepsOf(A, V, r)
  IN ~Disagree(steps) /\ (steps # {} \/ r \in A.accepting)

\* The steps of a raw state, as a set of constants.
LEMMA RawStepsAlike ==
  ASSUME raw \in Automata, IsVocabulary(vocabulary), NEW r \in RawStates
  PROVE  RawSteps(r) = RawStepsOf(raw, vocabulary, r)
<1>1. Entries = EntriesOf(vocabulary)
  BY DEF Entries, EntriesOf
<1>2. ASSUME NEW entry \in EntriesOf(vocabulary)
      PROVE  RawAfter(r, entry[1]) = RawAfterIn(raw, r, entry[1])
  <2>1. entry[1] \in Seq(Byte)
    BY DEF EntriesOf, IsVocabulary
  <2>2. r \in Targets
    BY DEF Targets
  <2> QED BY <2>1, <2>2, RawAfterFolds
<1>3. {<<entry[2], RawAfter(r, entry[1])>> : entry \in Entries}
        = {<<entry[2], RawAfterIn(raw, r, entry[1])>> : entry \in EntriesOf(vocabulary)}
  BY <1>1, <1>2
<1>4. \A q : IsRawLive(q) <=> RawLiveIn(raw, q)
  BY DEF IsRawLive, RawLiveIn, IsRawAccepting
<1> QED BY <1>3, <1>4 DEF RawSteps, RawStepsOf

\* What leads nowhere accepts nothing after the first byte.
LEMMA DeadEnd ==
  ASSUME NEW A \in Automata, NEW r \in DOMAIN A.step, ~RawLiveIn(A, r), NEW u \in Seq(Byte)
  PROVE  RawAfterIn(A, r, u) \notin A.accepting
<1> DEFINE F == RawStepIn(A)
           Q == DOMAIN A.step \cup {RawDead}
           I == {p \in Nat \X Q : p[2] = (IF p[1] = 0 THEN r ELSE RawDead)}
<1>1. /\ RawDead \notin DOMAIN A.step /\ A.accepting \subseteq DOMAIN A.step
      /\ r # RawDead /\ r \notin A.accepting /\ \A byte \in Byte : A.step[r][byte] = RawDead
  BY AutomataAssumption DEF RawLiveIn
<1>2. IsStep(F, Q, Byte)
  BY RawStepInType
<1>3. \A x \in Q, byte \in Byte : x \in {r, RawDead} => F[<<x, byte>>] = RawDead
  BY <1>1 DEF RawStepIn
<1>4. <<0, r>> \in I
  OBVIOUS
<1>5. ASSUME NEW k \in 0..Len(u) - 1, NEW x \in Q, <<k, x>> \in I
      PROVE  <<k + 1, F[<<x, u[k + 1]>>]>> \in I
  <2>1. u[k + 1] \in Byte /\ k + 1 \in Nat /\ k + 1 # 0 /\ x \in {r, RawDead}
    BY <1>5
  <2>2. F[<<x, u[k + 1]>>] = RawDead
    BY <1>3, <2>1
  <2> HIDE DEF F
  <2> QED BY <2>1, <2>2
<1>6. <<Len(u), Folded(F, r, u)>> \in I
  <2> HIDE DEF F, I
  <2>1. r \in Q
    OBVIOUS
  <2> HIDE DEF Q
  <2> QED BY <1>2, <1>4, <1>5, <2>1, FoldedKeeps
<1>7. Folded(F, r, u) \in {r, RawDead}
  <2> HIDE DEF F
  <2> QED BY <1>6
<1> QED BY <1>1, <1>7 DEF RawAfterIn

NoneLost(d) == d.live = StatesOf(d.rows)

\* Where the compiled automaton's steps lead, the library's lead to the state of that
\* number; and if no state is lost, the library's lead nowhere else.
LEMMA StepsMatch ==
  ASSUME DfaInv, dfa.at = "done", IsVocabulary(vocabulary), NEW r \in DOMAIN dfa.number
  PROVE  /\ RawTargets(raw, vocabulary, r) \subseteq DOMAIN dfa.number
         /\ \A e \in StepsOf(dfa, vocabulary, dfa.number[r]) :
              \E q \in DOMAIN dfa.number :
                e[2] = dfa.number[q] /\ <<e[1], q>> \in RawStepsOf(raw, vocabulary, r)
         /\ NoneLost(dfa) =>
              \A e \in RawStepsOf(raw, vocabulary, r) :
                <<e[1], dfa.number[e[2]]>> \in StepsOf(dfa, vocabulary, dfa.number[r])
<1> DEFINE D == DOMAIN dfa.number
           V == vocabulary
<1>1. /\ raw \in Automata /\ NumberInv(raw, dfa) /\ dfa.queue = << >> /\ Len(dfa.rows) \in Nat
      /\ dfa.number \in Maps(RawStates) /\ dfa.live \subseteq StatesOf(dfa.rows)
  BY DEF DfaInv, IsMarking, NumberInv, DfaType, MarkInv, RawStates
<1>2. RawDead \notin RawStates /\ \A q \in D : q \in RawStates /\ dfa.number[q] \in Nat
  BY <1>1, AutomataAssumption DEF RawStates, Maps
<1>3. ASSUME NEW t \in Seq(Byte)
      PROVE  /\ RawAfterIn(raw, r, t) \in D \cup {RawDead}
             /\ AfterIn(dfa.rows, dfa.number[r], t) =
                  IF RawAfterIn(raw, r, t) = RawDead THEN -1 ELSE dfa.number[RawAfterIn(raw, r, t)]
  <2>1. r # RawDead
    BY <1>2
  <2> QED BY <1>1, <2>1, ReadAlike DEF NumberOf, Dead
<1>4. ASSUME NEW q \in D, dfa.number[q] \in dfa.live
      PROVE  RawLiveIn(raw, q)
  <2>1. PICK u \in Seq(Byte) : RawAfter(q, u) \in raw.accepting
    BY <1>4, DoneReads DEF Reads, IsLive
  <2>2. RawAfterIn(raw, q, u) \in raw.accepting
    <3>1. q \in Targets
      BY <1>2 DEF Targets
    <3> QED BY <1>1, <2>1, <3>1, RawAfterFolds
  <2> QED BY <1>1, <1>2, <2>2, DeadEnd DEF RawStates
<1>5. \A q \in D : dfa.number[q] \in StatesOf(dfa.rows)
  <2>1. \A q \in D : dfa.number[q] < Len(dfa.rows) + 0
    BY <1>1 DEF NumberInv, Counted
  <2> QED BY <1>1, <1>2, <2>1 DEF StatesOf
<1>6. -1 \notin StatesOf(dfa.rows)
  BY <1>1 DEF StatesOf
<1>7. \A entry \in EntriesOf(V) : entry[1] \in Seq(Byte)
  BY DEF EntriesOf, IsVocabulary
<1>8. ASSUME NEW e \in RawStepsOf(raw, V, r)
      PROVE  /\ e[2] \in D
             /\ NoneLost(dfa) => <<e[1], dfa.number[e[2]]>> \in StepsOf(dfa, V, dfa.number[r])
  <2>1. PICK entry \in EntriesOf(V) : e = <<entry[2], RawAfterIn(raw, r, entry[1])>> /\ RawLiveIn(raw, e[2])
    BY DEF RawStepsOf
  <2>2. e[2] \in D
    BY <1>3, <1>7, <2>1 DEF RawLiveIn
  <2>3. AfterIn(dfa.rows, dfa.number[r], entry[1]) = dfa.number[e[2]]
    BY <1>2, <1>3, <1>7, <2>1, <2>2
  <2> QED BY <1>5, <2>1, <2>2, <2>3 DEF NoneLost, StepsOf
<1>9. ASSUME NEW e \in StepsOf(dfa, V, dfa.number[r])
      PROVE  \E q \in D : e[2] = dfa.number[q] /\ <<e[1], q>> \in RawStepsOf(raw, V, r)
  <2>1. PICK entry \in EntriesOf(V) :
          e = <<entry[2], AfterIn(dfa.rows, dfa.number[r], entry[1])>> /\ e[2] \in dfa.live
    BY DEF StepsOf
  <2> DEFINE q == RawAfterIn(raw, r, entry[1])
  <2>2. q \in D /\ e[2] = dfa.number[q]
    BY <1>1, <1>3, <1>6, <1>7, <2>1
  <2>3. RawLiveIn(raw, q)
    BY <1>4, <2>1, <2>2
  <2> QED BY <2>1, <2>2, <2>3 DEF RawStepsOf
<1> QED BY <1>8, <1>9 DEF RawTargets

\* Between two turns, as Exploring; a number seen is one that the tokens of the compiled
\* automaton lead to, if no state is lost.
RawExploring(A, d, V, x) ==
  /\ A.start \in x.seen /\ x.list \subseteq x.seen /\ x.seen \subseteq DOMAIN d.number
  /\ NoneLost(d) => \A r \in x.seen : d.number[r] \in ReachedIn(d, V)
  /\ DOMAIN x.rows = x.seen \ x.list
  /\ x.final = DOMAIN x.rows \cap A.accepting
  /\ \A r \in DOMAIN x.rows :
       /\ RawHasRow(A, V, r)
       /\ x.rows[r] = RowWith(RawStepsOf(A, V, r))
       /\ RawTargets(A, V, r) \subseteq x.seen

RawComplete(A, d, V, x) ==
  /\ A.start \in DOMAIN x.rows /\ DOMAIN x.rows \subseteq DOMAIN d.number
  /\ \A r \in DOMAIN x.rows :
       /\ RawHasRow(A, V, r)
       /\ x.rows[r] = IF r \in A.accepting THEN Put(RowWith(RawStepsOf(A, V, r)), Eos, r)
                      ELSE RowWith(RawStepsOf(A, V, r))
       /\ RawTargets(A, V, r) \subseteq DOMAIN x.rows

\* Either index is refused only where the other would be, if no state is lost.
Refused(d, V, at) ==
  NoneLost(d) =>
    \E s \in ReachedIn(d, V) :
      CASE at = "ambiguous" -> Disagree(StepsOf(d, V, s))
        [] at = "incompatible" -> StepsOf(d, V, s) = {} /\ s \notin d.accepting

IsTrieRecord(x) ==
  x = [at |-> x.at, entries |-> x.entries, nodes |-> x.nodes, reverse |-> x.reverse,
       table |-> x.table, edges |-> x.edges, ids |-> x.ids]

\* The trie is begun when the index is through.
TrieFollows ==
  /\ IsTrieRecord(trie)
  /\ trie.at # "idle" => index.at \notin {"idle", "projecting"}

RegexInv ==
  /\ IsIndexRecord(regexIndex)
  /\ regexIndex.at \in {"idle", "projecting", "done", "ambiguous", "incompatible"}
  /\ regexIndex.at = "idle" => regexIndex.rows = << >> /\ regexIndex.final = {}
  /\ regexIndex.at # "idle" => trie.at # "idle"
  /\ regexIndex.at = "projecting" => RawExploring(raw, dfa, vocabulary, regexIndex)
  /\ regexIndex.at = "done" => RawComplete(raw, dfa, vocabulary, regexIndex)
  /\ regexIndex.at \in {"ambiguous", "incompatible"} => Refused(dfa, vocabulary, regexIndex.at)

\* A compiled automaton, and what its numbers are.
LEMMA CompiledNumbers ==
  ASSUME DfaInv, dfa.at = "done"
  PROVE  /\ raw \in Automata /\ raw.start \in DOMAIN dfa.number /\ dfa.number[raw.start] = 0
         /\ \A r \in DOMAIN dfa.number : r \in RawStates /\ r # RawDead /\ dfa.number[r] \in Int
         /\ \A q, r \in DOMAIN dfa.number : dfa.number[q] = dfa.number[r] => q = r
         /\ \A r \in DOMAIN dfa.number : dfa.number[r] \in dfa.accepting <=> r \in raw.accepting
<1>1. raw \in Automata /\ NumberInv(raw, dfa) /\ dfa.queue = << >>
  BY DEF DfaInv, IsMarking
<1>2. \A r \in DOMAIN dfa.number : r \in RawStates /\ r # RawDead /\ dfa.number[r] \in Int
  BY <1>1, AutomataAssumption DEF NumberInv, DfaType, RawStates, Maps
<1>3. \A r \in DOMAIN dfa.number : dfa.number[r] \in dfa.accepting <=> r \in raw.accepting
  BY <1>1, <1>2, AcceptAlike DEF NumberOf
<1> QED BY <1>1, <1>2, <1>3 DEF NumberInv, Counted

\* If no state is lost, rows are refused together.
LEMMA RefusedTogether ==
  ASSUME DfaInv, dfa.at = "done", IsVocabulary(vocabulary), NoneLost(dfa),
         NEW r \in DOMAIN dfa.number
  PROVE  /\ Disagree(RawStepsOf(raw, vocabulary, r)) =>
              Disagree(StepsOf(dfa, vocabulary, dfa.number[r]))
         /\ RawStepsOf(raw, vocabulary, r) = {} =>
              StepsOf(dfa, vocabulary, dfa.number[r]) = {}
<1> DEFINE T == RawStepsOf(raw, vocabulary, r)
           S == StepsOf(dfa, vocabulary, dfa.number[r])
<1>1. /\ \A e \in T : e[2] \in DOMAIN dfa.number /\ <<e[1], dfa.number[e[2]]>> \in S
      /\ \A e \in S : \E q \in DOMAIN dfa.number : <<e[1], q>> \in T
  BY StepsMatch DEF RawTargets
<1>2. \A q, p \in DOMAIN dfa.number : dfa.number[q] = dfa.number[p] => q = p
  BY CompiledNumbers
<1> HIDE DEF T, S
<1>3. ASSUME Disagree(T)
      PROVE  Disagree(S)
  <2>1. PICK e, f \in T : e[1] = f[1] /\ e[2] # f[2]
    BY <1>3 DEF Disagree
  <2> DEFINE x == <<e[1], dfa.number[e[2]]>>
             y == <<f[1], dfa.number[f[2]]>>
  <2>2. x \in S /\ y \in S /\ x[1] = y[1] /\ x[2] # y[2]
    BY <1>1, <1>2, <2>1
  <2> QED BY <2>2 DEF Disagree
<1>4. T = {} => S = {}
  BY <1>1
<1> QED BY <1>3, <1>4 DEF T, S

\* One turn of the worklist.
LEMMA ExpandRawKeepsInv ==
  ASSUME DfaInv, IndexInv, TrieFollows, RegexInv,
         UNCHANGED <<raw, dfa, vocabulary, index, trie>>,
         NEW r \in regexIndex.list, ExpandRawState(r)
  PROVE  RegexInv'
<1> DEFINE V == vocabulary
           ix == regexIndex
           T == RawStepsOf(raw, V, r)
           found == {e[2] : e \in T}
<1>1. /\ ix.at = "projecting" /\ dfa.at = "done" /\ IsVocabulary(V)
      /\ IsIndexRecord(ix) /\ RawExploring(raw, dfa, V, ix)
      /\ regexIndex' = Turn(ix, r, RawSteps(r), IsRawAccepting(r))
  BY DEF ExpandRawState, IndexInv, TrieFollows, RegexInv
<1>2. r \in DOMAIN dfa.number /\ r \in ix.seen /\ r \in RawStates /\ raw \in Automata
  BY <1>1, CompiledNumbers DEF RawExploring
<1>3. RawSteps(r) = T /\ (IsRawAccepting(r) <=> r \in raw.accepting)
  BY <1>1, <1>2, RawStepsAlike DEF IsRawAccepting
<1>4. found = RawTargets(raw, V, r) /\ found \subseteq DOMAIN dfa.number
  BY <1>1, <1>2, StepsMatch DEF RawTargets
<1>5. /\ dfa.rows \in Seq([Byte -> Int]) /\ dfa.rows # << >>
      /\ dfa.live \subseteq StatesOf(dfa.rows)
  BY <1>1, CompiledTables
<1>6. NoneLost(dfa) => dfa.number[r] \in ReachedIn(dfa, V) /\ \A q \in found : dfa.number[q] \in ReachedIn(dfa, V)
  <2> SUFFICES ASSUME NoneLost(dfa)
               PROVE  dfa.number[r] \in ReachedIn(dfa, V) /\ \A q \in found : dfa.number[q] \in ReachedIn(dfa, V)
    OBVIOUS
  <2>1. dfa.number[r] \in ReachedIn(dfa, V)
    BY <1>1, <1>2 DEF RawExploring
  <2>2. IsClosed(dfa, V, ReachedIn(dfa, V))
    BY <1>5, ReachedIsLeast
  <2>3. ASSUME NEW e \in T
        PROVE  dfa.number[e[2]] \in ReachedIn(dfa, V)
    <3>1. <<e[1], dfa.number[e[2]]>> \in StepsOf(dfa, V, dfa.number[r])
      BY <1>1, <1>2, StepsMatch
    <3>2. dfa.number[e[2]] \in TargetsIn(dfa, V, ReachedIn(dfa, V))
      BY <2>1, <3>1 DEF TargetsIn
    <3> QED BY <2>2, <3>2 DEF IsClosed
  <2> QED BY <2>1, <2>3
<1>7. CASE Disagree(T)
  <2>1. regexIndex' = [ix EXCEPT !.at = "ambiguous"]
    BY <1>1, <1>3, <1>7 DEF Turn
  <2>2. regexIndex'.at = "ambiguous" /\ IsIndexRecord(regexIndex')
    BY <1>1, <2>1 DEF IsIndexRecord
  <2>3. Refused(dfa, V, "ambiguous")
    BY <1>1, <1>2, <1>6, <1>7, RefusedTogether DEF Refused
  <2> QED BY <1>1, <2>2, <2>3 DEF RegexInv
<1>8. CASE ~Disagree(T) /\ T = {} /\ r \notin raw.accepting
  <2>1. regexIndex' = [ix EXCEPT !.at = "incompatible"]
    BY <1>1, <1>3, <1>8 DEF Turn
  <2>2. regexIndex'.at = "incompatible" /\ IsIndexRecord(regexIndex')
    BY <1>1, <2>1 DEF IsIndexRecord
  <2>3. dfa.number[r] \notin dfa.accepting
    BY <1>1, <1>2, <1>8, CompiledNumbers
  <2>4. Refused(dfa, V, "incompatible")
    BY <1>1, <1>2, <1>6, <1>8, <2>3, RefusedTogether DEF Refused
  <2> QED BY <1>1, <2>2, <2>4 DEF RegexInv
<1>9. CASE ~Disagree(T) /\ (T # {} \/ r \in raw.accepting)
  <2> DEFINE row == RowWith(T)
             rows == Put(ix.rows, r, row)
             list == (ix.list \ {r}) \cup (found \ ix.seen)
             seen == ix.seen \cup found
             final == IF IsRawAccepting(r) THEN ix.final \cup {r} ELSE ix.final
  <2>1. regexIndex' = [ix EXCEPT !.final = final, !.rows = rows, !.list = list, !.seen = seen]
    BY <1>1, <1>3, <1>9 DEF Turn
  <2>2. /\ regexIndex'.at = "projecting" /\ regexIndex'.seen = seen /\ regexIndex'.list = list
        /\ regexIndex'.rows = rows /\ regexIndex'.final = final /\ IsIndexRecord(regexIndex')
    <3> HIDE DEF rows, list, seen, final
    <3> QED BY <1>1, <2>1 DEF IsIndexRecord
  <2>3. DOMAIN rows = DOMAIN ix.rows \cup {r} /\ rows[r] = row
        /\ \A z \in DOMAIN ix.rows : z # r => rows[z] = ix.rows[z]
    BY DEF Put
  <2>4. DOMAIN rows = seen \ list
    BY <1>1, <1>2, <2>3 DEF RawExploring
  <2>5. final = DOMAIN rows \cap raw.accepting
    BY <1>1, <1>3, <2>3 DEF RawExploring
  <2>6. ASSUME NEW z \in DOMAIN rows
        PROVE  /\ RawHasRow(raw, V, z)
               /\ rows[z] = RowWith(RawStepsOf(raw, V, z))
               /\ RawTargets(raw, V, z) \subseteq seen
    <3>1. CASE z = r
      <4>1. RawHasRow(raw, V, r)
        BY <1>9 DEF RawHasRow
      <4> QED BY <1>4, <2>3, <3>1, <4>1
    <3>2. CASE z # r
      <4>1. z \in DOMAIN ix.rows /\ rows[z] = ix.rows[z]
        BY <2>3, <3>2
      <4> HIDE DEF rows
      <4> QED BY <1>1, <4>1 DEF RawExploring
    <3> QED BY <3>1, <3>2
  <2>7. /\ raw.start \in seen /\ list \subseteq seen /\ seen \subseteq DOMAIN dfa.number
        /\ NoneLost(dfa) => \A q \in seen : dfa.number[q] \in ReachedIn(dfa, V)
    BY <1>1, <1>4, <1>6 DEF RawExploring
  <2> HIDE DEF rows, list, seen, final
  <2>8. RawExploring(raw, dfa, V, regexIndex')
    BY <2>2, <2>4, <2>5, <2>6, <2>7 DEF RawExploring
  <2> QED BY <1>1, <2>2, <2>8 DEF RegexInv
<1> QED BY <1>7, <1>8, <1>9

\* The worklist is empty, and final states get the end token.
LEMMA FinishRawKeepsInv ==
  ASSUME RegexInv, UNCHANGED <<raw, dfa, vocabulary, index, trie>>, FinishRegexIndex
  PROVE  RegexInv'
<1> DEFINE V == vocabulary
           ix == regexIndex
           rows == [s \in DOMAIN ix.rows |-> IF s \in ix.final THEN Put(ix.rows[s], Eos, s) ELSE ix.rows[s]]
<1>1. /\ ix.at = "projecting" /\ IsIndexRecord(ix) /\ RawExploring(raw, dfa, V, ix)
      /\ ix.list = {} /\ regexIndex' = [ix EXCEPT !.at = "done", !.rows = rows]
  BY DEF FinishRegexIndex, WithEos, RegexInv
<1>2. regexIndex'.at = "done" /\ regexIndex'.rows = rows /\ IsIndexRecord(regexIndex')
  <2> HIDE DEF rows
  <2> QED BY <1>1 DEF IsIndexRecord
<1>3. DOMAIN rows = ix.seen /\ DOMAIN ix.rows = ix.seen
  BY <1>1 DEF RawExploring
<1>4. RawComplete(raw, dfa, V, regexIndex')
  <2>1. ASSUME NEW s \in DOMAIN rows
        PROVE  /\ RawHasRow(raw, V, s)
               /\ rows[s] = IF s \in raw.accepting THEN Put(RowWith(RawStepsOf(raw, V, s)), Eos, s)
                            ELSE RowWith(RawStepsOf(raw, V, s))
               /\ RawTargets(raw, V, s) \subseteq DOMAIN rows
    <3>1. s \in DOMAIN ix.rows /\ (s \in ix.final <=> s \in raw.accepting)
      BY <1>1 DEF RawExploring
    <3>2. /\ RawHasRow(raw, V, s) /\ ix.rows[s] = RowWith(RawStepsOf(raw, V, s))
          /\ RawTargets(raw, V, s) \subseteq ix.seen
      BY <1>1, <3>1 DEF RawExploring
    <3> QED BY <1>3, <3>1, <3>2
  <2>2. raw.start \in DOMAIN rows /\ DOMAIN rows \subseteq DOMAIN dfa.number
    BY <1>1, <1>3 DEF RawExploring
  <2> HIDE DEF rows
  <2> QED BY <1>2, <2>1, <2>2 DEF RawComplete
<1> HIDE DEF rows
<1> QED BY <1>1, <1>2, <1>4 DEF RegexInv

\* The worklist starts with the start state.
LEMMA BeginRawKeepsInv ==
  ASSUME DfaInv, IndexInv, TrieFollows, RegexInv,
         UNCHANGED <<raw, dfa, vocabulary, index, trie>>, BeginRegexIndex
  PROVE  RegexInv'
<1>1. /\ regexIndex.at = "idle" /\ IsIndexRecord(regexIndex)
      /\ regexIndex.rows = << >> /\ regexIndex.final = {} /\ trie.at # "idle" /\ dfa.at = "done"
      /\ regexIndex' = [regexIndex EXCEPT !.at = "projecting", !.seen = {raw.start}, !.list = {raw.start}]
  BY DEF BeginRegexIndex, RegexInv, TrieFollows, IndexInv
<1>2. /\ regexIndex'.at = "projecting" /\ regexIndex'.seen = {raw.start}
      /\ regexIndex'.list = {raw.start} /\ regexIndex'.rows = << >> /\ regexIndex'.final = {}
      /\ IsIndexRecord(regexIndex')
  BY <1>1 DEF IsIndexRecord
<1>3. raw.start \in DOMAIN dfa.number /\ dfa.number[raw.start] = 0
  BY <1>1, CompiledNumbers
<1>4. 0 \in ReachedIn(dfa, vocabulary)
  BY <1>1, CompiledTables, ReachedIsLeast
<1>5. DOMAIN regexIndex'.rows = {}
  BY <1>2
<1>6. RawExploring(raw, dfa, vocabulary, regexIndex')
  BY <1>2, <1>3, <1>4, <1>5 DEF RawExploring
<1> QED BY <1>1, <1>2, <1>6 DEF RegexInv

\* Nothing that the trie is made of changes once it is begun.
LEMMA NextKeepsTrieFollows ==
  IndexInv /\ TrieFollows /\ [Next]_vars =>
    TrieFollows' /\ (trie.at # "idle" => trie'.at # "idle" /\ UNCHANGED <<raw, dfa, vocabulary, index>>)
<1> SUFFICES ASSUME IndexInv, TrieFollows, [Next]_vars
             PROVE  /\ TrieFollows'
                    /\ trie.at # "idle" => trie'.at # "idle" /\ UNCHANGED <<raw, dfa, vocabulary, index>>
  OBVIOUS
<1>1. CASE Compiling \/ Indexing
  <2>1. UNCHANGED trie
    BY <1>1 DEF Compiling, Indexing
  <2>2. CASE trie.at = "idle"
    BY <2>1, <2>2 DEF TrieFollows
  <2>3. CASE trie.at # "idle"
    <3>1. index.at \notin {"idle", "projecting"} /\ dfa.at = "done"
      BY <2>3 DEF TrieFollows, IndexInv
    <3>2. ~Compiling
      BY <3>1 DEF Compiling, CompileStep, NumberState, LayOutPredecessors, MarkLive, EndMarking
    <3>3. ~Indexing
      BY <3>1 DEF Indexing, IndexStep, TryInsert, RemoveToken, BeginIndex, ExpandState, FinishIndex
    <3> QED BY <1>1, <3>2, <3>3
  <2> QED BY <2>2, <2>3
<1>2. CASE Entering
  <2>1. UNCHANGED <<raw, dfa, vocabulary, index, regexIndex>> /\ TrieStep
    BY <1>2 DEF Entering
  <2>2. index.at \notin {"idle", "projecting"}
    BY <2>1 DEF TrieStep, BeginTrie, InsertEntry, LayOut, TrieFollows
  <2>3. trie'.at # "idle" /\ IsTrieRecord(trie')
    <3>1. CASE BeginTrie
      <4>1. \/ trie' = [trie EXCEPT !.at = "empty token"]
            \/ trie' = [trie EXCEPT !.at = "refused"]
            \/ trie' = [trie EXCEPT !.at = "building", !.entries = InOrder(DOMAIN vocabulary)]
        BY <3>1 DEF BeginTrie
      <4> QED BY <4>1 DEF TrieFollows, IsTrieRecord
    <3>2. CASE InsertEntry
      <4>1. /\ trie.at = "building"
            /\ \E x, y, z : \/ trie' = [trie EXCEPT !.at = "refused"]
                             \/ trie' = [trie EXCEPT !.at = "ambiguous"]
                             \/ trie' = [trie EXCEPT !.entries = x, !.nodes = y, !.reverse = z]
        BY <3>2 DEF InsertEntry
      <4> QED BY <4>1 DEF TrieFollows, IsTrieRecord
    <3>3. CASE LayOut
      <4>1. \E x, y, z : trie' = [trie EXCEPT !.at = "done", !.table = x, !.edges = y, !.ids = z]
        BY <3>3 DEF LayOut
      <4> QED BY <4>1 DEF TrieFollows, IsTrieRecord
    <3> QED BY <2>1, <3>1, <3>2, <3>3 DEF TrieStep
  <2> QED BY <2>1, <2>2, <2>3 DEF TrieFollows
<1>3. CASE IndexingRegex
  BY <1>3 DEF IndexingRegex, TrieFollows
<1>4. CASE UNCHANGED vars
  BY <1>4 DEF vars, TrieFollows
<1> QED BY <1>1, <1>2, <1>3, <1>4 DEF Next

\* Every step keeps the invariant of the regular expression's index.
LEMMA NextKeepsRegexInv == DfaInv /\ IndexInv /\ TrieFollows /\ RegexInv /\ [Next]_vars => RegexInv'
<1> SUFFICES ASSUME DfaInv, IndexInv, TrieFollows, RegexInv, [Next]_vars
             PROVE  RegexInv'
  OBVIOUS
<1>1. CASE regexIndex' = regexIndex
  <2>1. trie.at # "idle" => trie'.at # "idle" /\ UNCHANGED <<raw, dfa, vocabulary>>
    BY NextKeepsTrieFollows
  <2> QED BY <1>1, <2>1 DEF RegexInv
<1>2. CASE IndexingRegex
  <2>1. UNCHANGED <<raw, dfa, vocabulary, index, trie>> /\ RegexIndexStep
    BY <1>2 DEF IndexingRegex
  <2> QED BY <2>1, BeginRawKeepsInv, ExpandRawKeepsInv, FinishRawKeepsInv DEF RegexIndexStep, RegexIndexLoop
<1>3. regexIndex' = regexIndex \/ IndexingRegex
  BY DEF Next, Compiling, Indexing, Entering, vars
<1> QED BY <1>1, <1>2, <1>3

\* The numbers of the rows of a complete index are all those reached, and if no state
\* is lost no other.
LEMMA RowsReach ==
  ASSUME DfaInv, dfa.at = "done", IsVocabulary(vocabulary), NEW x,
         RawComplete(raw, dfa, vocabulary, x)
  PROVE  \A s \in ReachedIn(dfa, vocabulary) : \E r \in DOMAIN x.rows : dfa.number[r] = s
<1> DEFINE C == {dfa.number[r] : r \in DOMAIN x.rows}
<1>1. /\ dfa.rows \in Seq([Byte -> Int]) /\ dfa.rows # << >>
      /\ dfa.live \subseteq StatesOf(dfa.rows)
  BY CompiledTables
<1>2. 0 \in C
  BY CompiledNumbers DEF RawComplete
<1>3. IsClosed(dfa, vocabulary, C)
  <2>1. ASSUME NEW r \in DOMAIN x.rows, NEW e \in StepsOf(dfa, vocabulary, dfa.number[r])
        PROVE  e[2] \in C
    <3>1. r \in DOMAIN dfa.number /\ RawTargets(raw, vocabulary, r) \subseteq DOMAIN x.rows
      BY DEF RawComplete
    <3>2. PICK q \in DOMAIN dfa.number :
            e[2] = dfa.number[q] /\ <<e[1], q>> \in RawStepsOf(raw, vocabulary, r)
      BY <3>1, StepsMatch
    <3>3. q \in DOMAIN x.rows
      BY <3>1, <3>2 DEF RawTargets
    <3> QED BY <3>2, <3>3
  <2> QED BY <2>1 DEF IsClosed, TargetsIn
<1> HIDE DEF C
<1>4. ReachedIn(dfa, vocabulary) \subseteq C
  BY <1>1, <1>2, <1>3, ReachedIsLeast
<1> QED BY <1>4 DEF C

\* The index of the regular expression agrees with the compiled automaton's.
LEMMA RegexIsSound ==
  ASSUME DfaInv, IndexInv, TrieFollows, RegexInv
  PROVE  RegexIndexIsSound
<1> DEFINE V == vocabulary
           ix == regexIndex
           R == ReachedIn(dfa, V)
<1>1. NothingIsLost <=> NoneLost(dfa)
  BY DEF NothingIsLost, NoneLost, States, StatesOf
<1>2. CASE ix.at \notin {"done", "ambiguous", "incompatible"}
  BY <1>2 DEF RegexIndexIsSound
<1>3. CASE ix.at \in {"done", "ambiguous", "incompatible"}
  <2>1. dfa.at = "done" /\ IsVocabulary(V) /\ index.at \notin {"idle", "projecting"}
    BY <1>3 DEF RegexInv, TrieFollows, IndexInv
  <2>2. /\ dfa.rows \in Seq([Byte -> Int]) /\ dfa.rows # << >>
        /\ dfa.live \subseteq StatesOf(dfa.rows) /\ 0 \in StatesOf(dfa.rows)
    <3>1. dfa.rows \in Seq([Byte -> Int]) /\ dfa.rows # << >> /\ dfa.live \subseteq StatesOf(dfa.rows)
      BY <2>1, CompiledTables
    <3>2. 0 \in R /\ R \subseteq StatesOf(dfa.rows)
      BY <3>1, ReachedIsLeast
    <3> QED BY <3>1, <3>2
  <2>3. index.at \in {"done", "ambiguous", "incompatible"}
    BY <2>1 DEF IndexInv
  <2>4. ASSUME NoneLost(dfa)
        PROVE  (ix.at = "done") = (index.at = "done")
    <3>1. ASSUME ix.at = "done", index.at # "done"
          PROVE  FALSE
      <4>1. RawComplete(raw, dfa, V, ix)
        BY <3>1 DEF RegexInv
      <4>2. PICK s \in R : \/ Disagree(StepsOf(dfa, V, s))
                           \/ StepsOf(dfa, V, s) = {} /\ s \notin dfa.accepting
        BY <2>3, <3>1 DEF IndexInv
      <4>3. PICK r \in DOMAIN ix.rows : dfa.number[r] = s
        BY <2>1, <4>1, <4>2, RowsReach
      <4>4. r \in DOMAIN dfa.number /\ RawHasRow(raw, V, r)
        BY <4>1 DEF RawComplete
      <4>5. CASE Disagree(StepsOf(dfa, V, s))
        <5>1. PICK e, f \in StepsOf(dfa, V, s) : e[1] = f[1] /\ e[2] # f[2]
          BY <4>5 DEF Disagree
        <5>2. PICK p \in DOMAIN dfa.number : e[2] = dfa.number[p] /\ <<e[1], p>> \in RawStepsOf(raw, V, r)
          BY <2>1, <4>3, <4>4, <5>1, StepsMatch
        <5>3. PICK q \in DOMAIN dfa.number : f[2] = dfa.number[q] /\ <<f[1], q>> \in RawStepsOf(raw, V, r)
          BY <2>1, <4>3, <4>4, <5>1, StepsMatch
        <5>4. p # q /\ <<e[1], p>>[1] = <<f[1], q>>[1] /\ <<e[1], p>>[2] # <<f[1], q>>[2]
          BY <5>1, <5>2, <5>3
        <5>5. Disagree(RawStepsOf(raw, V, r))
          BY <5>2, <5>3, <5>4 DEF Disagree
        <5> QED BY <4>4, <5>5 DEF RawHasRow
      <4>6. CASE StepsOf(dfa, V, s) = {} /\ s \notin dfa.accepting
        <5>1. r \notin raw.accepting
          BY <2>1, <4>3, <4>4, <4>6, CompiledNumbers
        <5>2. PICK e : e \in RawStepsOf(raw, V, r)
          BY <4>4, <5>1 DEF RawHasRow
        <5>3. <<e[1], dfa.number[e[2]]>> \in StepsOf(dfa, V, s)
          BY <2>1, <2>4, <4>3, <4>4, <5>2, StepsMatch
        <5> QED BY <4>6, <5>3
      <4> QED BY <4>2, <4>5, <4>6
    <3>2. ASSUME ix.at # "done", index.at = "done"
          PROVE  FALSE
      <4>1. 0 \in dfa.live
        BY <2>2, <2>4 DEF NoneLost
      <4>2. Complete(dfa, V, index)
        BY <3>2, <4>1 DEF IndexInv
      <4>3. Refused(dfa, V, ix.at)
        BY <1>3, <3>2 DEF RegexInv
      <4>4. PICK s \in R : \/ Disagree(StepsOf(dfa, V, s))
                           \/ StepsOf(dfa, V, s) = {} /\ s \notin dfa.accepting
        BY <1>3, <2>4, <3>2, <4>3 DEF Refused
      <4> QED BY <4>2, <4>4 DEF Complete, HasRow
    <3> QED BY <3>1, <3>2
  <2>5. ASSUME ix.at = "done", index.at = "done", 0 \in dfa.live, NEW s \in DOMAIN index.rows
        PROVE  \E r \in DOMAIN ix.rows :
                 /\ dfa.number[r] = s
                 /\ NoneLost(dfa) => DOMAIN ix.rows[r] = DOMAIN index.rows[s]
                 /\ \A id \in DOMAIN index.rows[s] :
                      id \in DOMAIN ix.rows[r] /\ dfa.number[ix.rows[r][id]] = index.rows[s][id]
    <3>1. Complete(dfa, V, index) /\ RawComplete(raw, dfa, V, ix)
      BY <2>5 DEF IndexInv, RegexInv
    <3>2. PICK r \in DOMAIN ix.rows : dfa.number[r] = s
      BY <2>1, <2>5, <3>1, RowsReach DEF Complete
    <3> DEFINE T == StepsOf(dfa, V, s)
               U == RawStepsOf(raw, V, r)
               row == RowWith(T)
               rawRow == RowWith(U)
    <3>3. /\ r \in DOMAIN dfa.number /\ ~Disagree(T) /\ ~Disagree(U)
          /\ index.rows[s] = IF s \in dfa.accepting THEN Put(row, Eos, s) ELSE row
          /\ ix.rows[r] = IF r \in raw.accepting THEN Put(rawRow, Eos, r) ELSE rawRow
      BY <2>5, <3>1 DEF Complete, RawComplete, HasRow, RawHasRow
    <3>4. s \in dfa.accepting <=> r \in raw.accepting
      BY <2>1, <3>2, <3>3, CompiledNumbers
    <3>5. /\ \A e \in T : \E q \in DOMAIN dfa.number : e[2] = dfa.number[q] /\ <<e[1], q>> \in U
          /\ NoneLost(dfa) => \A e \in U : <<e[1], dfa.number[e[2]]>> \in T
      BY <2>1, <3>2, <3>3, StepsMatch
    <3> HIDE DEF T, U
    <3>6. /\ DOMAIN row = {e[1] : e \in T} /\ \A e \in T : row[e[1]] = e[2]
          /\ DOMAIN rawRow = {e[1] : e \in U} /\ \A e \in U : rawRow[e[1]] = e[2]
      BY <3>3, RowOfSteps
    <3> HIDE DEF row, rawRow
    <3>7. \A id \in DOMAIN row : id \in DOMAIN rawRow /\ dfa.number[rawRow[id]] = row[id]
      <4> SUFFICES ASSUME NEW e \in T
                   PROVE  e[1] \in DOMAIN rawRow /\ dfa.number[rawRow[e[1]]] = row[e[1]]
        BY <3>6
      <4>1. PICK q \in DOMAIN dfa.number : e[2] = dfa.number[q] /\ <<e[1], q>> \in U
        BY <3>5
      <4>2. <<e[1], q>>[1] = e[1] /\ <<e[1], q>>[2] = q
        OBVIOUS
      <4> QED BY <3>6, <4>1, <4>2
    <3>8. NoneLost(dfa) => DOMAIN rawRow = DOMAIN row
      <4>1. ASSUME NoneLost(dfa), NEW e \in U
            PROVE  e[1] \in DOMAIN row
        <5>1. <<e[1], dfa.number[e[2]]>> \in T
          BY <3>5, <4>1
        <5>2. <<e[1], dfa.number[e[2]]>>[1] = e[1]
          OBVIOUS
        <5> QED BY <3>6, <5>1, <5>2
      <4> QED BY <3>6, <3>7, <4>1
    <3>9. CASE s \in dfa.accepting
      <4>1. index.rows[s] = Put(row, Eos, s) /\ ix.rows[r] = Put(rawRow, Eos, r)
        BY <3>3, <3>4, <3>9
      <4> QED BY <3>2, <3>7, <3>8, <4>1 DEF Put
    <3>10. CASE s \notin dfa.accepting
      BY <3>2, <3>3, <3>4, <3>7, <3>8, <3>10
    <3> QED BY <3>9, <3>10
  <2> QED BY <1>1, <2>4, <2>5 DEF RegexIndexIsSound, IsLive
<1> QED BY <1>2, <1>3

-----------------------------------------------------------------------------
(***************************************************************************)
(* Tokens in their order.                                                  *)
(***************************************************************************)

\* A relation, as a set of pairs, that puts any two elements of S in one order.
Orders(rel, S) ==
  /\ \A x, y \in S : x = y \/ <<x, y>> \in rel \/ <<y, x>> \in rel
  /\ \A x \in S : <<x, x>> \notin rel
  /\ \A x, y, z \in S : <<x, y>> \in rel /\ <<y, z>> \in rel => <<x, z>> \in rel

FollowsOrder(s, rel) == \A i, j \in DOMAIN s : i < j => <<s[i], s[j]>> \in rel

\* A finite set that is ordered has a first element.
LEMMA FirstExists ==
  ASSUME NEW S, NEW rel, Orders(rel, S), IsFiniteSet(S), S # {}
  PROVE  \E m \in S : \A x \in S \ {m} : <<m, x>> \in rel
<1> DEFINE HasFirst(T) == \E m \in T : \A x \in T \ {m} : <<m, x>> \in rel
           P == {k \in Nat : \A T \in SUBSET S : IsFiniteSet(T) /\ Cardinality(T) = k /\ T # {} => HasFirst(T)}
<1>1. 0 \in P
  <2>1. \A T \in SUBSET S : IsFiniteSet(T) /\ Cardinality(T) = 0 => T = {}
    BY FS_EmptySet
  <2> QED BY <2>1
<1>2. ASSUME NEW k \in Nat, k \in P
      PROVE  k + 1 \in P
  <2>1. ASSUME NEW T \in SUBSET S, IsFiniteSet(T), Cardinality(T) = k + 1, T # {}
        PROVE  HasFirst(T)
    <3>1. PICK y : y \in T
      BY <2>1
    <3> DEFINE U == T \ {y}
    <3>2. IsFiniteSet(U) /\ Cardinality(U) = Cardinality(T) - 1
      BY <2>1, <3>1, FS_RemoveElement, Zenon
    <3>3. CASE U = {}
      <4>1. \A x \in T \ {y} : <<y, x>> \in rel
        BY <3>3
      <4> QED BY <3>1, <4>1
    <3>4. CASE U # {}
      <4>1. Cardinality(U) = k
        BY <2>1, <3>2
      <4>2. PICK m \in U : \A x \in U \ {m} : <<m, x>> \in rel
        BY <1>2, <3>2, <3>4, <4>1
      <4>3. CASE <<m, y>> \in rel
        BY <4>2, <4>3
      <4>4. CASE <<y, m>> \in rel
        <5>1. \A x \in T \ {y} : <<y, x>> \in rel
          BY <3>1, <4>2, <4>4 DEF Orders
        <5> QED BY <3>1, <5>1
      <4> QED BY <3>1, <4>2, <4>3, <4>4 DEF Orders
    <3> QED BY <3>3, <3>4
  <2> QED BY <2>1
<1>3. Cardinality(S) \in Nat
  BY FS_CardinalityType
<1>4. Cardinality(S) \in P
  <2> HIDE DEF P
  <2>1. \A k \in 0..Cardinality(S) : k \in P
    BY <1>1, <1>2, <1>3, UpTo
  <2> QED BY <1>3, <2>1
<1> QED BY <1>4

\* It can be arranged: its first element first.
LEMMA ArrangementExists ==
  ASSUME NEW S, NEW rel, Orders(rel, S), IsFiniteSet(S)
  PROVE  \E s \in SetToSeqs(S) : FollowsOrder(s, rel)
<1> DEFINE P == {k \in Nat : \A T \in SUBSET S :
                   IsFiniteSet(T) /\ Cardinality(T) = k => \E s \in SetToSeqs(T) : FollowsOrder(s, rel)}
<1>1. 0 \in P
  <2>1. << >> \in SetToSeqs({}) /\ FollowsOrder(<< >>, rel)
    <3>1. Cardinality({}) = 0
      BY FS_EmptySet
    <3> QED BY <3>1 DEF SetToSeqs, FollowsOrder
  <2> QED BY <2>1, FS_EmptySet
<1>2. ASSUME NEW k \in Nat, k \in P
      PROVE  k + 1 \in P
  <2>1. ASSUME NEW T \in SUBSET S, IsFiniteSet(T), Cardinality(T) = k + 1
        PROVE  \E s \in SetToSeqs(T) : FollowsOrder(s, rel)
    <3>1. T # {}
      BY <2>1, FS_EmptySet
    <3>2. Orders(rel, T)
      BY DEF Orders
    <3>3. PICK m \in T : \A x \in T \ {m} : <<m, x>> \in rel
      BY <2>1, <3>1, <3>2, FirstExists
    <3> DEFINE U == T \ {m}
    <3>4. IsFiniteSet(U) /\ Cardinality(U) = k /\ U \in SUBSET S
      <4>1. IsFiniteSet(U) /\ Cardinality(U) = Cardinality(T) - 1
        BY <2>1, <3>3, FS_RemoveElement, Zenon
      <4> QED BY <2>1, <4>1
    <3>5. PICK s \in SetToSeqs(U) : FollowsOrder(s, rel)
      BY <1>2, <3>4
    <3>6. s \in [1..k -> U] /\ (\A i, j \in 1..k : i # j => s[i] # s[j])
      BY <3>4, <3>5 DEF SetToSeqs
    <3> DEFINE r == [i \in 1..k + 1 |-> IF i = 1 THEN m ELSE s[i - 1]]
    <3>7. \A i \in 2..k + 1 : i - 1 \in 1..k /\ r[i] = s[i - 1] /\ s[i - 1] \in U
      BY <3>6
    <3>8. r[1] = m /\ 1 \in 1..k + 1 /\ \A i \in 1..k + 1 : i = 1 \/ i \in 2..k + 1
      OBVIOUS
    <3>9. DOMAIN r = 1..k + 1 /\ r = [i \in 1..k + 1 |-> r[i]]
      OBVIOUS
    <3> HIDE DEF r
    <3>10. r \in [1..k + 1 -> T]
      <4>1. \A i \in 1..k + 1 : r[i] \in T
        BY <3>3, <3>7, <3>8
      <4> QED BY <3>9, <4>1
    <3>11. \A i, j \in 1..k + 1 : i < j => r[i] # r[j] /\ <<r[i], r[j]>> \in rel
      <4> SUFFICES ASSUME NEW i \in 1..k + 1, NEW j \in 1..k + 1, i < j
                   PROVE  r[i] # r[j] /\ <<r[i], r[j]>> \in rel
        OBVIOUS
      <4>1. j \in 2..k + 1
        OBVIOUS
      <4>2. CASE i = 1
        <5>1. r[j] \in U /\ r[i] = m
          BY <3>7, <3>8, <4>1, <4>2
        <5> QED BY <3>3, <5>1
      <4>3. CASE i # 1
        <5>1. i - 1 \in 1..k /\ j - 1 \in 1..k /\ i - 1 < j - 1 /\ i \in 2..k + 1
          BY <4>1, <4>3
        <5>2. <<s[i - 1], s[j - 1]>> \in rel /\ s[i - 1] # s[j - 1]
          BY <3>5, <3>6, <5>1 DEF FollowsOrder
        <5> QED BY <3>7, <4>1, <5>1, <5>2
      <4> QED BY <4>2, <4>3
    <3>12. \A i, j \in 1..k + 1 : i # j => r[i] # r[j]
      <4> SUFFICES ASSUME NEW i \in 1..k + 1, NEW j \in 1..k + 1, i # j
                   PROVE  r[i] # r[j]
        OBVIOUS
      <4>1. i < j \/ j < i
        OBVIOUS
      <4> QED BY <3>11, <4>1
    <3>13. r \in SetToSeqs(T) /\ FollowsOrder(r, rel)
      BY <2>1, <3>9, <3>10, <3>11, <3>12 DEF SetToSeqs, FollowsOrder
    <3> QED BY <3>13
  <2> QED BY <2>1
<1>3. Cardinality(S) \in Nat
  BY FS_CardinalityType
<1>4. Cardinality(S) \in P
  <2> HIDE DEF P
  <2>1. \A k \in 0..Cardinality(S) : k \in P
    BY <1>1, <1>2, <1>3, UpTo
  <2> QED BY <1>3, <2>1
<1> QED BY <1>4

\* The strings have their first k bytes in common.
Common(t, u, k) == k <= Len(t) /\ k <= Len(u) /\ \A i \in 1..k : t[i] = u[i]

\* t comes before u after k bytes.
Parts(t, u, k) ==
  Common(t, u, k) /\ k < Len(u) /\ (k = Len(t) \/ (k < Len(t) /\ t[k + 1] < u[k + 1]))

\* One byte string comes before another where they part.
LEMMA BeforeParts ==
  ASSUME NEW t \in Seq(Byte), NEW u \in Seq(Byte)
  PROVE  Before(t, u) <=> \E k \in Nat : Parts(t, u, k)
<1>1. Len(t) \in Nat /\ Len(u) \in Nat
  OBVIOUS
<1>2. \A k \in Nat : k <= Len(t) /\ k <= Len(u) =>
        (SubSeq(t, 1, k) = SubSeq(u, 1, k) <=> Common(t, u, k))
  <2> SUFFICES ASSUME NEW k \in Nat, k <= Len(t), k <= Len(u)
               PROVE  SubSeq(t, 1, k) = SubSeq(u, 1, k) <=> Common(t, u, k)
    OBVIOUS
  <2>1. /\ SubSeq(t, 1, k) = [i \in 1..k |-> t[i]]
        /\ SubSeq(u, 1, k) = [i \in 1..k |-> u[i]]
    OBVIOUS
  <2>2. ASSUME SubSeq(t, 1, k) = SubSeq(u, 1, k), NEW i \in 1..k
        PROVE  t[i] = u[i]
    BY <2>1, <2>2
  <2> QED BY <2>1, <2>2 DEF Common
<1>3. SubSeq(t, 1, Len(t)) = t /\ (t = u => Len(t) = Len(u))
  OBVIOUS
<1>4. IsStrictPrefix(t, u) <=> Parts(t, u, Len(t))
  <2>1. ASSUME Common(t, u, Len(t)), Len(t) = Len(u)
        PROVE  t = u
    BY <2>1 DEF Common
  <2>2. IsStrictPrefix(t, u) <=> Common(t, u, Len(t)) /\ t # u
    BY <1>1, <1>2, <1>3 DEF IsStrictPrefix, IsPrefix, Common
  <2> QED BY <1>1, <1>3, <2>1, <2>2 DEF Parts, Common
<1>5. ASSUME NEW k \in 1..Len(t), k <= Len(u), SubSeq(t, 1, k - 1) = SubSeq(u, 1, k - 1), t[k] < u[k]
      PROVE  k - 1 \in Nat /\ Parts(t, u, k - 1)
  <2>1. k - 1 \in Nat /\ k - 1 <= Len(t) /\ k - 1 <= Len(u) /\ (k - 1) + 1 = k
    BY <1>1, <1>5
  <2>2. Common(t, u, k - 1)
    BY <1>2, <1>5, <2>1
  <2> QED BY <1>1, <1>5, <2>1, <2>2 DEF Parts
<1>6. ASSUME NEW k \in Nat, Parts(t, u, k)
      PROVE  Before(t, u)
  <2>1. CASE k = Len(t)
    BY <1>4, <1>6, <2>1 DEF Before
  <2>2. CASE k # Len(t)
    <3>1. /\ k + 1 \in 1..Len(t) /\ k + 1 <= Len(u) /\ (k + 1) - 1 = k /\ t[k + 1] < u[k + 1]
          /\ k <= Len(t) /\ k <= Len(u) /\ Common(t, u, k)
      BY <1>1, <1>6, <2>2 DEF Parts, Common
    <3>2. SubSeq(t, 1, (k + 1) - 1) = SubSeq(u, 1, (k + 1) - 1)
      BY <1>2, <3>1
    <3> QED BY <3>1, <3>2 DEF Before
  <2> QED BY <2>1, <2>2
<1> QED BY <1>1, <1>4, <1>5, <1>6 DEF Before

BeforePairs == {p \in Seq(Byte) \X Seq(Byte) : Before(p[1], p[2])}

\* The order of byte strings is one.
LEMMA BeforeOrders ==
  ASSUME NEW S \in SUBSET Seq(Byte)
  PROVE  Orders(BeforePairs, S)
<1>1. \A t, u \in S : <<t, u>> \in BeforePairs <=> \E k \in Nat : Parts(t, u, k)
  BY BeforeParts DEF BeforePairs
<1>2. ASSUME NEW t \in S
      PROVE  Len(t) \in Nat /\ \A i \in 1..Len(t) : t[i] \in Nat
  <2>1. t \in Seq(Byte)
    OBVIOUS
  <2>2. \A i \in 1..Len(t) : t[i] \in Byte
    BY <2>1
  <2>3. \A x \in Byte : x \in Nat
    BY ByteAssumption
  <2>4. Len(t) \in Nat
    BY <2>1
  <2> QED BY <2>2, <2>3, <2>4
<1>3. ASSUME NEW t \in S, NEW u \in S
      PROVE  t = u \/ <<t, u>> \in BeforePairs \/ <<u, t>> \in BeforePairs
  <2> DEFINE D == {k \in Nat : ~Common(t, u, k + 1)}
  <2>1. Len(t) \in D
    BY <1>2 DEF Common
  <2>2. PICK k \in D : \A j \in D : k <= j
    <3> HIDE DEF D
    <3>1. D \in SUBSET Nat
      BY DEF D
    <3> QED BY <2>1, <3>1, LeastExists
  <2>3. k \in Nat /\ ~Common(t, u, k + 1)
    OBVIOUS
  <2>4. Common(t, u, k)
    <3>1. CASE k = 0
      BY <1>2, <3>1 DEF Common
    <3>2. CASE k # 0
      <4>1. k - 1 \in Nat /\ (k - 1) + 1 = k /\ ~(k <= k - 1)
        BY <2>3, <3>2
      <4>2. k - 1 \notin D
        <5> HIDE DEF D
        <5> QED BY <2>2, <4>1
      <4> QED BY <4>1, <4>2
    <3> QED BY <3>1, <3>2
  <2>5. CASE k = Len(t) /\ k = Len(u)
    <3>1. t \in Seq(Byte) /\ u \in Seq(Byte) /\ Len(t) = Len(u) /\ \A i \in 1..Len(t) : t[i] = u[i]
      BY <2>4, <2>5 DEF Common
    <3>2. t = u
      BY <3>1, SeqEqual
    <3> QED BY <3>2
  <2>6. CASE k = Len(t) /\ k < Len(u)
    <3>1. Parts(t, u, k)
      BY <2>4, <2>6 DEF Parts
    <3> QED BY <1>1, <2>3, <3>1
  <2>7. CASE k = Len(u) /\ k < Len(t)
    <3>1. Parts(u, t, k)
      BY <2>4, <2>7 DEF Parts, Common
    <3> QED BY <1>1, <2>3, <3>1
  <2>8. CASE k < Len(t) /\ k < Len(u)
    <3>1. t[k + 1] # u[k + 1]
      <4>1. ASSUME t[k + 1] = u[k + 1]
            PROVE  Common(t, u, k + 1)
        BY <1>2, <2>3, <2>4, <2>8, <4>1 DEF Common
      <4> QED BY <2>3, <4>1
    <3>2. t[k + 1] \in Nat /\ u[k + 1] \in Nat
      BY <1>2, <2>3, <2>8
    <3>3. t[k + 1] < u[k + 1] \/ u[k + 1] < t[k + 1]
      BY <3>1, <3>2
    <3>4. Parts(t, u, k) \/ Parts(u, t, k)
      BY <2>4, <2>8, <3>3 DEF Parts, Common
    <3> QED BY <1>1, <2>3, <3>4
  <2>9. k <= Len(t) /\ k <= Len(u)
    BY <2>4 DEF Common
  <2> QED BY <1>2, <2>3, <2>5, <2>6, <2>7, <2>8, <2>9
<1>4. ASSUME NEW t \in S, NEW k \in Nat, Parts(t, t, k)
      PROVE  FALSE
  <2>1. k < Len(t) /\ t[k + 1] < t[k + 1]
    BY <1>2, <1>4 DEF Parts
  <2>2. t[k + 1] \in Nat
    BY <1>2, <2>1
  <2> QED BY <2>1, <2>2
<1>5. ASSUME NEW t \in S, NEW u \in S, NEW v \in S, NEW j \in Nat, NEW k \in Nat,
             Parts(t, u, j), Parts(u, v, k)
      PROVE  \E i \in Nat : Parts(t, v, i)
  <2>1. Len(t) \in Nat /\ Len(u) \in Nat /\ Len(v) \in Nat
    BY <1>2
  <2>2. CASE j < k
    <3>1. Common(t, v, j)
      BY <1>5, <2>1, <2>2 DEF Parts, Common
    <3>2. j < Len(v) /\ u[j + 1] = v[j + 1]
      BY <1>5, <2>1, <2>2 DEF Parts, Common
    <3>3. Parts(t, v, j)
      BY <1>5, <3>1, <3>2 DEF Parts
    <3> QED BY <3>3
  <2>3. CASE k < j
    <3>1. Common(t, v, k) /\ k < Len(v) /\ k < Len(u) /\ k < Len(t)
      BY <1>5, <2>1, <2>3 DEF Parts, Common
    <3>2. t[k + 1] = u[k + 1] /\ u[k + 1] < v[k + 1]
      BY <1>5, <2>1, <2>3, <3>1 DEF Parts, Common
    <3>3. Parts(t, v, k)
      BY <3>1, <3>2 DEF Parts
    <3> QED BY <3>3
  <2>4. CASE j = k
    <3>1. Common(t, v, j) /\ j < Len(v) /\ j < Len(u) /\ u[j + 1] < v[j + 1]
      BY <1>5, <2>1, <2>4 DEF Parts, Common
    <3>2. CASE j = Len(t)
      BY <3>1, <3>2 DEF Parts
    <3>3. CASE j # Len(t)
      <4>1. j < Len(t) /\ t[j + 1] < u[j + 1]
        BY <1>5, <3>3 DEF Parts
      <4>2. t[j + 1] \in Nat /\ u[j + 1] \in Nat /\ v[j + 1] \in Nat
        BY <1>2, <3>1, <4>1
      <4>3. t[j + 1] < v[j + 1]
        BY <3>1, <4>1, <4>2
      <4> QED BY <3>1, <4>1, <4>3 DEF Parts
    <3> QED BY <3>2, <3>3
  <2> QED BY <2>2, <2>3, <2>4
<1> QED BY <1>1, <1>3, <1>4, <1>5 DEF Orders

\* The tokens in their order: each once.
LEMMA InOrderResult ==
  ASSUME NEW S \in SUBSET Seq(Byte), IsFiniteSet(S)
  PROVE  InOrder(S) \in Seq(S) /\ Distinct(InOrder(S)) /\ ToSet(InOrder(S)) = S
<1> DEFINE s == InOrder(S)
           n == Cardinality(S)
<1>1. n \in Nat
  BY FS_CardinalityType
<1>2. s \in SetToSeqs(S)
  <2>1. PICK t \in SetToSeqs(S) : FollowsOrder(t, BeforePairs)
    BY BeforeOrders, ArrangementExists
  <2>2. \A i, j \in DOMAIN t : i < j => Before(t[i], t[j])
    BY <2>1 DEF FollowsOrder, BeforePairs
  <2> QED BY <2>1, <2>2 DEF InOrder
<1> HIDE DEF s
<1>3. s \in [1..n -> S] /\ (\A i, j \in 1..n : i # j => s[i] # s[j])
  BY <1>2 DEF SetToSeqs
<1>4. s \in Injection(1..n, S)
  BY <1>3 DEF Injection, IsInjective
<1>5. Cardinality(1..n) = n
  BY <1>1, FS_Interval
<1>6. s \in Surjection(1..n, S)
  BY <1>4, <1>5, FS_Injection
<1>7. ToSet(s) = S
  BY <1>3, <1>6 DEF Surjection, ToSet
<1>8. s \in Seq(S) /\ Distinct(s)
  BY <1>1, <1>3 DEF Distinct
<1> QED BY <1>7, <1>8 DEF s

-----------------------------------------------------------------------------
(***************************************************************************)
(* The nodes of the trie.                                                  *)
(***************************************************************************)

TrieNodes == [children : UNION {[B -> Nat] : B \in SUBSET Byte}, ids : SUBSET Nat]

ChildrenIn(N, n) == \A b \in DOMAIN N[n].children : N[n].children[b] \in n + 1..Len(N)

\* The nodes of a trie, and a walk that has got to one of them.
IsTrie(N) == N \in Seq(TrieNodes) /\ N # << >> /\ \A n \in 1..Len(N) : ChildrenIn(N, n)

Walks == {w \in [nodes : Seq(TrieNodes), at : Nat] : IsTrie(w.nodes) /\ w.at \in 1..Len(w.nodes)}

DescentStep == [p \in Walks \X Byte |-> Descended(p[1], p[2])]

HasParent(N, c) == \E n \in 1..c - 1 : \E b \in DOMAIN N[n].children : N[n].children[b] = c

\* The string p[n] leads to node n, and to no other.
Named(N, p) ==
  /\ p \in [1..Len(N) -> Seq(Byte)]
  /\ p[1] = << >>
  /\ \A n \in 1..Len(N) : \A b \in DOMAIN N[n].children : p[N[n].children[b]] = Append(p[n], b)
  /\ \A m, n \in 1..Len(N) : p[m] = p[n] => m = n
  /\ \A c \in 2..Len(N) : HasParent(N, c)

\* The tokens in D, and no others, have been entered, each with its ids in V.
Labelled(N, p, V, D) ==
  /\ \A t \in D : \E n \in 1..Len(N) : p[n] = t
  /\ \A n \in 1..Len(N) : N[n].ids = IF p[n] \in D THEN V[p[n]] ELSE {}

HasTokens(N, p, V, D) == IsTrie(N) /\ Named(N, p) /\ Labelled(N, p, V, D)

\* With a new child under byte b of node a.
Grown(N, a, b) == Append([N EXCEPT ![a].children = Put(@, b, Len(N) + 1)], NewNode)

\* The nodes after that.
LEMMA GrownResult ==
  ASSUME NEW N, IsTrie(N), NEW a \in 1..Len(N), NEW b \in Byte
  PROVE  /\ Grown(N, a, b) \in Seq(TrieNodes) /\ Len(Grown(N, a, b)) = Len(N) + 1 /\ Len(N) \in Nat
         /\ Grown(N, a, b)[Len(N) + 1].children = << >> /\ Grown(N, a, b)[Len(N) + 1].ids = {}
         /\ \A n \in 1..Len(N) :
              /\ Grown(N, a, b)[n].ids = N[n].ids
              /\ n # a => Grown(N, a, b)[n].children = N[n].children
         /\ Grown(N, a, b)[a].children = Put(N[a].children, b, Len(N) + 1)
<1> DEFINE L == Len(N)
           C == Put(N[a].children, b, L + 1)
           M == [N EXCEPT ![a].children = C]
<1>1. N \in Seq(TrieNodes) /\ L \in Nat
  BY DEF IsTrie
<1>2. \A n \in 1..L : N[n] \in TrieNodes
  BY <1>1
<1>3. PICK B \in SUBSET Byte : N[a].children \in [B -> Nat]
  BY <1>2 DEF TrieNodes
<1>4. C \in [B \cup {b} -> Nat]
  BY <1>1, <1>3 DEF Put
<1> HIDE DEF C
<1>5. C \in UNION {[S -> Nat] : S \in SUBSET Byte}
  BY <1>4
<1>6. [N[a] EXCEPT !.children = C] \in TrieNodes
  BY <1>2, <1>5 DEF TrieNodes
<1>7. M \in Seq(TrieNodes) /\ Len(M) = L
  BY <1>1, <1>6
<1>8. \A n \in 1..L : /\ M[n].ids = N[n].ids
                      /\ n # a => M[n].children = N[n].children
                      /\ n = a => M[n].children = C
  BY <1>1, <1>2 DEF TrieNodes
<1>9. NewNode \in TrieNodes /\ NewNode.children = << >> /\ NewNode.ids = {}
  <2>1. << >> \in [{} -> Nat]
    OBVIOUS
  <2>2. << >> \in UNION {[S -> Nat] : S \in SUBSET Byte}
    BY <2>1
  <2> QED BY <2>2 DEF NewNode, TrieNodes
<1> HIDE DEF M
<1>10. Grown(N, a, b) = Append(M, NewNode)
  BY DEF Grown, M, C
<1>11. /\ Append(M, NewNode) \in Seq(TrieNodes) /\ Len(Append(M, NewNode)) = L + 1
       /\ Append(M, NewNode)[L + 1] = NewNode
       /\ \A n \in 1..L : Append(M, NewNode)[n] = M[n]
  BY <1>1, <1>7, <1>9
<1> QED BY <1>1, <1>8, <1>9, <1>10, <1>11 DEF C

\* Where a byte leads from a node: to the child under it.
LEMMA DescentResult ==
  ASSUME NEW w \in Walks, NEW b \in Byte
  PROVE  /\ b \in DOMAIN w.nodes[w.at].children =>
              Descended(w, b) = [nodes |-> w.nodes, at |-> w.nodes[w.at].children[b]]
         /\ b \notin DOMAIN w.nodes[w.at].children =>
              Descended(w, b) = [nodes |-> Grown(w.nodes, w.at, b), at |-> Len(w.nodes) + 1]
         /\ Descended(w, b) \in Walks
<1> DEFINE N == w.nodes
           a == w.at
           L == Len(N)
<1>1. w = [nodes |-> N, at |-> a] /\ IsTrie(N) /\ a \in 1..L /\ L \in Nat /\ N \in Seq(TrieNodes)
  BY DEF Walks, IsTrie
<1>2. CASE b \in DOMAIN N[a].children
  <2>1. Descended(w, b) = [nodes |-> N, at |-> N[a].children[b]]
    BY <1>1, <1>2 DEF Descended
  <2>2. N[a].children[b] \in 1..L /\ N[a].children[b] \in Nat
    BY <1>1, <1>2 DEF IsTrie, ChildrenIn
  <2> QED BY <1>1, <1>2, <2>1, <2>2 DEF Walks
<1>3. CASE b \notin DOMAIN N[a].children
  <2> DEFINE G == Grown(N, a, b)
  <2>1. Descended(w, b) = [nodes |-> G, at |-> L + 1]
    BY <1>3 DEF Descended, Grown
  <2>2. /\ G \in Seq(TrieNodes) /\ Len(G) = L + 1 /\ G[L + 1].children = << >>
        /\ \A n \in 1..L : n # a => G[n].children = N[n].children
        /\ G[a].children = Put(N[a].children, b, L + 1)
    BY <1>1, GrownResult
  <2> HIDE DEF G
  <2>3. ASSUME NEW n \in 1..L + 1
        PROVE  ChildrenIn(G, n)
    <3>1. CASE n = L + 1
      <4>1. DOMAIN G[n].children = {}
        BY <2>2, <3>1
      <4> QED BY <4>1 DEF ChildrenIn
    <3>2. CASE n # L + 1 /\ n # a
      <4>1. n \in 1..L /\ ChildrenIn(N, n) /\ G[n].children = N[n].children
        BY <1>1, <2>2, <3>2 DEF IsTrie
      <4>2. \A c \in n + 1..L : c \in n + 1..L + 1
        BY <1>1
      <4> QED BY <2>2, <4>1, <4>2 DEF ChildrenIn
    <3>3. CASE n = a
      <4>1. ChildrenIn(N, a)
        BY <1>1 DEF IsTrie
      <4>2. L + 1 \in a + 1..L + 1 /\ \A c \in a + 1..L : c \in a + 1..L + 1
        BY <1>1
      <4>3. /\ DOMAIN G[a].children = DOMAIN N[a].children \cup {b}
            /\ \A x \in DOMAIN N[a].children \cup {b} :
                 G[a].children[x] = IF x = b THEN L + 1 ELSE N[a].children[x]
        BY <2>2 DEF Put
      <4> QED BY <2>2, <3>3, <4>1, <4>2, <4>3 DEF ChildrenIn
    <3> QED BY <3>1, <3>2, <3>3
  <2>4. IsTrie(G) /\ L + 1 \in 1..Len(G) /\ L + 1 \in Nat
    BY <1>1, <2>2, <2>3 DEF IsTrie
  <2>5. [nodes |-> G, at |-> L + 1] \in Walks
    BY <2>2, <2>4 DEF Walks
  <2> QED BY <1>3, <2>1, <2>5 DEF G
<1> QED BY <1>2, <1>3

\* Walking down is a fold.
LEMMA DescentFolds ==
  ASSUME NEW w \in Walks, NEW t \in Seq(Byte)
  PROVE  /\ IsStep(DescentStep, Walks, Byte)
         /\ FoldLeft(Descended, w, t) = Folded(DescentStep, w, t)
<1> DEFINE Equation(g) ==
             g = [T \in SUBSET DOMAIN t |->
                    IF T = {} THEN w
                    ELSE LET x == Max(T) IN Descended(g[T \ {x}], t[x])]
           iter == CHOOSE g : Equation(g)
           p == Partial(DescentStep, w, t)
<1>1. IsStep(DescentStep, Walks, Byte)
  <2>1. \A x \in Walks, b \in Byte : Descended(x, b) \in Walks
    BY DescentResult
  <2> QED BY <2>1 DEF IsStep, DescentStep
<1>2. \A x \in Walks, b \in Byte : DescentStep[<<x, b>>] = Descended(x, b)
  BY DEF DescentStep
<1>3. StepsAs(p, Walks, Byte, DescentStep, w, t)
  BY <1>1, PartialSteps, Zenon
<1>4. DOMAIN t = 1..Len(t)
  OBVIOUS
<1>5. FoldLeft(Descended, w, t) = iter[DOMAIN t]
  BY Zenon DEF FoldLeft, MapThenFoldSet
<1> HIDE DEF p
<1>6. Equation(p)
  BY <1>2, <1>3 DEF StepsAs
<1>7. Equation(iter)
  <2> HIDE DEF Equation
  <2> QED BY <1>6
<1> HIDE DEF iter
<1>8. StepAlike(iter, p, Len(t))
  BY <1>4, <1>6, <1>7 DEF StepAlike
<1>9. FoldsTo(iter, DescentStep, w, t)
  BY <1>1, <1>8, FoldsAlike, Zenon DEF p
<1> QED BY <1>1, <1>5, <1>9 DEF FoldsTo

\* The children of a node are under bytes.
LEMMA ChildBytes ==
  ASSUME NEW N, IsTrie(N), NEW n \in 1..Len(N)
  PROVE  DOMAIN N[n].children \subseteq Byte /\ N[n].ids \subseteq Nat
<1>1. N[n] \in TrieNodes
  BY DEF IsTrie
<1> QED BY <1>1 DEF TrieNodes

\* A string that leads nowhere is not one of the nodes', nor a token entered.
LEMMA NameIsNew ==
  ASSUME NEW N, NEW p, IsTrie(N), Named(N, p), NEW a \in 1..Len(N),
         NEW b \in Byte \ DOMAIN N[a].children, NEW m \in 1..Len(N)
  PROVE  p[m] # Append(p[a], b)
<1> SUFFICES ASSUME p[m] = Append(p[a], b) PROVE FALSE
  OBVIOUS
<1>1. p \in [1..Len(N) -> Seq(Byte)] /\ p[1] = << >> /\ Len(N) \in Nat
  BY DEF Named, IsTrie
<1>2. m # 1
  BY <1>1
<1>3. HasParent(N, m)
  BY <1>1, <1>2 DEF Named
<1>4. PICK n \in 1..m - 1 : \E x \in DOMAIN N[n].children : N[n].children[x] = m
  BY <1>3 DEF HasParent
<1>5. PICK x \in DOMAIN N[n].children : N[n].children[x] = m
  BY <1>4
<1>6. n \in 1..Len(N)
  BY <1>1
<1>7. x \in Byte
  BY <1>6, ChildBytes
<1>8. p[m] = Append(p[n], x)
  BY <1>5, <1>6 DEF Named
<1>9. p[n] = p[a] /\ x = b
  <2>1. p[n] \in Seq(Byte) /\ p[a] \in Seq(Byte) /\ Append(p[n], x) = Append(p[a], b)
    BY <1>1, <1>6, <1>8
  <2>2. b \in Byte
    OBVIOUS
  <2>3. \A u, v \in Seq(Byte) : Append(u, x) = Append(v, b) => u = v /\ x = b
    BY <1>7, <2>2, AppendInjective
  <2> QED BY <2>1, <2>3
<1>10. n = a
  BY <1>6, <1>9 DEF Named
<1> QED BY <1>9, <1>10

\* One byte down keeps the tokens entered, and the string of the node is that byte longer.
LEMMA DescendKeepsTokens ==
  ASSUME NEW w \in Walks, NEW b \in Byte, NEW p, NEW V, NEW D, HasTokens(w.nodes, p, V, D)
  PROVE  \E q : /\ HasTokens(Descended(w, b).nodes, q, V, D)
                /\ q[Descended(w, b).at] = Append(p[w.at], b)
<1> DEFINE N == w.nodes
           a == w.at
           L == Len(N)
<1>1. /\ IsTrie(N) /\ Named(N, p) /\ Labelled(N, p, V, D)
      /\ a \in 1..L /\ L \in Nat /\ p \in [1..L -> Seq(Byte)] /\ p[1] = << >>
  BY DEF Walks, IsTrie, HasTokens, Named
<1>2. CASE b \in DOMAIN N[a].children
  <2>1. Descended(w, b) = [nodes |-> N, at |-> N[a].children[b]]
    BY <1>2, DescentResult
  <2>2. p[N[a].children[b]] = Append(p[a], b)
    BY <1>1, <1>2 DEF Named
  <2>3. Descended(w, b).nodes = N /\ Descended(w, b).at = N[a].children[b]
    BY <2>1
  <2>4. HasTokens(Descended(w, b).nodes, p, V, D)
    BY <2>3
  <2> QED BY <2>2, <2>3, <2>4
<1>3. CASE b \notin DOMAIN N[a].children
  <2> DEFINE G == Grown(N, a, b)
             name == Append(p[a], b)
             q == [n \in 1..L + 1 |-> IF n = L + 1 THEN name ELSE p[n]]
  <2>1. Descended(w, b) = [nodes |-> G, at |-> L + 1] /\ Descended(w, b) \in Walks
    BY <1>3, DescentResult
  <2>2. /\ Len(G) = L + 1 /\ G[L + 1].children = << >> /\ G[L + 1].ids = {}
        /\ \A n \in 1..L : G[n].ids = N[n].ids /\ (n # a => G[n].children = N[n].children)
        /\ G[a].children = Put(N[a].children, b, L + 1)
    <3> HIDE DEF N, a
    <3> QED BY <1>1, GrownResult
  <2>3. IsTrie(G)
    BY <2>1 DEF Walks
  <2>4. name \in Seq(Byte) /\ \A m \in 1..L : p[m] # name
    <3>1. p[a] \in Seq(Byte) /\ name \in Seq(Byte)
      BY <1>1
    <3>2. ASSUME NEW m \in 1..L
          PROVE  p[m] # name
      <4> HIDE DEF N, a
      <4> QED BY <1>1, <1>3, NameIsNew
    <3> QED BY <3>1, <3>2
  <2>5. /\ DOMAIN G[a].children = DOMAIN N[a].children \cup {b}
        /\ G[a].children[b] = L + 1
        /\ \A x \in DOMAIN N[a].children : G[a].children[x] = N[a].children[x]
    BY <1>3, <2>2 DEF Put
  <2>6. /\ q \in [1..L + 1 -> Seq(Byte)] /\ q[L + 1] = name
        /\ \A n \in 1..L : q[n] = p[n]
    BY <1>1, <2>4
  <2> HIDE DEF q, G, name
  <2>7. ASSUME NEW n \in 1..L + 1, NEW x \in DOMAIN G[n].children
        PROVE  q[G[n].children[x]] = Append(q[n], x)
    <3>1. n # L + 1
      <4>1. DOMAIN << >> = {}
        OBVIOUS
      <4> QED BY <2>2, <2>7, <4>1
    <3>2. n \in 1..L
      BY <1>1, <3>1
    <3>3. CASE n = a /\ x = b
      BY <2>5, <2>6, <3>2, <3>3 DEF name
    <3>4. CASE ~(n = a /\ x = b)
      <4>1. x \in DOMAIN N[n].children /\ G[n].children[x] = N[n].children[x]
        BY <2>2, <2>5, <2>7, <3>2, <3>4
      <4>2. N[n].children[x] \in 1..L
        BY <1>1, <3>2, <4>1 DEF IsTrie, ChildrenIn
      <4>3. p[N[n].children[x]] = Append(p[n], x)
        BY <1>1, <3>2, <4>1 DEF Named
      <4> QED BY <2>6, <3>2, <4>1, <4>2, <4>3
    <3> QED BY <3>3, <3>4
  <2>8. \A m, n \in 1..L + 1 : q[m] = q[n] => m = n
    <3>1. \A m, n \in 1..L : p[m] = p[n] => m = n
      BY <1>1 DEF Named
    <3> SUFFICES ASSUME NEW m \in 1..L + 1, NEW n \in 1..L + 1, q[m] = q[n]
                 PROVE  m = n
      OBVIOUS
    <3>2. (m = L + 1 \/ m \in 1..L) /\ (n = L + 1 \/ n \in 1..L)
      BY <1>1
    <3> QED BY <2>4, <2>6, <3>1, <3>2
  <2>9. ASSUME NEW c \in 2..L + 1
        PROVE  HasParent(G, c)
    <3>1. CASE c = L + 1
      <4>1. a \in 1..c - 1 /\ b \in DOMAIN G[a].children /\ G[a].children[b] = c
        BY <1>1, <2>5, <3>1
      <4> QED BY <4>1 DEF HasParent
    <3>2. CASE c # L + 1
      <4>1. HasParent(N, c)
        BY <1>1, <3>2 DEF Named
      <4>2. PICK n \in 1..c - 1 : \E x \in DOMAIN N[n].children : N[n].children[x] = c
        BY <4>1 DEF HasParent
      <4>3. PICK x \in DOMAIN N[n].children : N[n].children[x] = c
        BY <4>2
      <4>4. n \in 1..L
        BY <1>1
      <4>5. x \in DOMAIN G[n].children /\ G[n].children[x] = c
        BY <2>2, <2>5, <4>3, <4>4
      <4> QED BY <4>5 DEF HasParent
    <3> QED BY <3>1, <3>2
  <2>10. q[1] = << >>
    BY <1>1, <2>6
  <2>11. Named(G, q)
    BY <2>2, <2>6, <2>7, <2>8, <2>9, <2>10 DEF Named
  <2>12. Labelled(G, q, V, D)
    <3>1. ASSUME NEW t \in D
          PROVE  \E n \in 1..L + 1 : q[n] = t
      <4>1. PICK n \in 1..L : p[n] = t
        BY <1>1 DEF Labelled
      <4>2. n \in 1..L + 1
        BY <1>1
      <4> QED BY <2>6, <4>1, <4>2
    <3>2. ASSUME NEW n \in 1..L + 1
          PROVE  G[n].ids = IF q[n] \in D THEN V[q[n]] ELSE {}
      <4>1. CASE n = L + 1
        <5>1. name \notin D
          BY <1>1, <2>4 DEF Labelled
        <5> QED BY <2>2, <2>6, <4>1, <5>1
      <4>2. CASE n # L + 1
        <5>1. n \in 1..L
          BY <1>1, <4>2
        <5>2. N[n].ids = IF p[n] \in D THEN V[p[n]] ELSE {}
          BY <1>1, <5>1 DEF Labelled
        <5> QED BY <2>2, <2>6, <5>1, <5>2
      <4> QED BY <4>1, <4>2
    <3> QED BY <2>2, <3>1, <3>2 DEF Labelled
  <2>13. HasTokens(Descended(w, b).nodes, q, V, D)
    BY <2>1, <2>3, <2>11, <2>12 DEF HasTokens, G
  <2>14. q[Descended(w, b).at] = Append(p[a], b)
    BY <2>1, <2>6 DEF name
  <2> QED BY <2>13, <2>14
<1> QED BY <1>2, <1>3

\* Where the bytes of t lead to from a node.
Walked(w, t) == FoldLeft(Descended, w, t)

\* A walk at the root of a trie with the tokens in D, and one that string t has led to its node.
AtRoot(w, V, D) == w \in Walks /\ w.at = 1 /\ \E p : HasTokens(w.nodes, p, V, D)

LedBy(t, w, V, D) == w \in Walks /\ \E q : HasTokens(w.nodes, q, V, D) /\ q[w.at] = t

\* Down from the root along a string.
LEMMA WalkedDown ==
  ASSUME NEW w, NEW V, NEW D, AtRoot(w, V, D), NEW t \in Seq(Byte)
  PROVE  LedBy(t, Walked(w, t), V, D)
<1>1. w \in Walks /\ w.at = 1
  BY DEF AtRoot
<1>2. PICK p : HasTokens(w.nodes, p, V, D)
  BY DEF AtRoot
<1> DEFINE F == DescentStep
           GetsTo(k, x) == \E q : HasTokens(x.nodes, q, V, D) /\ q[x.at] = SubSeq(t, 1, k)
           I == {i \in Nat \X Walks : GetsTo(i[1], i[2])}
<1>3. IsStep(F, Walks, Byte) /\ FoldLeft(Descended, w, t) = Folded(F, w, t)
  BY <1>1, DescentFolds
<1>4. <<0, w>> \in I
  <2>1. p[1] = << >> /\ SubSeq(t, 1, 0) = << >>
    BY <1>2 DEF HasTokens, Named
  <2>2. GetsTo(0, w)
    BY <1>1, <1>2, <2>1
  <2> HIDE DEF GetsTo
  <2> QED BY <1>1, <2>2
<1>5. ASSUME NEW k \in 0..Len(t) - 1, NEW x \in Walks, <<k, x>> \in I
      PROVE  <<k + 1, F[<<x, t[k + 1]>>]>> \in I
  <2>1. t[k + 1] \in Byte /\ k + 1 \in Nat
    OBVIOUS
  <2>2. F[<<x, t[k + 1]>>] = Descended(x, t[k + 1]) /\ Descended(x, t[k + 1]) \in Walks
    BY <2>1, DescentResult DEF DescentStep
  <2>3. PICK q : HasTokens(x.nodes, q, V, D) /\ q[x.at] = SubSeq(t, 1, k)
    BY <1>5
  <2>4. PICK r : /\ HasTokens(Descended(x, t[k + 1]).nodes, r, V, D)
                 /\ r[Descended(x, t[k + 1]).at] = Append(q[x.at], t[k + 1])
    <3> HIDE DEF I, GetsTo, F
    <3> DEFINE y == t[k + 1]
    <3>1. y \in Byte
      BY <2>1
    <3> HIDE DEF y
    <3>2. \E r : HasTokens(Descended(x, y).nodes, r, V, D) /\ r[Descended(x, y).at] = Append(q[x.at], y)
      BY <2>3, <3>1, DescendKeepsTokens, ZenonT(40)
    <3> QED BY <3>2 DEF y
  <2>5. Append(SubSeq(t, 1, k), t[k + 1]) = SubSeq(t, 1, k + 1)
    OBVIOUS
  <2>6. GetsTo(k + 1, Descended(x, t[k + 1]))
    BY <2>3, <2>4, <2>5
  <2> HIDE DEF GetsTo
  <2>7. <<k + 1, Descended(x, t[k + 1])>> \in I
    BY <2>1, <2>2, <2>6
  <2> QED BY <2>2, <2>7
<1>6. <<Len(t), Folded(F, w, t)>> \in I
  <2> HIDE DEF I, F
  <2> QED BY <1>1, <1>3, <1>4, <1>5, FoldedKeeps
<1>7. GetsTo(Len(t), Folded(F, w, t)) /\ Folded(F, w, t) \in Walks
  <2> HIDE DEF GetsTo
  <2> QED BY <1>6
<1>8. SubSeq(t, 1, Len(t)) = t
  OBVIOUS
<1>9. Walked(w, t) = Folded(F, w, t)
  BY <1>3 DEF Walked
<1> QED BY <1>7, <1>8, <1>9 DEF LedBy

-----------------------------------------------------------------------------
(***************************************************************************)
(* The arrays.                                                             *)
(***************************************************************************)

TableRows == [edgeStart : Nat, edgeLen : Nat, tokenStart : Nat, tokenLen : Nat]
TrieEdges == [byte : Byte, child : Nat]
Arrays == [table : Seq(TableRows), edges : Seq(TrieEdges), ids : Seq(Nat)]

FiniteNodes == {n \in TrieNodes : IsFiniteSet(n.ids)}

LayStep == [p \in Arrays \X FiniteNodes |-> LaidOut(p[1], p[2])]

\* The slice of s that begins after its first i and has c elements.
SliceOf(s, i, c) == SubSeq(s, i + 1, i + c)

EdgesIn(a, n) == SliceOf(a.edges, a.table[n].edgeStart, a.table[n].edgeLen)
IdsIn(a, n) == SliceOf(a.ids, a.table[n].tokenStart, a.table[n].tokenLen)

EdgesFrom(node) == {[byte |-> b, child |-> node.children[b]] : b \in DOMAIN node.children}

\* Row n of the arrays is the node's.
Holds(a, n, node) ==
  /\ a.table[n].edgeStart + a.table[n].edgeLen <= Len(a.edges)
  /\ a.table[n].tokenStart + a.table[n].tokenLen <= Len(a.ids)
  /\ ToSet(EdgesIn(a, n)) = EdgesFrom(node)
  /\ ToSet(IdsIn(a, n)) = node.ids

\* A slice stays when something is appended, and what is appended is one.
LEMMA SlicesStay ==
  ASSUME NEW S, NEW s \in Seq(S), NEW t \in Seq(S)
  PROVE  /\ \A i, c \in Nat : i + c <= Len(s) => SliceOf(s \o t, i, c) = SliceOf(s, i, c)
         /\ SliceOf(s \o t, Len(s), Len(t)) = t
         /\ Len(s \o t) = Len(s) + Len(t) /\ Len(s) \in Nat /\ Len(t) \in Nat /\ s \o t \in Seq(S)
<1>1. /\ Len(s \o t) = Len(s) + Len(t) /\ Len(s) \in Nat /\ Len(t) \in Nat /\ s \o t \in Seq(S)
      /\ \A i \in 1..Len(s) : (s \o t)[i] = s[i]
      /\ \A i \in 1..Len(t) : (s \o t)[Len(s) + i] = t[i]
  OBVIOUS
<1>2. ASSUME NEW i \in Nat, NEW c \in Nat, i + c <= Len(s)
      PROVE  SliceOf(s \o t, i, c) = SliceOf(s, i, c)
  <2>1. /\ SliceOf(s, i, c) = [k \in 1..c |-> s[i + k]]
        /\ SliceOf(s \o t, i, c) = [k \in 1..c |-> (s \o t)[i + k]]
    <3>1. (i + c) - (i + 1) + 1 = c /\ \A k \in 1..c : (i + 1) + k - 1 = i + k
      OBVIOUS
    <3> QED BY <1>1, <1>2, <3>1 DEF SliceOf
  <2>2. \A k \in 1..c : i + k \in 1..Len(s)
    BY <1>1, <1>2
  <2> QED BY <1>1, <2>1, <2>2
<1>3. SliceOf(s \o t, Len(s), Len(t)) = t
  <2>1. SliceOf(s \o t, Len(s), Len(t)) = [k \in 1..Len(t) |-> (s \o t)[Len(s) + k]]
    BY <1>1 DEF SliceOf
  <2>2. t = [k \in 1..Len(t) |-> t[k]]
    OBVIOUS
  <2> QED BY <1>1, <2>1, <2>2
<1> QED BY <1>1, <1>2, <1>3

\* What is appended for a node.
LEMMA LaidOutResult ==
  ASSUME NEW a \in Arrays, NEW node \in FiniteNodes
  PROVE  LET b == LaidOut(a, node)
             n == Len(a.table) + 1
         IN /\ b \in Arrays /\ Len(b.table) = n /\ n \in Nat
            /\ Holds(b, n, node)
            /\ \A k \in 1..Len(a.table), x \in FiniteNodes : Holds(a, k, x) => Holds(b, k, x)
<1> DEFINE B == DOMAIN node.children
           bytes == Ascending(B)
           idents == Ascending(node.ids)
           more == [k \in DOMAIN bytes |-> [byte |-> bytes[k], child |-> node.children[bytes[k]]]]
           row == [edgeStart |-> Len(a.edges), edgeLen |-> Len(bytes),
                   tokenStart |-> Len(a.ids), tokenLen |-> Len(idents)]
           b == LaidOut(a, node)
           n == Len(a.table) + 1
<1>1. /\ a.table \in Seq(TableRows) /\ a.edges \in Seq(TrieEdges) /\ a.ids \in Seq(Nat)
      /\ node.children \in [B -> Nat] /\ B \subseteq Byte /\ node.ids \subseteq Nat /\ IsFiniteSet(node.ids)
  BY DEF Arrays, FiniteNodes, TrieNodes
<1>2. bytes \in Seq(B) /\ ToSet(bytes) = B /\ Len(bytes) \in Nat
  <2>1. IsFiniteSet(B) /\ B \in SUBSET Nat
    BY <1>1, ByteAssumption, FS_Subset
  <2> HIDE DEF B
  <2> QED BY <2>1, AscendingResult
<1>3. idents \in Seq(Nat) /\ ToSet(idents) = node.ids /\ Len(idents) \in Nat
  <2>1. idents \in Seq(node.ids) /\ ToSet(idents) = node.ids
    BY <1>1, AscendingResult
  <2> HIDE DEF idents
  <2> QED BY <1>1, <2>1
<1> HIDE DEF bytes, idents, B
<1>4. /\ more \in Seq(TrieEdges) /\ Len(more) = Len(bytes)
      /\ ToSet(more) = EdgesFrom(node)
  <2>1. DOMAIN bytes = 1..Len(bytes) /\ \A k \in DOMAIN bytes : bytes[k] \in B
    BY <1>2
  <2>2. \A k \in DOMAIN bytes : [byte |-> bytes[k], child |-> node.children[bytes[k]]] \in TrieEdges
    BY <1>1, <2>1 DEF TrieEdges
  <2>3. more \in [1..Len(bytes) -> TrieEdges]
    BY <2>1, <2>2
  <2>4. more \in Seq(TrieEdges) /\ Len(more) = Len(bytes)
    <3> HIDE DEF more
    <3> QED BY <1>2, <2>3
  <2>5. ToSet(more) = {[byte |-> x, child |-> node.children[x]] : x \in ToSet(bytes)}
    BY DEF ToSet
  <2> QED BY <1>2, <2>4, <2>5 DEF EdgesFrom, B
<1> HIDE DEF more
<1>5. /\ b.table = Append(a.table, row) /\ b.edges = a.edges \o more /\ b.ids = a.ids \o idents
      /\ b = [table |-> b.table, edges |-> b.edges, ids |-> b.ids]
  BY DEF LaidOut, more, bytes, idents, B
<1> HIDE DEF b
<1>6. Len(a.edges) \in Nat /\ Len(a.ids) \in Nat /\ Len(a.table) \in Nat
  BY <1>1
<1>7. row \in TableRows
  BY <1>2, <1>3, <1>6 DEF TableRows
<1>8. /\ row.edgeStart = Len(a.edges) /\ row.edgeLen = Len(more)
      /\ row.tokenStart = Len(a.ids) /\ row.tokenLen = Len(idents)
  BY <1>4
<1> HIDE DEF row
<1>9. /\ b.table \in Seq(TableRows) /\ Len(b.table) = n /\ b.table[n] = row
      /\ \A k \in 1..Len(a.table) : b.table[k] = a.table[k] /\ a.table[k] \in TableRows
  BY <1>1, <1>5, <1>7
<1>10. /\ \A i, c \in Nat : i + c <= Len(a.edges) => SliceOf(b.edges, i, c) = SliceOf(a.edges, i, c)
       /\ SliceOf(b.edges, Len(a.edges), Len(more)) = more
       /\ Len(b.edges) = Len(a.edges) + Len(more) /\ Len(more) \in Nat /\ b.edges \in Seq(TrieEdges)
  <2>1. a.edges \in Seq(TrieEdges) /\ more \in Seq(TrieEdges)
    BY <1>1, <1>4
  <2>2. /\ \A i, c \in Nat : i + c <= Len(a.edges) =>
             SliceOf(a.edges \o more, i, c) = SliceOf(a.edges, i, c)
        /\ SliceOf(a.edges \o more, Len(a.edges), Len(more)) = more
        /\ Len(a.edges \o more) = Len(a.edges) + Len(more) /\ Len(more) \in Nat
        /\ a.edges \o more \in Seq(TrieEdges)
    BY <2>1, SlicesStay
  <2> QED BY <1>5, <2>2
<1>11. /\ \A i, c \in Nat : i + c <= Len(a.ids) => SliceOf(b.ids, i, c) = SliceOf(a.ids, i, c)
       /\ SliceOf(b.ids, Len(a.ids), Len(idents)) = idents
       /\ Len(b.ids) = Len(a.ids) + Len(idents) /\ Len(idents) \in Nat /\ b.ids \in Seq(Nat)
  BY <1>1, <1>3, <1>5, SlicesStay
<1>12. b \in Arrays
  BY <1>5, <1>9, <1>10, <1>11 DEF Arrays
<1>13. Holds(b, n, node)
  <2>1. b.table[n] = row
    BY <1>9
  <2> HIDE DEF n
  <2>2. EdgesIn(b, n) = more /\ IdsIn(b, n) = idents
    BY <1>8, <1>10, <1>11, <2>1 DEF EdgesIn, IdsIn
  <2>3. row.edgeStart + row.edgeLen <= Len(b.edges) /\ row.tokenStart + row.tokenLen <= Len(b.ids)
    BY <1>3, <1>6, <1>8, <1>10, <1>11
  <2> QED BY <1>3, <1>4, <2>1, <2>2, <2>3 DEF Holds
<1>14. ASSUME NEW k \in 1..Len(a.table), NEW x \in FiniteNodes, Holds(a, k, x)
       PROVE  Holds(b, k, x)
  <2>1. /\ b.table[k] = a.table[k]
        /\ a.table[k].edgeStart \in Nat /\ a.table[k].edgeLen \in Nat
        /\ a.table[k].tokenStart \in Nat /\ a.table[k].tokenLen \in Nat
    BY <1>9 DEF TableRows
  <2>2. /\ a.table[k].edgeStart + a.table[k].edgeLen <= Len(a.edges)
        /\ a.table[k].tokenStart + a.table[k].tokenLen <= Len(a.ids)
        /\ ToSet(EdgesIn(a, k)) = EdgesFrom(x) /\ ToSet(IdsIn(a, k)) = x.ids
    BY <1>14 DEF Holds
  <2>3. EdgesIn(b, k) = EdgesIn(a, k)
    BY <1>10, <2>1, <2>2 DEF EdgesIn
  <2>4. IdsIn(b, k) = IdsIn(a, k)
    BY <1>11, <2>1, <2>2 DEF IdsIn
  <2>5. \A l, m, c \in Nat : l + m <= c => \A e \in Nat : l + m <= c + e
    OBVIOUS
  <2>6. /\ b.table[k].edgeStart + b.table[k].edgeLen <= Len(b.edges)
        /\ b.table[k].tokenStart + b.table[k].tokenLen <= Len(b.ids)
    <3>1. /\ b.table[k].edgeStart + b.table[k].edgeLen <= Len(a.edges) + Len(more)
          /\ b.table[k].tokenStart + b.table[k].tokenLen <= Len(a.ids) + Len(idents)
      BY <1>6, <1>10, <1>11, <2>1, <2>2, <2>5
    <3> QED BY <1>10, <1>11, <3>1
  <2> QED BY <2>2, <2>3, <2>4, <2>6 DEF Holds
<1> QED BY <1>6, <1>9, <1>12, <1>13, <1>14 DEF b

NoArrays == [table |-> << >>, edges |-> << >>, ids |-> << >>]

\* Laying out is a fold.
LEMMA LayingFolds ==
  ASSUME NEW s \in Seq(FiniteNodes)
  PROVE  /\ IsStep(LayStep, Arrays, FiniteNodes) /\ NoArrays \in Arrays
         /\ FoldLeft(LaidOut, NoArrays, s) = Folded(LayStep, NoArrays, s)
<1> DEFINE Equation(g) ==
             g = [T \in SUBSET DOMAIN s |->
                    IF T = {} THEN NoArrays
                    ELSE LET x == Max(T) IN LaidOut(g[T \ {x}], s[x])]
           iter == CHOOSE g : Equation(g)
           p == Partial(LayStep, NoArrays, s)
<1>1. IsStep(LayStep, Arrays, FiniteNodes)
  <2>1. \A x \in Arrays, y \in FiniteNodes : LaidOut(x, y) \in Arrays
    BY LaidOutResult
  <2> QED BY <2>1 DEF IsStep, LayStep
<1>2. NoArrays \in Arrays
  BY DEF NoArrays, Arrays
<1>3. StepsAs(p, Arrays, FiniteNodes, LayStep, NoArrays, s)
  BY <1>1, <1>2, PartialSteps, Zenon
<1>4. DOMAIN s = 1..Len(s)
  OBVIOUS
<1>5. FoldLeft(LaidOut, NoArrays, s) = iter[DOMAIN s]
  BY Zenon DEF FoldLeft, MapThenFoldSet
<1> HIDE DEF p
<1>6. Equation(p)
  <2>1. \A x \in Arrays, y \in FiniteNodes : LayStep[<<x, y>>] = LaidOut(x, y)
    BY DEF LayStep
  <2> QED BY <1>3, <2>1 DEF StepsAs
<1>7. Equation(iter)
  <2> HIDE DEF Equation
  <2> QED BY <1>6
<1> HIDE DEF iter
<1>8. StepAlike(iter, p, Len(s))
  BY <1>4, <1>6, <1>7 DEF StepAlike
<1>9. FoldsTo(iter, LayStep, NoArrays, s)
  BY <1>1, <1>2, <1>8, FoldsAlike, Zenon DEF p
<1> QED BY <1>1, <1>2, <1>5, <1>9 DEF FoldsTo

\* The arrays have a row for each node.
LEMMA LaidOutHolds ==
  ASSUME NEW N \in Seq(FiniteNodes)
  PROVE  /\ FoldLeft(LaidOut, NoArrays, N) \in Arrays
         /\ Len(FoldLeft(LaidOut, NoArrays, N).table) = Len(N)
         /\ \A n \in 1..Len(N) : Holds(FoldLeft(LaidOut, NoArrays, N), n, N[n])
<1> DEFINE F == LayStep
           HoldsTo(k, a) == Len(a.table) = k /\ \A n \in 1..k : Holds(a, n, N[n])
           I == {i \in Nat \X Arrays : HoldsTo(i[1], i[2])}
<1>1. /\ IsStep(F, Arrays, FiniteNodes) /\ NoArrays \in Arrays
      /\ FoldLeft(LaidOut, NoArrays, N) = Folded(F, NoArrays, N)
  BY LayingFolds
<1>2. <<0, NoArrays>> \in I
  <2>1. HoldsTo(0, NoArrays)
    BY DEF NoArrays
  <2> HIDE DEF HoldsTo
  <2> QED BY <1>1, <2>1
<1>3. ASSUME NEW k \in 0..Len(N) - 1, NEW x \in Arrays, <<k, x>> \in I
      PROVE  <<k + 1, F[<<x, N[k + 1]>>]>> \in I
  <2>1. N[k + 1] \in FiniteNodes /\ k + 1 \in Nat /\ k + 1 \in 1..Len(N) /\ k \in Nat
    OBVIOUS
  <2> DEFINE y == LaidOut(x, N[k + 1])
  <2>2. Len(x.table) = k /\ \A n \in 1..k : Holds(x, n, N[n])
    BY <1>3
  <2>3. F[<<x, N[k + 1]>>] = y
    BY <2>1 DEF LayStep
  <2>4. /\ y \in Arrays /\ Len(y.table) = k + 1 /\ Holds(y, k + 1, N[k + 1])
        /\ \A n \in 1..k : Holds(x, n, N[n]) => Holds(y, n, N[n])
    <3>1. \A n \in 1..k : N[n] \in FiniteNodes
      BY <2>1
    <3> QED BY <2>1, <2>2, <3>1, LaidOutResult
  <2> HIDE DEF y
  <2>5. HoldsTo(k + 1, y)
    <3>1. \A n \in 1..k + 1 : n = k + 1 \/ n \in 1..k
      BY <2>1
    <3> QED BY <2>2, <2>4, <3>1
  <2> HIDE DEF HoldsTo
  <2>6. <<k + 1, y>> \in I
    BY <2>1, <2>4, <2>5
  <2> QED BY <2>3, <2>6
<1>4. <<Len(N), Folded(F, NoArrays, N)>> \in I
  <2> HIDE DEF I, F
  <2> QED BY <1>1, <1>2, <1>3, FoldedKeeps
<1>5. HoldsTo(Len(N), Folded(F, NoArrays, N)) /\ Folded(F, NoArrays, N) \in Arrays
  <2> HIDE DEF HoldsTo
  <2> QED BY <1>4
<1> QED BY <1>1, <1>5

-----------------------------------------------------------------------------
(***************************************************************************)
(* The trie.                                                               *)
(***************************************************************************)

\* There are finitely many tokens and ids.
IsFiniteVocabulary(V) ==
  IsFiniteSet(DOMAIN V) /\ \A t \in DOMAIN V : IsFiniteSet(V[t]) /\ V[t] \subseteq Nat

\* The tokens that wait no longer.
Entered(V, entries) == DOMAIN V \ ToSet(entries)

\* Ids name the tokens in D.
AreReversed(reverse, V, D) ==
  /\ DOMAIN reverse = UNION {V[t] : t \in D}
  /\ \A t \in D : \A id \in V[t] : reverse[id] = t

TrieBuilding(V, x) ==
  /\ << >> \notin DOMAIN V
  /\ x.entries \in Seq(DOMAIN V) /\ Distinct(x.entries)
  /\ \E p : HasTokens(x.nodes, p, V, Entered(V, x.entries))
  /\ AreReversed(x.reverse, V, Entered(V, x.entries))

TrieBuilt(V, x) ==
  /\ << >> \notin DOMAIN V
  /\ \E p : HasTokens(x.nodes, p, V, DOMAIN V)
  /\ AreReversed(x.reverse, V, DOMAIN V)
  /\ Len(x.table) = Len(x.nodes)
  /\ x.table \in Seq(TableRows) /\ x.edges \in Seq(TrieEdges)
  /\ \A n \in 1..Len(x.nodes) : Holds(x, n, x.nodes[n])

TrieInv ==
  /\ IsFiniteVocabulary(vocabulary)
  /\ trie.at = "idle" => trie.nodes = <<NewNode>> /\ trie.reverse = << >>
  /\ trie.at = "building" => TrieBuilding(vocabulary, trie)
  /\ trie.at = "done" => TrieBuilt(vocabulary, trie)

\* A token that is inserted, and one that is removed.
LEMMA VocabularyStaysFinite ==
  ASSUME IsFiniteVocabulary(vocabulary)
  PROVE  /\ \A t \in Token, id \in Id : TryInsert(t, id) => IsFiniteVocabulary(vocabulary')
         /\ \A t \in Token : RemoveToken(t) => IsFiniteVocabulary(vocabulary')
<1> DEFINE V == vocabulary
<1>1. ASSUME NEW t \in Token, NEW id \in Id, TryInsert(t, id)
      PROVE  IsFiniteVocabulary(vocabulary')
  <2> DEFINE ids == IdsOf(t) \cup {id}
  <2>1. vocabulary' = Put(V, t, ids)
    BY <1>1 DEF TryInsert
  <2>2. IsFiniteSet(IdsOf(t)) /\ IdsOf(t) \subseteq Nat
    BY FS_EmptySet DEF IdsOf, IsFiniteVocabulary
  <2>3. IsFiniteSet(ids) /\ ids \subseteq Nat
    BY <2>2, FS_AddElement, TokenAssumption
  <2> HIDE DEF ids
  <2>4. DOMAIN vocabulary' = DOMAIN V \cup {t}
    BY <2>1 DEF Put
  <2>5. IsFiniteSet(DOMAIN vocabulary')
    BY <2>4, FS_AddElement DEF IsFiniteVocabulary
  <2>6. \A u \in DOMAIN vocabulary' : vocabulary'[u] = IF u = t THEN ids ELSE V[u]
    BY <2>1, <2>4 DEF Put
  <2> QED BY <2>3, <2>4, <2>5, <2>6 DEF IsFiniteVocabulary
<1>2. ASSUME NEW t \in Token, RemoveToken(t)
      PROVE  IsFiniteVocabulary(vocabulary')
  <2>1. vocabulary' = [u \in DOMAIN V \ {t} |-> V[u]]
    BY <1>2 DEF RemoveToken
  <2>2. DOMAIN vocabulary' \subseteq DOMAIN V /\ \A u \in DOMAIN vocabulary' : vocabulary'[u] = V[u]
    BY <2>1
  <2> QED BY <2>2, FS_Subset DEF IsFiniteVocabulary
<1> QED BY <1>1, <1>2

\* With the ids of the token that leads to node a.
LEMMA LabelAdded ==
  ASSUME NEW N, NEW p, NEW V, NEW D, HasTokens(N, p, V, D), NEW a \in 1..Len(N),
         p[a] \notin D, V[p[a]] \subseteq Nat
  PROVE  HasTokens([N EXCEPT ![a].ids = @ \cup V[p[a]]], p, V, D \cup {p[a]})
<1> DEFINE ids == N[a].ids \cup V[p[a]]
           M == [N EXCEPT ![a].ids = ids]
           L == Len(N)
<1>1. IsTrie(N) /\ Named(N, p) /\ Labelled(N, p, V, D) /\ N \in Seq(TrieNodes) /\ L \in Nat
  BY DEF HasTokens, IsTrie
<1>2. \A n \in 1..L : N[n] \in TrieNodes
  BY <1>1
<1>3. N[a].ids = {}
  BY <1>1 DEF Labelled
<1>4. ids \subseteq Nat /\ ids = V[p[a]]
  BY <1>3
<1> HIDE DEF ids
<1>5. [N[a] EXCEPT !.ids = ids] \in TrieNodes
  BY <1>2, <1>4 DEF TrieNodes
<1>6. M \in Seq(TrieNodes) /\ Len(M) = L
  BY <1>1, <1>5
<1>7. \A n \in 1..L : /\ M[n].children = N[n].children
                      /\ M[n].ids = IF n = a THEN ids ELSE N[n].ids
  BY <1>1, <1>2 DEF TrieNodes
<1>8. M # << >>
  BY <1>1, <1>6 DEF IsTrie
<1> HIDE DEF M
<1>9. IsTrie(M)
  <2>1. \A n \in 1..L : ChildrenIn(N, n)
    BY <1>1 DEF IsTrie
  <2>2. \A n \in 1..L : ChildrenIn(M, n)
    BY <1>6, <1>7, <2>1 DEF ChildrenIn
  <2> QED BY <1>6, <1>8, <2>2 DEF IsTrie
<1>10. Named(M, p)
  <2>1. ASSUME NEW c \in 2..L
        PROVE  HasParent(M, c)
    <3>1. HasParent(N, c)
      BY <1>1 DEF Named
    <3>2. \A n \in 1..c - 1 : n \in 1..L
      BY <1>1
    <3> QED BY <1>7, <3>1, <3>2 DEF HasParent
  <2>2. \A n \in 1..L : \A b \in DOMAIN M[n].children : p[M[n].children[b]] = Append(p[n], b)
    <3> SUFFICES ASSUME NEW n \in 1..L, NEW b \in DOMAIN M[n].children
                 PROVE  p[M[n].children[b]] = Append(p[n], b)
      OBVIOUS
    <3>1. M[n].children = N[n].children
      BY <1>7
    <3>2. b \in DOMAIN N[n].children
      BY <3>1
    <3>3. p[N[n].children[b]] = Append(p[n], b)
      BY <1>1, <3>2 DEF Named
    <3> QED BY <3>1, <3>3
  <2> QED BY <1>1, <1>6, <2>1, <2>2 DEF Named
<1>11. Labelled(M, p, V, D \cup {p[a]})
  <2>1. ASSUME NEW n \in 1..L
        PROVE  M[n].ids = IF p[n] \in D \cup {p[a]} THEN V[p[n]] ELSE {}
    <3>1. N[n].ids = IF p[n] \in D THEN V[p[n]] ELSE {}
      BY <1>1 DEF Labelled
    <3>2. p[n] = p[a] => n = a
      BY <1>1 DEF Named
    <3> QED BY <1>4, <1>7, <3>1, <3>2
  <2>2. \A t \in D \cup {p[a]} : \E n \in 1..L : p[n] = t
    BY <1>1 DEF Labelled
  <2> QED BY <1>6, <2>1, <2>2 DEF Labelled
<1>12. HasTokens(M, p, V, D \cup {p[a]})
  BY <1>9, <1>10, <1>11 DEF HasTokens
<1> QED BY <1>12 DEF M, ids

\* The head of a sequence of different elements is not among the others.
LEMMA HeadTaken ==
  ASSUME NEW S, NEW s \in Seq(S), s # << >>, Distinct(s)
  PROVE  /\ Head(s) \in S /\ Tail(s) \in Seq(S) /\ Distinct(Tail(s))
         /\ Head(s) \in ToSet(s) /\ ToSet(Tail(s)) = ToSet(s) \ {Head(s)}
<1> DEFINE t == Tail(s)
<1>1. /\ Len(s) \in Nat /\ Len(s) >= 1 /\ Len(t) = Len(s) - 1 /\ Head(s) = s[1] /\ t \in Seq(S)
      /\ \A i \in 1..Len(t) : t[i] = s[i + 1]
      /\ DOMAIN s = 1..Len(s) /\ DOMAIN t = 1..Len(t) /\ s[1] \in S
  OBVIOUS
<1> HIDE DEF t
<1>2. \A i, j \in 1..Len(s) : s[i] = s[j] => i = j
  BY <1>1 DEF Distinct
<1>3. Distinct(t)
  <2> SUFFICES ASSUME NEW i \in 1..Len(t), NEW j \in 1..Len(t), t[i] = t[j]
               PROVE  i = j
    BY <1>1 DEF Distinct
  <2>1. i + 1 \in 1..Len(s) /\ j + 1 \in 1..Len(s)
    BY <1>1
  <2>2. i + 1 = j + 1
    BY <1>1, <1>2, <2>1
  <2> QED BY <2>2
<1>4. ASSUME NEW x
      PROVE  x \in ToSet(t) <=> x \in ToSet(s) \ {s[1]}
  <2>1. ASSUME x \in ToSet(t)
        PROVE  x \in ToSet(s) \ {s[1]}
    <3>1. PICK i \in 1..Len(t) : t[i] = x
      BY <1>1, <2>1 DEF ToSet
    <3>2. i + 1 \in 1..Len(s) /\ i + 1 # 1 /\ 1 \in 1..Len(s) /\ s[i + 1] = x
      BY <1>1, <3>1
    <3>3. x # s[1]
      BY <1>2, <3>2
    <3> QED BY <1>1, <3>2, <3>3 DEF ToSet
  <2>2. ASSUME x \in ToSet(s), x # s[1]
        PROVE  x \in ToSet(t)
    <3>1. PICK i \in 1..Len(s) : s[i] = x
      BY <1>1, <2>2 DEF ToSet
    <3>2. i - 1 \in 1..Len(t) /\ (i - 1) + 1 = i
      BY <1>1, <2>2, <3>1
    <3>3. t[i - 1] = x
      BY <1>1, <3>1, <3>2
    <3> QED BY <1>1, <3>2, <3>3 DEF ToSet
  <2> QED BY <2>1, <2>2
<1>5. s[1] \in ToSet(s)
  BY <1>1 DEF ToSet
<1> QED BY <1>1, <1>3, <1>4, <1>5 DEF t

\* Entering a token.
LEMMA InsertKeepsInv ==
  ASSUME IndexInv, TrieFollows, TrieInv, vocabulary' = vocabulary, InsertEntry
  PROVE  TrieInv'
<1> DEFINE V == vocabulary
           D == Entered(V, trie.entries)
           t == Head(trie.entries)
           start == [nodes |-> trie.nodes, at |-> 1]
           w == Walked(start, t)
<1>1. /\ trie.at = "building" /\ trie.entries # << >> /\ TrieBuilding(V, trie)
      /\ IsVocabulary(V) /\ IsFiniteVocabulary(V) /\ IsTrieRecord(trie)
  BY DEF InsertEntry, TrieInv, IndexInv, TrieFollows
<1>2. /\ t \in DOMAIN V /\ t \in Seq(Byte) /\ IdsOf(t) = V[t] /\ V[t] \subseteq Nat
      /\ Tail(trie.entries) \in Seq(DOMAIN V) /\ Distinct(Tail(trie.entries))
      /\ t \notin D /\ Entered(V, Tail(trie.entries)) = D \cup {t}
  <2>1. trie.entries \in Seq(DOMAIN V) /\ Distinct(trie.entries)
    BY <1>1 DEF TrieBuilding
  <2>2. /\ t \in DOMAIN V /\ Tail(trie.entries) \in Seq(DOMAIN V) /\ Distinct(Tail(trie.entries))
        /\ t \in ToSet(trie.entries) /\ ToSet(Tail(trie.entries)) = ToSet(trie.entries) \ {t}
    BY <1>1, <2>1, HeadTaken
  <2> QED BY <1>1, <2>2 DEF IsVocabulary, IsFiniteVocabulary, Entered, IdsOf
<1>3. PICK p : HasTokens(trie.nodes, p, V, D)
  BY <1>1 DEF TrieBuilding
<1>4. start \in Walks /\ start.at = 1 /\ start.nodes = trie.nodes
  BY <1>3 DEF Walks, HasTokens, IsTrie
<1> HIDE DEF start, t, D
<1>5. LedBy(t, w, V, D)
  <2>1. AtRoot(start, V, D)
    BY <1>3, <1>4 DEF AtRoot
  <2> QED BY <1>2, <2>1, WalkedDown
<1>6. PICK q : HasTokens(w.nodes, q, V, D) /\ q[w.at] = t
  BY <1>5 DEF LedBy
<1> HIDE DEF w
<1> DEFINE M == [w.nodes EXCEPT ![w.at].ids = @ \cup IdsOf(t)]
           rev == [id \in IdsOf(t) \cup DOMAIN trie.reverse |-> IF id \in IdsOf(t) THEN t ELSE trie.reverse[id]]
           clash == \E id \in IdsOf(t) : id \in DOMAIN trie.reverse /\ trie.reverse[id] # t
<1>7. HasTokens(M, q, V, D \cup {t})
  <2>1. w.at \in 1..Len(w.nodes)
    BY <1>5 DEF LedBy, Walks
  <2> QED BY <1>2, <1>6, <2>1, LabelAdded
<1>8. ASSUME ~clash
      PROVE  AreReversed(rev, V, D \cup {t})
  <2>1. AreReversed(trie.reverse, V, D)
    BY <1>1 DEF TrieBuilding, D
  <2>2. DOMAIN rev = V[t] \cup DOMAIN trie.reverse
    BY <1>2
  <2>3. DOMAIN rev = UNION {V[u] : u \in D \cup {t}}
    BY <2>1, <2>2 DEF AreReversed
  <2>4. ASSUME NEW u \in D, NEW id \in V[u]
        PROVE  rev[id] = u
    <3>1. id \in DOMAIN trie.reverse /\ trie.reverse[id] = u
      BY <2>1 DEF AreReversed
    <3>2. id \notin V[t]
      BY <1>2, <1>8, <3>1
    <3> QED BY <1>2, <3>1, <3>2
  <2>5. \A id \in V[t] : rev[id] = t
    BY <1>2
  <2> QED BY <2>3, <2>4, <2>5 DEF AreReversed
<1> HIDE DEF M, rev, clash
<1>9. \/ trie' = [trie EXCEPT !.at = "refused"]
      \/ trie' = [trie EXCEPT !.at = "ambiguous"]
      \/ ~clash /\ trie' = [trie EXCEPT !.entries = Tail(@), !.nodes = M, !.reverse = rev]
  BY DEF InsertEntry, M, rev, clash, w, start, t, Walked
<1>10. CASE trie' = [trie EXCEPT !.at = "refused"] \/ trie' = [trie EXCEPT !.at = "ambiguous"]
  <2>1. trie'.at \notin {"idle", "building", "done"}
    BY <1>1, <1>10 DEF IsTrieRecord
  <2> QED BY <1>1, <2>1 DEF TrieInv
<1>11. CASE ~clash /\ trie' = [trie EXCEPT !.entries = Tail(@), !.nodes = M, !.reverse = rev]
  <2>1. /\ trie'.at = "building" /\ trie'.entries = Tail(trie.entries) /\ trie'.nodes = M
        /\ trie'.reverse = rev
    BY <1>1, <1>11 DEF IsTrieRecord
  <2>2. TrieBuilding(V, trie')
    BY <1>1, <1>2, <1>7, <1>8, <1>11, <2>1 DEF TrieBuilding
  <2> QED BY <1>1, <2>1, <2>2 DEF TrieInv
<1> QED BY <1>9, <1>10, <1>11

\* The nodes are laid out.
LEMMA LayOutTrieKeepsInv ==
  ASSUME IndexInv, TrieFollows, TrieInv, vocabulary' = vocabulary, LayOut
  PROVE  TrieInv'
<1> DEFINE V == vocabulary
           N == trie.nodes
           a == FoldLeft(LaidOut, NoArrays, N)
<1>1. /\ trie.at = "building" /\ trie.entries = << >> /\ TrieBuilding(V, trie)
      /\ IsFiniteVocabulary(V) /\ IsTrieRecord(trie)
      /\ trie' = [trie EXCEPT !.at = "done", !.table = a.table, !.edges = a.edges, !.ids = a.ids]
  BY DEF LayOut, TrieInv, IndexInv, TrieFollows, NoArrays
<1>2. Entered(V, trie.entries) = DOMAIN V
  BY <1>1 DEF Entered, ToSet
<1>3. PICK p : HasTokens(N, p, V, DOMAIN V)
  BY <1>1, <1>2 DEF TrieBuilding
<1>4. N \in Seq(FiniteNodes)
  <2>1. N \in Seq(TrieNodes)
    BY <1>3 DEF HasTokens, IsTrie
  <2>2. ASSUME NEW n \in 1..Len(N)
        PROVE  N[n] \in FiniteNodes
    <3>1. N[n] \in TrieNodes
      BY <2>1
    <3>2. N[n].ids = IF p[n] \in DOMAIN V THEN V[p[n]] ELSE {}
      BY <1>3 DEF HasTokens, Labelled
    <3> QED BY <1>1, <3>1, <3>2, FS_EmptySet DEF IsFiniteVocabulary, FiniteNodes
  <2> QED BY <2>1, <2>2
<1>5. a \in Arrays /\ Len(a.table) = Len(N) /\ \A n \in 1..Len(N) : Holds(a, n, N[n])
  BY <1>4, LaidOutHolds
<1> HIDE DEF a
<1>6. /\ trie'.at = "done" /\ trie'.nodes = N /\ trie'.reverse = trie.reverse
      /\ trie'.table = a.table /\ trie'.edges = a.edges /\ trie'.ids = a.ids
  BY <1>1 DEF IsTrieRecord
<1>7. \A n \in 1..Len(N) : Holds(trie', n, N[n])
  BY <1>5, <1>6 DEF Holds, EdgesIn, IdsIn
<1>8. a.table \in Seq(TableRows) /\ a.edges \in Seq(TrieEdges)
  BY <1>5 DEF Arrays
<1>9. TrieBuilt(V, trie')
  BY <1>1, <1>2, <1>3, <1>5, <1>6, <1>7, <1>8 DEF TrieBuilt, TrieBuilding
<1> QED BY <1>1, <1>6, <1>9 DEF TrieInv

\* The trie is begun, with its root.
LEMMA BeginTrieKeepsInv ==
  ASSUME IndexInv, TrieFollows, TrieInv, vocabulary' = vocabulary, BeginTrie
  PROVE  TrieInv'
<1> DEFINE V == vocabulary
<1>1. /\ trie.at = "idle" /\ trie.nodes = <<NewNode>> /\ trie.reverse = << >>
      /\ IsVocabulary(V) /\ IsFiniteVocabulary(V) /\ IsTrieRecord(trie)
  BY DEF BeginTrie, TrieInv, IndexInv, TrieFollows
<1>2. CASE << >> \in DOMAIN V \/ Cardinality(DOMAIN V) > MaxTrieNodes
  <2>1. trie' = [trie EXCEPT !.at = "empty token"] \/ trie' = [trie EXCEPT !.at = "refused"]
    BY <1>2 DEF BeginTrie
  <2>2. trie'.at \notin {"idle", "building", "done"}
    BY <1>1, <2>1 DEF IsTrieRecord
  <2> QED BY <1>1, <2>2 DEF TrieInv
<1>3. CASE ~(<< >> \in DOMAIN V \/ Cardinality(DOMAIN V) > MaxTrieNodes)
  <2> DEFINE s == InOrder(DOMAIN V)
             N == <<NewNode>>
             p == [n \in 1..1 |-> << >>]
  <2>1. trie' = [trie EXCEPT !.at = "building", !.entries = s]
    BY <1>3 DEF BeginTrie
  <2>2. s \in Seq(DOMAIN V) /\ Distinct(s) /\ ToSet(s) = DOMAIN V
    <3>1. DOMAIN V \in SUBSET Seq(Byte) /\ IsFiniteSet(DOMAIN V)
      BY <1>1 DEF IsVocabulary, IsFiniteVocabulary
    <3> QED BY <3>1, InOrderResult
  <2> HIDE DEF s
  <2>3. /\ trie'.at = "building" /\ trie'.entries = s /\ trie'.nodes = N
        /\ trie'.reverse = << >>
    BY <1>1, <2>1 DEF IsTrieRecord
  <2>4. Entered(V, s) = {}
    BY <2>2 DEF Entered
  <2>5. NewNode.children = << >> /\ NewNode.ids = {} /\ NewNode \in TrieNodes
    <3>1. << >> \in [{} -> Nat]
      OBVIOUS
    <3>2. << >> \in UNION {[S -> Nat] : S \in SUBSET Byte}
      BY <3>1
    <3> QED BY <3>2 DEF NewNode, TrieNodes
  <2>6. N \in Seq(TrieNodes) /\ Len(N) = 1 /\ N[1] = NewNode /\ DOMAIN N[1].children = {} /\ N # << >>
    BY <2>5
  <2> HIDE DEF N
  <2>7. IsTrie(N)
    BY <2>6 DEF IsTrie, ChildrenIn
  <2>8. p \in [1..1 -> Seq(Byte)] /\ p[1] = << >>
    OBVIOUS
  <2> HIDE DEF p
  <2>9. Named(N, p)
    BY <2>6, <2>8 DEF Named
  <2>10. HasTokens(N, p, V, {})
    BY <2>5, <2>6, <2>7, <2>9 DEF HasTokens, Labelled
  <2>11. AreReversed(<< >>, V, {})
    <3>1. DOMAIN << >> = {}
      OBVIOUS
    <3> QED BY <3>1 DEF AreReversed
  <2>12. TrieBuilding(V, trie')
    BY <1>3, <2>2, <2>3, <2>4, <2>10, <2>11 DEF TrieBuilding
  <2> QED BY <1>1, <2>3, <2>12 DEF TrieInv
<1> QED BY <1>2, <1>3

\* Every step keeps the invariant of the trie.
LEMMA NextKeepsTrieInv == IndexInv /\ TrieFollows /\ TrieInv /\ [Next]_vars => TrieInv'
<1> SUFFICES ASSUME IndexInv, TrieFollows, TrieInv, [Next]_vars
             PROVE  TrieInv'
  OBVIOUS
<1>1. CASE Entering
  <2>1. vocabulary' = vocabulary /\ (BeginTrie \/ InsertEntry \/ LayOut)
    BY <1>1 DEF Entering, TrieStep
  <2> QED BY <2>1, BeginTrieKeepsInv, InsertKeepsInv, LayOutTrieKeepsInv
<1>2. CASE vocabulary' = vocabulary /\ trie' = trie
  BY <1>2 DEF TrieInv
<1>3. CASE Indexing /\ vocabulary' # vocabulary
  <2>1. /\ trie' = trie
        /\ \/ \E t \in Token, id \in Id : TryInsert(t, id)
           \/ \E t \in Token : RemoveToken(t)
    BY <1>3 DEF Indexing, IndexStep, BeginIndex, ExpandState, FinishIndex
  <2>2. index.at = "idle"
    BY <2>1 DEF TryInsert, RemoveToken
  <2>3. trie.at = "idle"
    BY <2>2 DEF TrieFollows
  <2>4. IsFiniteVocabulary(vocabulary')
    BY <2>1, VocabularyStaysFinite DEF TrieInv
  <2> QED BY <2>1, <2>3, <2>4 DEF TrieInv
<1>4. Entering \/ (vocabulary' = vocabulary /\ trie' = trie) \/ (Indexing /\ vocabulary' # vocabulary)
  BY DEF Next, Compiling, Indexing, IndexingRegex, vars
<1> QED BY <1>1, <1>2, <1>3, <1>4

-----------------------------------------------------------------------------
(***************************************************************************)
(* The walk.                                                               *)
(***************************************************************************)

PairsOf(N) == (1..Len(N)) \X Int

\* Where the edges of the nodes met lead, if the automaton stays live.
MovesFrom(N, d, met) ==
  {m \in (1..Len(N)) \X d.live :
     \E k \in met : \E b \in DOMAIN N[k[1]].children :
       m[1] = N[k[1]].children[b] /\ m[2] = StepIn(d.rows)[<<k[2], b>>]}

WalkStep(N, d) == [p \in (SUBSET PairsOf(N)) \X TableRows |-> p[1] \cup MovesFrom(N, d, p[1])]

\* The pairs met, as a fold.
MetIn(N, d, s, table) == Folded(WalkStep(N, d), {<<1, s>>}, table)

\* Moves lead from pairs to pairs.
LEMMA WalkStepType ==
  ASSUME NEW N, NEW d, d.live \subseteq StatesOf(d.rows)
  PROVE  IsStep(WalkStep(N, d), SUBSET PairsOf(N), TableRows)
<1>1. d.live \subseteq Int
  BY DEF StatesOf
<1>2. \A S \in SUBSET PairsOf(N) : S \cup MovesFrom(N, d, S) \in SUBSET PairsOf(N)
  BY <1>1 DEF MovesFrom, PairsOf
<1> QED BY <1>2 DEF IsStep, WalkStep

\* What one move does, in the arrays and in the nodes.
LEMMA OnwardResult ==
  ASSUME TrieBuilt(vocabulary, trie), IsTrie(trie.nodes), dfa.live \subseteq StatesOf(dfa.rows),
         NEW S \in SUBSET PairsOf(trie.nodes), NEW row
  PROVE  Onward(S, row) = S \cup MovesFrom(trie.nodes, dfa, S)
<1> DEFINE N == trie.nodes
           From(m) == {<<e.child, NextState(m[2], e.byte)>> : e \in ToSet(EdgesOf(m[1]))}
           To(m) == {<<N[m[1]].children[b], StepIn(dfa.rows)[<<m[2], b>>]>> :
                       b \in DOMAIN N[m[1]].children}
<1>1. ASSUME NEW m \in S
      PROVE  From(m) = To(m)
  <2> DEFINE C == N[m[1]].children
  <2>1. m[1] \in 1..Len(N) /\ m[2] \in Int
    BY DEF PairsOf
  <2>2. EdgesOf(m[1]) = EdgesIn(trie, m[1])
    BY DEF EdgesOf, EdgesIn, SliceOf
  <2>3. ToSet(EdgesOf(m[1])) = EdgesFrom(N[m[1]])
    BY <2>1, <2>2 DEF TrieBuilt, Holds
  <2>4. From(m) = {<<C[b], NextState(m[2], b)>> : b \in DOMAIN C}
    <3> DEFINE E == EdgesFrom(N[m[1]])
    <3>1. \A e \in E : e.byte \in DOMAIN C /\ e.child = C[e.byte]
      BY DEF EdgesFrom
    <3>2. \A b \in DOMAIN C : \E e \in E : e.byte = b /\ e.child = C[b]
      <4> SUFFICES ASSUME NEW b \in DOMAIN C
                   PROVE  \E e \in E : e.byte = b /\ e.child = C[b]
        OBVIOUS
      <4> DEFINE e == [byte |-> b, child |-> C[b]]
      <4>1. e \in E /\ e.byte = b /\ e.child = C[b]
        BY DEF EdgesFrom
      <4> HIDE DEF e, E, C
      <4> QED BY <4>1
    <3>3. From(m) = {<<e.child, NextState(m[2], e.byte)>> : e \in E}
      BY <2>3
    <3> HIDE DEF E, C, From
    <3> QED BY <3>1, <3>2, <3>3
  <2>5. DOMAIN C \subseteq Byte
    BY <2>1, ChildBytes
  <2>6. \A b \in DOMAIN C : NextState(m[2], b) = StepIn(dfa.rows)[<<m[2], b>>]
    BY <2>1, <2>5 DEF NextState, StepIn, States, StatesOf, RowOf
  <2> QED BY <2>4, <2>6
<1>2. ASSUME NEW m \in S, NEW b \in DOMAIN N[m[1]].children
      PROVE  N[m[1]].children[b] \in 1..Len(N)
  <2>1. m[1] \in 1..Len(N) /\ Len(N) \in Nat
    BY DEF PairsOf, IsTrie
  <2>2. N[m[1]].children[b] \in m[1] + 1..Len(N)
    BY <2>1 DEF IsTrie, ChildrenIn
  <2> QED BY <2>1, <2>2
<1> HIDE DEF From
<1>3. Onward(S, row) = S \cup {m \in UNION {From(k) : k \in S} : m[2] \in dfa.live}
  BY DEF Onward, IsLive, From
<1> HIDE DEF To, N
<1>4. ASSUME NEW m
      PROVE  m \in Onward(S, row) <=> m \in S \/ (m[2] \in dfa.live /\ \E k \in S : m \in To(k))
  BY <1>1, <1>3
<1>5. ASSUME NEW m
      PROVE  m \in MovesFrom(N, dfa, S) <=> m[2] \in dfa.live /\ \E k \in S : m \in To(k)
  <2>1. ASSUME m \in MovesFrom(N, dfa, S)
        PROVE  m[2] \in dfa.live /\ \E k \in S : m \in To(k)
    <3>1. m \in (1..Len(N)) \X dfa.live /\ m = <<m[1], m[2]>>
      BY <2>1 DEF MovesFrom
    <3>2. PICK k \in S : \E b \in DOMAIN N[k[1]].children :
            m[1] = N[k[1]].children[b] /\ m[2] = StepIn(dfa.rows)[<<k[2], b>>]
      BY <2>1 DEF MovesFrom
    <3>3. PICK b \in DOMAIN N[k[1]].children :
            m[1] = N[k[1]].children[b] /\ m[2] = StepIn(dfa.rows)[<<k[2], b>>]
      BY <3>2
    <3>4. m \in To(k)
      BY <3>1, <3>3 DEF To
    <3> QED BY <3>1, <3>4
  <2>2. ASSUME NEW k \in S, m \in To(k), m[2] \in dfa.live
        PROVE  m \in MovesFrom(N, dfa, S)
    <3>1. PICK b \in DOMAIN N[k[1]].children :
            m = <<N[k[1]].children[b], StepIn(dfa.rows)[<<k[2], b>>]>>
      BY <2>2 DEF To
    <3>2. m \in (1..Len(N)) \X dfa.live
      BY <1>2, <2>2, <3>1
    <3> QED BY <3>1, <3>2 DEF MovesFrom
  <2> QED BY <2>1, <2>2
<1> QED BY <1>4, <1>5 DEF N

\* The walk is a fold.
LEMMA WalkFolds ==
  ASSUME TrieBuilt(vocabulary, trie), IsTrie(trie.nodes), dfa.live \subseteq StatesOf(dfa.rows),
         NEW s \in Int
  PROVE  MetFrom(s) = MetIn(trie.nodes, dfa, s, trie.table)
<1> DEFINE A == SUBSET PairsOf(trie.nodes)
           B == TableRows
           a == {<<1, s>>}
           table == trie.table
           F == WalkStep(trie.nodes, dfa)
           Equation(g) ==
             g = [T \in SUBSET DOMAIN table |->
                    IF T = {} THEN a
                    ELSE LET x == Max(T) IN Onward(g[T \ {x}], table[x])]
           iter == CHOOSE g : Equation(g)
           p == Partial(F, a, table)
<1>0. a \in A /\ table \in Seq(B)
  <2>1. trie.nodes \in Seq(TrieNodes) /\ trie.nodes # << >>
    BY DEF IsTrie
  <2>2. 1 \in 1..Len(trie.nodes)
    BY <2>1
  <2> QED BY <2>2 DEF TrieBuilt, PairsOf
<1>1. IsStep(F, A, B)
  BY WalkStepType
<1>2. \A S \in A, row \in B : F[<<S, row>>] = Onward(S, row)
  <2>1. \A S \in A, row \in B : Onward(S, row) = S \cup MovesFrom(trie.nodes, dfa, S)
    BY OnwardResult
  <2> QED BY <2>1 DEF WalkStep
<1>4. DOMAIN table = 1..Len(table)
  BY <1>0
<1>5. MetFrom(s) = iter[DOMAIN table]
  BY Zenon DEF MetFrom, FoldLeft, MapThenFoldSet
<1> HIDE DEF A, B, F, a, table
<1>3. StepsAs(p, A, B, F, a, table)
  BY <1>0, <1>1, PartialSteps, Zenon
<1> HIDE DEF p
<1>6. Equation(p)
  BY <1>2, <1>3 DEF StepsAs
<1>7. Equation(iter)
  <2> HIDE DEF Equation
  <2> QED BY <1>6
<1> HIDE DEF iter
<1>8. StepAlike(iter, p, Len(table))
  BY <1>4, <1>6, <1>7 DEF StepAlike
<1>9. FoldsTo(iter, F, a, table)
  BY <1>0, <1>1, <1>8, FoldsAlike, Zenon DEF p
<1> QED BY <1>4, <1>5, <1>9, Zenon DEF FoldsTo, MetIn, F, a, table

\* The states on the way to a live state are live.
LEMMA ByteByByte ==
  ASSUME NEW d, MarkInv(d), d.stack = << >>, NEW s \in Int, NEW u \in Seq(Byte), NEW b \in Byte
  PROVE  /\ AfterIn(d.rows, s, << >>) = s
         /\ AfterIn(d.rows, s, u) \in Int
         /\ AfterIn(d.rows, s, Append(u, b)) = StepIn(d.rows)[<<AfterIn(d.rows, s, u), b>>]
         /\ AfterIn(d.rows, s, Append(u, b)) \in d.live => AfterIn(d.rows, s, u) \in d.live
<1> DEFINE F == StepIn(d.rows)
<1>1. IsStep(F, Int, Byte)
  BY StepInType DEF MarkInv
<1> HIDE DEF F
<1>2. Folded(F, s, << >>) = s
  BY <1>1, FoldedEmpty
<1>3. Folded(F, s, u) \in Int
  BY <1>1, FoldedType
<1>0. \A y \in Int, w \in Seq(Byte), c \in Byte : Folded(F, y, Append(w, c)) = F[<<Folded(F, y, w), c>>]
  BY <1>1, FoldedLast
<1>4. Folded(F, s, Append(u, b)) = F[<<Folded(F, s, u), b>>]
  BY <1>0
<1> DEFINE q == Folded(F, s, u)
           v == <<b>>
<1>5. q \in Int /\ v \in Seq(Byte) /\ v = Append(<< >>, b) /\ << >> \in Seq(Byte)
  BY <1>3
<1> HIDE DEF q, v
<1>6. Folded(F, q, << >>) = q
  BY <1>1, <1>5, FoldedEmpty
<1>7. Folded(F, q, Append(<< >>, b)) = F[<<Folded(F, q, << >>), b>>]
  BY <1>0, <1>5
<1>8. AfterIn(d.rows, q, v) = F[<<q, b>>]
  BY <1>5, <1>6, <1>7 DEF AfterIn, F
<1>9. AfterIn(d.rows, q, v) \in d.live => q \in d.live
  BY <1>5, LiveIsClosed
<1> QED BY <1>2, <1>3, <1>4, <1>8, <1>9 DEF AfterIn, F, q

\* Every node is met with the state its string leads to, if that is live, and with no other.
MeetsExactly(N, p, d, s, met) ==
  \A n \in 1..Len(N), q \in Int :
    <<n, q>> \in met <=> q = AfterIn(d.rows, s, p[n]) /\ (n = 1 \/ q \in d.live)

\* After as many rounds as there are nodes the walk has met all it can.
LEMMA WalkResult ==
  ASSUME NEW d, MarkInv(d), d.stack = << >>, NEW N, IsTrie(N), NEW p, Named(N, p), NEW s \in Int,
         NEW table \in Seq(TableRows), Len(table) = Len(N)
  PROVE  MeetsExactly(N, p, d, s, MetIn(N, d, s, table))
<1> DEFINE F == WalkStep(N, d)
           A == SUBSET PairsOf(N)
           L == Len(N)
           to(n) == AfterIn(d.rows, s, p[n])
           Sound(S) == \A m \in S : m[2] = to(m[1]) /\ (m[1] = 1 \/ m[2] \in d.live)
           Covers(k, S) == \A n \in 1..L : n <= k + 1 /\ (n = 1 \/ to(n) \in d.live) => <<n, to(n)>> \in S
           I == {x \in Nat \X A : Sound(x[2]) /\ Covers(x[1], x[2])}
<1>1. IsStep(F, A, TableRows)
  BY WalkStepType DEF MarkInv
<1>2. /\ N \in Seq(TrieNodes) /\ L \in Nat /\ 1 \in 1..L
      /\ p \in [1..L -> Seq(Byte)] /\ p[1] = << >>
  BY DEF IsTrie, Named
<1>3. ASSUME NEW n \in 1..L
      PROVE  to(n) \in Int
  <2> DEFINE G == StepIn(d.rows)
             u == p[n]
  <2>1. IsStep(G, Int, Byte) /\ u \in Seq(Byte)
    BY <1>2, StepInType DEF MarkInv
  <2> HIDE DEF G, u
  <2>2. Folded(G, s, u) \in Int
    BY <2>1, FoldedType
  <2> QED BY <2>2 DEF AfterIn, G, u
<1>4. to(1) = s
  <2>1. IsStep(StepIn(d.rows), Int, Byte)
    BY StepInType DEF MarkInv
  <2>2. Folded(StepIn(d.rows), s, << >>) = s
    BY <2>1, FoldedEmpty
  <2> QED BY <1>2, <2>2 DEF AfterIn
<1>5. ASSUME NEW n \in 1..L, NEW b \in DOMAIN N[n].children
      PROVE  LET c == N[n].children[b]
             IN /\ c \in 1..L /\ c # 1
                /\ to(c) = StepIn(d.rows)[<<to(n), b>>]
                /\ to(c) \in d.live => to(n) \in d.live
  <2> DEFINE c == N[n].children[b]
             u == p[n]
  <2>1. c \in n + 1..L /\ b \in Byte
    BY ChildBytes DEF IsTrie, ChildrenIn
  <2>2. p[c] = Append(u, b) /\ u \in Seq(Byte)
    BY <1>2 DEF Named
  <2> HIDE DEF c, u
  <2>3. /\ AfterIn(d.rows, s, Append(u, b)) = StepIn(d.rows)[<<AfterIn(d.rows, s, u), b>>]
        /\ AfterIn(d.rows, s, Append(u, b)) \in d.live => AfterIn(d.rows, s, u) \in d.live
    BY <2>1, <2>2, ByteByByte
  <2>4. c \in 1..L /\ c # 1
    BY <1>2, <2>1
  <2> QED BY <2>2, <2>3, <2>4 DEF c, u
<1> HIDE DEF to
<1>6. <<0, {<<1, s>>}>> \in I
  <2> DEFINE S == {<<1, s>>}
  <2>1. S \in A
    BY <1>2 DEF PairsOf
  <2>2. Sound(S)
    BY <1>4
  <2>3. Covers(0, S)
    BY <1>4
  <2> HIDE DEF S, A, Sound, Covers
  <2> QED BY <2>1, <2>2, <2>3 DEF S
<1>7. ASSUME NEW k \in 0..Len(table) - 1, NEW S \in A, <<k, S>> \in I
      PROVE  <<k + 1, F[<<S, table[k + 1]>>]>> \in I
  <2> DEFINE M == MovesFrom(N, d, S)
             T == S \cup M
             row == table[k + 1]
  <2>1. k \in Nat /\ k + 1 \in Nat /\ row \in TableRows
    OBVIOUS
  <2> HIDE DEF row
  <2>2. F[<<S, row>>] = T
    BY <2>1 DEF WalkStep
  <2>3. T \in A
    <3>1. IsStep(F, A, TableRows)
      BY <1>1
    <3> HIDE DEF A, F, T
    <3> QED BY <2>1, <2>2, <3>1 DEF IsStep
  <2>4. Sound(S) /\ Covers(k, S) /\ \A m \in S : m[1] \in 1..L /\ m[2] \in Int
    BY <1>7 DEF PairsOf
  <2>5. ASSUME NEW m \in M
        PROVE  m[2] = to(m[1]) /\ m[2] \in d.live
    <3>1. PICK x \in S : \E b \in DOMAIN N[x[1]].children :
            m[1] = N[x[1]].children[b] /\ m[2] = StepIn(d.rows)[<<x[2], b>>]
      BY DEF MovesFrom
    <3>2. PICK b \in DOMAIN N[x[1]].children :
            m[1] = N[x[1]].children[b] /\ m[2] = StepIn(d.rows)[<<x[2], b>>]
      BY <3>1
    <3>3. x[1] \in 1..L /\ x[2] = to(x[1])
      BY <2>4
    <3>4. m[2] \in d.live
      BY DEF MovesFrom
    <3> QED BY <1>5, <3>2, <3>3, <3>4
  <2>6. Sound(T)
    BY <2>4, <2>5
  <2>7. ASSUME NEW n \in 1..L, n <= k + 2, n = 1 \/ to(n) \in d.live
        PROVE  <<n, to(n)>> \in T
    <3>1. CASE n <= k + 1
      BY <2>4, <2>7, <3>1
    <3>2. CASE n # 1
      <4>1. n \in 2..L
        BY <3>2
      <4>2. HasParent(N, n)
        BY <4>1 DEF Named
      <4>3. PICK m \in 1..n - 1 : \E b \in DOMAIN N[m].children : N[m].children[b] = n
        BY <4>2 DEF HasParent
      <4>4. PICK b \in DOMAIN N[m].children : N[m].children[b] = n
        BY <4>3
      <4>5. m \in 1..L /\ m <= k + 1
        BY <1>2, <2>1, <2>7
      <4>6. to(n) = StepIn(d.rows)[<<to(m), b>>] /\ to(n) \in d.live /\ to(m) \in d.live
        BY <1>5, <2>7, <3>2, <4>4, <4>5
      <4>7. <<m, to(m)>> \in S
        BY <2>4, <4>5, <4>6
      <4>8. <<n, to(n)>> \in M
        BY <4>4, <4>6, <4>7 DEF MovesFrom
      <4> QED BY <4>8
    <3> QED BY <2>1, <3>1, <3>2
  <2>8. Covers(k + 1, T)
    <3>1. k + 1 + 1 = k + 2
      BY <2>1
    <3> QED BY <2>7, <3>1
  <2> HIDE DEF A, F, T, Sound, Covers
  <2> QED BY <2>1, <2>2, <2>3, <2>6, <2>8 DEF row
<1> DEFINE met == Folded(F, {<<1, s>>}, table)
<1>8. <<Len(table), met>> \in I
  <2>1. {<<1, s>>} \in A
    BY <1>2 DEF PairsOf
  <2> HIDE DEF A, F, I
  <2> QED BY <1>1, <1>6, <1>7, <2>1, FoldedKeeps, ZenonT(40)
<1> HIDE DEF met, F
<1>9. Sound(met) /\ Covers(L, met)
  BY <1>8
<1>10. ASSUME NEW n \in 1..L, NEW q \in Int
       PROVE  <<n, q>> \in met <=> q = to(n) /\ (n = 1 \/ q \in d.live)
  <2>1. ASSUME <<n, q>> \in met
        PROVE  q = to(n) /\ (n = 1 \/ q \in d.live)
    <3> DEFINE m == <<n, q>>
    <3>1. m \in met /\ m[1] = n /\ m[2] = q
      BY <2>1
    <3> HIDE DEF m
    <3> QED BY <1>9, <3>1
  <2>2. ASSUME q = to(n), n = 1 \/ q \in d.live
        PROVE  <<n, q>> \in met
    BY <1>2, <1>9, <2>2
  <2> QED BY <2>1, <2>2
<1> QED BY <1>10 DEF MeetsExactly, MetIn, met, F, to

\* What is known once the trie is done.
LEMMA DoneTrie ==
  ASSUME DfaInv, IndexInv, TrieFollows, TrieInv, trie.at = "done"
  PROVE  /\ dfa.at = "done" /\ MarkInv(dfa) /\ dfa.stack = << >>
         /\ dfa.rows \in Seq([Byte -> Int]) /\ dfa.rows # << >>
         /\ dfa.live \subseteq StatesOf(dfa.rows)
         /\ IsVocabulary(vocabulary) /\ TrieBuilt(vocabulary, trie)
<1>1. index.at # "idle"
  BY DEF TrieFollows
<1>2. dfa.at = "done"
  BY <1>1 DEF IndexInv
<1> QED BY <1>2, CompiledTables DEF DfaInv, IsMarking, IndexInv, TrieInv

\* What the walk allows is what has a step.
LEMMA AllowedHasStep ==
  ASSUME DfaInv, IndexInv, TrieFollows, TrieInv, trie.at = "done", NEW s \in Int
  PROVE  AllowedByTrie(s) = {e[1] : e \in StepsOf(dfa, vocabulary, s)}
<1> DEFINE V == vocabulary
           N == trie.nodes
           L == Len(N)
           met == MetFrom(s)
<1>1. /\ dfa.at = "done" /\ MarkInv(dfa) /\ dfa.stack = << >>
      /\ dfa.rows \in Seq([Byte -> Int]) /\ dfa.live \subseteq StatesOf(dfa.rows)
      /\ IsVocabulary(V) /\ TrieBuilt(V, trie)
  BY DoneTrie
<1>2. PICK p : HasTokens(N, p, V, DOMAIN V)
  BY <1>1 DEF TrieBuilt
<1>3. IsTrie(N) /\ Named(N, p) /\ Labelled(N, p, V, DOMAIN V) /\ L \in Nat /\ 1 \in 1..L
  BY <1>2 DEF HasTokens, IsTrie
<1>4. MeetsExactly(N, p, dfa, s, met)
  <2>1. met = MetIn(N, dfa, s, trie.table)
    BY <1>1, <1>3, WalkFolds
  <2>2. trie.table \in Seq(TableRows) /\ Len(trie.table) = Len(N)
    BY <1>1 DEF TrieBuilt
  <2>3. MeetsExactly(N, p, dfa, s, MetIn(N, dfa, s, trie.table))
    BY <1>1, <1>3, <2>2, WalkResult
  <2> QED BY <2>1, <2>3
<1>5. met \in SUBSET PairsOf(N)
  <2>1. met = MetIn(N, dfa, s, trie.table)
    BY <1>1, <1>3, WalkFolds
  <2>2. trie.table \in Seq(TableRows)
    BY <1>1 DEF TrieBuilt
  <2> DEFINE F == WalkStep(N, dfa)
             A == SUBSET PairsOf(N)
             a == {<<1, s>>}
  <2>3. IsStep(F, A, TableRows) /\ a \in A
    <3>1. IsStep(F, A, TableRows)
      BY <1>1, WalkStepType
    <3>2. a \in A
      BY <1>3 DEF PairsOf
    <3> QED BY <3>1, <3>2
  <2> HIDE DEF F, A, a
  <2>4. Folded(F, a, trie.table) \in A
    BY <2>2, <2>3, FoldedType
  <2> QED BY <2>1, <2>4 DEF MetIn, F, A, a
<1>6. \A n \in 1..L : IdsAt(n) = N[n].ids
  <2>1. \A n \in 1..L : IdsAt(n) = ToSet(IdsIn(trie, n))
    BY DEF IdsAt, IdsIn, SliceOf
  <2> QED BY <1>1, <2>1 DEF TrieBuilt, Holds
<1> HIDE DEF met
<1> DEFINE to(t) == AfterIn(dfa.rows, s, t)
<1>7. p[1] = << >> /\ << >> \notin DOMAIN V /\ p \in [1..L -> Seq(Byte)]
  BY <1>1, <1>3 DEF Named, TrieBuilt
<1>8. to(<< >>) = s
  <2>1. IsStep(StepIn(dfa.rows), Int, Byte)
    BY <1>1, StepInType
  <2> QED BY <2>1, FoldedEmpty DEF AfterIn
<1>9. ASSUME NEW id
      PROVE  id \in AllowedByTrie(s) <=> \E t \in DOMAIN V : id \in V[t] /\ to(t) \in dfa.live
  <2>1. ASSUME id \in AllowedByTrie(s)
        PROVE  \E t \in DOMAIN V : id \in V[t] /\ to(t) \in dfa.live
    <3>1. PICK m \in met \ {<<1, s>>} : id \in IdsAt(m[1])
      BY <2>1 DEF AllowedByTrie, met
    <3>2. m[1] \in 1..L /\ m[2] \in Int /\ m = <<m[1], m[2]>>
      BY <1>5, <3>1 DEF PairsOf
    <3>3. m[2] = to(p[m[1]]) /\ (m[1] = 1 \/ m[2] \in dfa.live)
      BY <1>4, <3>1, <3>2 DEF MeetsExactly
    <3>4. m[1] # 1
      BY <1>7, <1>8, <3>1, <3>2, <3>3
    <3>5. id \in N[m[1]].ids
      BY <1>6, <3>1, <3>2
    <3>6. p[m[1]] \in DOMAIN V /\ id \in V[p[m[1]]]
      BY <1>3, <3>2, <3>5 DEF Labelled
    <3> QED BY <3>3, <3>4, <3>6
  <2>2. ASSUME NEW t \in DOMAIN V, id \in V[t], to(t) \in dfa.live
        PROVE  id \in AllowedByTrie(s)
    <3>1. PICK n \in 1..L : p[n] = t
      BY <1>3 DEF Labelled
    <3>2. n # 1
      BY <1>7, <3>1
    <3>3. to(t) \in Int
      BY <1>1, <2>2 DEF StatesOf
    <3>4. <<n, to(t)>> \in met
      BY <1>4, <2>2, <3>1, <3>3 DEF MeetsExactly
    <3>5. id \in IdsAt(n)
      BY <1>3, <1>6, <2>2, <3>1 DEF Labelled
    <3>6. <<n, to(t)>> \in met \ {<<1, s>>} /\ <<n, to(t)>>[1] = n
      BY <3>2, <3>4
    <3> HIDE DEF to
    <3>7. id \in UNION {IdsAt(m[1]) : m \in met \ {<<1, s>>}}
      BY <3>5, <3>6
    <3> QED BY <3>7 DEF AllowedByTrie, met
  <2> QED BY <2>1, <2>2
<1>10. ASSUME NEW id
       PROVE  (\E t \in DOMAIN V : id \in V[t] /\ to(t) \in dfa.live)
              <=> id \in {e[1] : e \in StepsOf(dfa, V, s)}
  <2>1. ASSUME NEW t \in DOMAIN V, id \in V[t], to(t) \in dfa.live
        PROVE  id \in {e[1] : e \in StepsOf(dfa, V, s)}
    <3>1. <<t, id>> \in EntriesOf(V)
      BY <2>1 DEF EntriesOf
    <3>2. <<id, to(t)>> \in StepsOf(dfa, V, s)
      BY <2>1, <3>1 DEF StepsOf
    <3> QED BY <3>2
  <2>2. ASSUME NEW e \in StepsOf(dfa, V, s), id = e[1]
        PROVE  \E t \in DOMAIN V : id \in V[t] /\ to(t) \in dfa.live
    <3>1. PICK entry \in EntriesOf(V) : e = <<entry[2], to(entry[1])>>
      BY DEF StepsOf
    <3>2. e[2] \in dfa.live
      BY DEF StepsOf
    <3>3. entry[1] \in DOMAIN V /\ entry[2] \in V[entry[1]]
      BY DEF EntriesOf
    <3> HIDE DEF to
    <3> QED BY <2>2, <3>1, <3>2, <3>3
  <2> QED BY <2>1, <2>2
<1> QED BY <1>9, <1>10

\* The trie and the index agree on what they allow.
LEMMA TrieAgrees ==
  ASSUME DfaInv, IndexInv, TrieFollows, TrieInv
  PROVE  IndexAndTrieAgree
<1> SUFFICES ASSUME trie.at = "done"
             PROVE  /\ index.at # "ambiguous"
                    /\ index.at = "done" =>
                         \A s \in DOMAIN index.rows : AllowedByTrie(s) = DOMAIN index.rows[s] \ {Eos}
                    /\ {<<trie.reverse[id], id>> : id \in DOMAIN trie.reverse} = Entries
  BY DEF IndexAndTrieAgree
<1> DEFINE V == vocabulary
<1>1. /\ dfa.at = "done" /\ dfa.rows \in Seq([Byte -> Int]) /\ dfa.rows # << >>
      /\ dfa.live \subseteq StatesOf(dfa.rows) /\ IsVocabulary(V) /\ TrieBuilt(V, trie)
  BY DoneTrie
<1>2. /\ DOMAIN trie.reverse = UNION {V[t] : t \in DOMAIN V}
      /\ \A t \in DOMAIN V : \A id \in V[t] : trie.reverse[id] = t
  BY <1>1 DEF TrieBuilt, AreReversed
<1>3. Entries = EntriesOf(V)
  BY DEF Entries, EntriesOf
<1>4. {<<trie.reverse[id], id>> : id \in DOMAIN trie.reverse} = EntriesOf(V)
  <2> DEFINE R == {<<trie.reverse[id], id>> : id \in DOMAIN trie.reverse}
  <2>1. ASSUME NEW x \in R
        PROVE  x \in EntriesOf(V)
    BY <1>2 DEF EntriesOf
  <2>2. ASSUME NEW x \in EntriesOf(V)
        PROVE  x \in R
    BY <1>2 DEF EntriesOf
  <2> QED BY <2>1, <2>2
<1>5. ASSUME NEW s
      PROVE  ~Disagree(StepsOf(dfa, V, s))
  <2> SUFFICES ASSUME NEW e \in StepsOf(dfa, V, s), NEW f \in StepsOf(dfa, V, s), e[1] = f[1]
               PROVE  e[2] = f[2]
    BY DEF Disagree
  <2>1. PICK x \in EntriesOf(V) : e = <<x[2], AfterIn(dfa.rows, s, x[1])>>
    BY DEF StepsOf
  <2>2. PICK y \in EntriesOf(V) : f = <<y[2], AfterIn(dfa.rows, s, y[1])>>
    BY DEF StepsOf
  <2>3. /\ x[1] \in DOMAIN V /\ x[2] \in V[x[1]] /\ y[1] \in DOMAIN V /\ y[2] \in V[y[1]]
    BY DEF EntriesOf
  <2>4. x[2] = y[2]
    BY <2>1, <2>2
  <2>5. x[1] = y[1]
    BY <1>2, <2>3, <2>4
  <2> QED BY <2>1, <2>2, <2>5
<1>6. index.at # "ambiguous"
  BY <1>5 DEF IndexInv
<1>7. ASSUME index.at = "done", NEW s \in DOMAIN index.rows
      PROVE  AllowedByTrie(s) = DOMAIN index.rows[s] \ {Eos}
  <2> DEFINE T == StepsOf(dfa, V, s)
             row == RowWith(T)
  <2>1. Complete(dfa, V, index)
    <3>1. DOMAIN << >> = {}
      OBVIOUS
    <3> QED BY <1>7, <3>1 DEF IndexInv
  <2>2. s \in Int
    <3>1. ReachedIn(dfa, V) \subseteq StatesOf(dfa.rows)
      BY <1>1, ReachedIsLeast
    <3> QED BY <1>7, <2>1, <3>1 DEF Complete, StatesOf
  <2>3. AllowedByTrie(s) = {e[1] : e \in T}
    BY <2>2, AllowedHasStep
  <2>4. index.rows[s] = IF s \in dfa.accepting THEN Put(row, Eos, s) ELSE row
    BY <1>7, <2>1 DEF Complete
  <2>5. DOMAIN row = {e[1] : e \in T}
    <3> HIDE DEF T
    <3> QED BY <1>5, RowOfSteps DEF T
  <2>6. Eos \notin {e[1] : e \in T}
    BY <1>1 DEF StepsOf, EntriesOf, IsVocabulary
  <2> HIDE DEF T, row
  <2>7. DOMAIN index.rows[s] = DOMAIN row \cup (IF s \in dfa.accepting THEN {Eos} ELSE {})
    BY <2>4 DEF Put
  <2> QED BY <2>3, <2>5, <2>6, <2>7
<1> QED BY <1>3, <1>4, <1>6, <1>7

\* The three ways to hold a vocabulary against a language agree: the trie's walk allows
\* from every state what the index allows there, and the index made of the regular
\* expression alone is the compiled automaton's where no state is lost.
THEOREM ProjectionsAlwaysAgree == Spec => []ProjectionsAgree
<1> DEFINE Inv == DfaInv /\ IndexInv /\ TrieFollows /\ RegexInv /\ TrieInv
<1>1. Init => Inv
  <2> SUFFICES ASSUME Init
               PROVE  Inv
    OBVIOUS
  <2>1. DfaInv
    BY InitDfaInv DEF Init
  <2>2. IndexInv
    BY DEF Init, InitIndex, IndexInv, IsVocabulary, IsIndexRecord
  <2>3. TrieFollows
    BY DEF Init, InitTrie, TrieFollows, IsTrieRecord
  <2>4. RegexInv
    BY DEF Init, InitRegexIndex, RegexInv, IsIndexRecord
  <2>5. TrieInv
    BY FS_EmptySet DEF Init, InitIndex, InitTrie, TrieInv, IsFiniteVocabulary
  <2> QED BY <2>1, <2>2, <2>3, <2>4, <2>5
<1>2. Inv /\ [Next]_vars => Inv'
  BY NextKeepsDfaInv, NextKeepsIndexInv, NextKeepsTrieFollows, NextKeepsRegexInv, NextKeepsTrieInv
<1>3. Inv => ProjectionsAgree
  BY TrieAgrees, RegexIsSound DEF ProjectionsAgree
<1> QED BY <1>1, <1>2, <1>3, PTL DEF Spec
=============================================================================
