--------------------------- MODULE BoundedLanguage ---------------------------
(***************************************************************************)
(* Languages cut to the strings of at most n symbols.  Concatenation,      *)
(* iteration and reversal of the cut languages give the cut of the result, *)
(* so that nothing is lost below the bound.                                *)
(***************************************************************************)
EXTENDS Integers, Sequences, FiniteSets, SequencesExt

Concatenated(S, T, n) ==
  UNION {{s \o t : t \in {t \in T : Len(s) + Len(t) <= n}} : s \in S}

\* The concatenations of any number of strings of S.
Iterated(S, n) ==
  FoldLeft(LAMBDA L, k : L \cup Concatenated(L, S, n), {<< >>}, [k \in 1..n |-> k])

Backwards(S) == {Reverse(s) : s \in S}

\* x, F(x), F(F(x)) and so on, until nothing changes.
Stabilised(F(_), x, rounds) ==
  LET after[k \in 0..rounds] ==
        IF k = 0 THEN [value |-> x, stable |-> FALSE]
        ELSE LET s == after[k - 1]
                 next == F(s.value)
             IN IF s.stable THEN s ELSE [value |-> next, stable |-> next = s.value]
  IN after[rounds].value
=============================================================================
