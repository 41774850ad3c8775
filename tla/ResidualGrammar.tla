--------------------------- MODULE ResidualGrammar ---------------------------
(***************************************************************************)
(* The context-free grammar the structural recognizers run on, and what it *)
(* derives.  Symbols of the right-hand sides are nonterminals and compiled *)
(* terminals; a terminal is a literal, or the byte DFA of a regular region *)
(* collapsed into one symbol.  No terminal accepts the empty string, and   *)
(* every nonterminal derives some string (reduce runs before).             *)
(*                                                                         *)
(* Derivations, DerivablePrefixes: the reference the recognizers are held  *)
(* against, written from the meaning of a grammar and not from the code.   *)
(***************************************************************************)
EXTENDS BoundedLanguage

CONSTANTS
  Byte,
  Nonterminal,
  TerminalTable,  \* the compiled terminals, in the order of their ids
  Words,        \* the words of each terminal
  Literal       \* the terminals compiled to a literal, not to a DFA

Terminal == ToSet(TerminalTable)

ASSUME TerminalAssumption ==
  /\ TerminalTable \in Seq(Terminal) /\ IsInjective(TerminalTable)
  /\ IsFiniteSet(Nonterminal)
  /\ Nonterminal \cap Terminal = {}
  /\ Words \in [Terminal -> SUBSET (Seq(Byte) \ {<< >>})]
  /\ \A t \in Terminal : Words[t] # {}
  /\ Literal \subseteq Terminal
  /\ \A t \in Literal : Cardinality(Words[t]) = 1

\* A grammar is [start, rules]; a rule is [lhs, rhs].
IsGrammar(g) ==
  /\ g.start \in Nonterminal
  /\ g.rules \in Seq([lhs : Nonterminal, rhs : Seq(Nonterminal \cup Terminal)])

\* What reduce leaves: every nonterminal of a right-hand side derives some string, so
\* it is in any set that has the left-hand side of each rule whose nonterminals it has.
IsReduced(g) ==
  \A S \in SUBSET Nonterminal :
    (\A r \in ToSet(g.rules) : ToSet(r.rhs) \subseteq S \cup Terminal => r.lhs \in S) =>
      \A r \in ToSet(g.rules) : ToSet(r.rhs) \cap Nonterminal \subseteq S

RulesOf(g, A) == {r \in ToSet(g.rules) : r.lhs = A}

-----------------------------------------------------------------------------
(* Terminal cursors: the bytes of the terminal consumed so far. *)

\* CompiledTerminal::advance gives a cursor unless the literal differs there or
\* the DFA falls into its dead state.
CanAdvance(t, cursor, b) == \E w \in Words[t] : IsPrefix(Append(cursor, b), w)

IsAcceptingCursor(t, cursor) == cursor \in Words[t]

\* CompiledTerminal::is_live.  A literal is live while bytes are missing; a DFA
\* state is live if it can reach acceptance, so a final state is live even when
\* no byte can follow.
IsLiveCursor(t, cursor) ==
  t \in Literal => \E w \in Words[t] : IsStrictPrefix(cursor, w)

-----------------------------------------------------------------------------

\* The left-hand sides of the rules whose right-hand sides are in N.
Erased(g, N) == {A \in Nonterminal : \E r \in RulesOf(g, A) : ToSet(r.rhs) \subseteq N}

\* residual_nullable: rounds over the rules until no nonterminal is added.
Nullable(g) ==
  FoldLeft(LAMBDA N, k : Erased(g, N), {}, [k \in 1..Cardinality(Nonterminal) |-> k])

\* What follows keeps the strings found so far as pairs of a nonterminal and a
\* string.
StringsOf(X, L) == IF X \in Terminal THEN Words[X] ELSE {p[2] : p \in {q \in L : q[1] = X}}

\* The strings of at most n bytes that right-hand side rhs derives.
DerivedFrom(rhs, L, n) ==
  FoldLeft(LAMBDA S, X : Concatenated(S, StringsOf(X, L), n), {<< >>}, rhs)

\* Trees of minimal derivations of at most n bytes are no higher than this.
Height(n) == (n + 1) * Cardinality(Nonterminal)

\* The strings of at most n bytes that each nonterminal derives: by trees of
\* height 0, 1, 2 and so on.
Derivations(g, n) ==
  FoldLeft(LAMBDA L, h : UNION {{<<r.lhs, w>> : w \in DerivedFrom(r.rhs, L, n)} : r \in ToSet(g.rules)},
           {}, [h \in 1..Height(n) |-> h])

\* The prefixes of at most n bytes of what each nonterminal derives.
DerivablePrefixes(g, n) ==
  LET L == Derivations(g, n)
      begun(X, P) == IF X \in Terminal THEN UNION {Prefixes(w) : w \in Words[X]} ELSE StringsOf(X, P)
      ofRule(r, P) ==
        DerivedFrom(r.rhs, L, n) \cup
        UNION {Concatenated(DerivedFrom(SubSeq(r.rhs, 1, k - 1), L, n), begun(r.rhs[k], P), n) :
                 k \in 1..Len(r.rhs)}
  IN FoldLeft(LAMBDA P, h : UNION {{<<r.lhs, w>> : w \in ofRule(r, P)} : r \in ToSet(g.rules)},
              {}, [h \in 1..Height(n) |-> h])
=============================================================================
