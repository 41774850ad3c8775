---------------------------- MODULE LrAutomaton ----------------------------
(***************************************************************************)
(* What an LALR(1) table is built from: items with a lookahead, their      *)
(* closure, the merging of canonical states with the same core, the        *)
(* actions of a merged state, and the condition that lets a deterministic  *)
(* parser split bytes into terminals at all (lexical safety).              *)
(***************************************************************************)
EXTENDS ResidualGrammar

CONSTANTS
  Eof,          \* the lookahead at the end of the input
  Augmented     \* the left-hand side of the added start rule

ASSUME AugmentedAssumption ==
  /\ Augmented \notin Nonterminal \cup Terminal
  /\ Eof \notin Nonterminal \cup Terminal

\* The terminals of a grammar are those its rules use.
TerminalsOf(g) == Terminal \cap UNION {ToSet(r.rhs) : r \in ToSet(g.rules)}

\* The rules, with Augmented -> start last.
AugmentedRules(g) == Append(g.rules, [lhs |-> Augmented, rhs |-> <<g.start>>])

Lookaheads(g) == TerminalsOf(g) \cup {Eof}

StartItem(g) == [rule |-> Len(g.rules) + 1, dot |-> 0, look |-> Eof]

SymbolsAfterDot(rules, item) ==
  SubSeq(rules[item.rule].rhs, item.dot + 1, Len(rules[item.rule].rhs))

IsAtEnd(rules, item) == SymbolsAfterDot(rules, item) = << >>

IsBefore(rules, item, X) ==
  ~IsAtEnd(rules, item) /\ Head(SymbolsAfterDot(rules, item)) = X

-----------------------------------------------------------------------------
(* First sets. *)

\* What a string of symbols can begin with, given it for each nonterminal:
\* symbols count up to the first that is not nullable.
FirstOf(symbols, nullable, first) ==
  LET reached == {k \in 1..Len(symbols) :
                    \A i \in 1..(k - 1) : symbols[i] \in nullable}
  IN UNION {IF symbols[k] \in Terminal THEN {symbols[k]} ELSE first[symbols[k]] : k \in reached}

\* compute_first
First(g) ==
  LET nullable == Nullable(g)
      round[n \in 0..Cardinality(Nonterminal)] ==
        IF n = 0 THEN [A \in Nonterminal |-> {}]
        ELSE [A \in Nonterminal |->
                UNION {FirstOf(r.rhs, nullable, round[n - 1]) : r \in RulesOf(g, A)}]
  IN round[Cardinality(Nonterminal)]

\* first_of_tail: what can follow the symbol after the dot.
FirstOfTail(g, first, item) ==
  LET tail == Tail(SymbolsAfterDot(AugmentedRules(g), item))
  IN FirstOf(tail, Nullable(g), first)
       \cup (IF ToSet(tail) \subseteq Nullable(g) THEN {item.look} ELSE {})

-----------------------------------------------------------------------------
(* Item sets. *)

\* The items one item predicts.
Predicted(g, first, item) ==
  LET rules == AugmentedRules(g)
  IN {[rule |-> i, dot |-> 0, look |-> l] :
        i \in {i \in 1..Len(rules) : IsBefore(rules, item, rules[i].lhs)},
        l \in IF IsAtEnd(rules, item) THEN {} ELSE FirstOfTail(g, first, item)}

\* closure: what the agenda predicts, until it is empty.
Closure(g, first, seed) ==
  LET rounds == Len(g.rules) * Cardinality(Lookaheads(g))
      found[n \in 0..rounds] ==
        IF n = 0 THEN [all |-> seed, agenda |-> seed]
        ELSE LET before == found[n - 1]
                 new == (UNION {Predicted(g, first, item) : item \in before.agenda}) \ before.all
             IN [all |-> before.all \cup new, agenda |-> new]
  IN found[rounds].all

\* goto
Goto(g, first, items, X) ==
  Closure(g, first,
          {[item EXCEPT !.dot = @ + 1] : item \in {i \in items : IsBefore(AugmentedRules(g), i, X)}})

\* The symbols after the dots of an item set.
SymbolsIn(g, items) ==
  {Head(SymbolsAfterDot(AugmentedRules(g), item)) :
     item \in {i \in items : ~IsAtEnd(AugmentedRules(g), i)}}

Core(items) == {<<item.rule, item.dot>> : item \in items}

\* merge_cores: the canonical states, in their order, share a merged state if
\* they have the same core.  mergedAs[i] is the number of i's merged state.
MergedAs(states) ==
  LET isFirst(i) == \A j \in 1..(i - 1) : Core(states[j]) # Core(states[i])
      earliest(i) == CHOOSE j \in 1..i : isFirst(j) /\ Core(states[j]) = Core(states[i])
  IN [i \in 1..Len(states) |-> Cardinality({j \in 1..earliest(i) : isFirst(j)})]

MergedItems(states, s) ==
  UNION {states[i] : i \in {i \in 1..Len(states) : MergedAs(states)[i] = s}}

-----------------------------------------------------------------------------
(* Tables. *)

Shift(s) == [kind |-> "shift", to |-> s]
Reduce(i) == [kind |-> "reduce", to |-> i]
Accept == [kind |-> "accept", to |-> 0]
NoAction == [kind |-> "none", to |-> 0]

\* build_table: the actions that the items of a state ask for on lookahead l,
\* goto being the state's transitions.
Actions(g, items, goto, l) ==
  LET rules == AugmentedRules(g)
      ended == {i \in items : IsAtEnd(rules, i) /\ i.look = l}
  IN {Shift(goto[l]) : i \in {i \in items : IsBefore(rules, i, l)}}
       \cup {IF i.rule = Len(rules) THEN Accept ELSE Reduce(i.rule) : i \in ended}

\* insert_action: the conflicts on lookahead l in a state.  The items ask in the
\* order of their rules and dots; the first keeps the cell, and each later item
\* that asks for something else is one conflict.
Conflicts(g, items, goto, l) ==
  LET asked(i) == Actions(g, {i}, goto, l)
      asking == {i \in items : asked(i) # {}}
      first == CHOOSE i \in asking : \A j \in asking :
                 i.rule < j.rule \/ (i.rule = j.rule /\ i.dot <= j.dot)
  IN {i \in asking : asked(i) # asked(first)}

\* Mutant of LexicallySafe: only each terminal by itself is looked at.
LexicallySafeAlone(T) ==
  \A t \in T : \A w, v \in Words[t] : ~IsStrictPrefix(w, v)

\* lexical_safety: no word of a terminal is a prefix of another of its words, or
\* of a word of another terminal.
LexicallySafe(T) ==
  /\ \A t \in T : \A w, v \in Words[t] : ~IsStrictPrefix(w, v)
  /\ \A t, u \in T : t # u => \A w \in Words[t], v \in Words[u] : ~IsPrefix(w, v)
=============================================================================
