-------------------------------- MODULE Lalr --------------------------------
(***************************************************************************)
(* The LALR(1) backend: the table is built state by state, and if it has   *)
(* no conflict and the terminals can be told apart byte by byte, it drives *)
(* an incremental recognizer.                                              *)
(*                                                                         *)
(* Between two terminals the recognizer holds a stack of table states.     *)
(* Inside a terminal it holds candidates: for each terminal that could     *)
(* come next, the bytes matched so far and the stack after the reductions  *)
(* which that terminal as lookahead asks for.  Nothing is reduced before   *)
(* the lookahead is known, so is_accepting and is_live try the reductions  *)
(* on a copy.                                                              *)
(*                                                                         *)
(* A building step is one state of the canonical collection; a step of the *)
(* recognizer is one call.                                                 *)
(***************************************************************************)
EXTENDS LrAutomaton

CONSTANTS
  Grammars,          \* the residual grammars
  Chunk,             \* the byte chunks passed to try_advance_bytes
  Limits,            \* the compile and runtime limits, of which one is in force
  MaxInputBytes,
  MaxReductions,     \* bound: how many reductions one lookahead asks for in a row
  MaxSaved           \* bound: how many checkpoints the caller keeps

ASSUME LalrAssumption ==
  /\ \A g \in Grammars : IsGrammar(g)
  /\ Chunk \subseteq Seq(Byte)
  /\ Limits \subseteq [states : Nat, items : Nat, actions : Nat, gotos : Nat,
                       conflicts : Nat, stack : Nat, scans : Nat]
  /\ {MaxInputBytes, MaxReductions, MaxSaved} \subseteq Nat

VARIABLES
  grammar,   \* the residual grammar, never changed
  limits,    \* max_lr_states, max_lr_items, max_action_entries, max_goto_entries
             \* and max_reported_conflicts; max_parse_stack and max_active_scans
  build,     \* the construction: how far it is, the canonical states in the
             \* order of their ids, the next one to expand, the transitions
  table,     \* the actions and gotos of the merged states
  rec,       \* the recognizer
  reply,     \* the last call's chunk and outcome
  text,      \* history: the bytes advanced by and not undone
  saved      \* the caller's checkpoints and the text of each

vars == <<grammar, limits, build, table, rec, reply, text, saved>>

-----------------------------------------------------------------------------
(* Construction. *)

NoReply == [chunk |-> << >>, out |-> "none"]

\* recognizer: the start state on the stack.
Fresh == [stack |-> <<1>>, candidates |-> {}, position |-> 0]

Init ==
  /\ grammar \in Grammars
  /\ limits \in Limits
  /\ LET initial == Closure(grammar, First(grammar), {StartItem(grammar)})
     IN build = [at     |-> IF Cardinality(initial) > limits.items THEN "limit" ELSE "expand",
                 states |-> <<initial>>,
                 next   |-> 1,
                 edges  |-> {}]
  /\ table = [actions |-> << >>, gotos |-> << >>]
  /\ rec = Fresh
  /\ reply = NoReply
  /\ text = << >>
  /\ saved = << >>

\* One turn of the loop: the transitions of the state at the head of the queue,
\* whose targets get the next ids if they are new.
ExpandState ==
  /\ build.at = "expand"
  /\ build.next <= Len(build.states)
  /\ LET items == build.states[build.next]
         first == First(grammar)
         goto == [X \in SymbolsIn(grammar, items) |-> Goto(grammar, first, items, X)]
         known == ToSet(build.states)
         states == build.states \o SetToSeq({goto[X] : X \in DOMAIN goto} \ known)
         total == FoldLeft(LAMBDA n, s : n + Cardinality(s), 0, states)
         over == Len(states) > Len(build.states)
                   /\ (Len(states) > limits.states \/ total > limits.items)
         edges == {<<build.next, X, (CHOOSE i \in 1..Len(states) : states[i] = goto[X])>> :
                     X \in DOMAIN goto}
     IN build' = IF over THEN [build EXCEPT !.at = "limit"]
                 ELSE [build EXCEPT !.states = states, !.next = @ + 1, !.edges = @ \cup edges]
  /\ UNCHANGED <<grammar, limits, table, rec, reply, text, saved>>

\* The transitions of merged state s, by symbol, as sets of merged states.
MergedTargets(s) ==
  LET as == MergedAs(build.states)
      out == {e \in build.edges : as[e[1]] = s}
  IN [X \in {e[2] : e \in out} |-> {as[e[3]] : e \in {e \in out : e[2] = X}}]

\* build_table, and what build makes of it: the table is used if no cell of it
\* has a conflict and the terminals are lexically safe.  Too many conflicts to
\* report are a limit of their own.  (Merging checks max_lr_states again, which
\* the canonical states, no fewer, are within already.)
BuildTable ==
  /\ build.at = "expand"
  /\ build.next > Len(build.states)
  /\ LET count == Cardinality(ToSet(MergedAs(build.states)))
         targets == [s \in 1..count |-> MergedTargets(s)]
         consistent == \A s \in 1..count : \A X \in DOMAIN targets[s] : Cardinality(targets[s][X]) = 1
         goto == [s \in 1..count |-> [X \in DOMAIN targets[s] |-> CHOOSE t \in targets[s][X] : TRUE]]
         cells == [s \in 1..count |->
                     [l \in Lookaheads(grammar) |->
                        Actions(grammar, MergedItems(build.states, s), goto[s], l)]]
         filled == {c \in (1..count) \X Lookaheads(grammar) : cells[c[1]][c[2]] # {}}
         gotoCells == {c \in (1..count) \X Nonterminal : c[2] \in DOMAIN goto[c[1]]}
         conflicts == UNION {{<<c, i>> : i \in Conflicts(grammar, MergedItems(build.states, c[1]),
                                                         goto[c[1]], c[2])} : c \in filled}
     IN IF ~consistent THEN build' = [build EXCEPT !.at = "internal"] /\ UNCHANGED table
        ELSE IF \/ Cardinality(conflicts) > limits.conflicts
                \/ Cardinality(filled) > limits.actions
                \/ Cardinality(gotoCells) > limits.gotos
        THEN build' = [build EXCEPT !.at = "limit"] /\ UNCHANGED table
        ELSE IF conflicts # {} \/ ~LexicallySafe(TerminalsOf(grammar))
        THEN build' = [build EXCEPT !.at = "unusable"] /\ UNCHANGED table
        ELSE /\ build' = [at |-> "usable", states |-> << >>, next |-> 0, edges |-> {}]
             /\ table' = [actions |-> [s \in 1..count |->
                                         [l \in Lookaheads(grammar) |->
                                            IF cells[s][l] = {} THEN NoAction
                                            ELSE CHOOSE a \in cells[s][l] : TRUE]],
                          gotos   |-> goto]
  /\ UNCHANGED <<grammar, limits, rec, reply, text, saved>>

-----------------------------------------------------------------------------
(* Reductions. *)

\* One turn of the loop of action_after_reductions: what lookahead l asks for,
\* and if that is a reduction, what comes of it.
Reduced(stack, l) ==
  LET action == table.actions[Last(stack)][l]
      rule == AugmentedRules(grammar)[action.to]
      base == SubSeq(stack, 1, Len(stack) - Len(rule.rhs))
      reduced == Append(base, table.gotos[Last(base)][rule.lhs])
  IN IF action.kind # "reduce" THEN [kind |-> action.kind, to |-> action.to, stack |-> stack]
     ELSE IF base = << >> \/ rule.lhs \notin DOMAIN table.gotos[Last(base)]
     THEN [kind |-> "internal", to |-> 0, stack |-> stack]
     ELSE IF Len(reduced) > limits.stack THEN [kind |-> "limit", to |-> 0, stack |-> stack]
     ELSE [kind |-> "reduce", to |-> 0, stack |-> reduced]

\* action_after_reductions: reduce on lookahead l until it is shifted, accepted
\* or refused.
AfterReductions(stack, l) ==
  LET run[k \in 0..MaxReductions] ==
        IF k = 0 THEN [kind |-> "reduce", to |-> 0, stack |-> stack]
        ELSE LET before == run[k - 1]
             IN IF before.kind = "reduce" THEN Reduced(before.stack, l) ELSE before
  IN run[MaxReductions]

\* Mutant of StartCandidates: a terminal whose reductions exceed the limit is
\* taken for one that cannot come next.
StartCandidatesSkipping(stack) ==
  LET after == [t \in TerminalsOf(grammar) |-> AfterReductions(stack, t)]
      shifted == {t \in TerminalsOf(grammar) : after[t].kind = "shift"}
  IN [out   |-> "ok",
      found |-> {[terminal |-> t, cursor |-> << >>, stack |-> after[t].stack, shift |-> after[t].to] :
                   t \in shifted}]

\* start_candidates: one for each terminal that can be shifted.  One terminal
\* whose reductions exceed the limit fails them all.
StartCandidates(stack) ==
  LET after == [t \in TerminalsOf(grammar) |-> AfterReductions(stack, t)]
      shifted == {t \in TerminalsOf(grammar) : after[t].kind = "shift"}
      failed == {after[t].kind : t \in TerminalsOf(grammar)} \cap {"internal", "limit"}
  IN [out   |-> IF failed # {} THEN CHOOSE e \in failed : TRUE
                ELSE IF Cardinality(shifted) > limits.scans THEN "limit" ELSE "ok",
      found |-> {[terminal |-> t, cursor |-> << >>, stack |-> after[t].stack, shift |-> after[t].to] :
                   t \in shifted}]

\* is_accepting, is_live: an error is a no.
IsAccepting(r) == r.candidates = {} /\ AfterReductions(r.stack, Eof).kind = "accept"

IsLive(r) ==
  \/ r.candidates # {}
  \/ IsAccepting(r)
  \/ StartCandidates(r.stack).out = "ok" /\ StartCandidates(r.stack).found # {}

-----------------------------------------------------------------------------
(* Bytes. *)

Fed(candidates, b) ==
  {[c EXCEPT !.cursor = Append(@, b)] :
     c \in {c \in candidates : CanAdvance(c.terminal, c.cursor, b)}}

\* Mutant of Matched: the terminal is shifted on the stack before reductions.
MatchedUnreduced(r, c) ==
  [stack |-> Append(r.stack, c.shift), candidates |-> {}, position |-> r.position + 1]

\* The recognizer once candidate c has matched its terminal.
Matched(r, c) ==
  [stack |-> Append(c.stack, c.shift), candidates |-> {}, position |-> r.position + 1]

\* advance_byte: how it ends, and the recognizer it leaves, also on an error.
AdvanceByte(r, b) ==
  LET started == IF r.candidates = {} THEN StartCandidates(r.stack)
                 ELSE [out |-> "ok", found |-> r.candidates]
      fed == Fed(started.found, b)
      matched == {c \in fed : IsAcceptingCursor(c.terminal, c.cursor)}
      running == {c \in fed : IsLiveCursor(c.terminal, c.cursor)}
      drained == [r EXCEPT !.candidates = {}]
      next == Matched(r, CHOOSE c \in matched : TRUE)
  IN IF r.position + 1 > MaxInputBytes THEN [out |-> "limit", rec |-> r]
     ELSE IF started.out # "ok" THEN [out |-> started.out, rec |-> r]
     ELSE IF Cardinality(matched) > 1 THEN [out |-> "internal", rec |-> drained]
     ELSE IF matched # {}
     THEN IF Len(next.stack) > limits.stack THEN [out |-> "limit", rec |-> drained]
          ELSE [out |-> "live", rec |-> next]
     ELSE IF running = {} THEN [out |-> "rejected", rec |-> drained]
     ELSE [out |-> "live",
           rec |-> [r EXCEPT !.candidates = running, !.position = @ + 1]]

\* checkpoint
Checkpoint(r) == [stack |-> r.stack, candidates |-> r.candidates, position |-> r.position]

\* Mutant of Restore: the candidates are forgotten.
RestoreForgetsCandidates(c) == [stack |-> c.stack, candidates |-> {}, position |-> c.position]

\* restore
Restore(c) == [stack |-> c.stack, candidates |-> c.candidates, position |-> c.position]

-----------------------------------------------------------------------------
(* Calls. *)

\* The loop of try_advance_bytes, up to the first byte that is not live.
AdvanceBytes(r, chunk) ==
  FoldLeft(LAMBDA a, b : IF a.out = "live" THEN AdvanceByte(a.rec, b) ELSE a,
           [out |-> "live", rec |-> r], chunk)

\* try_advance_bytes
TryAdvance(chunk) ==
  /\ build.at = "usable"
  /\ LET fed == AdvanceBytes(rec, chunk)
     IN IF fed.out = "live"
        THEN /\ rec' = fed.rec
             /\ text' = text \o chunk
             /\ reply' = [chunk |-> chunk, out |-> IF IsAccepting(fed.rec) THEN "accepting" ELSE "live"]
        ELSE /\ rec' = Restore(Checkpoint(rec))
             /\ reply' = [chunk |-> chunk, out |-> fed.out]
             /\ UNCHANGED text
  /\ UNCHANGED <<grammar, limits, build, table, saved>>

\* A checkpoint holds the whole state, so the caller may keep it and restore it
\* again, in any order.
TakeCheckpoint ==
  /\ build.at = "usable"
  /\ Len(saved) < MaxSaved
  /\ saved' = Append(saved, [checkpoint |-> Checkpoint(rec), text |-> text])
  /\ reply' = NoReply
  /\ UNCHANGED <<grammar, limits, build, table, rec, text>>

RestoreCheckpoint(i) ==
  /\ rec' = Restore(saved[i].checkpoint)
  /\ text' = saved[i].text
  /\ reply' = NoReply
  /\ UNCHANGED <<grammar, limits, build, table, saved>>

Building == ExpandState \/ BuildTable

Next ==
  \/ Building
  \/ \E chunk \in Chunk : TryAdvance(chunk)
  \/ TakeCheckpoint
  \/ \E i \in 1..Len(saved) : RestoreCheckpoint(i)

Spec == Init /\ [][Next]_vars

-----------------------------------------------------------------------------
(* Properties.  The reference languages are those up to MaxInputBytes. *)

Language == [g \in Grammars |-> Derivations(g, MaxInputBytes)]
PrefixLanguage == [g \in Grammars |-> DerivablePrefixes(g, MaxInputBytes)]

Derives(w) == <<grammar.start, w>> \in Language[grammar]
IsBegun(w) == <<grammar.start, w>> \in PrefixLanguage[grammar]

\* No question about the next bytes meets a limit here.
Unhindered ==
  /\ \A l \in Lookaheads(grammar) : AfterReductions(rec.stack, l).kind # "limit"
  /\ StartCandidates(rec.stack).out # "limit"

\* The loop of action_after_reductions leaves off by itself, within MaxReductions.
ReductionsEnd == \A l \in Lookaheads(grammar) : AfterReductions(rec.stack, l).kind # "reduce"

\* A table that is used makes the recognizer accept exactly the strings the
\* grammar derives and live exactly on their prefixes: "LALR(1) uses
\* deterministic tables only when parser and lexical conflicts are absent"
\* (README.md:41), after whatever was rejected or restored.
AnswersExactly ==
  build.at = "usable" =>
    /\ ReductionsEnd
    /\ Unhindered => /\ IsAccepting(rec) <=> Derives(text)
                     /\ IsLive(rec) <=> IsBegun(text)
                     /\ rec.position = Len(text)

\* Short of candidates or of stack, the recognizer may fail to answer but never
\* answers wrongly: what it accepts is derived, what it keeps alive can be
\* completed, and what it REJECTS cannot (lalr.rs:423-452 tries every terminal
\* before it counts any).
LimitsNeverMislead ==
  /\ build.at = "usable" => /\ IsAccepting(rec) => Derives(text)
                            /\ IsLive(rec) => IsBegun(text)
  /\ reply.out = "rejected" => ~IsBegun(text \o reply.chunk)

\* The errors that the code calls internal: a merged core with two targets
\* (lalr.rs:308), a reduction that underflows the stack or finds no goto
\* (lalr.rs:469, 478), two terminals matched at once (lalr.rs:389).
NoInternalError ==
  /\ build.at # "internal"
  /\ reply.out # "internal"

\* A stack is a path of the automaton, and reductions never leave it: neither
\* that of the recognizer nor those the candidates reduced ahead; so an internal
\* error never happens.
StacksArePaths ==
  /\ NoInternalError
  /\ build.at = "usable" =>
       \A stack \in {rec.stack} \cup {Append(c.stack, c.shift) : c \in rec.candidates} :
         /\ Head(stack) = 1
         /\ \A i \in 1..(Len(stack) - 1) :
              stack[i + 1] \in Range(table.gotos[stack[i]])

\* A chunk that fails half-way leaves the recognizer it found, the candidates
\* that advance_byte drained included.
FailedCallRestores ==
  [][\A chunk \in Chunk : TryAdvance(chunk) /\ reply'.out \notin {"live", "accepting"} =>
       rec' = rec]_vars
=============================================================================
