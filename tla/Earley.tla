------------------------------- MODULE Earley -------------------------------
(***************************************************************************)
(* The incremental Earley recognizer: a chart with one column for each     *)
(* byte, terminals that take several bytes to match (active scans), the    *)
(* agenda loop that saturates a column, Leo items for right recursion, and *)
(* the resource limits, which may stop it anywhere in that loop.           *)
(*                                                                         *)
(* One step is one agenda item.  A call of try_advance_bytes pushes the    *)
(* column of a byte and feeds the scans, saturates the column item by item *)
(* and finishes it, byte after byte; if a byte is rejected or a limit is   *)
(* exceeded the checkpoint taken on entry is restored.                     *)
(*                                                                         *)
(* Column c, for the first c bytes, is chart[c + 1].  The maps of a column *)
(* from a symbol to the items waiting for it are read off its items: an    *)
(* item is in them once the agenda has passed it.  An id over whose        *)
(* insertion a limit is exceeded is in the membership set and not in the   *)
(* items; it goes with its column before anybody can ask.                  *)
(***************************************************************************)
EXTENDS ResidualGrammar

CONSTANTS
  Grammars,          \* the residual grammars
  Chunk,             \* the byte chunks passed to try_advance_bytes
  Limits,            \* the runtime limits, of which one is in force
  MaxInputBytes,
  MaxSaved,          \* bound: how many checkpoints the caller keeps
  Augmented          \* the left-hand side of the added start rule

ASSUME EarleyAssumption ==
  /\ \A g \in Grammars : IsGrammar(g) /\ IsReduced(g)
  /\ Chunk \subseteq Seq(Byte)
  /\ Augmented \notin Nonterminal \cup Terminal
  /\ Limits \subseteq [columns : Nat, columnItems : Nat, items : Nat, scans : Nat, leo : Nat]
  /\ {MaxInputBytes, MaxSaved} \subseteq Nat

VARIABLES
  grammar,   \* the grammar compiled, never changed
  leo,       \* leo_enabled, never changed
  limits,    \* max_chart_columns, max_items_per_column, max_total_items,
             \* max_active_scans and max_leo_items, never changed
  rec,       \* the recognizer
  call,      \* the call of try_advance_bytes under way, if any (its field
             \* before is history: the recognizer when the call began)
  reply,     \* the result of the last call
  text,      \* history: the bytes advanced by and not undone
  saved      \* the caller's checkpoints and the text of each, newest last

vars == <<grammar, leo, limits, rec, call, reply, text, saved>>

-----------------------------------------------------------------------------
(* The compiled grammar. *)

\* CompiledEarley::build adds the rule Augmented -> start, last.
Rules == Append(grammar.rules, [lhs |-> Augmented, rhs |-> <<grammar.start>>])

StartItem == [rule |-> Len(Rules), dot |-> 0, origin |-> 0]
FinalItem == [StartItem EXCEPT !.dot = 1]

Rhs(item) == Rules[item.rule].rhs
Lhs(item) == Rules[item.rule].lhs
IsComplete(item) == item.dot = Len(Rhs(item))
Expects(item, X) == ~IsComplete(item) /\ Rhs(item)[item.dot + 1] = X
Advanced(item) == [item EXCEPT !.dot = @ + 1]

NullableNow == Nullable(grammar)

-----------------------------------------------------------------------------
(* The chart. *)

NewColumn == [items |-> << >>, leo |-> << >>]

\* The items of column c, among its first n, that wait for X (waiting_terminal,
\* waiting_nonterminal).
Waiters(r, c, n, X) ==
  FoldLeft(LAMBDA waiting, item : IF Expects(item, X) THEN Append(waiting, item) ELSE waiting,
           << >>, SubSeq(r.chart[c + 1].items, 1, n))

AllWaiters(r, c, X) == Waiters(r, c, Len(r.chart[c + 1].items), X)

LastColumn(r) == Len(r.chart) - 1

\* One more item, if it is not in the membership set.
Inserted(present, item) == IF item \in ToSet(present) THEN present ELSE Append(present, item)

\* Mutant of InsertAll: a duplicate is charged to the budget.
InsertAllCharged(r, items) ==
  LET inserted == FoldLeft(Inserted, Last(r.chart).items, items)
      total == r.total + Len(items)
  IN IF Len(inserted) > limits.columnItems \/ total > limits.items THEN [r EXCEPT !.over = TRUE]
     ELSE [r EXCEPT !.chart[Len(r.chart)].items = inserted, !.total = total]

\* insert_item, of one item after the other, into the last column.  over: one of
\* them exceeds a limit, and the rest of the call is skipped.
InsertAll(r, items) ==
  LET inserted == FoldLeft(Inserted, Last(r.chart).items, items)
      total == r.total + (Len(inserted) - Len(Last(r.chart).items))
  IN IF Len(inserted) > limits.columnItems \/ total > limits.items THEN [r EXCEPT !.over = TRUE]
     ELSE [r EXCEPT !.chart[Len(r.chart)].items = inserted, !.total = total]

AdvanceAll(items) == [i \in 1..Len(items) |-> Advanced(items[i])]

\* is_accepting, is_live
IsAccepting(r) == FinalItem \in ToSet(Last(r.chart).items)
IsLive(r) == IsAccepting(r) \/ r.scans # {}

\* checkpoint
Checkpoint(r) ==
  [columns |-> Len(r.chart), scans |-> r.scans, position |-> r.position,
   total |-> r.total, leoItems |-> r.leoItems]

\* Mutant of Restore: the item budget is not given back.
RestoreForgetsTotal(r, c) ==
  [chart |-> SubSeq(r.chart, 1, c.columns), scans |-> c.scans, position |-> c.position,
   total |-> r.total, leoItems |-> c.leoItems, over |-> FALSE]


\* restore
Restore(r, c) ==
  [chart |-> SubSeq(r.chart, 1, c.columns), scans |-> c.scans, position |-> c.position,
   total |-> c.total, leoItems |-> c.leoItems, over |-> FALSE]

-----------------------------------------------------------------------------
(* One byte. *)

Fits(r) ==
  r.position + 1 <= MaxInputBytes /\ Len(r.chart) + 1 <= limits.columns

\* The scans that byte b feeds, with their new cursors.
Fed(scans, b) ==
  LET fed == {s \in scans : CanAdvance(s.terminal, s.cursor, b)}
  IN {[s EXCEPT !.cursor = Append(@, b)] : s \in fed}

\* Mutant of Matched: the waiters are those of the last column.
MatchedFromLastColumn(r, scans, t) ==
  FoldLeft(LAMBDA found, c :
             IF \E s \in scans : s.terminal = t /\ s.start = c /\ IsAcceptingCursor(t, s.cursor)
             THEN found \o AdvanceAll(AllWaiters(r, LastColumn(r), t)) ELSE found,
           << >>, [c \in 1..Len(r.chart) |-> c - 1])

\* The items past a terminal t that some of the scans has now matched: those that
\* waited in the columns where these scans began.
Matched(r, scans, t) ==
  FoldLeft(LAMBDA found, c :
             IF \E s \in scans : s.terminal = t /\ s.start = c /\ IsAcceptingCursor(t, s.cursor)
             THEN found \o AdvanceAll(AllWaiters(r, c, t)) ELSE found,
           << >>, [c \in 1..Len(r.chart) |-> c - 1])

\* advance_byte up to saturate: a new column, and in it what the scans matched, in
\* the order of their sort key: by terminal, by column (together they determine the
\* cursor, since it is of the bytes from that column on).
Scanned(r, b) ==
  LET found == FoldLeft(LAMBDA found, t : found \o Matched(r, Fed(r.scans, b), t),
                        << >>, TerminalTable)
  IN InsertAll([r EXCEPT !.chart = Append(@, NewColumn), !.scans = {}], found)

\* The items that begin the rules of B in column c (starts_by_lhs).
Predicted(B, c) ==
  FoldLeft(LAMBDA starting, i :
             IF Rules[i].lhs = B THEN Append(starting, [rule |-> i, dot |-> 0, origin |-> c])
             ELSE starting,
           << >>, [i \in 1..Len(Rules) |-> i])

\* Mutant of Processed: a nullable nonterminal is only predicted, so that an
\* empty completion that came before its waiter is lost.
ProcessedWithoutNullable(r, n) ==
  LET c == LastColumn(r)
      item == Last(r.chart).items[n]
      B == Rhs(item)[item.dot + 1]
      passed == IF item.origin = c THEN n ELSE Len(r.chart[item.origin + 1].items)
  IN IF IsComplete(item)
     THEN IF item.rule = Len(Rules) THEN r
          ELSE IF leo /\ Lhs(item) \in DOMAIN r.chart[item.origin + 1].leo
          THEN InsertAll(r, <<r.chart[item.origin + 1].leo[Lhs(item)]>>)
          ELSE InsertAll(r, AdvanceAll(Waiters(r, item.origin, passed, Lhs(item))))
     ELSE IF B \in Terminal THEN r
     ELSE InsertAll(r, Predicted(B, c))

\* saturate and complete: the n-th item of the last column.
Processed(r, n) ==
  LET c == LastColumn(r)
      item == Last(r.chart).items[n]
      B == Rhs(item)[item.dot + 1]
      passed == IF item.origin = c THEN n ELSE Len(r.chart[item.origin + 1].items)
  IN IF IsComplete(item)
     THEN IF item.rule = Len(Rules) THEN r
          ELSE IF leo /\ Lhs(item) \in DOMAIN r.chart[item.origin + 1].leo
          THEN InsertAll(r, <<r.chart[item.origin + 1].leo[Lhs(item)]>>)
          ELSE InsertAll(r, AdvanceAll(Waiters(r, item.origin, passed, Lhs(item))))
     ELSE IF B \in Terminal THEN r
     ELSE IF B \in NullableNow THEN InsertAll(r, Append(Predicted(B, c), Advanced(item)))
     ELSE InsertAll(r, Predicted(B, c))

\* Mutant of LeoItems: a waiter is skipped to even when it is not the only one.
LeoItemsNotUnique(r) ==
  LET c == LastColumn(r)
      eligible == {B \in Nonterminal : \E i \in 1..Len(AllWaiters(r, c, B)) :
                     IsComplete(Advanced(AllWaiters(r, c, B)[i]))}
  IN [B \in eligible |->
        LET w == AllWaiters(r, c, B)
        IN Advanced(w[CHOOSE i \in 1..Len(w) : IsComplete(Advanced(w[i]))])]

\* finish_leo_column: the item that a completion of B from this column may skip
\* to, for each B with exactly one waiter, which B completes.  If the waiter's
\* own left-hand side has one in its column of origin, it is that one.
LeoItems(r) ==
  LET c == LastColumn(r)
      eligible == {B \in Nonterminal : /\ Len(AllWaiters(r, c, B)) = 1
                                       /\ IsComplete(Advanced(AllWaiters(r, c, B)[1]))}
      top(item) ==
        IF item.origin < c /\ Lhs(item) \in DOMAIN r.chart[item.origin + 1].leo
        THEN r.chart[item.origin + 1].leo[Lhs(item)] ELSE item
  IN [B \in eligible |-> top(Advanced(AllWaiters(r, c, B)[1]))]

\* The end of saturate and of advance_byte, for the scans still running.
Finished(r, running) ==
  LET c == LastColumn(r)
      found == IF leo THEN LeoItems(r) ELSE << >>
      count == r.leoItems + Cardinality(DOMAIN found)
      created == {[terminal |-> t, start |-> c, cursor |-> << >>] :
                    t \in {t \in Terminal : AllWaiters(r, c, t) # << >>}}
  IN IF count > limits.leo \/ Cardinality(running \cup created) > limits.scans
     THEN [r EXCEPT !.over = TRUE]
     ELSE [r EXCEPT !.chart[Len(r.chart)].leo = found, !.leoItems = count,
                    !.scans = running \cup created, !.position = c]

-----------------------------------------------------------------------------
(* Calls. *)

Idle == [at |-> "idle"]

Blank ==
  [chart |-> <<NewColumn>>, scans |-> {}, position |-> 0, total |-> 0, leoItems |-> 0, over |-> FALSE]

\* CompiledEarley::recognizer: column 0 and the start item, then saturate.
Init ==
  /\ grammar \in Grammars
  /\ leo \in BOOLEAN
  /\ limits \in Limits
  /\ LET r == InsertAll(Blank, <<StartItem>>)
         refused == limits.columns < 1 \/ r.over
     IN /\ rec = IF refused THEN Blank ELSE r
        /\ call = IF refused THEN [at |-> "refused"]
                  ELSE [at |-> "saturate", agenda |-> 0, running |-> {}, rest |-> << >>,
                        chunk |-> << >>, entry |-> << >>, before |-> << >>]
        /\ reply = IF refused THEN "limit" ELSE "none"
  /\ text = << >>
  /\ saved = << >>

\* try_advance_bytes begins.
TryAdvance(chunk) ==
  /\ call = Idle
  /\ call' = [at |-> "byte", agenda |-> 0, running |-> {}, rest |-> chunk,
              chunk |-> chunk, entry |-> <<Checkpoint(rec)>>, before |-> rec]
  /\ reply' = "none"
  /\ UNCHANGED <<grammar, leo, limits, rec, text, saved>>

\* The call ends without success: back to its checkpoint.  The construction has
\* none, and fails as a whole.
Fail(out) ==
  /\ rec' = IF call.entry = << >> THEN rec ELSE Restore(rec, call.entry[1])
  /\ call' = IF call.entry = << >> THEN [at |-> "refused"] ELSE Idle
  /\ reply' = out
  /\ UNCHANGED <<grammar, leo, limits, text, saved>>

Succeed(r) ==
  /\ rec' = r
  /\ call' = Idle
  /\ text' = text \o call.chunk
  /\ reply' = IF IsAccepting(r) THEN "accepting" ELSE "live"
  /\ UNCHANGED <<grammar, leo, limits, saved>>

Continue(r, at, agenda, running, rest) ==
  /\ rec' = r
  /\ call' = [call EXCEPT !.at = at, !.agenda = agenda, !.running = running, !.rest = rest]
  /\ UNCHANGED <<grammar, leo, limits, reply, text, saved>>

\* advance_byte, up to the agenda loop.
Scan ==
  /\ call.at = "byte"
  /\ IF call.rest = << >> THEN Succeed(rec)
     ELSE LET b == Head(call.rest)
              r == Scanned(rec, b)
              running == {s \in Fed(rec.scans, b) : IsLiveCursor(s.terminal, s.cursor)}
          IN IF ~Fits(rec) \/ r.over THEN Fail("limit")
             ELSE Continue(r, "saturate", 0, running, Tail(call.rest))

\* One turn of the agenda loop.
ProcessItem ==
  /\ call.at = "saturate"
  /\ call.agenda < Len(Last(rec.chart).items)
  /\ LET n == call.agenda + 1
         r == Processed(rec, n)
     IN IF r.over THEN Fail("limit")
        ELSE Continue(r, "saturate", n, call.running, call.rest)

\* Mutant of FinishColumn: a column with an empty completion is gone over again.
FinishColumnAgain ==
  /\ call.at = "saturate"
  /\ call.agenda = Len(Last(rec.chart).items)
  /\ LET r == Finished(rec, call.running)
         again == \E item \in ToSet(Last(rec.chart).items) :
                    IsComplete(item) /\ item.origin = LastColumn(rec)
     IN IF r.over THEN Fail("limit")
        ELSE IF again THEN Continue(rec, "saturate", 0, call.running, call.rest)
        ELSE IF call.entry = << >> THEN
          rec' = r /\ call' = Idle /\ UNCHANGED <<grammar, leo, limits, reply, text, saved>>
        ELSE IF ~IsLive(r) THEN Fail("rejected")
        ELSE Continue(r, "byte", 0, {}, call.rest)

\* The agenda is empty.  The construction does not ask whether it is live.
FinishColumn ==
  /\ call.at = "saturate"
  /\ call.agenda = Len(Last(rec.chart).items)
  /\ LET r == Finished(rec, call.running)
     IN IF r.over THEN Fail("limit")
        ELSE IF call.entry = << >> THEN
          rec' = r /\ call' = Idle /\ UNCHANGED <<grammar, leo, limits, reply, text, saved>>
        ELSE IF ~IsLive(r) THEN Fail("rejected")
        ELSE Continue(r, "byte", 0, {}, call.rest)

\* checkpoint and restore, as Guide uses them: a checkpoint restored is gone, and
\* so are those taken after it.
TakeCheckpoint ==
  /\ call = Idle
  /\ Len(saved) < MaxSaved
  /\ saved' = Append(saved, [checkpoint |-> Checkpoint(rec), text |-> text])
  /\ reply' = "none"
  /\ UNCHANGED <<grammar, leo, limits, rec, call, text>>

RestoreCheckpoint(i) ==
  /\ call = Idle
  /\ rec' = Restore(rec, saved[i].checkpoint)
  /\ text' = saved[i].text
  /\ saved' = SubSeq(saved, 1, i - 1)
  /\ reply' = "none"
  /\ UNCHANGED <<grammar, leo, limits, call>>

Step == Scan \/ ProcessItem \/ FinishColumn

Next ==
  \/ \E chunk \in Chunk : TryAdvance(chunk)
  \/ Step
  \/ TakeCheckpoint
  \/ \E i \in 1..Len(saved) : RestoreCheckpoint(i)

UnderWay == call.at \in {"byte", "saturate"}

\* A call that has begun runs until it returns: it is one thread's loop.  Step is
\* enabled exactly while a call is under way, and changes the state, so this is
\* WF_vars(Step), written so that TLC need not search for a step to know whether
\* there is one.
Fairness == []<>~UnderWay \/ []<><<Step>>_vars

Spec == Init /\ [][Next]_vars /\ Fairness

-----------------------------------------------------------------------------
(* Properties.  The reference languages are those up to MaxInputBytes. *)

Language == [g \in Grammars |-> Derivations(g, MaxInputBytes)]
PrefixLanguage == [g \in Grammars |-> DerivablePrefixes(g, MaxInputBytes)]

Items(r) == UNION {ToSet(r.chart[c].items) : c \in 1..Len(r.chart)}

\* Every part of the state stays in its type.
TypeOK ==
  /\ grammar \in Grammars
  /\ leo \in BOOLEAN
  /\ limits \in Limits
  /\ \A item \in Items(rec) :
       /\ item.rule \in 1..Len(Rules)
       /\ item.dot \in 0..Len(Rhs(item))
       /\ item.origin \in 0..LastColumn(rec)
  /\ rec.scans \subseteq [terminal : Terminal, start : 0..LastColumn(rec), cursor : Seq(Byte)]
  /\ ~rec.over
  /\ call.at \in {"idle", "byte", "saturate", "refused"}
  /\ reply \in {"none", "live", "accepting", "rejected", "limit"}
  /\ text \in Seq(Byte)

\* Between calls the recognizer accepts exactly the strings the grammar derives
\* and is live exactly on their prefixes, with Leo items and without, whatever
\* order a column was saturated in, and whatever was rejected, stopped by a
\* limit or rolled back before (earley.rs:552-562).
AnswersExactly ==
  call = Idle => /\ IsAccepting(rec) <=> <<grammar.start, text>> \in Language[grammar]
                 /\ IsLive(rec) <=> <<grammar.start, text>> \in PrefixLanguage[grammar]

\* An item means what it says: the symbols before its dot derive the bytes
\* between its origin and its column.  Leo items, which skip columns, and
\* nullable advances, which skip completions, must not make one up.
ItemsAreDerivations ==
  call = Idle =>
    \A c \in 0..LastColumn(rec) : \A item \in ToSet(rec.chart[c + 1].items) :
      SubSeq(text, item.origin + 1, c)
        \in DerivedFrom(SubSeq(Rhs(item), 1, item.dot), Language[grammar], MaxInputBytes)

\* Without Leo, every completion has advanced every item that waited for it,
\* also one that reached its column after the completion did (the nullable
\* nonterminals of earley.rs:347-352).
ColumnsAreClosed ==
  call = Idle /\ ~leo =>
    \A c \in 0..LastColumn(rec) : \A item \in ToSet(rec.chart[c + 1].items) :
      IsComplete(item) =>
        \A waiter \in ToSet(AllWaiters(rec, item.origin, Lhs(item))) :
          Advanced(waiter) \in ToSet(rec.chart[c + 1].items)

\* The budgets are spent on what the chart holds and on nothing else: a failed
\* call and a restore give back exactly what they drop.
BudgetsMatchChart ==
  /\ rec.total = FoldLeft(LAMBDA n, column : n + Len(column.items), 0, rec.chart)
  /\ rec.leoItems = FoldLeft(LAMBDA n, column : n + Cardinality(DOMAIN column.leo), 0, rec.chart)
  /\ rec.total <= limits.items
  /\ rec.leoItems <= limits.leo
  /\ Cardinality(rec.scans) <= limits.scans

\* A call that fails, at whichever step of whichever byte, leaves the recognizer
\* it found, column for column (README.md:45).
FailedCallRestores ==
  [][reply' \in {"rejected", "limit"} /\ reply = "none" /\ call'.at = "idle" =>
       rec' = call.before]_vars

\* Every call returns: nullable cycles and left recursion do not keep the agenda
\* going (test nullable_chain_and_cycle_terminate, earley.rs:786).
CallsReturn == UnderWay ~> ~UnderWay
=============================================================================
