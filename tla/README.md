# Verification of oc-earley

TLA+ models of the oc-earley constrained-decoding engine, the TLC runs that check them on
small instances, and TLAPS proofs of what they say for every instance.

oc-earley turns a JSON schema into a recognizer of the canonical texts of the valid values and
drives a language model with it: at every step it says which tokens keep the text completable, and
commits the one chosen. The repository promises two things, and they are what this project is
about. *Language*: lowering and every backend keep the language of the schema exactly
(`README.md:51-71`). *Transactions*: mask queries are pure, a rejected token or a runtime limit
leaves the state as it was, rollback counts tokens (`README.md:45`, `README.md:149`).

Paths below are relative to the repository's root; the Rust source is in `src/`, so `grammar.rs` is
`src/grammar.rs`. `PROJECT.json` maps each definition to the lines it models.

## The system

    JSON schema --schema.rs--> arena --lower--> grammar --reduce--> grammar --certify--> regular?
                                                                                        |
              .--------------------- one byte DFA <------------------------- yes -------|
              |                                                                         no
              |                 LALR(1) table <--- usable? --- residual grammar <-------'
              |                      |                              | otherwise
              v                      v                              v
         token Index          LALR recognizer              Earley recognizer
              |                      |                              |
              '--------> Guide <-----'------------------------------'<--- token trie
                           |                                              |
                     Python Guide                                    Vocabulary

    JSON schema --json_schema/--> one regular expression --regex library--> token Index --> Guide

| component | state | operations | what makes it correct, and hard |
| --- | --- | --- | --- |
| Normalization (`schema.rs`) | schemas found, numbered by pointer; nodes so far | find a schema's place, normalize a schema | a node accepts exactly the valid values, anything else is refused. Order of pointers, escapes, spellings of one number, combinations of keywords |
| Lowering (`grammar.rs`, `lower`) | symbols, rules and their counts against limits | one per schema node | the grammar derives the canonical texts of valid values. Positions of arrays, optional members and their commas, bounds that meet |
| Reduction, components, certification (`grammar.rs`) | worklists with counters; Tarjan's stacks; an expression per nonterminal | turns of the worklists; edges and frames; one component | drops nothing needed; components are the classes of mutual reachability; an expression is exact, and some component is always ready. Worklists, order of components, left-linear ones solved backwards |
| Choice of a backend (`engine.rs`, `prepare`) | the answer | one | the backend reads the language of the grammar, under every policy. Nullable symbols cannot become terminals; limits end some paths and not others |
| Byte DFA (`grammar.rs`, `CompiledByteDfa`) | numbers, rows, live states | number a state; mark a state | liveness is reachability of acceptance. Predecessors share one array |
| Older path (`json_schema/`) | the depth of references, handed from call to call | `to_regex`, once per schema written out | the expression matches the texts of the values it keeps. Commas around what is left out, bounds less one, the depth given back |
| Vocabulary, indexes, trie (`vocabulary/`, `index.rs`) | ids by token; rows by state; trie nodes, edges and ids in arrays | insert, remove; expand a state; enter a token, lay out | a row holds exactly the tokens that keep the text completable, and both projections agree. Order of hash maps, aliases, ids of two tokens |
| Earley recognizer (`earley.rs`) | chart, agenda, scans, Leo items, budgets | `try_advance_bytes`, checkpoint, restore | exact answers; a failed call leaves no trace; always returns. Nullable completions, Leo's shortcut, limits anywhere in the loop, restore by truncation |
| LALR recognizer (`lalr.rs`) | canonical states and merged table; stack and candidates | expand a state, build; the same three calls | exact answers where the table is used. Merging, lexical safety, lookahead known only later, limits inside queries |
| Recognizer handed to Python (`python_bindings/mod.rs`) | a recognizer and a table of checkpoints | `advance`, `checkpoint`, `restore` | a restored handle is the state it was taken in. Handles in any order |
| Guide (`engine.rs`) | recognizer, committed tokens and bytes, history, cached mask | `advance`, `fill_mask`, `accepts_tokens`, `rollback`, `reset` | text always completable, mask exact, rollback counts tokens, failures change nothing. History at its limit, stale mask, EOS undone, DFA guides that count no bytes |
| Mask walk (`engine.rs`, `fill_structural_mask`) | a stack of trie frames with checkpoints on the one chart | visit, descend, return, fail | equivalent to one atomic step. An error at any depth |
| Guide handed to Python (`python_bindings/mod.rs`) | a guide | the same, `advance` with the next tokens, pickling by replay | the copy decodes as the original. A replay through limits and past undone tokens |

Everything runs in one thread: an object is called through `&mut self`, and PyO3 refuses a call on an object
that is being called. The hard behaviours are therefore not races. They are calls that
stop half-way on a limit and must be undone, checkpoints that name parts of a state that has gone on
changing, caches, worklists whose order is that of a hash map, and long legal sequences of calls.
`hazards` in `PROJECT.json` lists them line by line with the properties that cover each.

## Modules

| module | models | state and actions |
| --- | --- | --- |
| `BoundedLanguage` | languages cut at a length | operators only |
| `ByteLanguage`, `ByteRecognizer` | `RecognizerState`, whichever backend is inside | operators: `TryAdvance`, `Checkpoint`, `Restore` on a record of what the backend stores |
| `PyRecognizer` | Python `Recognizer` | `rec`, `table`; `Advance`, `TakeCheckpoint`, `RestoreCheckpoint`; `text`, `marks` (each handle the caller was given, and the text of that moment) are history |
| `Guide` | `Guide` | one record `guide` like the struct; `Advance`, `FillMask`, `AskAcceptsTokens`, `Rollback`, `Reset` |
| `GuidePromise` | nothing in the code: the abstract specification of a decoding session | `text`, `done`, `past`, `reply` |
| `MaskTraversal` | `fill_structural_mask` step by step | `Guide` and `walk` |
| `PyGuide` | Python `Guide` | `Guide` with `AdvanceReturningTokens` and `Pickle` |
| `ResidualGrammar` | the grammar and terminals that LALR and Earley get | operators, and the reference languages |
| `Earley` | `EarleyRecognizer` | an agenda item is a step: `TryAdvance`, `Scan`, `ProcessItem`, `FinishColumn`, `TakeCheckpoint`, `RestoreCheckpoint` |
| `LrAutomaton`, `Lalr` | table construction and `LalrRecognizer` | `ExpandState`, `BuildTable`, then a call is a step |
| `Grammar`, `Reduction`, `SccAnalysis`, `Certification`, `Compilation` | `reduce`, `analyze_sccs`, `certify_regular`, `build_residual`, `prepare` | each adds a variable and the actions of its pass to those of the one before |
| `CompiledByteDfa`, `TokenIndex`, `RegexIndex`, `TokenTrie`, `Projection` | `CompiledByteDfa::compile`, `Vocabulary`, `Index::from_certified_dfa`, `Index::new`, `DerivedVocabulary::build` | likewise; `Projection` takes both indexes and the trie from one vocabulary, in every order of their worklists |
| `JsonValues`, `SchemaPointers` | JSON values and their canonical text; pointers and `$ref` | operators only |
| `Normalization` | `parse_schema`, `normalize_schema` | `document`, `schemas`; a place indexed, a node normalized is a step |
| `Lowering` | `lower` | a node is a step |
| `SchemaRegex` | `Parser::to_regex` and all below it, and patterns as strings are put together | operators only: nothing is kept between calls. The parser's depth is in what a call takes and returns |
| `RegexReference` | nothing in the code: what that expression should match, and the schemas for which it does not | operators only |
| `SchemaCompilation` | the first half of `prepare` | composes `Normalization` and `Lowering`; has JSON Schema as the reference for both |
| `*_proofs`, `FoldLemmas` | the proofs, and what they need to know of `FoldLeft` | |
| `MC*` | instances for TLC | `MCDocuments` is shared by the recognizer and guide runs; `MCPyGuide` is the module of both `guide` and `py_guide`, which differ in their specification |

Two levels meet at `ByteRecognizer`. Above it, a backend is a language and what the transactional contract
depends on: what a checkpoint holds, what a failing byte leaves behind. Below it, `Earley` and `Lalr` are
checked to be exact and to restore what they held, which is what `ByteRecognizer` takes from them. In the same
way `Compilation` leaves open whether a table is usable or a limit is met, and `Lalr` and `Earley` have the
constructions.

A grammar, an automaton or a schema is not a constant of an instance but chosen in `Init` from a set, so that one
run covers hundreds. Terminals are sets of words over two or three letters. `reduce` and its successors renumber
what they keep; the models let it keep its number.

## Runs

| run | states | what it shows |
| --- | --- | --- |
| `py_recognizer` | 2 148 | over an Earley chart, calls that succeed, are rejected or meet a limit inside a chunk, checkpoints taken until the table is full, and restores of handles whose bytes were not undone, and of handles no call returned: answers are always those for the bytes that count, and every handle returned stays that of its own checkpoint |
| `guide` | 1 166 | a decoding loop over an Earley guide. `KeepsPromise` is the refinement of `GuidePromise` |
| `py_guide` | 2 047 | the same over a token index, which has no limits and stores no bytes, with pickling and returned tokens. That its history and text stay in step, although it counts no bytes, is proved as for every backend (`TablesAlwaysMatchText`, `PromiseIsKept`) |
| `mask_traversal` | 5 091 | the walk of the trie is the one step `Guide` takes it for (`WalkIsAtomic`, a refinement of `Guide`) |
| `earley` | 107 119 | 87 grammars, with and without Leo, under roomy and tight limits |
| `lalr` | 23 243 | 126 grammars from canonical construction to recognition, under roomy and tight limits |
| `compilation` | 9 655 | 336 grammars through four passes and the choice, all four policies, every outcome of what is left open |
| `projection` | 22 632 | 8 automata, every vocabulary of up to four entries; the three projections agree, and the worklists run out |
| `schema` | 11 659 | 428 schema documents from text to grammar, under roomy and tight limits: nodes accept the valid values, refusals are justified, grammars are exact; and the expression of the older path |
| `py_recognizer_stale`, `py_guide_transaction`, `schema_assertions` | | violated: see Findings |

Bounds, and why they are enough.

- `MCDocuments`: texts of at most five bytes, `MaxInputBytes = 4`, one table limit met after `oo`, and
  `MaxCommittedTokens = 5`. So every limit is met in the middle of a token, at its first byte and after a rollback.
  Tokens include aliases, one spanning a level, and one no document contains. `MaxRollback = 2` fills the history
  and drops snapshots within three commits.
- `MaxCheckpointHistory = 3`: three checkpoints may nest and one more be refused.
- `earley`: four or five columns. A Leo chain needs three columns to skip one; a nullable cycle needs one.
  The pool has every right-hand side of up to three symbols that differs for the algorithm: empty, terminal, a terminal
  that overlaps another, left, right and middle recursion, and `S S`. The two-nonterminal grammars
  are the cases the code treats specially: nullable chains and cycles, hidden left recursion, Leo chains and what breaks them. One checkpoint is kept (`MaxSaved = 1`); nesting is `py_recognizer`'s.
- `lalr`: a pool like it, plus the classical grammars between SLR, LALR and LR(1), and lexically unsafe terminals.
  The tight limits meet that on reported conflicts (one) on nine grammars which no other limit stops first; the roomy ones admit the most conflicts there are.
  Inputs of up to five bytes pass every state of these automata. `MaxReductions = 8` bounds how often the loop of
  `action_after_reductions` turns; that it always ends before is part of `AnswersExactly` (`ReductionsEnd`).
- `compilation`: three nonterminals is the least number with components of one, two and three and an order between
  them. `MaxLength = 4` is longer than what any of these grammars needs to tell two of its nonterminals apart; the
  languages of rules and expressions are cut at that length on both sides, so nothing below it is lost.
- `projection`: all strings up to the number of states decide reachability. Four vocabulary entries hold an alias,
  an id of two tokens and a prefix pair at once.
- `schema`: some fifty values decide what a schema means, with several spellings of a number, arrays of up to three
  items and objects of up to three members, one level deeper where a schema refers to itself. Eleven branches are the least for which the order of
  pointers is not that of indices. `MaxLength = 9` is an array of four digits or an object of two members. `MaxExponent = 9` and `MaxPlaces = 8`
  stand for the ranges of `i128` and `usize`, so that one constant is out of range and one too long to be written plainly; twelve nodes and two references are
  the limits of the arena, each met by some document. `MaxRecursionDepth = 1` lets a reference be followed by one more and no third.
  The expression is matched against the texts of all values, some spoilt numbers and strings, and the texts of an array and an object with a space or
  a comma put in at any place or a bracket, quote, comma or colon taken out.

Deadlock is checked except where the program ends: a compilation that is done or refused, and a recognizer whose
construction met a limit.

Fairness is assumed in two places, both the loops of one call. `Projection` assumes weak fairness of its next step, which is that a compilation that was begun
goes on; `PreparationEnds` shows that every worklist runs out, cycles included. `Earley`'s `Fairness` says that a call under way goes on, which is the loop of one
thread in `try_advance_bytes`; it is weak fairness of `Step`, written with the condition under which `Step` is enabled. `CallsReturn`
needs it, and shows that the agenda runs out on nullable cycles and left recursion. Nothing is assumed of the caller.
All other properties are of safety.

Every property has a mutant in `PROJECT.json`: an operator beside the definition it changes, marked "Mutant of", with
which TLC finds the property violated.

## Findings

- `py_recognizer_stale`: an Earley checkpoint is a generation and lengths. Take checkpoint A, advance, take B, restore A,
  advance by other bytes, restore B: it succeeds, with B's scans over the other bytes' columns (`earley.rs:589`). The
  Rust guide never does this, for its history is dropped with the tokens; a Python caller holds handles for ever and may.
- `py_guide_transaction`: Python `advance(token)` commits and then computes the next tokens; a limit met there raises with the
  token committed (`python_bindings/mod.rs:483`), against "restores the previous state after rejection or a runtime-limit error" (`README.md:45`).
- `schema_assertions`: `minLength` beside a `$ref` is neither applied nor refused (`schema.rs:574`), and an `allOf` of `number`, `integer` and
  the constant 1 becomes the schema no value satisfies (`schema.rs:856`), against "Unsupported keywords and combinations fail explicitly" (`README.md:214`).

Met on the way, and modelled as they are: `is_accepting` of an LALR recognizer may say no for a complete text when
the simulated reductions exceed `max_parse_stack` (`LimitsNeverMislead` says how far this goes); `reduce` keeps
nonterminals that only dropped rules reach, without rules that lead to them; the DFA limit ends a compilation
also under a policy that would not have used the DFA; the token index accepts an empty token, and an id of two tokens if they
always lead to the same state, and the token trie refuses both. Pickling a guide writes its tokens
and unpickling replays them (`python_bindings/mod.rs:402`), so the copy of a guide that was rolled back from a full history can
undo more than the guide; `tests/test_structural_pickle.py:39` asserts equality, on a guide without such a past. `minLength: 2.0` is refused where
JSON Schema takes it for 2. `Index::new` looks one byte ahead where the certified index looks to the end, so it keeps tokens after
which some expressions cannot be completed; `NothingIsLost` says that it never drops one.

The older path is more often wrong than right outside the schemas it was made for, and `RegexReference` has a name
for each way: a keyword is passed over (`PassesOver`); `{}` is alternatives in no group and takes its neighbours apart
(`RunsTogether`); `allOf` writes its branches one after the other and `oneOf` is `anyOf` (`Miscombines`, `parsing.rs:170`); an empty
`anyOf`, `enum` or list of types matches the empty text (`ListsNothing`); a required property too deep in references is dropped with
its comma kept or lost (`LosesRequired`, `parsing.rs:112`); `minItems` with `maxItems: 0` takes `[]`, and numbers of properties count for none or
some only (`Miscounts`, `parsing.rs:519`); one digit at most is no bound, and 0 is written whatever the least number (`MiscountsDigits`, `parsing.rs:638`); keys of constants are not escaped,
a pattern with `|` is in no group (`Misquotes`); a reference that names the `$id` never gives its depth back (`NamesId`, `parsing.rs:311`).
`RegexIsExact` is about the documents none of this happens in, which is 125 of the 428; of the others, 176 go astray and the path refuses 127.

## Proofs

The theorems hold for every value of the constants that satisfies the named assumptions of the modules, which TLC evaluates on
every run: `LanguageAssumption`, `RecognizerAssumption`, `VocabularyAssumption`, `GuideAssumption`, `GrammarsAssumption`, `GrammarAssumption` (terminals do not match the empty string), `MaxLengthAssumption` (strings are cut to some length),
`ByteAssumption`, `AutomataAssumption` (the library's automata are complete and know their dead state), `TerminalAssumption`
(terminals are numbered without repetition and match some word, none of them empty: `build_residual` sees to the latter, and the
former holds of literals, of the fixed patterns and of regions, which `reduce` has left productive), `AugmentedAssumption` (the added symbol and the end of input are no others),
`LalrAssumption` (grammars are well formed) and `EarleyAssumption` (grammars are well formed and reduced, so that every nonterminal of a right-hand side derives something
(`IsReduced`, `productive_nonterminals`); limits are numbers of any size, 0 included). Wherever a proof
meets an order that the code leaves to a hash map or a caller, it holds for every order.

Both modules about callers, `PyRecognizer_proofs` and `Guide_proofs`, begin with the recognizer's lemmas. `TryAdvanceIsAtomic`: the byte loop of
`try_advance_bytes` may stop anywhere and leave a chart that is too long and scans that are gone; the restore, which for Earley only truncates, makes a
transaction of it. The argument takes the least byte that fails, and that truncating a sequence undoes what was appended.

**`PyRecognizer_proofs`**: `AnswersAreForText`, `RestoresReturn`, `RestoresAreNeverRefused`, `FailuresLeaveNoTrace`. The
invariant (`PyInv`) says that the recognizer is in order at the text that counts, and every handle a checkpoint of a
recognizer in order at its mark, and of each mark that its handle is its index: none is lost or given twice, however full the table was. What a usable handle then needs is that its mark is a prefix of the text, and that is
the caller's part: the theorems about restores have the premise `HandlesAreSafe`, that an Earley caller uses handles as if
they were nested. The run `py_recognizer_stale` is why the premise cannot go; a backend whose checkpoints hold its state by value needs none.

**`Guide_proofs`**, for every language, vocabulary, backend, limit and place at which limits are met. The invariants that TLC
checks are not inductive, because a history entry of an Earley guide holds no text: that `Rollback` succeeds and returns to
the right text rests on each entry being a checkpoint of a *prefix* of the text now, one token apart from the next
(`EntryInv`), and that a cached mask is right rests on its having been computed by a walk no limit cut short
(`MaskInv`). `GuideInv` is the conjunction of the parts, `ReplyInv` the type of replies, and every operation keeps both. From it follow
`TypeCorrect`, `TablesAlwaysMatchText`, `HistoryIsExact`, `DecodingIsExact`, `MasksAreExact`, `FailuresChangeNothing`,
`RollbacksCountTokens`, and `PromiseIsKept`: `Guide` implements `GuidePromise` under the mapping that reads the text off
the scans and the snapshots off the history.
`TrialsAreAlwaysExact` is about `accepts_tokens`, a fold of `advance` over a clone: `TrialInv` says what the first k tokens made of it,
and its induction over k is first-order thanks to `FoldLemmas`.
`PicklesKeepDecoding` and `ReturnedTokensAreAlwaysExact` are about `PyGuide`. That a replay is never refused needs `ReplayInv`, which
says of every committed token that it was taken at the text of those before it. A rollback keeps that because it returns
to a text that the tokens left spell, and then replaying is once more an induction over a fold.

**`MaskTraversal_proofs`**: `AlwaysOnThePath`, `CheckpointsAlwaysNest`, and `WalkRefinesGuide`, the refinement: the walk, which shares
one recognizer between all frames and may fail at any edge, is one step of `Guide`. The nodes of the frames are the prefixes of one path, and
the recognizer is at it or below (`PathInv`), hence each frame's checkpoint is one of a prefix. That the walk has tried each edge once when it ends, and fails
exactly when `TraversalFails` says, is a matter of counting: an edge is done if no edge still to do is at it or
above it (`Done`, `Ahead`), and the counter is the number of those (`TallyInv`).

**`Earley_proofs`**, for every grammar, with and without Leo, every set of limits and any number of bytes. The invariant (`EarleyInv`) has a part for
each place in the code a step can be at: `Settled` between calls, `Filling` inside a column, `InCall` with the checkpoint to go
back to, `AreSaved` for checkpoints, nested by their columns.
`BudgetsAlwaysMatchChart`: `total_items` and `leo_items` are the sums over the chart, so restoring numbers along with the chart gives back exactly
what a failed call took. `FailedCallsRestore`: what a call adds lies above the columns of its checkpoint (`AgreeTo`), except that
it takes the scans, which the checkpoint has. `ColumnsAreAlwaysClosed`: an item completed in the column it began in is of an empty
rule or of nullable symbols (`OwnIsEmpty`), so a waiter that comes later advances over it by itself; with that, the part of
the agenda that was passed is closed at each moment (`Passed`), and the end of the agenda is the end of the closure. The theorem is about
recognizers without Leo items, as the property is; with them a column lacks items on purpose.
`ItemsAreAlwaysDerivations`, `AcceptedTextIsDerived` and `AnswersAreExact` need two things more. The first is a theory of derivations. `Derivations` takes rounds
from the empty set, `Height` of them, and is meant to be closed under the rules (`DerivationsResult`): a string that a round still
adds has within it one that the round before added, and so on down, so that after `Height` rounds it has within it more strings
that differ in nonterminal or length than there are such pairs (`Deep`, `DeepEnds`); `DerivablePrefixes` likewise. The second is `ExactInv`, on top of `EarleyInv`:
a call under way has read some t, and columns and scans are exactly about t (`ExactWhile` inside a column, `ExactAt` at the end of one), while the recognizer it
found and the caller's checkpoints are about their own texts (`ExactSaved`). Half of that is that what the chart says is right
(`SoundChart`, `Scanning`). What an item of the agenda inserts follows from what the chart
holds (`Follows`), and each such step derives (`FollowsSound`). A Leo item speaks of bytes that are not there yet: read any string of B from here on, and the
item it skips to will be right (`Skips`); that one Leo item may be taken from the column of another is the composition of two such
promises (`LeoItemsSound`).
The other half is that nothing is missing. Every item passed has done its work (`WorkedAt`), every terminal that was waited for and matched has been
advanced over (`ShiftedAt`), and every one that has begun and can go on is scanned (`Covered`). A derivation is then followed through
the chart by induction on the rounds of `Derivations` (`Finds`). With Leo items the items a shortcut skips are not in their columns, so what is found
of a nonterminal is not an item but what its completion leads to (`Had`); a Leo item is one deterministic completion, or the one behind it (`LeoStep`), and nobody
else waits for what it skips. For prefixes: unless some terminal is under way where the text ends (`Pending`), what the text ends with and begins a
string of a nonterminal is a whole string of it (`Ends`), again by induction on rounds. That a scan makes the recognizer live *rightly* needs the other direction: what is scanned
was waited for (`Founded`), what waits can be gone on with because grammars are reduced, and what can be gone on with from an item
is wanted by the start symbol (`Viable`, `BegunIsViable`), which also holds for what is behind a Leo item.
`AnswersAreExact` says more than the run: any grammar, and texts of any length up to `MaxInputBytes`, whatever that is.

**`Lalr_proofs`**, for every grammar, every set of limits, and any number of states, bytes and reductions. `StacksAlwaysPaths`: what the recognizer and each of its
candidates holds is a path of the automaton from its first state, and the four errors that the code calls internal never happen.
Lookaheads decide which action a table has, but not where it leads: the items of a closure without their lookaheads, its core, follow from the core of its seed
(`ClosureCores`, by induction on the rounds of `Closure`; `PredictionsIgnoreLooks`), hence states merged by core agree on their targets (`GotoCores`, `MergedTargetsResult`), whatever the
numbering (`MergingResult`). What is left of the construction is that the table fits some assignment of cores to its states
(`IsAutomaton`, `BuiltIsAutomaton`): an item whose dot is past a symbol is, one symbol back, in every state that leads there by it, and a state with the beginning of a rule
has a goto for its left-hand side. So the last states of a path lead back through the rule that is to be reduced
(`ItemsHavePaths`) to a state with a goto (`ReducedResult`). That no two terminals are matched at once is lexical safety, for all candidates
have read the same bytes (`InStep`). `FailedCallsRestore` is about the same call: a checkpoint is the whole state.

**`Projection_proofs`.** For the byte DFA, `DfaAlwaysReads` and `DfaIsAlwaysExact`: the numbering is injective and
without gaps, rows are those of the automaton under the numbering, the slices of the one predecessor array are laid out exactly
(`SlicesMatch`), and live states are marked from the accepting ones backwards: each is witnessed by a string shorter than the number of states,
and none is missing because the marked ones are closed under predecessors. `DfaAlwaysReads` says so for texts of every length, which no run can.
For the token index, `IndexIsAlwaysExact`: seen, listed and finished states partition what was found (`Exploring`), and what was found at the end is the
least set closed under tokens, in whatever order the worklist was worked off.
`ProjectionsAlwaysAgree` sets the three projections against each other. For the trie: at every moment each node has a name, the string that leads to it
and to no other (`Named`), and the nodes named by the tokens entered so far, and no others, bear their ids (`Labelled`); walking down along a token keeps that,
by new nodes where there are none (`DescendKeepsTokens`, `WalkedDown`). In the arrays each node's edges and ids are one slice, which what is appended later
does not touch (`LaidOutHolds`). The walk then meets every node whose name leads to a live state, with that state, and no other (`WalkResult`): a child
comes after its parent, and on the way to a live state all states are live, so that pruning loses nothing. A vocabulary the trie accepts names each token by its ids alone
(`AreReversed`), hence is not ambiguous to the index either. For the index of a regular expression: its rows are those of library states
with the numbers of the rows of the index (`StepsMatch`, `RowsReach`); a step of it that the other has not leads to a lost state, and where none is lost it is refused
exactly where the other is (`Refused`).

**`Compilation_proofs`**, for every set of grammars. `ReductionMarksExactly`: the marks of the two worklists are the least sets
closed under the rules. The invariant adds that a rule's counter is the number of *places* in it that wait for a
nonterminal still unknown or still on the list (`CountersAreRight`; a nonterminal twice in a rule counts twice), and that
what a nonterminal off the list leads to is marked (`SearchIsAhead`). `ReducedIsGrammar`: no rule kept mentions what was dropped.
`ComponentsAreExact` is Tarjan's algorithm, with the frames the code keeps in place of a recursion. What is meant by leading from one
nonterminal to another is the least set closed under the edges (`ReachesIn`). The invariant (`SccInv`) says of a search under way that numbers ascend on the
stack and along the frames (`StackAscends`, `FramesAscend`), that a frame leads to all that is above it (`FramesLead`), that a low link is
the number of a node still on the stack that is led to, and no higher than where the edges taken go (`LowIsReached`, `LowIsLow`), and that a node that ended but
waits reaches lower than itself, which the frame below it knows (`EndedReachLower`, `FramesKnow`). When a frame ends whose low link is its own number, no node
above it reaches below it, so what is above it is closed; and each leads back to it, for the lowest that did not would
reach a lower one that does (`ComponentCloses`). `CertificationNeverStuck`, the assertion "SCC condensation graph did not make progress" of `certify_regular`: a component leads
to strictly more than one it waits for (`WaitsForLess`), so the one left that leads to the least waits for none.
The languages come next, all of strings of at most `MaxLength` bytes, whatever that is. `Derivations` iterates a bounded number of rounds; that it arrives at the
least family of languages closed under the rules (`IsLeastClosed`) is a pigeonhole argument: a round still adding
a string has a chain of as many pairs of nonterminal and length as there were rounds (`RoundsResult`). `ReducedDerivesTheSame`:
so what is unproductive derives nothing, and what is reachable reads only what is kept (`Reduced`).
`CertificatesAlwaysExact`: a component is certified only after what it mentions, whose expressions are exact (`Certified`, the invariant). Concatenation cut to `MaxLength` is
still associative and distributes over union, and the star is the least language closed under it (`RepetitionResult`). Eliminating
a member adds the paths through it, and keeps that no edge leads out of what is derived (`EliminatedIsSound`) and that a path gains nothing
from the members eliminated before (`EliminatedBypasses`). What remains satisfies the equations of the component, so it has what is derived, the least solution, and is within it
(`EliminationIsExact`); a left-linear component is the same with all strings reversed (`TurnedConcatenation`).
`BackendAlwaysKeepsLanguage`: what `productive_nonterminals_for_empty` finds is closed under the rules, for what grows within a finite set ends
(`AscentEnds`), so that what derives the empty string is in it (`EmptyIsNullable`); what is retained is closed in turn (`RetainedIsClosed`), hence a region
never derives the empty string and has an expression (`RegionsDoCompile`). The languages of the residual grammar and of its regions together are closed under the rules of
the grammar, and those of the grammar under the rules of the residual one (`ResidualDerives`); nothing happens after the choice (`Chosen`).

**`FoldLemmas`.** The code's loops over vectors are folds, and `FoldLeft` takes an operator, for which no fact can be assumed and
used again by the installed provers. The lemmas are about `Folded`, whose step is a *function* on pairs; `StepsDetermineFold` says that a fold of an operator that agrees with
a function is the fold of the function, and is cited once per operator.

Only model-checked, for the prover cannot: liveness (`CallsReturn`, `PreparationEnds`), and whatever speaks of a RECURSIVE operator (`NormalizationIsExact`,
`ErrorsAreJustified`, `LoweringIsExact`, `RegexIsExact`): the induction theorems take an operator as a parameter, which no installed prover can
instantiate. Only model-checked so far: `AnswersExactly` and `LimitsNeverMislead` of `Lalr`, which need that the lookaheads of the table are right:
that a table without conflict never asks for a reduction that leads nowhere, and never refuses what can go on.

## Not modelled

- JSON syntax, UTF-8 and the limits on bytes and depth, which are the parser's; where in the text an error is.
- The patterns of string formats in the older path (`types.rs`), and a whitespace pattern of the caller.
- Patterns and the regex library: a scalar's terminal is the set of its words, an automaton is given. Whether the pattern
  rendered for a number or a string says what JSON says is not covered.
- Tokenizer files and downloads (`vocabulary/processor.rs`, `locator.rs`), serialisation, the command line, the bit-mask kernels,
  reports and messages.
- Widths of integers: the sums that could overflow are checked additions that end in a limit error, far above the limits themselves.

## Plan

Done: the runtime from Python down to both structural recognizers, the compiler from the schema document to the backends, both
token indexes, and the older path. The core came first because it is what every decoding step runs: recognizer, guide and its promise, then mask walk, Earley,
LALR, then the compiler backwards from the backend to the document.

To model next:

1. `BackendRecognizers`: `Earley` and `Lalr` shown to implement `ByteRecognizer` by refinement, where now their properties say as much
   in separate pieces.
2. A composition of `SchemaCompilation` with `Compilation`, so that one run carries documents to backends.

To prove next:

1. `LimitsNeverMislead` and `AnswersExactly` of `Lalr`, from the paths of `Lalr_proofs` and the theory of derivations in `Earley_proofs`.
