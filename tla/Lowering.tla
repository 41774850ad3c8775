------------------------------- MODULE Lowering -------------------------------
(***************************************************************************)
(* lower: the arena of normalized schema nodes becomes a grammar for the   *)
(* canonical texts of the values that are valid.  Every node has a         *)
(* nonterminal; an array gets one more for each position, an object two    *)
(* for each property, one for when no member was written yet and one for   *)
(* when a comma is due.  A node is lowered in one step.                    *)
(*                                                                         *)
(* A type is the set of its texts.  A terminal is shared by the places of  *)
(* a node's provenance, and literals only.                                 *)
(***************************************************************************)
EXTENDS Grammar

CONSTANTS
  TypeWords,   \* the texts of null, boolean, string, number and integer
  Limits,      \* CompileLimits: [symbols, productions, rhs]
  MaxLength    \* bound: the length of the texts compared

VARIABLES
  arena,     \* the normalized schemas: [root, nodes], a node by its id
  limits,
  lowering   \* how far the lowering is, and what GrammarBuilder holds

\* No bound, no schema.
None == -1

NoLowering == [at |-> "waiting"]

\* Every node of an arena gets its nonterminal.
BeginLowering(a) ==
  [at |-> IF Len(a.nodes) > limits.symbols THEN "refused" ELSE "lowering",
   node |-> 1, nonterminals |-> Len(a.nodes), terminals |-> {}, rules |-> << >>]

\* The terminal with these words.
Reads(words) == Terminal(CHOOSE t \in 1..Len(Words) : Words[t] = words)
LiteralOf(text) == Reads({text})
Literal(byte) == LiteralOf(<<byte>>)

Rule(lhs, rhs) == [lhs |-> lhs, rhs |-> rhs]

IsNever(id) == arena.nodes[id].kind = "never"

-----------------------------------------------------------------------------
(* Arrays: [prefix, items, min, max]. *)

EffectiveMax(n) ==
  IF n.items # None /\ IsNever(n.items)
  THEN IF n.max = None THEN Len(n.prefix) ELSE Min({n.max, Len(n.prefix)})
  ELSE n.max

\* Values beyond the prefix that no schema describes.
ArrayIsUnsupported(n) ==
  n.items = None /\ (EffectiveMax(n) = None \/ EffectiveMax(n) > Len(n.prefix))

Positions(n) ==
  IF EffectiveMax(n) # None THEN EffectiveMax(n) ELSE Max({Len(n.prefix), n.min, 1})

\* Mutant of PositionRules: the last position of an array without a maximum is
\* not repeated.
PositionRulesOnce(n, base, k) ==
  LET item == IF k < Len(n.prefix) THEN n.prefix[k + 1] ELSE n.items
      ends == IF k >= n.min THEN <<Rule(base + k, << >>)>> ELSE << >>
  IN IF k = Positions(n) \/ item = None \/ IsNever(item) THEN ends
     ELSE Append(ends, Rule(base + k, (IF k = 0 THEN << >> ELSE <<Literal(",")>>)
                                        \o <<Nonterminal(item), Nonterminal(base + k + 1)>>))

\* The rules of position k: the array may end here, or go on with an item.
PositionRules(n, base, k) ==
  LET item == IF k < Len(n.prefix) THEN n.prefix[k + 1] ELSE n.items
      next == IF k < Positions(n) THEN k + 1 ELSE k
      ends == IF k >= n.min THEN <<Rule(base + k, << >>)>> ELSE << >>
  IN IF (EffectiveMax(n) # None /\ k >= EffectiveMax(n)) \/ item = None \/ IsNever(item) THEN ends
     ELSE Append(ends, Rule(base + k, (IF k = 0 THEN << >> ELSE <<Literal(",")>>)
                                        \o <<Nonterminal(item), Nonterminal(base + next)>>))

ArrayRules(n, id, base) ==
  FlattenSeq([k \in 1..(Positions(n) + 1) |-> PositionRules(n, base, k - 1)])
    \o <<Rule(id, <<Literal("["), Nonterminal(base), Literal("]")>>)>>

-----------------------------------------------------------------------------
(* Objects: [properties, required, open]; a property is [key, value].      *)

IsRequired(n, p) == p.key \in n.required

LacksProperty(n) == ~ n.required \subseteq {n.properties[k].key : k \in DOMAIN n.properties}

\* The nonterminals before property k (from 0): no member written, some written.
Members(base, k, emitted) == base + 2 * k + emitted

MemberRules(n, base, k, emitted) ==
  LET p == n.properties[k + 1]
      written == Rule(Members(base, k, emitted),
                      (IF emitted = 1 THEN <<Literal(",")>> ELSE << >>)
                        \o <<LiteralOf(p.key), Literal(":"), Nonterminal(p.value),
                             Nonterminal(Members(base, k + 1, 1))>>)
  IN IF IsRequired(n, p) THEN <<written>>
     ELSE <<Rule(Members(base, k, emitted), <<Nonterminal(Members(base, k + 1, emitted))>>), written>>

ObjectRules(n, id, base) ==
  LET count == Len(n.properties)
  IN <<Rule(Members(base, count, 0), << >>), Rule(Members(base, count, 1), << >>)>>
       \o FlattenSeq([k \in 1..count |-> MemberRules(n, base, k - 1, 0) \o MemberRules(n, base, k - 1, 1)])
       \o <<Rule(id, <<Literal("{"), Nonterminal(Members(base, 0, 0)), Literal("}")>>)>>

-----------------------------------------------------------------------------

Unsupported(n) ==
  CASE n.kind = "any" -> TRUE
    [] n.kind = "string" -> n.min # 0 \/ n.max # None
    [] n.kind = "object" -> n.open
    [] n.kind = "array" -> (EffectiveMax(n) = None \/ EffectiveMax(n) >= n.min) /\ ArrayIsUnsupported(n)
    [] OTHER -> FALSE

\* A node that no value satisfies has no rules.
IsEmpty(n) ==
  \/ n.kind = "never"
  \/ n.kind = "object" /\ LacksProperty(n)
  \/ n.kind = "array" /\ EffectiveMax(n) # None /\ EffectiveMax(n) < n.min

\* How many nonterminals a node adds, and its rules.
Added(n) ==
  CASE IsEmpty(n) -> 0
    [] n.kind = "array" -> Positions(n) + 1
    [] n.kind = "object" -> 2 * (Len(n.properties) + 1)
    [] OTHER -> 0

RulesFor(n, id, base) ==
  CASE IsEmpty(n) -> << >>
    [] n.kind \in DOMAIN TypeWords -> <<Rule(id, <<Reads(TypeWords[n.kind])>>)>>
    [] n.kind = "const" -> <<Rule(id, <<LiteralOf(n.text)>>)>>
    [] n.kind = "enum" -> [k \in DOMAIN n.texts |-> Rule(id, <<LiteralOf(n.texts[k])>>)]
    [] n.kind = "union" -> [k \in DOMAIN n.branches |-> Rule(id, <<Nonterminal(n.branches[k])>>)]
    [] n.kind = "ref" -> <<Rule(id, <<Nonterminal(n.target)>>)>>
    [] n.kind = "array" -> ArrayRules(n, id, base)
    [] n.kind = "object" -> ObjectRules(n, id, base)

\* Literals are shared between nodes of one place; a type's pattern is its own.
TerminalsOf(n, id, rules) ==
  {[place |-> n.place, words |-> X.id, owner |-> IF n.kind \in DOMAIN TypeWords THEN id ELSE 0] :
   X \in {X \in UNION {ToSet(rules[i].rhs) : i \in DOMAIN rules} : X.kind = "terminal"}}

WithinLimits(b) ==
  /\ b.nonterminals + Cardinality(b.terminals) <= limits.symbols
  /\ Len(b.rules) <= limits.productions
  /\ FoldLeft(LAMBDA sum, r : sum + Len(r.rhs), 0, b.rules) <= limits.rhs

\* lower_node
LowerNode ==
  /\ lowering.at = "lowering" /\ lowering.node <= Len(arena.nodes)
  /\ LET id == lowering.node
         n == arena.nodes[id]
         rules == RulesFor(n, id, lowering.nonterminals + 1)
         grown == [lowering EXCEPT !.node = @ + 1, !.nonterminals = @ + Added(n),
                                   !.terminals = @ \cup TerminalsOf(n, id, rules),
                                   !.rules = @ \o rules]
     IN lowering' = IF Unsupported(n) THEN [lowering EXCEPT !.at = "unsupported"]
                    ELSE IF ~WithinLimits(grown) THEN [lowering EXCEPT !.at = "refused"]
                    ELSE grown
  /\ UNCHANGED <<arena, limits>>

EndLowering ==
  /\ lowering.at = "lowering" /\ lowering.node > Len(arena.nodes)
  /\ lowering' = [lowering EXCEPT !.at = "done"]
  /\ UNCHANGED <<arena, limits>>

LoweringStep == LowerNode \/ EndLowering

Lowered == [start |-> arena.root, nonterminals |-> 1..lowering.nonterminals, rules |-> lowering.rules]

-----------------------------------------------------------------------------
(* The canonical texts of the valid values, for reference: members in the  *)
(* order of their keys, nothing between the tokens.                        *)

Joined(parts) ==
  FoldLeft(LAMBDA texts, k : Concatenated(Concatenated(texts, IF k = 1 THEN {<< >>} ELSE {<<",">>}, MaxLength),
                                          parts[k], MaxLength),
           {<< >>}, [k \in DOMAIN parts |-> k])

Between(open, texts, close) ==
  Concatenated({<<open>>}, Concatenated(texts, {<<close>>}, MaxLength), MaxLength)

ValidArrays(n, L) ==
  LET longest == IF n.max = None \/ n.max > MaxLength THEN MaxLength ELSE n.max
  IN UNION {Joined([k \in 1..count |-> IF k <= Len(n.prefix) THEN L[n.prefix[k]] ELSE L[n.items]]) :
            count \in {c \in n.min..longest : n.items # None \/ c <= Len(n.prefix)}}

ValidObjects(n, L) ==
  UNION {Joined([k \in DOMAIN chosen |->
                   Concatenated({n.properties[chosen[k]].key \o <<":">>},
                                L[n.properties[chosen[k]].value], MaxLength)]) :
         chosen \in {SetToSortSeq(S, <) :
                       S \in {S \in SUBSET DOMAIN n.properties :
                                n.required \subseteq {n.properties[k].key : k \in S}}}}

ValidTexts(n, L) ==
  CASE n.kind = "never" -> {}
    [] n.kind \in DOMAIN TypeWords -> TypeWords[n.kind]
    [] n.kind = "const" -> {n.text}
    [] n.kind = "enum" -> ToSet(n.texts)
    [] n.kind = "union" -> UNION {L[b] : b \in ToSet(n.branches)}
    [] n.kind = "ref" -> L[n.target]
    [] n.kind = "array" -> Between("[", ValidArrays(n, L), "]")
    [] n.kind = "object" -> Between("{", ValidObjects(n, L), "}")

Valid ==
  Stabilised(LAMBDA L : [id \in DOMAIN arena.nodes |-> ValidTexts(arena.nodes[id], L)],
             [id \in DOMAIN arena.nodes |-> {}], (MaxLength + 1) * Len(arena.nodes))

\* The grammar derives exactly the canonical texts of the values that are valid
\* under the schema, for every node of the arena, mentions no symbol it does not
\* have, and is within its limits.
LoweringIsExact ==
  lowering.at = "done" =>
    /\ IsGrammar(Lowered)
    /\ WithinLimits(lowering)
    /\ LET derived == Derivations(Lowered, << >>, MaxLength)
           valid == Valid
       IN \A id \in DOMAIN arena.nodes : derived[id] = valid[id]
=============================================================================
