-------------------------- MODULE SchemaCompilation --------------------------
(***************************************************************************)
(* The first half of prepare: a schema document is normalized, and the     *)
(* arena is lowered to a grammar.  Normalization and lowering meet in the  *)
(* arena: what one leaves undecided the other must refuse.                 *)
(* Beside them, the regular expression that the older path makes of the    *)
(* same document, in one call that keeps nothing.                          *)
(***************************************************************************)
EXTENDS Normalization, Lowering, RegexReference

CONSTANT
  OtherTexts   \* bound: texts looked at that are not those of values, or have spaces

vars == <<document, schemas, within, arena, limits, lowering>>

NoArena == [root |-> 1, nodes |-> << >>]

Init ==
  /\ InitNormalization
  /\ limits \in Limits
  /\ arena = NoArena
  /\ lowering = NoLowering

\* prepare: what normalize_schema returned is handed to lower.
StartLowering ==
  /\ schemas.at = "normalized" /\ lowering.at = "waiting"
  /\ arena' = [root |-> 1, nodes |-> schemas.nodes]
  /\ lowering' = BeginLowering(arena')
  /\ UNCHANGED <<document, schemas, within, limits>>

Next ==
  \/ NormalizationStep /\ UNCHANGED <<arena, limits, lowering>>
  \/ StartLowering
  \/ LoweringStep /\ UNCHANGED <<document, schemas, within>>

Spec == Init /\ [][Next]_vars

-----------------------------------------------------------------------------
(* JSON Schema, for reference: which values are valid under the schema at  *)
(* each place of the document, every keyword a condition of its own, and   *)
(* a reference standing for the schemas whose place it spells.  A place is *)
(* the sequence of the names that lead to it, an index being a name.       *)

Placed(place, v) == <<place, v>>

PlacedIn(place, entries) == {Placed(Append(place, entries[k].key), entries[k].value) : k \in DOMAIN entries}

\* The schemas directly in the schema v, each with its place.
SchemasIn(place, v) ==
  LET having(keywords) == IF v.is = "object" THEN {k \in keywords : Has(v, k)} ELSE {}
  IN {Placed(Append(place, <<k>>), Get(v, k)) : k \in having({"additionalProperties", "items"})}
       \cup UNION {PlacedIn(Append(place, <<k>>), Get(v, k).of) : k \in having({"$defs", "properties"})}
       \cup UNION {PlacedIn(Append(place, <<k>>), Numbered(Get(v, k))) :
                   k \in having({"prefixItems", "allOf", "anyOf", "oneOf"})}

RECURSIVE SchemasFrom(_)
SchemasFrom(placed) ==
  IF placed = {} THEN {} ELSE placed \cup SchemasFrom(UNION {SchemasIn(s[1], s[2]) : s \in placed})

AllSchemas == SchemasFrom({Placed(Root, document)})

\* A value as it is written.
RECURSIVE Spelled(_)
Spelled(v) ==
  CASE v.is = "number" -> (IF v.of.negative THEN <<"-">> ELSE << >>) \o v.of.integer
                            \o (IF v.of.fraction = << >> THEN << >> ELSE <<".">> \o v.of.fraction)
                            \o (IF v.of.exponent = 0 THEN << >> ELSE <<"e">> \o Written(v.of.exponent))
    [] v.is = "array" -> <<"[">> \o Separated([k \in DOMAIN v.of |-> Spelled(v.of[k])]) \o <<"]">>
    [] v.is = "object" -> <<"{">> \o Separated([k \in DOMAIN v.of |-> v.of[k].key \o <<":">> \o Spelled(v.of[k].value)])
                            \o <<"}">>
    [] OTHER -> Canonical(v)

HasType(value, type) ==
  \/ value.is = type
  \/ type = "integer" /\ value.is = "number" /\ IsWhole(value.of)

\* The conditions on the parts of an array or an object.  known has the pairs of a
\* place and the text of a value known to be valid there.
FitsArray(value, v, place, known) ==
  LET prefix == IF Has(v, "prefixItems") THEN Len(Get(v, "prefixItems").of) ELSE 0
      n == Len(value.of)
      fits(k, at) == <<at, Spelled(value.of[k])>> \in known
  IN /\ n >= Count(v, "minItems", 0) /\ n <= Count(v, "maxItems", n)
     /\ \A k \in 1..n : IF k <= prefix THEN fits(k, place \o <<<<"prefixItems">>, Index(k)>>)
                        ELSE Has(v, "items") => fits(k, Append(place, <<"items">>))

FitsObject(value, v, place, known) ==
  LET named == IF Has(v, "properties") THEN Keys(Get(v, "properties")) ELSE {}
      required == IF Has(v, "required") THEN Get(v, "required").of ELSE << >>
      fits(k, at) == <<at, Spelled(value.of[k].value)>> \in known
  IN /\ {required[k].of : k \in DOMAIN required} \subseteq Keys(value)
     /\ \A k \in DOMAIN value.of :
          IF value.of[k].key \in named THEN fits(k, place \o <<<<"properties">>, value.of[k].key>>)
          ELSE Has(v, "additionalProperties") => fits(k, Append(place, <<"additionalProperties">>))

\* references: the pairs of places of which the first refers to the second.
Satisfies(value, place, v, references, known) ==
  LET entries(keyword) == {place \o <<<<keyword>>, Index(k)>> : k \in DOMAIN Get(v, keyword).of}
      fits(at) == <<at, Spelled(value)>> \in known
  IN IF v.is = "boolean" THEN v.of
     ELSE /\ Has(v, "type") => HasType(value, Declared(v))
          /\ Has(v, "const") => Same(value, Get(v, "const"))
          /\ Has(v, "enum") => \E k \in DOMAIN Get(v, "enum").of : Same(value, Get(v, "enum").of[k])
          /\ value.is = "string" => Len(value.of) \in Count(v, "minLength", 0)..Count(v, "maxLength", Len(value.of))
          /\ value.is = "array" => FitsArray(value, v, place, known)
          /\ value.is = "object" => FitsObject(value, v, place, known)
          /\ Has(v, "allOf") => \A at \in entries("allOf") : fits(at)
          /\ Has(v, "anyOf") => \E at \in entries("anyOf") : fits(at)
          /\ Has(v, "$ref") => \E r \in references : r[1] = place /\ fits(r[2])

RECURSIVE Depth(_)
Depth(v) ==
  1 + Max({0} \cup (IF v.is \notin {"array", "object"} THEN {}
                    ELSE {Depth(IF v.is = "array" THEN v.of[k] ELSE v.of[k].value) : k \in DOMAIN v.of}))

Deepest == Max({Depth(Universe[k]) : k \in DOMAIN Universe})

\* The pairs <<x, text>> for which a condition on what is already known holds of x,
\* the schema of x and the value with the text, in finitely many rounds.
Holding(Condition(_, _, _, _), placed) ==
  Stabilised(LAMBDA known : {<<p[1][1], Spelled(Universe[p[2]])>> :
                             p \in {p \in placed \X DOMAIN Universe :
                                      Condition(Universe[p[2]], p[1][1], p[1][2], known)}},
             {}, Cardinality(placed) * Deepest + 1)

References(placed) ==
  {<<s[1], t[1]>> : <<s, t>> \in
     {p \in {s \in placed : s[2].is = "object" /\ Has(s[2], "$ref")} \X placed :
        Spells(Get(p[1][2], "$ref").of, p[2][1])}}

ValidAt ==
  LET placed == AllSchemas
      references == References(placed)
  IN Holding(LAMBDA value, place, v, known : Satisfies(value, place, v, references, known), placed)

-----------------------------------------------------------------------------
(* What the nodes of the arena say, in their own terms. *)

Texts == {<<Spelled(Universe[k]), k>> : k \in DOMAIN Universe}

Denotes(text, value) == \E t \in Texts : t[1] = text /\ Same(Universe[t[2]], value)

AcceptsArray(n, value, known) ==
  LET fits(k, id) == <<id, Spelled(value.of[k])>> \in known
  IN /\ Len(value.of) >= n.min /\ ~Exceeds(Len(value.of), n.max)
     /\ \A k \in DOMAIN value.of : IF k <= Len(n.prefix) THEN fits(k, n.prefix[k])
                                   ELSE n.items # None => fits(k, n.items)

AcceptsObject(n, value, known) ==
  LET fits(key, id) == <<id, Spelled(At(value, key))>> \in known
      named == {n.properties[k].key : k \in DOMAIN n.properties}
  IN /\ n.required \subseteq Keys(value)
     /\ \A k \in DOMAIN n.properties :
          n.properties[k].key \in Keys(value) => fits(n.properties[k].key, n.properties[k].value)
     /\ \A key \in Keys(value) \ named : n.open /\ (n.additional # None => fits(key, n.additional))

Accepts(n, value, known) ==
  CASE n.kind = "never" -> FALSE
    [] n.kind = "any" -> TRUE
    [] n.kind = "const" -> Denotes(n.text, value)
    [] n.kind = "enum" -> \E k \in DOMAIN n.texts : Denotes(n.texts[k], value)
    [] n.kind = "union" -> \E k \in DOMAIN n.branches : <<n.branches[k], Spelled(value)>> \in known
    [] n.kind = "ref" -> <<n.target, Spelled(value)>> \in known
    [] n.kind = "string" -> value.is = "string" /\ Len(value.of) >= n.min /\ ~Exceeds(Len(value.of), n.max)
    [] n.kind = "array" -> value.is = "array" /\ AcceptsArray(n, value, known)
    [] n.kind = "object" -> value.is = "object" /\ AcceptsObject(n, value, known)
    [] OTHER -> HasType(value, n.kind)

AcceptedBy ==
  Holding(LAMBDA value, id, n, known : Accepts(n, value, known),
          {<<id, schemas.nodes[id]>> : id \in DOMAIN schemas.nodes})

-----------------------------------------------------------------------------

\* Every schema of the document has one node, and the node accepts the values
\* that are valid under the schema: no assertion is dropped or taken for another,
\* references included.  What cannot be expressed is refused ("unsupported
\* keywords and combinations fail explicitly", README.md:214).
NormalizationIsExact ==
  schemas.at = "normalized" /\ lowering.at = "waiting" =>
    LET ids == {IdOf(PointerTo(s[1])) : s \in AllSchemas}
    IN /\ ids = DOMAIN schemas.nodes
       /\ Cardinality(ids) = Cardinality(AllSchemas)
       /\ {<<IdOf(PointerTo(p[1])), p[2]>> : p \in ValidAt} = AcceptedBy

\* The schema at which normalization ended.
Refused == schemas.found[Len(schemas.nodes) + 1].value

HasSameTwice(v) == \E j, k \in DOMAIN Get(v, "enum").of : j < k /\ Same(Get(v, "enum").of[j], Get(v, "enum").of[k])

\* A document is refused for what is wrong with it: a reference that is not found
\* spells no place of it, an enum is not unique exactly if two of its values are
\* the same, and an indexed schema is never missing.
ErrorsAreJustified ==
  /\ schemas.at # "internal"
  /\ schemas.at \in {"reference", "pointer", "remote"} =>
       \A s \in AllSchemas : ~Spells(Get(Refused, "$ref").of, s[1])
  /\ schemas.at = "value" /\ schemas.found # << >> =>
       (Refused.is = "object" /\ Keys(Refused) = {<<"enum">>} /\ Get(Refused, "enum").is = "array" =>
          Get(Refused, "enum").of = << >> \/ HasSameTwice(Refused))
  /\ schemas.at = "normalized" /\ lowering.at = "waiting" =>
       \A k \in DOMAIN schemas.found :
         LET v == schemas.found[k].value
         IN v.is = "object" /\ Has(v, "enum") => ~HasSameTwice(v)

\* A text without its spaces: no string has one.
Compact(text) == SelectSeq(text, LAMBDA c : c # " ")

\* The regular expression of a document that does not go astray matches exactly the
\* texts of the values kept, and nothing that is no JSON: the commas of optional
\* members around the required ones, bounds less one and references at the limit of
\* the recursion are right, and every depth is given back.
RegexIsExact ==
  schemas.at = "parsing" =>
    \A call \in {RegexFrom(document)} :
      LET root == Read(document)
          kept == {k \in DOMAIN Universe : Kept(root, Universe[k], root, 0)}
          matched(texts) == {text \in texts : Matches(call.pattern, text)}
      IN call.out \in {"ok", "recursion"} /\ ~GoesAstray(root) =>
           /\ call.out = "recursion" <=> GoesTooDeep(root, root, 0)
           /\ call.out = "ok" =>
                /\ call.depth = 0
                /\ matched({TextOf(x) : x \in ToSet(Universe)}) = {TextOf(Universe[k]) : k \in kept}
                /\ {Compact(text) : text \in matched(OtherTexts)} \subseteq {TextOf(Universe[k]) : k \in kept}
=============================================================================
