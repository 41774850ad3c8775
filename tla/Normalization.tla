---------------------------- MODULE Normalization ----------------------------
(***************************************************************************)
(* From a schema document to the arena of normalized schemas: parse_schema *)
(* looks for repeated keys, index_schema_locations numbers the schemas in  *)
(* the document, and normalize_schema makes a node of each in the order of *)
(* the numbers, or ends the compilation.  A schema is numbered, and        *)
(* normalized, wherever it stands; a reference may name any of them.       *)
(*                                                                         *)
(* An error is named for its CompileError: repeated (DuplicateSchemaKey),  *)
(* keyword (UnsupportedKeyword), value (InvalidKeywordValue), combination, *)
(* dialect, reference (ReferenceNotFound), remote, pointer, limit, and     *)
(* internal (InternalInvariant).                                           *)
(***************************************************************************)
EXTENDS SchemaPointers

CONSTANTS
  Documents,     \* the documents, as a sequence
  SchemaLimits   \* CompileLimits: [nodes, edges]

VARIABLES
  document,
  schemas,   \* how far normalization is: the locations found, the nodes made
  within     \* the limits

\* No bound, no schema.
Absent == -1

InitNormalization ==
  /\ \E k \in DOMAIN Documents : document = Documents[k]
  /\ within \in SchemaLimits
  /\ schemas = [at |-> "parsing", work |-> << >>, found |-> << >>, nodes |-> << >>, edges |-> << >>]

-----------------------------------------------------------------------------
(* Where schemas are. *)

IsSchema(v) == v.is \in {"boolean", "object"}

Child(pointer, value) == [pointer |-> pointer, value |-> value]

SchemasUnder(pointer, entries) ==
  SelectSeq([k \in DOMAIN entries |-> Child(Join(pointer, entries[k].key), entries[k].value)],
            LAMBDA c : IsSchema(c.value))

Numbered(v) == [k \in DOMAIN v.of |-> Member(Index(k), v.of[k])]

\* schema_children
Children(pointer, v) ==
  LET under(keyword) ==
        IF v.is # "object" \/ ~Has(v, keyword) THEN << >>
        ELSE LET entry == Get(v, keyword)
                 below == Join(pointer, <<keyword>>)
             IN CASE keyword \in {"$defs", "properties"} /\ entry.is = "object" -> SchemasUnder(below, entry.of)
                  [] keyword \in {"additionalProperties", "items"} /\ IsSchema(entry) -> <<Child(below, entry)>>
                  [] keyword \in {"prefixItems", "allOf", "anyOf", "oneOf"} /\ entry.is = "array" ->
                       SchemasUnder(below, Numbered(entry))
                  [] OTHER -> << >>
  IN under("$defs") \o under("properties") \o under("additionalProperties") \o under("items")
       \o under("prefixItems") \o under("allOf") \o under("anyOf") \o under("oneOf")

Fails(error) == schemas' = [schemas EXCEPT !.at = error]

\* parse_schema
Parse ==
  /\ schemas.at = "parsing"
  /\ IF RepeatsKey(document) THEN Fails("repeated")
     ELSE IF ~IsSchema(document) THEN Fails("value")
     ELSE schemas' = [schemas EXCEPT !.at = "indexing", !.work = <<Child(Root, document)>>]
  /\ UNCHANGED <<document, within>>

\* index_schema_locations: the children of a schema are found before its
\* siblings, in the order of their pointers.
IndexLocation ==
  /\ schemas.at = "indexing" /\ schemas.work # << >>
  /\ LET next == Head(schemas.work)
         seen == \E k \in DOMAIN schemas.found : schemas.found[k].pointer = next.pointer
         children == SortSeq(Children(next.pointer, next.value), LAMBDA c, d : Precedes(c.pointer, d.pointer))
     IN IF seen THEN schemas' = [schemas EXCEPT !.work = Tail(@)]
        ELSE IF Len(schemas.found) + 1 > within.nodes THEN Fails("limit")
        ELSE schemas' = [schemas EXCEPT !.work = children \o Tail(@), !.found = Append(@, next)]
  /\ UNCHANGED <<document, within>>

EndIndexing ==
  /\ schemas.at = "indexing" /\ schemas.work = << >>
  /\ schemas' = [schemas EXCEPT !.at = "normalizing"]
  /\ UNCHANGED <<document, within>>

-----------------------------------------------------------------------------
(* One schema. *)

Supported ==
  {"$schema", "$defs", "$ref", "$comment", "title", "description", "default", "examples", "deprecated",
   "readOnly", "writeOnly", "type", "const", "enum", "properties", "required", "additionalProperties",
   "items", "prefixItems", "minItems", "maxItems", "minLength", "maxLength", "allOf", "anyOf", "oneOf"}

Annotations ==
  {"$schema", "$defs", "$comment", "title", "description", "default", "examples", "deprecated",
   "readOnly", "writeOnly"}

ObjectKeywords == {"properties", "required", "additionalProperties"}
ArrayKeywords == {"items", "prefixItems", "minItems", "maxItems"}
StringKeywords == {"minLength", "maxLength"}

HasOne(v, keywords) == \E keyword \in keywords : Has(v, keyword)
HasStructure(v) == HasOne(v, ObjectKeywords \cup ArrayKeywords)

\* How many of the keywords that decide the kind of a schema there are.
Deciding(v) ==
  Cardinality({keyword \in {"$ref", "const", "enum", "type", "allOf", "anyOf", "oneOf"} : Has(v, keyword)})

\* validate_containers
ContainersAreShaped(v) ==
  /\ \A keyword \in {"$defs", "properties"} : Has(v, keyword) =>
       /\ Get(v, keyword).is = "object"
       /\ \A k \in DOMAIN Get(v, keyword).of : IsSchema(Get(v, keyword).of[k].value)
  /\ \A keyword \in {"additionalProperties", "items"} : Has(v, keyword) => IsSchema(Get(v, keyword))
  /\ \A keyword \in {"prefixItems", "allOf", "anyOf", "oneOf"} : Has(v, keyword) =>
       /\ Get(v, keyword).is = "array"
       /\ Get(v, keyword).of = << >> => keyword = "prefixItems"
       /\ \A k \in DOMAIN Get(v, keyword).of : IsSchema(Get(v, keyword).of[k])

Dialects == {"2020-12", "2020-12#"}

Types == {"null", "boolean", "string", "number", "integer", "array", "object"}

\* parse_declared_type fails.
IsMistyped(v) == Has(v, "type") /\ (Get(v, "type").is # "string" \/ Get(v, "type").of \notin {<<t>> : t \in Types})

\* The type a schema declares, or none.
Declared(v) == IF Has(v, "type") THEN Get(v, "type").of[1] ELSE "none"

\* value_matches_type
MatchesType(value, type) ==
  \/ value.is = type
  \/ type = "integer" /\ value.is = "number" /\ IsInteger(value.of)

\* optional_usize: a count, and whether it is one.
IsCount(v, keyword) ==
  Has(v, keyword) => /\ Get(v, keyword).is = "number"
                     /\ LET d == Get(v, keyword).of
                        IN ~d.negative /\ d.fraction = << >> /\ d.exponent = 0 /\ Numeral(d.integer) <= MaxPlaces

Count(v, keyword, missing) == IF Has(v, keyword) THEN Numeral(Get(v, keyword).of.integer) ELSE missing

Exceeds(n, max) == max # Absent /\ n > max

\* value_matches_string_keywords
MatchesLength(v, value) ==
  value.is = "string" =>
    Len(value.of) >= Count(v, "minLength", 0) /\ ~Exceeds(Len(value.of), Count(v, "maxLength", Absent))

-----------------------------------------------------------------------------
(* What a schema becomes: a node, or an error. *)

Node(node) == [error |-> "none", node |-> node]
Error(error) == [error |-> error]
Never == Node([kind |-> "never"])

\* Where the schema at a pointer is among those found, or none.
IdOf(pointer) ==
  LET ids == {k \in DOMAIN schemas.found : schemas.found[k].pointer = pointer}
  IN IF ids = {} THEN Absent ELSE CHOOSE k \in ids : TRUE

\* Mutant of EntryIds: the entries are numbered one after another.
EntryIdsInARow(pointer, v, keyword) ==
  [k \in DOMAIN Get(v, keyword).of |-> IdOf(Join(Join(pointer, <<keyword>>), Index(1))) + k - 1]

\* child_ids
EntryIds(pointer, v, keyword) ==
  [k \in DOMAIN Get(v, keyword).of |-> IdOf(Join(Join(pointer, <<keyword>>), Index(k)))]

IfAllFound(ids, node) == IF Absent \in ids THEN Error("internal") ELSE Node(node)

NormalizedUnion(pointer, v) ==
  LET ids == EntryIds(pointer, v, "anyOf")
  IN IfAllFound(ToSet(ids), [kind |-> "union", branches |-> ids])

NormalizedReference(v) ==
  LET resolved == Resolved(Get(v, "$ref").of)
  IN IF Get(v, "$ref").is # "string" THEN Error("value")
     ELSE IF resolved.error # "none" THEN Error(resolved.error)
     ELSE IF IdOf(resolved.pointer) = Absent THEN Error("reference")
     ELSE IF Len(schemas.edges) + 1 > within.edges THEN Error("limit")
     ELSE Node([kind |-> "ref", target |-> IdOf(resolved.pointer)])

\* The text of a value, or the number that has none.
Constant(value) ==
  IF HasCanonical(value) THEN Node([kind |-> "const", text |-> Canonical(value)]) ELSE Error("combination")

NormalizedConst(v) ==
  LET value == Get(v, "const")
  IN IF Has(v, "enum") \/ HasStructure(v) THEN Error("combination")
     ELSE IF Has(v, "type") /\ ~MatchesType(value, Declared(v)) THEN Never
     ELSE IF value.is = "string" /\ \E keyword \in StringKeywords : ~IsCount(v, keyword) THEN Error("value")
     ELSE IF ~MatchesLength(v, value) THEN Never
     ELSE Constant(value)

\* The texts of the values of an enum that its type and lengths let through,
\* sorted.  Of several errors the code reports the one of the first value.
NormalizedEnum(v) ==
  LET values == Get(v, "enum").of
      typed(k) == Has(v, "type") => MatchesType(values[k], Declared(v))
      texts == {Canonical(values[k]) : k \in {k \in DOMAIN values : typed(k) /\ MatchesLength(v, values[k])}}
  IN IF HasStructure(v) THEN Error("combination")
     ELSE IF Get(v, "enum").is # "array" \/ values = << >> THEN Error("value")
     ELSE IF \E k \in DOMAIN values : ~HasCanonical(values[k]) THEN Error("combination")
     ELSE IF Cardinality({Canonical(values[k]) : k \in DOMAIN values}) < Len(values) THEN Error("value")
     ELSE IF /\ \E k \in DOMAIN values : values[k].is = "string" /\ typed(k)
             /\ \E keyword \in StringKeywords : ~IsCount(v, keyword) THEN Error("value")
     ELSE IF texts = {} THEN Never
     ELSE Node([kind |-> "enum", texts |-> SetToSortSeq(texts, Precedes)])

\* normalize_simple_all_of, branch after branch: the constant and the type met so
\* far, and the answer once there is one.
AllOfBranch(a, branch) ==
  LET only(keyword) == Keys(branch) \subseteq {<<k>> : k \in Annotations \cup {keyword}}
      answers(r) == [a EXCEPT !.answer = <<r>>]
  IN CASE a.answer # << >> -> a
       [] branch.is = "boolean" -> answers(Error("combination"))
       [] a.answer = << >> /\ branch.is = "object" ->
            IF Has(branch, "const")
            THEN IF only("const") /\ a.constant = << >> THEN [a EXCEPT !.constant = <<Get(branch, "const")>>]
                 ELSE answers(Error("combination"))
            ELSE IF IsMistyped(branch) THEN answers(Error("value"))
            ELSE IF ~Has(branch, "type") \/ ~only("type") THEN answers(Error("combination"))
            ELSE IF a.type \notin {"none", Declared(branch)} THEN answers(Never)
            ELSE [a EXCEPT !.type = Declared(branch)]

NormalizedAllOf(pointer, v) ==
  LET ids == EntryIds(pointer, v, "allOf")
      met == FoldLeft(LAMBDA a, id : AllOfBranch(a, schemas.found[id].value),
                      [constant |-> << >>, type |-> "none", answer |-> << >>], ids)
  IN IF Absent \in ToSet(ids) THEN Error("internal")
     ELSE IF met.answer # << >> THEN met.answer[1]
     ELSE IF met.constant = << >> THEN Error("combination")
     ELSE IF met.type = "none" \/ MatchesType(met.constant[1], met.type) THEN Constant(met.constant[1])
     ELSE Never

NormalizedString(v) ==
  LET min == Count(v, "minLength", 0)
      max == Count(v, "maxLength", Absent)
  IN IF \E keyword \in StringKeywords : ~IsCount(v, keyword) THEN Error("value")
     ELSE IF Exceeds(min, max) THEN Never
     ELSE Node([kind |-> "string", min |-> min, max |-> max])

NormalizedArray(pointer, v) ==
  LET min == Count(v, "minItems", 0)
      max == Count(v, "maxItems", Absent)
      prefix == IF Has(v, "prefixItems") THEN EntryIds(pointer, v, "prefixItems") ELSE << >>
      items == IdOf(Join(pointer, <<"items">>))
  IN IF \E keyword \in {"minItems", "maxItems"} : ~IsCount(v, keyword) THEN Error("value")
     ELSE IF Exceeds(min, max) THEN Never
     ELSE IfAllFound(ToSet(prefix) \cup (IF Has(v, "items") THEN {items} ELSE {}),
                     [kind |-> "array", prefix |-> prefix, items |-> items, min |-> min, max |-> max])

\* The properties are in the order of their names.  An object is open unless
\* additional properties are forbidden.
NormalizedObject(pointer, v) ==
  LET named == IF Has(v, "properties") THEN Sorted(Get(v, "properties").of) ELSE << >>
      properties == [k \in DOMAIN named |->
                       [key |-> named[k].key,
                        value |-> IdOf(Join(Join(pointer, <<"properties">>), named[k].key))]]
      required == IF Has(v, "required") THEN Get(v, "required").of ELSE << >>
      additional == IF Has(v, "additionalProperties") THEN Get(v, "additionalProperties") ELSE Value("boolean", TRUE)
      schema == IF additional.is = "object" THEN IdOf(Join(pointer, <<"additionalProperties">>)) ELSE Absent
  IN IF Has(v, "required") /\ Get(v, "required").is # "array" THEN Error("value")
     ELSE IF \E k \in DOMAIN required : required[k].is # "string" THEN Error("value")
     ELSE IF Cardinality({required[k].of : k \in DOMAIN required}) < Len(required) THEN Error("value")
     ELSE IfAllFound({properties[k].value : k \in DOMAIN properties}
                       \cup (IF additional.is = "object" THEN {schema} ELSE {}),
                     [kind |-> "object", properties |-> properties,
                      required |-> {required[k].of : k \in DOMAIN required},
                      open |-> additional.is = "object" \/ additional.of, additional |-> schema])

\* Keywords of another type than the one declared are of no consequence; without
\* a type they are not supported.
NormalizedType(pointer, v) ==
  LET type == Declared(v)
  IN CASE type = "none" ->
            IF HasStructure(v) \/ HasOne(v, StringKeywords) THEN Error("combination")
            ELSE Node([kind |-> "any"])
       [] type = "string" -> NormalizedString(v)
       [] type = "array" -> NormalizedArray(pointer, v)
       [] type = "object" -> NormalizedObject(pointer, v)
       [] OTHER -> Node([kind |-> type])

\* normalize_node
Normalized(pointer, v) ==
  LET alone == Deciding(v) = 1 /\ ~HasStructure(v)
  IN IF v.is = "boolean" THEN IF v.of THEN Node([kind |-> "any"]) ELSE Never
     ELSE IF ~Keys(v) \subseteq {<<keyword>> : keyword \in Supported} THEN Error("keyword")
     ELSE IF ~ContainersAreShaped(v) THEN Error("value")
     ELSE IF Has(v, "$schema") /\ Get(v, "$schema").is # "string" THEN Error("value")
     ELSE IF Has(v, "$schema") /\ Get(v, "$schema").of \notin {<<d>> : d \in Dialects} THEN Error("dialect")
     ELSE IF Has(v, "allOf") THEN IF alone THEN NormalizedAllOf(pointer, v) ELSE Error("combination")
     ELSE IF Has(v, "oneOf") THEN Error("combination")
     ELSE IF Has(v, "anyOf") THEN IF alone THEN NormalizedUnion(pointer, v) ELSE Error("combination")
     ELSE IF Has(v, "$ref") THEN IF alone THEN NormalizedReference(v) ELSE Error("combination")
     ELSE IF IsMistyped(v) THEN Error("value")
     ELSE IF Has(v, "const") THEN NormalizedConst(v)
     ELSE IF Has(v, "enum") THEN NormalizedEnum(v)
     ELSE NormalizedType(pointer, v)

\* normalize_schema, one node.
NormalizeNode ==
  /\ schemas.at = "normalizing" /\ Len(schemas.nodes) < Len(schemas.found)
  /\ LET id == Len(schemas.nodes) + 1
         pointer == schemas.found[id].pointer
         made == Normalized(pointer, schemas.found[id].value)
     IN IF made.error # "none" THEN Fails(made.error)
        ELSE schemas' = [schemas EXCEPT
               !.nodes = Append(@, [place |-> pointer] @@ made.node),
               !.edges = IF made.node.kind = "ref" THEN Append(@, <<id, made.node.target>>) ELSE @]
  /\ UNCHANGED <<document, within>>

EndNormalization ==
  /\ schemas.at = "normalizing" /\ Len(schemas.nodes) = Len(schemas.found)
  /\ schemas' = [schemas EXCEPT !.at = "normalized"]
  /\ UNCHANGED <<document, within>>

NormalizationStep == Parse \/ IndexLocation \/ EndIndexing \/ NormalizeNode \/ EndNormalization
=============================================================================
