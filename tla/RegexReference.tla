---------------------------- MODULE RegexReference ----------------------------
(***************************************************************************)
(* What the regular expression of a schema should match: the texts of the  *)
(* values that are valid and that this path can write, by the words of     *)
(* json_schema/mod.rs.  And the schemas of which it matches something      *)
(* else, a clause for each way to go astray.                               *)
(***************************************************************************)
EXTENDS SchemaRegex

CONSTANT
  Universe   \* bound: the values looked at, with the values they contain

\* A member k of an array or object.
Inner(v, k) == IF v.is = "array" THEN v.of[k] ELSE v.of[k].value
IsContainer(v) == v.is \in {"array", "object"}

RECURSIVE Levels(_)
Levels(v) == IF IsContainer(v) THEN 1 + Max({0} \cup {Levels(Inner(v, k)) : k \in DOMAIN v.of}) ELSE 0

\* A value as any value of no schema may be written: an exponent has its sign.
RECURSIVE IsSigned(_)
IsSigned(v) ==
  CASE v.is = "number" -> v.of.exponent <= 0
    [] IsContainer(v) -> \A k \in DOMAIN v.of : IsSigned(Inner(v, k))
    [] OTHER -> TRUE

IsFree(v, levels) == Levels(v) <= levels /\ IsSigned(v)

\* A count keyword bounds n.
IsWithin(n, v, least, most) == n >= AsCount(v, least, 0) /\ n <= AsCount(v, most, n)

KeptString(x, v) ==
  LET text == IF Has(v, "pattern") THEN SelectSeq(Get(v, "pattern").of, LAMBDA c : c \notin {"^", "$"}) ELSE x.of
  IN /\ x.is = "string"
     /\ IsWithin(Len(x.of), v, "minLength", "maxLength")
     /\ text = x.of
     /\ Has(v, "format") => x.of \in ToSet(FormatWords[Get(v, "format").of])

KeptNumber(x, v) ==
  /\ x.is = "number" /\ IsSigned(x)
  /\ IsWithin(Len(x.of.integer), v, "minDigitsInteger", "maxDigitsInteger")
  /\ x.of.fraction # << >> => IsWithin(Len(x.of.fraction), v, "minDigitsFraction", "maxDigitsFraction")
  /\ x.of.exponent # 0 => IsWithin(Len(Written(-x.of.exponent)), v, "minDigitsExponent", "maxDigitsExponent")

KeptInteger(x, v) ==
  /\ x.is = "number" /\ x.of.fraction = << >> /\ x.of.exponent = 0
  /\ IsWithin(Len(x.of.integer), v, "minDigits", "maxDigits")

TypesOf(v) == LET type == Get(v, "type") IN IF type.is = "array" THEN {w.of : w \in ToSet(type.of)} ELSE {type.of}

\* The schemas written out for a schema, with the depth of each in references.
Below(root, v, depth) ==
  LET some(keyword, type, most) ==
        IF Has(v, keyword) /\ <<type>> \in TypesOf(v) /\ AsCount(v, most, Unbounded) # 0 THEN {<<Get(v, keyword), depth>>} ELSE {}
  IN CASE Branch(v) = "properties" ->
            IF Get(v, "properties").is = "object" THEN {<<m.value, depth>> : m \in ToSet(Get(v, "properties").of)} ELSE {}
       [] Branch(v) \in {"allOf", "anyOf", "oneOf", "prefixItems"} ->
            IF Get(v, Branch(v)).is = "array" THEN {<<w, depth>> : w \in ToSet(Get(v, Branch(v)).of)} ELSE {}
       [] Branch(v) = "$ref" ->
            IF Get(v, "$ref").is = "string" /\ depth <= MaxRecursionDepth
            THEN {<<w, depth + 1>> : w \in ToSet(Target(root, Get(v, "$ref").of).found)} ELSE {}
       [] Branch(v) = "type" -> some("items", "array", "maxItems") \cup some("additionalProperties", "object", "maxProperties")
       [] OTHER -> {}

\* Whether a call ends because a reference that is in no property is too deep.
RECURSIVE GoesTooDeep(_, _, _)
GoesTooDeep(root, v, depth) ==
  \/ Branch(v) = "$ref" /\ depth > MaxRecursionDepth
  \/ Branch(v) # "properties" /\ \E s \in Below(root, v, depth) : GoesTooDeep(root, s[1], s[2])

\* A value this path keeps: valid; the members of an object in the order of its
\* properties, and no others; as many items as a prefix; constants as they are
\* written; values of no schema, and references, only so deep.
RECURSIVE Kept(_, _, _, _)
Kept(root, x, v, depth) ==
  LET fits(y, w) == Kept(root, y, w, depth)
      branches(keyword) == {k \in DOMAIN Schemas(v, keyword) : fits(x, Schemas(v, keyword)[k])}
      properties == IF Has(v, "properties") THEN Get(v, "properties") ELSE Value("object", << >>)
      names(w) == [k \in DOMAIN w.of |-> w.of[k].key]
      isA(type) ==
        CASE type = <<"string">> -> KeptString(x, v)
          [] type = <<"number">> -> KeptNumber(x, v)
          [] type = <<"integer">> -> KeptInteger(x, v)
          [] type = <<"array">> ->
               /\ x.is = "array" /\ IsWithin(Len(x.of), v, "minItems", "maxItems")
               /\ \A k \in DOMAIN x.of : IF Has(v, "items") THEN fits(x.of[k], Get(v, "items"))
                                         ELSE IsFree(x.of[k], AsCount(v, "depth", 2))
          [] type = <<"object">> ->
               /\ x.is = "object" /\ IsWithin(Len(x.of), v, "minProperties", "maxProperties")
               /\ \A k \in DOMAIN x.of :
                    IF Has(v, "additionalProperties") /\ Get(v, "additionalProperties").is # "boolean"
                    THEN fits(x.of[k].value, Get(v, "additionalProperties"))
                    ELSE IsFree(x.of[k].value, AsCount(v, "depth", 2))
          [] OTHER -> <<x.is>> = type
  IN CASE v = Value("object", << >>) -> IsFree(x, 3)
       [] Branch(v) = "properties" ->
            /\ x.is = "object" /\ names(x) = SelectSeq(names(properties), LAMBDA name : name \in Keys(x))
            /\ Has(v, "required") => {w.of : w \in ToSet(Get(v, "required").of)} \subseteq Keys(x)
            /\ \A k \in DOMAIN x.of : LET w == At(properties, x.of[k].key)
                                      IN fits(x.of[k].value, w) /\ ~GoesTooDeep(root, w, depth)
       [] Branch(v) = "allOf" -> branches("allOf") = DOMAIN Schemas(v, "allOf")
       [] Branch(v) = "anyOf" -> branches("anyOf") # {}
       [] Branch(v) = "oneOf" -> Cardinality(branches("oneOf")) = 1
       [] Branch(v) = "prefixItems" ->
            /\ x.is = "array" /\ DOMAIN x.of = DOMAIN Schemas(v, "prefixItems")
            /\ \A k \in DOMAIN x.of : fits(x.of[k], Schemas(v, "prefixItems")[k])
       [] Branch(v) = "enum" -> \E w \in ToSet(Schemas(v, "enum")) : TextOf(x) = TextOf(w)
       [] Branch(v) = "const" -> TextOf(x) = TextOf(Get(v, "const"))
       [] Branch(v) = "$ref" -> \E s \in Below(root, v, depth) : Kept(root, x, s[1], s[2])
       [] Branch(v) = "type" -> \E type \in TypesOf(v) : isA(type)
       [] OTHER -> FALSE

-----------------------------------------------------------------------------
(* Astray. *)

Comments == {"$schema", "$id", "$defs", "$comment"}
Counts == {"minLength", "maxLength", "minItems", "maxItems", "minProperties", "maxProperties", "minDigits", "maxDigits",
           "depth"} \cup NumberDigits

IsTyped(v, type) == Has(v, "type") /\ Get(v, "type") = Value("string", <<type>>)

\* The keywords that count.
Heeded(v) ==
  LET ofType(type) ==
        CASE type = <<"string">> -> IF HasAny(v, {"minLength", "maxLength"}) THEN {"minLength", "maxLength"}
                                    ELSE IF Has(v, "pattern") THEN {"pattern"} ELSE {"format"}
          [] type = <<"integer">> -> {"minDigits", "maxDigits"}
          [] type = <<"number">> -> NumberDigits
          [] type = <<"array">> -> {"items", "minItems", "maxItems", "depth"}
          [] type = <<"object">> -> {"additionalProperties", "minProperties", "maxProperties", "depth"}
          [] OTHER -> {}
  IN {Branch(v)}
       \cup CASE Branch(v) = "properties" -> {"required", "additionalProperties"} \cup (IF IsTyped(v, "object") THEN {"type"} ELSE {})
              [] Branch(v) = "prefixItems" -> IF IsTyped(v, "array") THEN {"type", "items"} ELSE {}
              [] Branch(v) = "type" -> UNION {ofType(type) : type \in TypesOf(v)}
              [] OTHER -> {}

\* A keyword is passed over, or one that has no value of its kind.
PassesOver(v) ==
  \/ Has(v, "required") /\ ~(Get(v, "required").is = "array" /\ \A w \in ToSet(Get(v, "required").of) : w.is = "string")
  \/ \E keyword \in {"pattern", "format"} : Has(v, keyword) /\ Get(v, keyword).is # "string"
  \/ \E k \in DOMAIN v.of : v.of[k].key \notin {<<keyword>> : keyword \in Heeded(v) \cup Comments}
  \/ \E keyword \in Counts : Has(v, keyword) /\ AsCount(v, keyword, Unbounded) = Unbounded

\* The pattern of a schema is alternatives in no group.
RECURSIVE IsBare(_, _, _)
IsBare(root, v, depth) ==
  \/ v = Value("object", << >>)
  \/ Branch(v) = "$ref" /\ \E s \in Below(root, v, depth) : IsBare(root, s[1], s[2])

\* Such a pattern is written after something else.
RunsTogether(root, v, depth) ==
  /\ \/ Branch(v) \in {"properties", "allOf", "prefixItems"}
     \/ Branch(v) = "type" /\ Has(v, "additionalProperties")
  /\ \E s \in Below(root, v, depth) : IsBare(root, s[1], s[2])

\* allOf writes one after the other; oneOf takes any.
Miscombines(root, v, depth) ==
  \/ Has(v, "allOf") /\ Len(Schemas(v, "allOf")) # 1
  \/ Has(v, "oneOf") /\ \E x \in ToSet(Universe) :
       \E j, k \in DOMAIN Schemas(v, "oneOf") :
         j < k /\ Kept(root, x, Schemas(v, "oneOf")[j], depth) /\ Kept(root, x, Schemas(v, "oneOf")[k], depth)

\* A choice of nothing is the empty text.
ListsNothing(v) ==
  \E keyword \in {"anyOf", "oneOf", "enum", "type"} : Has(v, keyword) /\ Get(v, keyword) = Value("array", << >>)

\* A required property has no pattern.
LosesRequired(root, v, depth) ==
  Has(v, "properties") /\ Has(v, "required") /\
    \E name \in {w.of : w \in ToSet(Get(v, "required").of)} :
      name \in Keys(Get(v, "properties")) => GoesTooDeep(root, At(Get(v, "properties"), name), depth)

\* No items at most but some at least; objects are counted for none or some only.
Miscounts(v) ==
  \/ AsCount(v, "maxItems", 1) = 0 /\ AsCount(v, "minItems", 0) > 0
  \/ AsCount(v, "minProperties", 0) > 1
  \/ AsCount(v, "maxProperties", Unbounded) > 0
  \/ AsCount(v, "maxProperties", 1) = 0 /\ AsCount(v, "minProperties", 0) > 0

\* Zero is written whatever the least number of digits; a most of one digit is none;
\* and of a number a most without a least.
MiscountsDigits(v) ==
  \/ \E keyword \in {"minDigits", "minDigitsInteger"} : AsCount(v, keyword, 0) > 1
  \/ AsCount(v, "maxDigits", 2) < 2
  \/ Has(v, "maxDigitsInteger")
  \/ Has(v, "maxDigitsFraction") /\ AsCount(v, "minDigitsFraction", 0) = 0
  \/ Has(v, "maxDigitsExponent") /\ AsCount(v, "minDigitsExponent", 0) = 0

\* A text that means something else when it is not escaped.
HasMeaning(text) == ToSet(text) \cap {".", "|", "^", "$"} # {}

RECURSIVE HasKeyWithMeaning(_)
HasKeyWithMeaning(v) ==
  \/ v.is = "object" /\ \E key \in Keys(v) : HasMeaning(key)
  \/ IsContainer(v) /\ \E k \in DOMAIN v.of : HasKeyWithMeaning(Inner(v, k))

Misquotes(v) ==
  \/ HasAny(v, {"const", "enum"}) /\ HasKeyWithMeaning(v)
  \/ Has(v, "pattern") /\ LET text == Get(v, "pattern").of
                          IN ToSet(text) \cap {".", "|"} # {} \/ (Head(text) = "^") # (Last(text) = "$")

\* A reference that names the $id counts for good.
NamesId(root, v) == Has(v, "$ref") /\ Get(v, "$ref").is = "string" /\ Target(root, Get(v, "$ref").of).byId

RECURSIVE AllBelow(_, _, _)
AllBelow(root, v, depth) ==
  IF v.is # "object" THEN {}
  ELSE {<<v, depth>>} \cup UNION {AllBelow(root, s[1], s[2]) : s \in Below(root, v, depth)}

GoesAstray(root) ==
  \E s \in AllBelow(root, root, 0) :
    LET v == s[1]
        depth == s[2]
    IN \/ PassesOver(v) \/ RunsTogether(root, v, depth) \/ Miscombines(root, v, depth) \/ LosesRequired(root, v, depth)
       \/ ListsNothing(v) \/ Miscounts(v) \/ MiscountsDigits(v) \/ Misquotes(v) \/ NamesId(root, v)
=============================================================================
