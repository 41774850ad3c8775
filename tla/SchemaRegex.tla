----------------------------- MODULE SchemaRegex ------------------------------
(***************************************************************************)
(* The older path from a schema to one regular expression: to_regex takes  *)
(* the first keyword it knows and writes the patterns of the schemas below *)
(* it one after the other.  A reference is written out; the parser counts  *)
(* how deep it is in references, and a property that goes too deep is left *)
(* out.                                                                    *)
(*                                                                         *)
(* A call returns what it ended with (ok, recursion, or another error), a  *)
(* pattern or a sequence of them, and the parser's recursion_depth.        *)
(*                                                                         *)
(* Expressions are put together as strings: a pattern is alternatives,     *)
(* each a sequence of pieces, of some characters or a group repeated.      *)
(* To write one pattern after another joins the last alternative of the    *)
(* first to the first one of the second, whatever was meant; only a group  *)
(* keeps its alternatives to itself.                                       *)
(***************************************************************************)
EXTENDS SchemaPointers

CONSTANTS
  StringCharacter,     \* the characters of strings that need no escape
  FormatWords,         \* the texts of the string formats known
  MaxRecursionDepth    \* max_recursion_depth

-----------------------------------------------------------------------------
(* Patterns. *)

Unbounded == -1

Among(characters) == [is |-> "among", characters |-> characters]
Repeated(pattern, min, max) == [is |-> "group", pattern |-> pattern, min |-> min, max |-> max]

Nothing == << << >> >>
OneAmong(characters) == << <<Among(characters)>> >>
Exactly(text) == << [k \in DOMAIN text |-> Among({text[k]})] >>

Followed(p, q) == Front(p) \o <<Last(p) \o Head(q)>> \o Tail(q)
Row(patterns) == FoldLeft(Followed, Nothing, patterns)

\* join(separator), and join("|")
JoinedBy(separator, patterns) ==
  FoldLeft(LAMBDA p, k : Row(IF k = 1 THEN <<patterns[k]>> ELSE <<p, separator, patterns[k]>>),
           Nothing, [k \in DOMAIN patterns |-> k])
Alternatives(patterns) == IF patterns = << >> THEN Nothing ELSE FlattenSeq(patterns)

Times(p, min, max) == << <<Repeated(p, min, max)>> >>
Grouped(p) == Times(p, 1, 1)
Optional(p) == Times(p, 0, 1)

-----------------------------------------------------------------------------
(* What the regex library makes of a pattern. *)

\* The library takes it: no group is repeated more often at least than at most.
RECURSIVE IsPattern(_)
IsPattern(p) ==
  \A a \in DOMAIN p : \A k \in DOMAIN p[a] :
    p[a][k].is = "group" => /\ p[a][k].max # Unbounded => p[a][k].min <= p[a][k].max
                            /\ IsPattern(p[a][k].pattern)

\* Where a match of p may end that starts at one of some places of a text.
RECURSIVE EndsOf(_, _, _)
EndsOf(p, text, starts) ==
  LET afterOne(S, characters) == {i + 1 : i \in {i \in S : i < Len(text) /\ text[i + 1] \in characters}}
      afterGroup(S, piece) ==
        LET rounds == IF piece.max = Unbounded THEN piece.min + Len(text) ELSE piece.max
            after[k \in 0..rounds] == IF k = 0 THEN S
                                      ELSE IF after[k - 1] = {} THEN {} ELSE EndsOf(piece.pattern, text, after[k - 1])
        IN UNION {after[k] : k \in piece.min..rounds}
      afterPiece(S, piece) == CASE S = {} -> {}
                                [] S # {} /\ piece.is = "among" -> afterOne(S, piece.characters)
                                [] S # {} /\ piece.is = "group" -> afterGroup(S, piece)
  IN UNION {FoldLeft(afterPiece, starts, p[a]) : a \in DOMAIN p}

\* The whole text matches.
Matches(p, text) == IsPattern(p) /\ Len(text) \in EndsOf(p, text, {0})

-----------------------------------------------------------------------------
(* Calls. *)

Ended(out, pattern, depth) == [out |-> out, pattern |-> pattern, depth |-> depth]
Rendered(pattern, depth) == Ended("ok", pattern, depth)
Failed(out, depth) == Ended(out, Nothing, depth)

\* What F makes of the pattern of a call that went well.
Then(call, F(_)) == IF call.out = "ok" THEN [call EXCEPT !.pattern = F(@)] ELSE call

-----------------------------------------------------------------------------
(* types.rs *)

Whitespace == Optional(Exactly(<<" ">>))

DigitPattern == OneAmong({Digit[k] : k \in 1..10})
PositivePattern == OneAmong({Digit[k] : k \in 2..10})
Minus == Optional(Exactly(<<"-">>))

\* Numbers whose integers, fractions and exponents have as many digits.
WholePattern(min, max) ==
  Row(<<Minus, Grouped(Alternatives(<<Exactly(<<"0">>), Row(<<PositivePattern, Times(DigitPattern, min, max)>>)>>))>>)
FractionPattern(min, max) == Optional(Row(<<Exactly(<<".">>), Times(DigitPattern, min, max)>>))
ExponentPattern(min, max) ==
  Optional(Row(<<OneAmong({"e", "E"}), OneAmong({"+", "-"}), Times(DigitPattern, min, max)>>))

StringInner == OneAmong(StringCharacter)
InQuotes(pattern) == Row(<<Exactly(<<"\"">>), pattern, Exactly(<<"\"">>)>>)

StringPattern == InQuotes(Times(StringInner, 0, Unbounded))
IntegerPattern == WholePattern(0, Unbounded)
NumberPattern == Row(<<IntegerPattern, FractionPattern(1, Unbounded), ExponentPattern(1, Unbounded)>>)
BooleanPattern == Grouped(Alternatives(<<Exactly(<<"true">>), Exactly(<<"false">>)>>))

\* A text that gets into a pattern without being escaped.
Unquoted(text) ==
  FoldLeft(LAMBDA p, c : CASE c = "|" -> Append(p, << >>)
                           [] c = "." -> Followed(p, OneAmong(ToSet(Character)))
                           [] c \in {"^", "$"} -> Followed(p, OneAmong({}))
                           [] OTHER -> Followed(p, Exactly(<<c>>)),
           Nothing, text)

Enclosed(open, pattern, close) == Row(<<Exactly(<<open>>), Whitespace, pattern, Whitespace, Exactly(<<close>>)>>)
Comma == Row(<<Whitespace, Exactly(<<",">>), Whitespace>>)
Colon == Row(<<Whitespace, Exactly(<<":">>), Whitespace>>)

-----------------------------------------------------------------------------
(* Constants and scalars. *)

\* The text of a value as serde_json writes it.
RECURSIVE TextOf(_)
TextOf(v) ==
  CASE v.is \in {"null", "boolean"} -> Canonical(v)
    [] v.is = "number" -> (IF v.of.negative THEN <<"-">> ELSE << >>) \o v.of.integer
                            \o (IF v.of.fraction = << >> THEN << >> ELSE <<".">> \o v.of.fraction)
                            \o (IF v.of.exponent = 0 THEN << >> ELSE <<"e">> \o Written(v.of.exponent))
    [] v.is = "string" -> <<"\"">> \o v.of \o <<"\"">>
    [] v.is = "array" -> <<"[">> \o Separated([k \in DOMAIN v.of |-> TextOf(v.of[k])]) \o <<"]">>
    [] v.is = "object" -> <<"{">> \o Separated([k \in DOMAIN v.of |->
                                      <<"\"">> \o v.of[k].key \o <<"\"", ":">> \o TextOf(v.of[k].value)]) \o <<"}">>

\* parse_const_value: keys are not escaped.
RECURSIVE ConstantPattern(_)
ConstantPattern(v) ==
  CASE v.is = "array" -> Enclosed("[", JoinedBy(Comma, [k \in DOMAIN v.of |-> ConstantPattern(v.of[k])]), "]")
    [] v.is = "object" ->
         Enclosed("{", JoinedBy(Comma, [k \in DOMAIN v.of |->
                        Row(<<InQuotes(Unquoted(v.of[k].key)), Colon, ConstantPattern(v.of[k].value)>>)]), "}")
    [] OTHER -> Exactly(TextOf(v))

\* and_then(Value::as_u64), or else.
AsCount(v, keyword, default) ==
  IF /\ Has(v, keyword) /\ Get(v, keyword).is = "number"
     /\ LET d == Get(v, keyword).of IN ~d.negative /\ d.fraction = << >> /\ d.exponent = 0
  THEN Numeral(Get(v, keyword).of.integer) ELSE default

\* min.as_f64() > max.as_f64(), where what is no number comes before all numbers.
IsAbove(v, w) ==
  LET low(d) == d.exponent - Len(d.fraction)
      base == IF low(v.of) < low(w.of) THEN low(v.of) ELSE low(w.of)
      over(d) == (IF d.negative THEN -1 ELSE 1) * Numeral(d.integer \o d.fraction) * 10 ^ (low(d) - base)
  IN v.is = "number" /\ (w.is # "number" \/ over(v.of) > over(w.of))

\* parse_string_type
StringTypePattern(v, depth) ==
  LET min == AsCount(v, "minLength", 0)
      max == AsCount(v, "maxLength", Unbounded)
      text == Get(v, "pattern").of
      isText(keyword) == Has(v, keyword) /\ Get(v, keyword).is = "string"
      words == FormatWords[Get(v, "format").of]
      anchored == text # << >> /\ Head(text) = "^" /\ Last(text) = "$"
  IN IF Has(v, "minLength") \/ Has(v, "maxLength")
     THEN IF Has(v, "minLength") /\ Has(v, "maxLength") /\ IsAbove(Get(v, "minLength"), Get(v, "maxLength")) THEN Failed("bounds", depth)
          ELSE Rendered(InQuotes(Times(StringInner, min, max)), depth)
     ELSE IF isText("pattern")
     THEN Rendered(Grouped(InQuotes(Unquoted(IF anchored THEN SubSeq(text, 2, Len(text) - 1) ELSE text))), depth)
     ELSE IF isText("format")
     THEN IF Get(v, "format").of \in DOMAIN FormatWords
          THEN Rendered(InQuotes(Grouped(Alternatives([k \in DOMAIN words |-> Exactly(words[k])]))), depth)
          ELSE Failed("format", depth)
     ELSE Rendered(StringPattern, depth)

\* validate_quantifiers: a bound less the offset, 0 being none; what comes when
\* there is neither, and the least that a maximum alone stands with.
Quantifier(v, least, most, offset, neither, alone) ==
  LET less(keyword) == IF AsCount(v, keyword, offset) < offset THEN 0 ELSE AsCount(v, keyword, offset) - offset
      min == less(least)
      max == less(most)
      has(keyword) == AsCount(v, keyword, Unbounded) # Unbounded
  IN [good |-> ~(has(least) /\ has(most) /\ max < min),
      min |-> IF min # 0 THEN min ELSE IF max # 0 THEN alone ELSE neither,
      max |-> IF max # 0 THEN max ELSE Unbounded]

HasAny(v, keywords) == \E keyword \in keywords : Has(v, keyword)
NumericBounds == {"minimum", "maximum", "exclusiveMinimum", "exclusiveMaximum"}
NumberDigits == {"minDigitsInteger", "maxDigitsInteger", "minDigitsFraction", "maxDigitsFraction",
                 "minDigitsExponent", "maxDigitsExponent"}

\* parse_number_type
NumberTypePattern(v, depth) ==
  LET whole == Quantifier(v, "minDigitsInteger", "maxDigitsInteger", 1, 0, 1)
      fraction == Quantifier(v, "minDigitsFraction", "maxDigitsFraction", 0, 1, 0)
      exponent == Quantifier(v, "minDigitsExponent", "maxDigitsExponent", 0, 1, 0)
  IN IF HasAny(v, NumericBounds) THEN Failed("numeric bound", depth)
     ELSE IF ~HasAny(v, NumberDigits) THEN Rendered(NumberPattern, depth)
     ELSE IF ~(whole.good /\ fraction.good /\ exponent.good) THEN Failed("bounds", depth)
     ELSE Rendered(Row(<<WholePattern(whole.min, whole.max), FractionPattern(fraction.min, fraction.max),
                         ExponentPattern(exponent.min, exponent.max)>>), depth)

\* parse_integer_type
IntegerTypePattern(v, depth) ==
  LET digits == Quantifier(v, "minDigits", "maxDigits", 1, 0, 0)
  IN IF HasAny(v, NumericBounds) THEN Failed("numeric bound", depth)
     ELSE IF ~HasAny(v, {"minDigits", "maxDigits"}) THEN Rendered(IntegerPattern, depth)
     ELSE IF ~digits.good THEN Failed("bounds", depth)
     ELSE Rendered(WholePattern(digits.min, digits.max), depth)

-----------------------------------------------------------------------------
(* References. *)

\* The parts of a reference between its number signs.
SharpParts(text) ==
  FoldLeft(LAMBDA parts, c : IF c = "#" THEN Append(parts, << >>)
                             ELSE Append(Front(parts), Append(Last(parts), c)),
           << << >> >>, text)

\* resolve_local_ref: a name at a time, as it is written, through objects only.
Located(root, fragment) ==
  FoldLeft(LAMBDA found, name :
             IF found # << >> /\ found[1].is = "object" /\ name \in Keys(found[1]) THEN <<At(found[1], name)>> ELSE << >>,
           <<root>>, SelectSeq(Segments(fragment), LAMBDA name : name # << >>))

\* Where a reference leads: the schema, and whether by way of the $id.
Target(root, reference) ==
  LET parts == SharpParts(reference)
      to(fragment, byId) == [found |-> Located(root, fragment), byId |-> byId, error |-> "reference"]
      fails(error) == [found |-> << >>, byId |-> FALSE, error |-> error]
  IN CASE Len(parts) = 1 -> to(parts[1], FALSE)
       [] Len(parts) = 2 /\ parts[1] = << >> -> to(parts[2], FALSE)
       [] Len(parts) = 2 /\ parts[1] # << >> ->
            IF root.is = "object" /\ Has(root, "$id") /\ Get(root, "$id") = Value("string", parts[1])
            THEN to(parts[2], TRUE) ELSE fails("external")
       [] OTHER -> fails("format")
-----------------------------------------------------------------------------
(* Objects and arrays. *)

OfType(type, depth) ==
  Value("object", <<Member(<<"type">>, Value("string", <<type>>))>>
                    \o IF depth = Unbounded THEN << >>
                       ELSE <<Member(<<"depth">>, Value("number", Decimal(FALSE, Written(depth), << >>, 0)))>>)

\* The schemas tried for a value of no schema: containers only so deep.
Scalars(types) == [k \in DOMAIN types |-> OfType(types[k], Unbounded)]
Nested(v) ==
  LET depth == AsCount(v, "depth", 2)
  IN IF depth = 0 THEN << >> ELSE <<OfType("object", depth - 1), OfType("array", depth - 1)>>

\* The last of the required properties, or 0.
LastRequired(names, required) == Max({0} \cup {k \in DOMAIN names : names[k] \in required})

\* parse_properties: the patterns of the members that were not left out, [at, pattern],
\* one after the other.  A comma goes with each member but the last required one; if
\* none is required, any of the members may be the last one written.
MembersPattern(names, required, members) ==
  LET last == LastRequired(names, required)
      placed(m) == CASE m.at < last -> Row(<<m.pattern, Whitespace, Exactly(<<",">>)>>)
                     [] m.at > last -> Row(<<Whitespace, Exactly(<<",">>), m.pattern>>)
                     [] OTHER -> m.pattern
      upTo(k) == Row(Append([j \in 1..(k - 1) |-> Optional(Row(<<members[j].pattern, Whitespace, Exactly(<<",">>)>>))],
                            members[k].pattern))
  IN IF last # 0
     THEN Row([k \in DOMAIN members |-> IF names[members[k].at] \in required THEN placed(members[k])
                                        ELSE Optional(placed(members[k]))])
     ELSE Optional(Alternatives([k \in DOMAIN members |-> upTo(k)]))

\* get_num_items_pattern, of what follows the first item.
Less(n) == IF n = 0 THEN 0 ELSE n - 1

\* parse_array_type: items between brackets, with the bounds.
ItemsPattern(v, items) ==
  LET min == AsCount(v, "minItems", 0)
      max == AsCount(v, "maxItems", Unbounded)
      row == Row(<<Grouped(items),
                   Times(Row(<<Exactly(<<",">>), Whitespace, Grouped(items)>>), Less(min),
                         IF max = Unbounded THEN Unbounded ELSE Less(max))>>)
  IN Enclosed("[", Times(row, IF min = 0 THEN 0 ELSE 1, 1), "]")

\* parse_object_type: members of any name, the bounds looked at for none or some only.
EntriesPattern(v, value) ==
  LET entry == Row(<<StringPattern, Colon, value>>)
      row == Row(<<entry, Times(Row(<<Comma, entry>>), 0, Unbounded)>>)
  IN Enclosed("{", Times(row, IF AsCount(v, "minProperties", 0) = 0 THEN 0 ELSE 1, 1), "}")

-----------------------------------------------------------------------------
(* Parser::to_regex *)

Schemas(v, keyword) == Get(v, keyword).of

RECURSIVE ToRegex(_, _, _)

\* The patterns of some schemas, one call after another until one fails.
Each(root, vs, depth) ==
  FoldLeft(LAMBDA calls, v :
             IF calls.out # "ok" THEN calls
             ELSE LET call == ToRegex(root, v, calls.depth)
                  IN IF call.out = "ok" THEN Rendered(Append(calls.pattern, call.pattern), call.depth) ELSE call,
           Rendered(<< >>, depth), vs)

\* parse_properties: a property that goes too deep is left out.
Properties(root, v, depth) ==
  LET properties == Get(v, "properties").of
      names == [k \in DOMAIN properties |-> properties[k].key]
      required == IF Has(v, "required") /\ Get(v, "required").is = "array"
                  THEN {w.of : w \in {w \in ToSet(Get(v, "required").of) : w.is = "string"}} ELSE {}
      member(k, pattern) == [at |-> k, pattern |-> Row(<<Whitespace, InQuotes(Exactly(names[k])), Colon, pattern>>)]
      calls == FoldLeft(LAMBDA calls, k :
                 IF calls.out # "ok" THEN calls
                 ELSE LET call == ToRegex(root, properties[k].value, calls.depth)
                      IN CASE call.out = "ok" -> Rendered(Append(calls.pattern, member(k, call.pattern)), call.depth)
                           [] call.out = "recursion" -> Rendered(calls.pattern, call.depth)
                           [] OTHER -> call,
                 Rendered(<< >>, depth), [k \in DOMAIN properties |-> k])
  IN IF Get(v, "properties").is # "object" THEN Failed("properties", depth)
     ELSE Then(calls, LAMBDA members : Row(<<Exactly(<<"{">>), MembersPattern(names, required, members), Whitespace,
                                             Exactly(<<"}">>)>>))

\* Mutant of GivenBack: not by a call that failed, as if it returned at once.
GivenBackOnSuccess(call) == IF call.out = "ok" THEN [call EXCEPT !.depth = @ - 1] ELSE call

GivenBack(call) == [call EXCEPT !.depth = @ - 1]

\* parse_ref: the depth is given back, but not by a reference that names the $id.
Reference(root, v, depth) ==
  LET target == Target(root, Get(v, "$ref").of)
      call == ToRegex(root, target.found[1], depth + 1)
  IN IF depth > MaxRecursionDepth THEN Failed("recursion", depth)
     ELSE IF Get(v, "$ref").is # "string" THEN Failed("reference", depth)
     ELSE IF target.found = << >> THEN Failed(target.error, depth)
     ELSE IF target.byId THEN call
     ELSE GivenBack(call)

\* parse_array_type and parse_object_type
ArrayTypePattern(root, v, depth) ==
  LET legal == Scalars(<<"boolean", "null", "number", "integer", "string">>) \o Nested(v)
  IN IF AsCount(v, "maxItems", Unbounded) = 0
     THEN Rendered(Row(<<Exactly(<<"[">>), Whitespace, Exactly(<<"]">>)>>), depth)
     ELSE IF Has(v, "items")
     THEN Then(ToRegex(root, Get(v, "items"), depth), LAMBDA p : ItemsPattern(v, p))
     ELSE Then(Each(root, legal, depth), LAMBDA ps : ItemsPattern(v, Alternatives(ps)))

ObjectTypePattern(root, v, depth) ==
  LET legal == Scalars(<<"string", "number", "boolean", "null">>) \o Nested(v)
      free == ~Has(v, "additionalProperties") \/ Get(v, "additionalProperties") = Value("boolean", TRUE)
  IN IF AsCount(v, "maxProperties", Unbounded) = 0
     THEN Rendered(Row(<<Exactly(<<"{">>), Whitespace, Exactly(<<"}">>)>>), depth)
     ELSE IF free
     THEN Then(Each(root, legal, depth), LAMBDA ps : EntriesPattern(v, Grouped(Alternatives(ps))))
     ELSE Then(ToRegex(root, Get(v, "additionalProperties"), depth), LAMBDA p : EntriesPattern(v, p))

\* parse_type_string
TypePattern(root, type, v, depth) ==
  CASE type = <<"string">> -> StringTypePattern(v, depth)
    [] type = <<"number">> -> NumberTypePattern(v, depth)
    [] type = <<"integer">> -> IntegerTypePattern(v, depth)
    [] type = <<"array">> -> ArrayTypePattern(root, v, depth)
    [] type = <<"object">> -> ObjectTypePattern(root, v, depth)
    [] type = <<"boolean">> -> Rendered(BooleanPattern, depth)
    [] type = <<"null">> -> Rendered(Exactly(<<"null">>), depth)
    [] OTHER -> Failed("type", depth)

\* parse_type and parse_type_array
ByType(root, v, depth) ==
  LET types == Get(v, "type")
      calls == FoldLeft(LAMBDA calls, type :
                 IF calls.out # "ok" THEN calls
                 ELSE IF type.is # "string" THEN Failed("type", calls.depth)
                 ELSE LET call == TypePattern(root, type.of, v, calls.depth)
                      IN IF call.out = "ok" THEN Rendered(Append(calls.pattern, Grouped(call.pattern)), call.depth)
                         ELSE call,
                 Rendered(<< >>, depth), types.of)
  IN CASE types.is = "string" -> TypePattern(root, types.of, v, depth)
       [] types.is = "array" -> Then(calls, LAMBDA ps : Grouped(Alternatives(ps)))
       [] OTHER -> Failed("type", depth)

\* The patterns of the schemas of a keyword.
PatternsOf(root, v, keyword, depth) ==
  IF Get(v, keyword).is # "array" THEN Failed(keyword, depth) ELSE Each(root, Schemas(v, keyword), depth)

\* parse_empty_object
Unconstrained(root, depth) ==
  Then(Each(root, Scalars(<<"boolean", "null", "number", "integer", "string", "array", "object">>), depth),
       LAMBDA ps : Alternatives([k \in DOMAIN ps |-> Grouped(ps[k])]))

\* The first keyword known decides.
Known == <<"properties", "allOf", "anyOf", "oneOf", "prefixItems", "enum", "const", "$ref", "type">>
Branch(v) ==
  LET has == {k \in DOMAIN Known : v.is = "object" /\ Has(v, Known[k])}
  IN IF has # {} THEN Known[Min(has)] ELSE "none"

ToRegex(root, v, depth) ==
  LET combined(keyword, F(_)) == Then(PatternsOf(root, v, keyword, depth), F)
  IN CASE v = Value("object", << >>) -> Unconstrained(root, depth)
       [] Branch(v) = "properties" -> Properties(root, v, depth)
       [] Branch(v) = "allOf" -> combined("allOf", LAMBDA ps : Grouped(Row(ps)))
       [] Branch(v) = "anyOf" -> combined("anyOf", LAMBDA ps : Grouped(Alternatives(ps)))
       [] Branch(v) = "oneOf" ->
            combined("oneOf", LAMBDA ps : Grouped(Alternatives([k \in DOMAIN ps |-> Grouped(ps[k])])))
       [] Branch(v) = "prefixItems" -> combined("prefixItems", LAMBDA ps : Enclosed("[", JoinedBy(Comma, ps), "]"))
       [] Branch(v) = "enum" ->
            IF Get(v, "enum").is # "array" THEN Failed("enum", depth)
            ELSE Rendered(Grouped(Alternatives([k \in DOMAIN Schemas(v, "enum") |->
                                                 ConstantPattern(Schemas(v, "enum")[k])])), depth)
       [] Branch(v) = "const" -> Rendered(ConstantPattern(Get(v, "const")), depth)
       [] Branch(v) = "$ref" -> Reference(root, v, depth)
       [] Branch(v) = "type" -> ByType(root, v, depth)
       [] OTHER -> Failed("unsupported", depth)

\* serde_json reads a key that is repeated as its last value, in its first place.
RECURSIVE Read(_)
Read(v) ==
  LET lastOf(key) == Max({k \in DOMAIN v.of : v.of[k].key = key})
      isFirst(k) == \A j \in 1..(k - 1) : v.of[j].key # v.of[k].key
  IN CASE v.is = "array" -> Value("array", [k \in DOMAIN v.of |-> Read(v.of[k])])
       [] v.is = "object" ->
            Value("object", FoldLeft(LAMBDA ms, k : IF isFirst(k)
                                                    THEN Append(ms, Member(v.of[k].key, Read(v.of[lastOf(v.of[k].key)].value)))
                                                    ELSE ms,
                                     << >>, [k \in DOMAIN v.of |-> k]))
       [] OTHER -> v

\* regex_from_value
RegexFrom(v) == LET root == Read(v) IN ToRegex(root, root, 0)
=============================================================================
