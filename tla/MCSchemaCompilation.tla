------------------------- MODULE MCSchemaCompilation -------------------------
(***************************************************************************)
(* Schema documents from the text to the grammar: every array with a       *)
(* prefix of up to two, items that are absent, scalar, impossible or the   *)
(* array itself, and bounds up to three; objects with up to three          *)
(* properties, required ones, missing ones and ones that are the object    *)
(* itself; constants and enums in several spellings of a number; strings   *)
(* with lengths; references by every kind of escape; eleven branches, so   *)
(* that the order of pointers is not that of indices; what is refused.     *)
(***************************************************************************)
EXTENDS SchemaCompilation

MCCharacter ==
  <<" ", "\"", "#", "$", "$comment", "$defs", "$id", "$ref", "$schema", "%", "+", ",", "-", ".", "/", "0", "1", "2",
    "2020-12", "3", "4", "5", "6", "7", "8", "9", ":", "E", "[", "]", "^", "additionalProperties", "allOf",
    "anyOf", "array", "boolean", "const", "date", "depth", "e", "enum", "false", "format", "integer", "items", "k",
    "l", "m", "maxDigits", "maxDigitsExponent", "maxDigitsFraction", "maxDigitsInteger", "maxItems", "maxLength",
    "maxProperties", "minDigits", "minDigitsExponent", "minDigitsFraction", "minDigitsInteger", "minItems",
    "minLength", "minProperties", "minimum", "n", "null", "number", "object", "oneOf", "pattern", "prefixItems",
    "properties", "required", "string", "true", "type", "uniqueItems", "{", "|", "}", "~">>

MCByteOf == "%" :> 37 @@ "/" :> 47 @@ "0" :> 48 @@ "k" :> 107 @@ "~" :> 126

-----------------------------------------------------------------------------
(* Values. *)

Null == Value("null", "null")
True == Value("boolean", TRUE)
False == Value("boolean", FALSE)
String(text) == Value("string", text)
Array(values) == Value("array", values)
Object(members) == Value("object", members)
Number(negative, integer, fraction, exponent) == Value("number", Decimal(negative, integer, fraction, exponent))
Natural(n) == Number(FALSE, Written(n), << >>, 0)

One == Natural(1)
Two == Natural(2)
Ten == Natural(10)

\* Other ways to write 1, 10, 0 and 1000, and numbers with a fraction.
OnePointZero == Number(FALSE, <<"1">>, <<"0">>, 0)
TenTenths == Number(FALSE, <<"1", "0">>, << >>, -1)
OneE1 == Number(FALSE, <<"1">>, << >>, 1)
Zero == Natural(0)
MinusZero == Number(TRUE, <<"0">>, <<"0">>, 5)
Thousand == Number(FALSE, <<"1", "0", "0", "0">>, << >>, 0)
OneE3 == Number(FALSE, <<"1">>, << >>, 3)
Half == Number(FALSE, <<"0">>, <<"5">>, 0)
FiveE1 == Number(FALSE, <<"5">>, << >>, -1)
Minus1200 == Number(TRUE, <<"1", "2", "0", "0">>, << >>, 0)
Minus1Point2E3 == Number(TRUE, <<"1">>, <<"2">>, 3)
TwelveTenths == Number(FALSE, <<"1">>, <<"2">>, 0)
Long120000 == Number(FALSE, <<"1", "2", "0", "0", "0", "0">>, << >>, 0)
OnePoint2E5 == Number(FALSE, <<"1">>, <<"2">>, 5)
Tiny == Number(FALSE, <<"5">>, << >>, -4)

\* One whose plain text is too long, and two out of the range of exponents.
Long == Number(FALSE, <<"1">>, << >>, 8)
Huge == Number(FALSE, <<"1">>, << >>, 10)
HugeByTrailing == Number(FALSE, <<"1", "0", "0">>, << >>, 9)

K == <<"k">>
L == <<"l">>
M == <<"m">>
N == <<"n">>

MCUniverse ==
  <<Null, True, False, Zero, MinusZero, Half, FiveE1, Tiny, One, OnePointZero, TenTenths, TwelveTenths, Two,
    Ten, OneE1, Thousand, OneE3, Minus1200, Minus1Point2E3, Long120000, OnePoint2E5,
    String(K), String(L), String(<<"k", "l">>), String(<<"k", "/">>), String(<<"k", "l", "m">>),
    Array(<< >>), Array(<<One>>), Array(<<OnePointZero>>), Array(<<True>>), Array(<<One, True>>), Array(<<True, One>>),
    Array(<<One, One>>), Array(<<True, One, One>>), Array(<<True, One, True>>), Array(<<Array(<< >>)>>),
    Array(<<One, Array(<<One>>)>>),
    Object(<< >>), Object(<<Member(K, One)>>), Object(<<Member(L, One)>>), Object(<<Member(N, One)>>),
    Object(<<Member(K, One), Member(L, One)>>), Object(<<Member(L, One), Member(K, One)>>),
    Object(<<Member(K, One), Member(L, Object(<<Member(K, One)>>))>>), Object(<<Member(L, True)>>),
    Object(<<Member(K, One), Member(L, One), Member(M, One)>>), Object(<<Member(M, One)>>),
    Object(<<Member(M, True), Member(K, Null)>>), Object(<<Member(K, Null), Member(M, True)>>),
    Object(<<Member(L, Object(<<Member(K, One)>>)), Member(K, One)>>), Array(<<Array(<<True>>), True>>),
    Object(<<Member(K, Array(<<Array(<< >>)>>))>>)>>

-----------------------------------------------------------------------------
(* Texts for the regular expressions. *)

MCStringCharacter == {"k", "l", "m", "n", "/", "~"}

MCFormatWords == <<"date">> :> <<K, <<"k", "l">>>>

\* A text with a space or a comma too many, or a bracket, quote, comma or colon too few.
Slips(text) ==
  {InsertAt(text, k, c) : k \in DOMAIN text, c \in {" ", ","}}
    \cup {RemoveAt(text, k) : k \in {k \in DOMAIN text : text[k] \in {"{", "}", "[", "]", "\"", ",", ":"}}}

MCOtherTexts ==
  {<< >>, <<"1", ".">>, <<".", "5">>, <<"0", "1">>, <<"1", "e", "-">>, <<"-">>, <<"+", "1">>, <<"\"", "\"", "\"">>}
    \cup Slips(TextOf(Array(<<One, True>>)))
    \cup Slips(TextOf(Object(<<Member(K, One), Member(L, One), Member(M, One)>>)))

-----------------------------------------------------------------------------
(* Schemas. *)

Keyword(keyword, value) == Member(<<keyword>>, value)
Type(type) == Keyword("type", String(<<type>>))
Typed(type) == Object(<<Type(type)>>)
Const(value) == Object(<<Keyword("const", value)>>)
Enum(values) == Object(<<Keyword("enum", Array(values))>>)
Ref(text) == Object(<<Keyword("$ref", String(text))>>)
ToDef(name) == <<"#", "/", "$defs", "/">> \o name
Defs(members) == Keyword("$defs", Object(members))
AllOf(schemas_) == Object(<<Keyword("allOf", Array(schemas_))>>)
AnyOf(schemas_) == Object(<<Keyword("anyOf", Array(schemas_))>>)
If(condition, members) == IF condition THEN members ELSE << >>

Empty == Object(<< >>)
SelfRef == Ref(<<"#">>)

\* Array documents by the number of a prefix and of items, and bounds.
ArrayDocument(prefix, items, min, max) ==
  Object(<<Type("array")>>
         \o If(prefix # 1, <<Keyword("prefixItems", Array(
              <<<< >>, <<Typed("integer")>>, <<Typed("boolean"), Typed("integer")>>,
                <<Typed("integer"), False>>>>[prefix]))>>)
         \o If(items # 1, <<Keyword("items", <<Null, SelfRef, Typed("boolean"), False, Ref(ToDef(K))>>[items])>>)
         \o If(min # 0, <<Keyword("minItems", Natural(min))>>)
         \o If(max # None, <<Keyword("maxItems", Natural(max))>>)
         \o If(items = 5, <<Defs(<<Member(K, False)>>)>>))

MCArrays ==
  [k \in 1..240 |-> ArrayDocument((k % 4) + 1, ((k \div 4) % 5) + 1, (k \div 20) % 3,
                                  <<None, 0, 1, 3>>[((k - 1) \div 60) + 1])]

ObjectDocument(members, required, forbidden) ==
  Object(<<Type("object"), Keyword("properties", Object(members)),
           Keyword("required", Array([k \in DOMAIN required |-> String(required[k])]))>>
         \o If(forbidden, <<Keyword("additionalProperties", False)>>))

MCMembers ==
  << << >>, <<Member(K, Typed("integer"))>>, <<Member(L, SelfRef), Member(K, Typed("integer"))>>,
     <<Member(K, False), Member(L, Typed("boolean"))>>,
     <<Member(M, Typed("integer")), Member(K, Typed("integer")), Member(L, Typed("integer"))>> >>

MCRequired == << << >>, <<K>>, <<L>>, <<N>>, <<L, K>>, <<K, N>>, <<L, N>>, <<N, K, L>> >>

MCObjects ==
  [k \in 1..40 |-> ObjectDocument(MCMembers[(k % 5) + 1], MCRequired[((k - 1) \div 5) + 1], TRUE)]

\* Constants and enums.
MCValues ==
  << Const(MinusZero), Const(FiveE1), Const(Tiny), Const(OneE3), Const(Thousand), Const(Minus1Point2E3),
     Const(TwelveTenths), Const(TenTenths), Const(Long120000), Const(Long), Const(Huge), Const(HugeByTrailing),
     Const(Array(<<OnePointZero, True>>)), Const(Object(<<Member(M, True), Member(K, Null)>>)),
     Const(Object(<<Member(L, One), Member(K, Huge)>>)),
     Enum(<<Thousand, Two, True>>), Enum(<<OneE3, Thousand>>), Enum(<<One, Two, OnePointZero>>),
     Enum(<<Object(<<Member(K, One), Member(L, One)>>), Object(<<Member(L, OnePointZero), Member(K, One)>>)>>),
     Enum(<<Array(<<One, True>>), Array(<<True, One>>)>>), Enum(<< >>), Object(<<Keyword("enum", One)>>),
     Object(<<Keyword("enum", Array(<<Half, TenTenths, True, String(K)>>)), Type("integer")>>),
     Object(<<Keyword("enum", Array(<<Half, String(K)>>)), Type("integer")>>),
     Object(<<Keyword("enum", Array(<<String(K), True, String(<<"k", "l">>)>>)), Keyword("minLength", Two)>>),
     Object(<<Keyword("enum", Array(<<True>>)), Keyword("minLength", String(K))>>),
     Object(<<Keyword("const", String(<<"k", "l">>)), Keyword("maxLength", One)>>),
     Object(<<Keyword("const", String(K)), Keyword("maxLength", One), Type("string")>>),
     Object(<<Keyword("const", OnePointZero), Keyword("maxLength", Zero), Type("integer")>>),
     Object(<<Keyword("const", Half), Type("integer")>>), Object(<<Keyword("const", One), Keyword("items", True)>>),
     Object(<<Keyword("const", String(K)), Keyword("minLength", Number(TRUE, <<"1">>, << >>, 0))>>),
     Object(<<Type("string"), Keyword("minLength", One), Keyword("maxLength", Two)>>),
     Object(<<Type("string"), Keyword("minLength", Two), Keyword("maxLength", One)>>),
     Object(<<Type("string"), Keyword("maxLength", OnePointZero)>>), Object(<<Keyword("maxLength", One)>>),
     Typed("string"), Typed("number"), Typed("null"), Typed("uniqueItems"), Empty, True, False, Null >>

\* References: to the document, to k, to k/ and to ~, in several spellings; what is
\* no reference to a place of the document.
MCReferenceTexts ==
  << <<"#">>, ToDef(K), ToDef(<<"%", "6", "b">>), ToDef(<<"k", "~", "1">>), ToDef(<<"k", "%", "7", "E", "1">>),
     ToDef(<<"k", "/">>), ToDef(<<"k", "%", "2", "F">>), ToDef(<<"~", "0", "1">>), ToDef(<<"~", "0">>),
     ToDef(<<"~", "%", "3", "0">>), ToDef(<<"~">>), ToDef(<<"~", "2">>), ToDef(<<"k", "%", "6">>),
     ToDef(<<"%", "k", "k">>), ToDef(<<"%", "8", "0">>), ToDef(L), <<"#", "k">>, << >>, <<"k", "#">>,
     <<"#", "/", "$defs">>, <<"#", "%", "2", "F", "$defs", "/", "k">>, <<"#", "/", "%", "2", "5">>,
     <<"#", "/">>, <<"#", "/", "anyOf", "/", "0">>, <<"#", "/", "anyOf", "/", "2">> >>

MCReferences ==
  [k \in DOMAIN MCReferenceTexts |->
     Object(<<Keyword("anyOf", Array(<<Ref(MCReferenceTexts[k]), Typed("null")>>)),
              Defs(<<Member(K, Typed("integer")), Member(<<"k", "/">>, Typed("boolean")),
                     Member(<<"~">>, Const(String(K))), Member(<<"~", "1">>, Const(Ten))>>)>>)]

\* Eleven entries, then a twelfth: the entries after the second are one node on.
Eleven == [k \in 1..11 |-> Const(<<One, Two, Ten, True, False, Null, String(K), String(L), Half, Zero, Thousand>>[k])]

MCOthers ==
  << AnyOf(Eleven), Object(<<Keyword("prefixItems", Array(Eleven)), Type("array"), Keyword("maxItems", Two),
                                Keyword("items", False)>>),
     AnyOf(Append(Eleven, Const(Ten)) \o <<Const(Two), Const(One)>>),
     AnyOf(<<Typed("integer"), Typed("boolean"), Typed("integer")>>), AnyOf(<<Typed("boolean"), SelfRef>>), SelfRef,
     AnyOf(<<ObjectDocument(<<Member(M, SelfRef), Member(K, SelfRef)>>, <<M>>, TRUE), Typed("integer")>>),
     AnyOf(<<SelfRef, SelfRef, SelfRef>>), AnyOf(<< >>), AnyOf(<<One>>), Object(<<Keyword("anyOf", Empty)>>),
     AllOf(<<Const(OnePointZero), Typed("integer")>>), AllOf(<<Typed("integer"), Const(Half)>>),
     AllOf(<<Typed("string"), Typed("integer"), Const(String(K))>>), AllOf(<<Typed("number"), Const(Huge)>>),
     AllOf(<<Const(One), Const(One)>>), AllOf(<<Typed("integer")>>), AllOf(<<True, Const(One)>>),
     AllOf(<<Const(One), Ref(<<"#">>)>>), AllOf(<<Typed("uniqueItems"), Const(One)>>),
     AllOf(<<Object(<<Type("integer"), Keyword("minItems", One)>>), Const(One)>>),
     AllOf(<<Object(<<Keyword("const", One), Type("integer")>>)>>),
     AllOf(<<Object(<<Keyword("const", Two), Keyword("$comment", String(K))>>), Typed("number"), Typed("number")>>),
     Object(<<Keyword("oneOf", Array(<<Typed("integer")>>))>>), Object(<<Keyword("anyOf", Array(<<Empty>>)), Type("null")>>),
     Object(<<Keyword("$ref", String(<<"#">>)), Keyword("items", Empty)>>), Object(<<Keyword("$ref", One)>>),
     Object(<<Keyword("allOf", Array(<<Const(One)>>)), Keyword("$ref", String(<<"#">>))>>),
     Object(<<Keyword("items", Empty)>>), Object(<<Keyword("required", Array(<< >>))>>),
     Object(<<Type("integer"), Keyword("items", Empty), Keyword("minLength", String(K))>>),
     ObjectDocument(<<Member(K, Typed("integer"))>>, << >>, FALSE), ObjectDocument(<< >>, <<K, L, K>>, TRUE),
     Object(<<Type("object"), Keyword("required", Array(<<One>>))>>), Object(<<Type("object"), Keyword("required", One)>>),
     Object(<<Type("object"), Keyword("properties", Array(<< >>))>>),
     Object(<<Type("object"), Keyword("properties", Object(<<Member(K, One)>>))>>),
     Object(<<Type("object"), Keyword("additionalProperties", Typed("integer"))>>),
     Object(<<Type("array"), Keyword("prefixItems", Array(<< >>)), Keyword("items", Typed("integer"))>>),
     Object(<<Type("array"), Keyword("minItems", Half)>>), Object(<<Type("array"), Keyword("items", One)>>),
     Object(<<Keyword("uniqueItems", True)>>), Object(<<Keyword("$schema", String(<<"2020-12", "#">>)), Type("null")>>),
     Object(<<Keyword("$schema", String(<<"2020-12">>)), Type("null")>>),
     Object(<<Keyword("$schema", String(K)), Type("null")>>), Object(<<Keyword("$schema", One)>>),
     Object(<<Type("null"), Type("null")>>),
     Const(Array(<<Object(<<Member(K, One), Member(L, One), Member(K, One)>>)>>)),
     Object(<<Type("integer"), Defs(<<Member(K, Object(<<Defs(<<Member(L, Typed("boolean"))>>), Type("null")>>))>>)>>) >>

\* For the regular expression: types with bounds, lists of types, three properties
\* by reference, references to references, and values of no schema.
Bounded(type, bounds) == Object(<<Type(type)>> \o [k \in DOMAIN bounds |-> Keyword(bounds[k][1], Natural(bounds[k][2]))])
Three(value) == <<Member(K, value), Member(L, value), Member(M, value)>>

MCExpressions ==
  << Bounded("integer", <<<<"minDigits", 1>>, <<"maxDigits", 2>>>>), Bounded("integer", <<<<"maxDigits", 3>>>>),
     Bounded("integer", <<<<"minDigits", 1>>>>), Bounded("integer", <<<<"minDigits", 3>>, <<"maxDigits", 2>>>>),
     Bounded("number", <<<<"minDigitsFraction", 1>>, <<"maxDigitsFraction", 1>>>>), Bounded("number", <<<<"minDigitsExponent", 2>>>>),
     Bounded("number", <<<<"minDigitsFraction", 2>>>>), Bounded("number", <<<<"minDigitsInteger", 1>>>>), Bounded("number", <<<<"minimum", 1>>>>),
     Bounded("array", <<<<"depth", 0>>>>), Bounded("array", <<<<"depth", 1>>, <<"minItems", 1>>>>), Bounded("object", <<<<"depth", 0>>>>),
     Bounded("array", <<<<"depth", 0>>, <<"minItems", 2>>, <<"maxItems", 3>>>>), Bounded("array", <<<<"minItems", 3>>, <<"maxItems", 2>>>>),
     Bounded("object", <<<<"depth", 1>>, <<"minProperties", 1>>>>), Bounded("object", <<<<"maxProperties", 0>>>>),
     Object(<<Type("string"), Keyword("pattern", String(<<"^", "k", "l", "$">>))>>),
     Object(<<Type("string"), Keyword("pattern", String(K))>>), Object(<<Type("string"), Keyword("format", String(<<"date">>))>>),
     Object(<<Type("string"), Keyword("format", String(K))>>),
     Object(<<Keyword("type", Array(<<String(<<"integer">>), String(<<"null">>), String(<<"array">>)>>)), Keyword("depth", Zero)>>),
     Object(<<Keyword("oneOf", Array(<<Typed("integer"), Typed("boolean"), Const(Half)>>))>>),
     Object(<<Keyword("prefixItems", Array(<<Typed("integer"), Ref(ToDef(K))>>)), Defs(<<Member(K, Typed("boolean"))>>)>>),
     Object(<<Type("object"), Keyword("additionalProperties", Ref(ToDef(K))), Keyword("minProperties", One),
              Defs(<<Member(K, Typed("integer"))>>)>>),
     Object(<<Keyword("properties", Object(Three(Ref(ToDef(K))))), Defs(<<Member(K, Typed("integer"))>>)>>),
     Object(<<Keyword("properties", Object(Three(Ref(ToDef(K))))), Keyword("required", Array(<<String(L)>>)),
              Defs(<<Member(K, Ref(ToDef(L))), Member(L, Typed("integer"))>>)>>),
     Object(<<Keyword("properties", Object(Three(Ref(ToDef(K))))), Keyword("required", Array(<<String(M), String(K)>>)),
              Defs(<<Member(K, Ref(ToDef(L))), Member(L, Typed("integer"))>>)>>),
     Object(<<Keyword("properties", Object(<<Member(K, Ref(ToDef(K))), Member(L, Typed("integer")), Member(M, Ref(ToDef(K)))>>)),
              Keyword("required", Array(<<String(L)>>)), Defs(<<Member(K, Ref(ToDef(K)))>>)>>),
     Object(<<Keyword("properties", Object(<<Member(M, Ref(<<"k", "#", "/", "$defs", "/", "k">>))>>)),
              Keyword("$id", String(K)), Defs(<<Member(K, Typed("integer"))>>)>>),
     Object(<<Keyword("allOf", Array(<<Object(<<Type("array"), Keyword("items", Typed("integer"))>>)>>))>>) >>

MCDocuments == MCArrays \o MCObjects \o MCValues \o MCReferences \o MCOthers \o MCExpressions

-----------------------------------------------------------------------------

MCTypeWords ==
  [null |-> {<<"null">>}, boolean |-> {<<"true">>, <<"false">>}, string |-> {K, L},
   number |-> {<<"1">>, <<"0", ".", "5">>}, integer |-> {<<"1">>, <<"2">>}]

\* The texts of keys, brackets and values that a grammar may need.
MCTexts ==
  <<K, L, M, N, <<"k", "l">>, <<"~">>, <<"{">>, <<"}">>, <<"[">>, <<"]">>, <<":">>, <<",">>, <<"true">>, <<"false">>,
    <<"null">>, <<"0">>, <<"1">>, <<"2">>, <<"1", "0">>, <<"0", ".", "5">>, <<"5", "e", "-", "4">>, <<"1", "e", "3">>,
    <<"-", "1", "2", "0", "0">>, <<"1", ".", "2">>, <<"1", ".", "2", "e", "5">>, <<"[", "1", ",", "true", "]">>, <<"[", "true", ",", "1", "]">>,
    <<"{", "k", ":", "null", ",", "m", ":", "true", "}">>>>

MCWords == [k \in DOMAIN MCTexts |-> {MCTexts[k]}] \o <<{<<"true">>, <<"false">>}, {K, L}, MCTypeWords.number, MCTypeWords.integer>>

MCByte == ToSet(MCCharacter)

MCSchemaLimits == {[nodes |-> 12, edges |-> 2]}

MCLimits ==
  {[symbols |-> 60, productions |-> 60, rhs |-> 80], [symbols |-> 14, productions |-> 9, rhs |-> 14]}

-----------------------------------------------------------------------------
(* Documents whose assertions are silently lost.                           *)

\* A string of two characters at least, by reference; 1, as a number that is an integer.
MCAssertions ==
  << Object(<<Defs(<<Member(K, Typed("string"))>>),
              Keyword("anyOf", Array(<<Object(<<Keyword("$ref", String(ToDef(K))), Keyword("minLength", Two)>>),
                                       AllOf(<<Typed("number"), Typed("integer"), Const(One)>>)>>))>>) >>
=============================================================================
