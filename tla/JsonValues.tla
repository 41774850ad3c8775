----------------------------- MODULE JsonValues ------------------------------
(***************************************************************************)
(* JSON values as the parser leaves them, and the canonical text a finite  *)
(* schema stands for.  A string is a sequence of characters.  A number     *)
(* keeps the digits it was written with, as serde_json does with arbitrary *)
(* precision.  An object keeps its members in document order.              *)
(*                                                                         *)
(* A string's text is written without quotes: no string of a model uses a  *)
(* character that numbers, literals or brackets are written with.          *)
(***************************************************************************)
EXTENDS Integers, Sequences, FiniteSets, SequencesExt

CONSTANTS
  Character,    \* all characters, in the order of their bytes
  MaxExponent,  \* the largest i128: exponents and scales are of that type
  MaxPlaces     \* the largest usize: lengths of texts are of that type

ASSUME JsonAssumption ==
  /\ Character \in Seq(STRING)
  /\ {MaxExponent, MaxPlaces} \subseteq Nat

Value(is, of) == [is |-> is, of |-> of]
Member(key, value) == [key |-> key, value |-> value]

\* Sign, digits before and after the point, exponent.
Decimal(negative, integer, fraction, exponent) ==
  [negative |-> negative, integer |-> integer, fraction |-> fraction, exponent |-> exponent]

-----------------------------------------------------------------------------
(* Strings and objects. *)

Rank(c) == CHOOSE k \in DOMAIN Character : Character[k] = c

\* The order of strings by their bytes.
Precedes(s, t) ==
  \/ IsStrictPrefix(s, t)
  \/ \E k \in DOMAIN s \cap DOMAIN t :
       SubSeq(s, 1, k - 1) = SubSeq(t, 1, k - 1) /\ Rank(s[k]) < Rank(t[k])

Keys(v) == {v.of[k].key : k \in DOMAIN v.of}

At(v, key) == v.of[CHOOSE k \in DOMAIN v.of : v.of[k].key = key].value

\* Keywords are characters of their own.
Has(v, keyword) == \E k \in DOMAIN v.of : v.of[k].key = <<keyword>>
Get(v, keyword) == At(v, <<keyword>>)

\* scan_nested_keys: some object, however deep, has a key twice.
RECURSIVE RepeatsKey(_)
RepeatsKey(v) ==
  CASE v.is = "object" -> \/ Cardinality(Keys(v)) < Len(v.of)
                          \/ \E k \in DOMAIN v.of : RepeatsKey(v.of[k].value)
    [] v.is = "array" -> \E k \in DOMAIN v.of : RepeatsKey(v.of[k])
    [] OTHER -> FALSE

-----------------------------------------------------------------------------
(* Numbers. *)

Digit == <<"0", "1", "2", "3", "4", "5", "6", "7", "8", "9">>

RECURSIVE Written(_)
Written(n) ==
  CASE n < 0 -> <<"-">> \o Written(-n)
    [] n \in 0..9 -> <<Digit[n + 1]>>
    [] OTHER -> Append(Written(n \div 10), Digit[(n % 10) + 1])

Zeros(n) == [k \in 1..n |-> "0"]

IsZero(d) == ToSet(d.integer \o d.fraction) \subseteq {"0"}

\* decimal_parts: the significant digits, and the power of ten of the last one.
Parts(d) ==
  LET digits == d.integer \o d.fraction
      significant == {k \in DOMAIN digits : digits[k] # "0"}
      first == CHOOSE k \in significant : \A j \in significant : k <= j
      last == CHOOSE k \in significant : \A j \in significant : k >= j
  IN IF IsZero(d) THEN [negative |-> FALSE, digits |-> <<"0">>, scale |-> 0]
     ELSE [negative |-> d.negative, digits |-> SubSeq(digits, first, last),
           scale |-> d.exponent - Len(d.fraction) + Len(digits) - last]

InRange(n) == -MaxExponent - 1 <= n /\ n <= MaxExponent

\* Each sum of decimal_parts is checked.
HasParts(d) ==
  /\ InRange(d.exponent)
  /\ ~IsZero(d) => InRange(d.exponent - Len(d.fraction)) /\ InRange(Parts(d).scale)

\* number_is_integer
IsInteger(d) == HasParts(d) /\ Parts(d).scale >= 0

Sign(p) == IF p.negative THEN <<"-">> ELSE << >>

Scientific(p) ==
  LET exponent == p.scale + Len(p.digits) - 1
  IN Sign(p) \o <<p.digits[1]>>
       \o (IF Len(p.digits) > 1 THEN <<".">> \o Tail(p.digits) ELSE << >>)
       \o (IF exponent # 0 THEN <<"e">> \o Written(exponent) ELSE << >>)

\* render_plain_number
Plain(p) ==
  LET point == Len(p.digits) + p.scale
  IN Sign(p) \o
     (IF p.scale >= 0 THEN p.digits \o Zeros(p.scale)
      ELSE IF point > 0
      THEN SubSeq(p.digits, 1, point) \o <<".">> \o SubSeq(p.digits, point + 1, Len(p.digits))
      ELSE <<"0", ".">> \o Zeros(-point) \o p.digits)

\* plain_number_length
PlainLength(p) ==
  Len(Sign(p)) + (IF p.scale >= 0 THEN Len(p.digits) + p.scale
                  ELSE IF -p.scale < Len(p.digits) THEN Len(p.digits) + 1
                  ELSE 2 - p.scale)

\* canonical_number succeeds.
IsRenderable(d) ==
  /\ HasParts(d)
  /\ ~IsZero(d) => /\ InRange(Parts(d).scale + Len(Parts(d).digits) - 1)
                   /\ PlainLength(Parts(d)) <= MaxPlaces

\* canonical_number: the shorter way to write it, the plain one of two alike.
NumberText(d) ==
  LET p == Parts(d)
  IN IF PlainLength(p) > Len(Scientific(p)) THEN Scientific(p) ELSE Plain(p)

-----------------------------------------------------------------------------
(* Texts of values. *)

Separated(texts) ==
  FoldLeft(LAMBDA s, k : s \o (IF k = 1 THEN << >> ELSE <<",">>) \o texts[k],
           << >>, [k \in DOMAIN texts |-> k])

Sorted(members) == SortSeq(members, LAMBDA m, n : Precedes(m.key, n.key))

\* write_canonical
RECURSIVE Canonical(_)
Canonical(v) ==
  CASE v.is = "null" -> <<"null">>
    [] v.is = "boolean" -> <<IF v.of THEN "true" ELSE "false">>
    [] v.is = "number" -> NumberText(v.of)
    [] v.is = "string" -> v.of
    [] v.is = "array" -> <<"[">> \o Separated([k \in DOMAIN v.of |-> Canonical(v.of[k])]) \o <<"]">>
    [] v.is = "object" ->
         LET members == Sorted(v.of)
         IN <<"{">> \o Separated([k \in DOMAIN members |->
                                    members[k].key \o <<":">> \o Canonical(members[k].value)]) \o <<"}">>

\* canonical_value fails on a number it cannot render.
RECURSIVE HasCanonical(_)
HasCanonical(v) ==
  CASE v.is = "number" -> IsRenderable(v.of)
    [] v.is = "array" -> \A k \in DOMAIN v.of : HasCanonical(v.of[k])
    [] v.is = "object" -> \A k \in DOMAIN v.of : HasCanonical(v.of[k].value)
    [] OTHER -> TRUE

-----------------------------------------------------------------------------
(* For reference: when two values are the same, by arithmetic. *)

Numeral(digits) ==
  LET upTo[k \in 0..Len(digits)] ==
        IF k = 0 THEN 0 ELSE 10 * upTo[k - 1] + (CHOOSE n \in 0..9 : Digit[n + 1] = digits[k])
  IN upTo[Len(digits)]

SameNumber(a, b) ==
  LET low(d) == d.exponent - Len(d.fraction)
      base == IF low(a) < low(b) THEN low(a) ELSE low(b)
      over(d) == Numeral(d.integer \o d.fraction) * 10 ^ (low(d) - base)
  IN IF IsZero(a) \/ IsZero(b) THEN IsZero(a) /\ IsZero(b)
     ELSE a.negative = b.negative /\ over(a) = over(b)

IsWhole(d) == d.exponent >= Len(d.fraction)
                \/ Numeral(d.integer \o d.fraction) % 10 ^ (Len(d.fraction) - d.exponent) = 0

RECURSIVE Same(_, _)
Same(v, w) ==
  /\ v.is = w.is
  /\ CASE v.is = "null" -> TRUE
       [] v.is = "number" -> SameNumber(v.of, w.of)
       [] v.is = "array" -> Len(v.of) = Len(w.of) /\ \A k \in DOMAIN v.of : Same(v.of[k], w.of[k])
       [] v.is = "object" -> Keys(v) = Keys(w) /\ \A key \in Keys(v) : Same(At(v, key), At(w, key))
       [] OTHER -> v.of = w.of
=============================================================================
