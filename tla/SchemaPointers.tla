--------------------------- MODULE SchemaPointers ----------------------------
(***************************************************************************)
(* JSON pointers as sequences of characters: how the locations of a schema *)
(* document are named, and how the text of a $ref is read.  A keyword is   *)
(* one character.                                                          *)
(***************************************************************************)
EXTENDS JsonValues

CONSTANTS
  ByteOf   \* the byte of each character that a percent escape may stand for

Root == << >>

-----------------------------------------------------------------------------

\* escape_pointer_segment
Escaped(segment) ==
  FlattenSeq([k \in DOMAIN segment |->
                CASE segment[k] = "~" -> <<"~", "0">>
                  [] segment[k] = "/" -> <<"~", "1">>
                  [] OTHER -> <<segment[k]>>])

\* pointer_join
Join(pointer, segment) == pointer \o <<"/">> \o Escaped(segment)

\* The pointer of an entry of an array: its index in decimal.
Index(k) == Written(k - 1)

-----------------------------------------------------------------------------

HexDigits == "0" :> 0 @@ "1" :> 1 @@ "2" :> 2 @@ "3" :> 3 @@ "4" :> 4 @@ "5" :> 5 @@ "6" :> 6 @@ "7" :> 7
             @@ "8" :> 8 @@ "9" :> 9 @@ "A" :> 10 @@ "B" :> 11 @@ "C" :> 12 @@ "D" :> 13 @@ "E" :> 14
             @@ "F" :> 15 @@ "a" :> 10 @@ "b" :> 11 @@ "c" :> 12 @@ "d" :> 13 @@ "e" :> 14 @@ "f" :> 15

\* What reading has come to: the output, the part of an escape read, and whether
\* it is still good.
Reading == [out |-> << >>, escape |-> << >>, good |-> TRUE]

Finished(r) == [r EXCEPT !.good = @ /\ r.escape = << >>]

\* A byte that no character has is taken to be no UTF-8.
OfByte(r, byte) ==
  IF \E c \in DOMAIN ByteOf : ByteOf[c] = byte
  THEN [r EXCEPT !.out = Append(@, CHOOSE c \in DOMAIN ByteOf : ByteOf[c] = byte), !.escape = << >>]
  ELSE [r EXCEPT !.good = FALSE, !.escape = << >>]

\* percent_decode
PercentDecoded(text) ==
  LET read(r, c) ==
        CASE ~r.good -> r
          [] r.escape = << >> /\ c # "%" -> [r EXCEPT !.out = Append(@, c)]
          [] r.escape = << >> /\ c = "%" -> [r EXCEPT !.escape = <<c>>]
          [] r.escape # << >> /\ c \notin DOMAIN HexDigits -> [r EXCEPT !.good = FALSE]
          [] Len(r.escape) = 1 /\ c \in DOMAIN HexDigits -> [r EXCEPT !.escape = Append(@, c)]
          [] OTHER -> OfByte(r, 16 * HexDigits[r.escape[2]] + HexDigits[c])
  IN Finished(FoldLeft(read, Reading, text))

\* Mutant of Unescaped: the tilde of ~0 is read again, with what follows it.
UnescapedTwice(segment) ==
  LET read(r, c) ==
        CASE ~r.good -> r
          [] r.escape = << >> /\ c # "~" -> [r EXCEPT !.out = Append(@, c)]
          [] r.escape = << >> /\ c = "~" -> [r EXCEPT !.escape = <<c>>]
          [] c = "0" -> r
          [] c = "1" -> [r EXCEPT !.out = Append(@, "/"), !.escape = << >>]
          [] OTHER -> [r EXCEPT !.out = @ \o <<"~", c>>, !.escape = << >>]
  IN FoldLeft(read, Reading, segment)

\* decode_pointer_segment
Unescaped(segment) ==
  LET read(r, c) ==
        CASE ~r.good -> r
          [] r.escape = << >> /\ c # "~" -> [r EXCEPT !.out = Append(@, c)]
          [] r.escape = << >> /\ c = "~" -> [r EXCEPT !.escape = <<c>>]
          [] c = "0" -> [r EXCEPT !.out = Append(@, "~"), !.escape = << >>]
          [] c = "1" -> [r EXCEPT !.out = Append(@, "/"), !.escape = << >>]
          [] OTHER -> [r EXCEPT !.good = FALSE]
  IN Finished(FoldLeft(read, Reading, segment))

\* The parts of a text between its slashes.
Segments(text) ==
  FoldLeft(LAMBDA parts, c : IF c = "/" THEN Append(parts, << >>)
                             ELSE Append(Front(parts), Append(Last(parts), c)),
           << << >> >>, text)

\* resolve_local_pointer: the pointer a reference is to, or what is wrong.
Resolved(reference) ==
  LET decoded == PercentDecoded(Tail(reference))
      segments == [k \in DOMAIN Segments(Tail(decoded.out)) |-> Unescaped(Segments(Tail(decoded.out))[k])]
      is(error, pointer) == [error |-> error, pointer |-> pointer]
  IN IF reference = << >> \/ Head(reference) # "#" THEN is("remote", Root)
     ELSE IF ~decoded.good THEN is("pointer", Root)
     ELSE IF decoded.out = << >> THEN is("none", Root)
     ELSE IF Head(decoded.out) # "/" \/ \E k \in DOMAIN segments : ~segments[k].good THEN is("pointer", Root)
     ELSE is("none", FoldLeft(LAMBDA p, s : Join(p, s.out), Root, segments))

-----------------------------------------------------------------------------
(* For reference: the ways to write a reference to a place, which is the   *)
(* sequence of the names that lead to it.                                  *)

PointerTo(place) == FoldLeft(Join, Root, place)

Spellings(c) ==
  {<<c>>} \cup {<<"%", h, l>> : <<h, l>> \in
                  {p \in (DOMAIN HexDigits) \X (DOMAIN HexDigits) :
                     c \in DOMAIN ByteOf /\ ByteOf[c] = 16 * HexDigits[p[1]] + HexDigits[p[2]]}}

\* A reference spells a place if the pointer to it, some characters of which are
\* escaped, is what follows the #.  A percent sign has to be.
Spells(reference, place) ==
  LET pointer == PointerTo(place)
      longer(S, c) == {s \o w : s \in S, w \in Spellings(c) \ {<<"%">>}}
  IN reference \in FoldLeft(longer, {<<"#">>}, pointer)
=============================================================================
