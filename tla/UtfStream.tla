----------------------------- MODULE UtfStream ------------------------------
(***************************************************************************)
(* A stream converts its text with a facet of locale.cpp: input arrives     *)
(* piece by piece, and each call of do_in or do_out converts what has       *)
(* arrived into a buffer of some size and says how far it got.  The facets  *)
(* keep no state between calls, so a character that is not complete or does *)
(* not fit must be left for the next call.  The header modes act in every   *)
(* call; a user of them converts in one call.                               *)
(***************************************************************************)
EXTENDS Integers, Sequences, SequencesExt, FiniteSets

CONSTANTS Kinds,        \* the conversions to look at
          HeaderModes,  \* values of consume_header, or generate_header
          CodePoints,   \* code points that inputs are made of
          Malformed(_), \* malformed items of each encoding
          MaxItems,     \* bound: items of one input
          Rooms,        \* sizes of the output buffer
          Maxcodes      \* values of Maxcode

VARIABLES kind, header, maxcode,
          items,        \* the input: encoded code points and malformed items
          input,        \* and the units it consists of
          avail,        \* how many units of it have arrived
          pos,          \* how many have been converted
          out,          \* what has been written
          res           \* the result of the last call
vars == <<kind, header, maxcode, items, input, avail, pos, out, res>>

\* The encodings each conversion reads and writes.
Source == [utf8_to_utf16 |-> "utf8", utf8_to_utf16_wide |-> "utf8", utf8_to_ucs4 |-> "utf8",
           utf8_to_ucs2 |-> "utf8", utf16_to_utf8 |-> "utf16", utf16_wide_to_utf8 |-> "utf16",
           ucs4_to_utf8 |-> "ucs4", ucs2_to_utf8 |-> "ucs2",
           ucs4_to_utf16be |-> "ucs4", ucs4_to_utf16le |-> "ucs4",
           utf16be_to_ucs4 |-> "utf16be", utf16le_to_ucs4 |-> "utf16le",
           ucs2_to_utf16be |-> "ucs2", ucs2_to_utf16le |-> "ucs2",
           utf16be_to_ucs2 |-> "utf16be", utf16le_to_ucs2 |-> "utf16le"]
Target == [utf8_to_utf16 |-> "utf16", utf8_to_utf16_wide |-> "utf16", utf8_to_ucs4 |-> "ucs4",
           utf8_to_ucs2 |-> "ucs2", utf16_to_utf8 |-> "utf8", utf16_wide_to_utf8 |-> "utf8",
           ucs4_to_utf8 |-> "utf8", ucs2_to_utf8 |-> "utf8",
           ucs4_to_utf16be |-> "utf16be", ucs4_to_utf16le |-> "utf16le",
           utf16be_to_ucs4 |-> "ucs4", utf16le_to_ucs4 |-> "ucs4",
           ucs2_to_utf16be |-> "utf16be", ucs2_to_utf16le |-> "utf16le",
           utf16be_to_ucs2 |-> "ucs2", utf16le_to_ucs2 |-> "ucs2"]
Decodes(k) == Source[k] \in {"utf8", "utf16be", "utf16le"}
TwoBytes(k) == Source[k] \in {"utf16be", "utf16le"}

-----------------------------------------------------------------------------
(***************************************************************************)
(* The conversions between UTF-8, UTF-16 and UTF-32.  Each is written as    *)
(* what one iteration of its loop does with the units s that are left, the  *)
(* room left in the output and max, the facet's Maxcode.                    *)
(***************************************************************************)
(* One iteration: a result, the units consumed, the units written. *)
Ok(n, units) == [r |-> "ok", n |-> n, out |-> units]
Partial == [r |-> "partial", n |-> 0, out |-> <<>>]
Error == [r |-> "error", n |-> 0, out |-> <<>>]

IsCont(c) == c \div 64 = 2                                 \* (c & 0xC0) == 0x80
IsHigh(w) == w \div 1024 = 54                              \* 0xD800 .. 0xDBFF
IsLow(w)  == w \div 1024 = 55                              \* 0xDC00 .. 0xDFFF
IsSurrogate(w) == w \div 2048 = 27                         \* (w & 0xF800) == 0xD800

\* Mutant: any continuation byte may come second.
Second3Lax(c1, c2) == IsCont(c2)

\* The second byte of three and of four.
Second3(c1, c2) == CASE c1 = 224 -> c2 \div 32 = 5         \* 0xE0: A0 .. BF
                     [] c1 = 237 -> c2 \div 32 = 4         \* 0xED: 80 .. 9F
                     [] OTHER    -> IsCont(c2)
Second4(c1, c2) == CASE c1 = 240 -> c2 \in 144 .. 191      \* 0xF0: 90 .. BF
                     [] c1 = 244 -> c2 \div 16 = 8         \* 0xF4: 80 .. 8F
                     [] OTHER    -> IsCont(c2)

\* The number of bytes the first byte announces; 0 for a byte that is no first.
Announced(c1) == CASE c1 < 128 -> 1
                   [] c1 \in 194 .. 223 -> 2
                   [] c1 \in 224 .. 239 -> 3
                   [] c1 \in 240 .. 244 -> 4
                   [] OTHER -> 0

WellFormed(s, n) == CASE n = 1 -> TRUE
                      [] n = 2 -> IsCont(s[2])
                      [] n = 3 -> Second3(s[1], s[2]) /\ IsCont(s[3])
                      [] n = 4 -> Second4(s[1], s[2]) /\ IsCont(s[3]) /\ IsCont(s[4])

Value(s, n) == CASE n = 1 -> s[1]
                 [] n = 2 -> (s[1] % 32) * 64 + (s[2] % 64)
                 [] n = 3 -> (s[1] % 16) * 4096 + (s[2] % 64) * 64 + (s[3] % 64)
                 [] n = 4 -> (s[1] % 8) * 262144 + (s[2] % 64) * 4096 + (s[3] % 64) * 64 + (s[4] % 64)

\* Mutant: one byte too many is asked for.
CheckedPast(s) == LET n == Announced(s[1])
                  IN  CASE n = 0 -> "error"
                        [] n + 1 > Len(s) /\ n > 1 -> "partial"
                        [] OTHER -> IF WellFormed(s, n) THEN "ok" ELSE "error"

\* The checks that the UTF-8 decoders share, in their order.
Checked(s) == LET n == Announced(s[1])
              IN  CASE n = 0 -> "error"
                    [] n > Len(s) -> "partial"
                    [] OTHER -> IF WellFormed(s, n) THEN "ok" ELSE "error"

\* The surrogates of a character of four bytes, from its bytes.
Surrogates(s) == << 55296 + (((s[1] % 8) * 4 + (s[2] % 64) \div 16) - 1) * 64 + (s[2] % 16) * 4 + (s[3] % 64) \div 16,
                    56320 + (s[3] % 16) * 64 + (s[4] % 64) >>

utf8_to_utf16(s, room, max) ==
  LET n == Announced(s[1])
  IN  IF s[1] > max THEN Error
      ELSE IF Checked(s) = "error" THEN Error
      ELSE IF Checked(s) = "partial" \/ (n = 4 /\ room < 2) THEN Partial
      ELSE IF Value(s, n) > max THEN Error
      ELSE Ok(n, IF n = 4 THEN Surrogates(s) ELSE <<Value(s, n)>>)

\* The overload that keeps UTF-16 units in 32 bits.
utf8_to_utf16_wide(s, room, max) == utf8_to_utf16(s, room, max)

utf8_to_ucs4(s, room, max) ==
  LET n == Announced(s[1])
  IN  IF Checked(s) = "error" THEN Error
      ELSE IF Checked(s) = "partial" THEN Partial
      ELSE IF Value(s, n) > max THEN Error
      ELSE Ok(n, <<Value(s, n)>>)

utf8_to_ucs2(s, room, max) ==
  IF Announced(s[1]) = 4 THEN Error ELSE utf8_to_ucs4(s, room, max)

\* A code point below 0x10000 in one to three bytes.
Bytes123(w) == CASE w < 128  -> <<w>>
                 [] w < 2048 -> <<192 + w \div 64, 128 + (w % 64)>>
                 [] OTHER    -> <<224 + w \div 4096, 128 + ((w \div 64) % 64), 128 + (w % 64)>>

Written(n, bytes, room) == IF room < Len(bytes) THEN Partial ELSE Ok(n, bytes)

utf16_to_utf8(s, room, max) ==
  LET w1 == s[1]
      w2 == s[2]
      z == ((w1 \div 64) % 16) + 1
  IN  CASE w1 > max -> Error
        [] w1 <= max /\ IsLow(w1) -> Error
        [] w1 <= max /\ ~IsSurrogate(w1) -> Written(1, Bytes123(w1), room)
        [] w1 <= max /\ IsHigh(w1) ->
             IF Len(s) < 2 THEN Partial
             ELSE IF ~IsLow(w2) THEN Error
             ELSE IF room < 4 THEN Partial
             ELSE IF z * 65536 + (w1 % 64) * 1024 + (w2 % 1024) > max THEN Error
             ELSE Ok(2, <<240 + z \div 4,
                          128 + (z % 4) * 16 + (w1 % 64) \div 4,
                          128 + (w1 % 4) * 16 + (w2 % 1024) \div 64,
                          128 + (w2 % 64)>>)

\* The overload that reads 32-bit units keeps their low 16 bits.
utf16_wide_to_utf8(s, room, max) == utf16_to_utf8([i \in DOMAIN s |-> (s[i] % 65536)], room, max)

ucs4_to_utf8(s, room, max) ==
  LET w == s[1]
  IN  IF IsSurrogate(w) \/ w > max THEN Error
      ELSE Written(1, IF w < 65536 THEN Bytes123(w)
                      ELSE <<240 + w \div 262144, 128 + ((w \div 4096) % 64),
                             128 + ((w \div 64) % 64), 128 + (w % 64)>>, room)

ucs2_to_utf8(s, room, max) ==
  IF IsSurrogate(s[1]) \/ s[1] > max THEN Error ELSE Written(1, Bytes123(s[1]), room)

\* Two bytes of a 16-bit unit, big-endian or little-endian.
Two(order, w) == IF order = "be" THEN <<w \div 256, (w % 256)>> ELSE <<(w % 256), w \div 256>>
From(order, s, i) == IF order = "be" THEN s[i] * 256 + s[i + 1] ELSE s[i + 1] * 256 + s[i]

\* The surrogates of a code point, and the code point of two surrogates.
HighOf(w) == 55296 + (w \div 65536 - 1) * 64 + ((w \div 1024) % 64)
LowOf(w) == 56320 + (w % 1024)
Pair(c1, c2) == (((c1 \div 64) % 16) + 1) * 65536 + (c1 % 64) * 1024 + (c2 % 1024)

ucs4_to_utf16(s, room, max, order) ==
  LET w == s[1]
  IN  IF IsSurrogate(w) \/ w > max THEN Error
      ELSE Written(1, IF w < 65536 THEN Two(order, w) ELSE Two(order, HighOf(w)) \o Two(order, LowOf(w)), room)

utf16_to_ucs4(s, room, max, order) ==
  LET c1 == From(order, s, 1)
      c2 == From(order, s, 3)
  IN  IF IsLow(c1) THEN Error
      ELSE IF ~IsHigh(c1) THEN (IF c1 > max THEN Error ELSE Ok(2, <<c1>>))
      ELSE IF Len(s) < 4 THEN Partial
      ELSE IF ~IsLow(c2) \/ Pair(c1, c2) > max THEN Error
      ELSE Ok(4, <<Pair(c1, c2)>>)

ucs2_to_utf16(s, room, max, order) ==
  IF IsSurrogate(s[1]) \/ s[1] > max THEN Error ELSE Written(1, Two(order, s[1]), room)

utf16_to_ucs2(s, room, max, order) ==
  IF IsSurrogate(From(order, s, 1)) \/ From(order, s, 1) > max THEN Error ELSE Ok(2, <<From(order, s, 1)>>)

ucs4_to_utf16be(s, room, max) == ucs4_to_utf16(s, room, max, "be")
ucs4_to_utf16le(s, room, max) == ucs4_to_utf16(s, room, max, "le")
utf16be_to_ucs4(s, room, max) == utf16_to_ucs4(s, room, max, "be")
utf16le_to_ucs4(s, room, max) == utf16_to_ucs4(s, room, max, "le")
ucs2_to_utf16be(s, room, max) == ucs2_to_utf16(s, room, max, "be")
ucs2_to_utf16le(s, room, max) == ucs2_to_utf16(s, room, max, "le")
utf16be_to_ucs2(s, room, max) == utf16_to_ucs2(s, room, max, "be")
utf16le_to_ucs2(s, room, max) == utf16_to_ucs2(s, room, max, "le")

-----------------------------------------------------------------------------
(***************************************************************************)
(* The length functions: how many units of input make at most mx units of   *)
(* output.  One iteration: the units consumed, 0 to stop, and those counted.*)
(***************************************************************************)
Stop == [n |-> 0, units |-> 1]

utf8_to_utf16_length(s, mx, max) ==
  LET n == Announced(s[1])
  IN  IF \/ s[1] > max
         \/ n = 4 /\ mx < 2
         \/ Checked(s) # "ok"
         \/ Value(s, n) > max
        THEN Stop
        ELSE [n |-> n, units |-> IF n = 4 THEN 2 ELSE 1]

utf8_to_ucs4_length(s, mx, max) ==
  LET n == Announced(s[1])
  IN  IF Checked(s) # "ok" \/ Value(s, n) > max THEN Stop ELSE [n |-> n, units |-> 1]

\* Mutant: the length counts what the conversion refuses.
utf8_to_ucs2_length_any(s, mx, max) == utf8_to_ucs4_length(s, mx, max)

utf8_to_ucs2_length(s, mx, max) ==
  IF Announced(s[1]) = 4 THEN Stop ELSE utf8_to_ucs4_length(s, mx, max)

utf16_to_ucs4_length(s, mx, max, order) ==
  LET c1 == From(order, s, 1)
      c2 == From(order, s, 3)
  IN  IF IsLow(c1) THEN Stop
      ELSE IF ~IsHigh(c1) THEN (IF c1 > max THEN Stop ELSE [n |-> 2, units |-> 1])
      ELSE IF Len(s) < 4 THEN Stop
      ELSE IF ~IsLow(c2) \/ Pair(c1, c2) > max THEN Stop
      ELSE [n |-> 4, units |-> 1]

utf16_to_ucs2_length(s, mx, max, order) ==
  IF IsSurrogate(From(order, s, 1)) \/ From(order, s, 1) > max THEN Stop ELSE [n |-> 2, units |-> 1]

utf16be_to_ucs4_length(s, mx, max) == utf16_to_ucs4_length(s, mx, max, "be")
utf16le_to_ucs4_length(s, mx, max) == utf16_to_ucs4_length(s, mx, max, "le")
utf16be_to_ucs2_length(s, mx, max) == utf16_to_ucs2_length(s, mx, max, "be")
utf16le_to_ucs2_length(s, mx, max) == utf16_to_ucs2_length(s, mx, max, "le")

-----------------------------------------------------------------------------
(* One iteration of a conversion and of its length function. *)
Iteration(k, s, room) ==
  CASE k = "utf8_to_utf16"      -> utf8_to_utf16(s, room, maxcode)
    [] k = "utf8_to_utf16_wide" -> utf8_to_utf16_wide(s, room, maxcode)
    [] k = "utf8_to_ucs4"       -> utf8_to_ucs4(s, room, maxcode)
    [] k = "utf8_to_ucs2"       -> utf8_to_ucs2(s, room, maxcode)
    [] k = "utf16_to_utf8"      -> utf16_to_utf8(s, room, maxcode)
    [] k = "utf16_wide_to_utf8" -> utf16_wide_to_utf8(s, room, maxcode)
    [] k = "ucs4_to_utf8"       -> ucs4_to_utf8(s, room, maxcode)
    [] k = "ucs2_to_utf8"       -> ucs2_to_utf8(s, room, maxcode)
    [] k = "ucs4_to_utf16be"    -> ucs4_to_utf16be(s, room, maxcode)
    [] k = "ucs4_to_utf16le"    -> ucs4_to_utf16le(s, room, maxcode)
    [] k = "utf16be_to_ucs4"    -> utf16be_to_ucs4(s, room, maxcode)
    [] k = "utf16le_to_ucs4"    -> utf16le_to_ucs4(s, room, maxcode)
    [] k = "ucs2_to_utf16be"    -> ucs2_to_utf16be(s, room, maxcode)
    [] k = "ucs2_to_utf16le"    -> ucs2_to_utf16le(s, room, maxcode)
    [] k = "utf16be_to_ucs2"    -> utf16be_to_ucs2(s, room, maxcode)
    [] k = "utf16le_to_ucs2"    -> utf16le_to_ucs2(s, room, maxcode)

LengthIteration(k, s, mx) ==
  CASE k \in {"utf8_to_utf16", "utf8_to_utf16_wide"} -> utf8_to_utf16_length(s, mx, maxcode)
    [] k = "utf8_to_ucs4"    -> utf8_to_ucs4_length(s, mx, maxcode)
    [] k = "utf8_to_ucs2"    -> utf8_to_ucs2_length(s, mx, maxcode)
    [] k = "utf16be_to_ucs4" -> utf16be_to_ucs4_length(s, mx, maxcode)
    [] k = "utf16le_to_ucs4" -> utf16le_to_ucs4_length(s, mx, maxcode)
    [] k = "utf16be_to_ucs2" -> utf16be_to_ucs2_length(s, mx, maxcode)
    [] k = "utf16le_to_ucs2" -> utf16le_to_ucs2_length(s, mx, maxcode)

HeaderOf(encoding) == CASE encoding = "utf8"    -> <<239, 187, 191>>
                        [] encoding = "utf16be" -> <<254, 255>>
                        [] encoding = "utf16le" -> <<255, 254>>
                        [] OTHER -> <<>>

\* The condition of the loops.
More(k, s, room) == /\ s # <<>>
                    /\ Decodes(k) => room > 0
                    /\ TwoBytes(k) => Len(s) > 1

Rest(s, n) == SubSeq(s, n + 1, Len(s))

\* The loop, from the units s: the result, the units consumed, the output.
RECURSIVE Loop(_, _, _, _)
Loop(k, s, room, done) ==
  IF ~More(k, s, room)
    THEN [done EXCEPT !.r = IF Decodes(k) /\ s # <<>> THEN "partial" ELSE "ok"]
    ELSE LET i == Iteration(k, s, room)
         IN  IF i.r # "ok" THEN [done EXCEPT !.r = i.r]
             ELSE Loop(k, Rest(s, i.n), room - Len(i.out),
                       [done EXCEPT !.n = @ + i.n, !.out = @ \o i.out])

RECURSIVE LengthLoop(_, _, _, _)
LengthLoop(k, s, mx, n) ==
  IF ~More(k, s, mx) THEN n
  ELSE LET i == LengthIteration(k, s, mx)
       IN  IF i.n = 0 THEN n ELSE LengthLoop(k, Rest(s, i.n), mx - i.units, n + i.n)

\* consume_header skips the header, generate_header writes it.
Skipped(k, s) == IF header /\ Decodes(k) /\ IsPrefix(HeaderOf(Source[k]), s)
                   THEN Len(HeaderOf(Source[k])) ELSE 0
Generated(k) == IF header /\ ~Decodes(k) THEN HeaderOf(Target[k]) ELSE <<>>

Convert(k, s, room) ==
  IF room < Len(Generated(k)) THEN Partial
  ELSE Loop(k, Rest(s, Skipped(k, s)), room - Len(Generated(k)),
            Ok(Skipped(k, s), Generated(k)))

LengthOf(k, s, mx) == LengthLoop(k, Rest(s, Skipped(k, s)), mx, Skipped(k, s))

-----------------------------------------------------------------------------
(***************************************************************************)
(* The reference: the forms of a code point, by the definition of each      *)
(* encoding form, and which code points an encoding has.                    *)
(***************************************************************************)
Form16(cp) == IF cp < 65536 THEN <<cp>>
              ELSE <<55296 + (cp - 65536) \div 1024, 56320 + ((cp - 65536) % 1024)>>
Form8(cp) ==
  LET n == CASE cp < 128 -> 1 [] cp < 2048 -> 2 [] cp < 65536 -> 3 [] OTHER -> 4
      lead == <<0, 192, 224, 240>>
      digit(i) == (cp \div 64 ^ (n - i)) % 64
  IN  [i \in 1 .. n |-> IF n = 1 THEN cp
                        ELSE IF i = 1 THEN lead[n] + cp \div 64 ^ (n - 1)
                        ELSE 128 + digit(i)]
Form(encoding, cp) ==
  CASE encoding = "utf8" -> Form8(cp)
    [] encoding = "utf16" -> Form16(cp)
    [] encoding = "utf16be" -> FlattenSeq([i \in DOMAIN Form16(cp) |-> <<Form16(cp)[i] \div 256, (Form16(cp)[i] % 256)>>])
    [] encoding = "utf16le" -> FlattenSeq([i \in DOMAIN Form16(cp) |-> <<(Form16(cp)[i] % 256), Form16(cp)[i] \div 256>>])
    [] OTHER -> <<cp>>
Has(encoding, cp) == encoding = "ucs2" => cp < 65536

\* The items of inputs: a code point of the source, or a malformed item.
Encoded(k) == {[src |-> Form(Source[k], cp), cp |-> cp] : cp \in {c \in CodePoints : Has(Source[k], c)}}
Items(k) == Encoded(k) \cup {[src |-> m, cp |-> -1] : m \in Malformed(Source[k])}

Units(its) == FlattenSeq([i \in DOMAIN its |-> its[i].src])
HeaderUnits == IF header /\ Decodes(kind) THEN HeaderOf(Source[kind]) ELSE <<>>

Convertible(it) == it.cp >= 0 /\ it.cp <= maxcode /\ Has(Target[kind], it.cp)

\* How many of the first items can be converted, and what they become.
Good == CHOOSE n \in 0 .. Len(items) :
          /\ \A i \in 1 .. n : Convertible(items[i])
          /\ n < Len(items) => ~Convertible(items[n + 1])
Converted(n) == FlattenSeq([i \in 1 .. n |-> Form(Target[kind], items[i].cp)])

-----------------------------------------------------------------------------
Init == /\ kind \in Kinds
        /\ header \in HeaderModes
        /\ maxcode \in Maxcodes
        /\ \E first \in BoundedSeq(Encoded(kind), MaxItems - 1), last \in Items(kind) :
             items = Append(first, last)
        /\ input = HeaderUnits \o Units(items)
        /\ avail = 0
        /\ pos = 0
        /\ out = <<>>
        /\ res = "none"

Arrive == /\ avail < Len(input)
          /\ avail' = IF header THEN Len(input) ELSE avail + 1
          /\ UNCHANGED <<kind, header, maxcode, items, input, pos, out, res>>

\* do_in or do_out with room units of output.
Call(room) ==
  LET c == Convert(kind, SubSeq(input, pos + 1, avail), room)
  IN  /\ pos < avail
      /\ res # "error"
      /\ header => out = <<>>
      /\ pos' = pos + c.n
      /\ out' = out \o c.out
      /\ res' = c.r
      /\ UNCHANGED <<kind, header, maxcode, items, input, avail>>

Next == Arrive \/ \E room \in Rooms : Call(room)

(***************************************************************************)
(* The input goes on arriving, and the stream calls again and again with    *)
(* room for the longest character, max_length(), and a header.              *)
(***************************************************************************)
LargestRoom == CHOOSE room \in Rooms : \A r \in Rooms : r <= room
Spec == Init /\ [][Next]_vars /\ WF_vars(Arrive) /\ WF_vars(Call(LargestRoom))

-----------------------------------------------------------------------------
(***************************************************************************)
(* However the input is cut and whatever the buffers: what has been written *)
(* is the conversion of the characters consumed, whole characters only; an  *)
(* error stops at the first item that cannot be converted and at no other.  *)
(***************************************************************************)
Faithful ==
  LET h == Len(HeaderUnits)
  IN  /\ \/ pos = 0 /\ out = <<>>
         \/ \E n \in 0 .. Good : /\ pos = h + Len(Units(SubSeq(items, 1, n)))
                                 /\ out = Generated(kind) \o Converted(n)
      /\ res = "error" => /\ Good < Len(items)
                          /\ pos = h + Len(Units(SubSeq(items, 1, Good)))

(***************************************************************************)
(* length(), whose loop is written apart from that of do_in, consumes       *)
(* exactly what do_in consumes when it has that much room.                  *)
(***************************************************************************)
LengthAgrees ==
  Decodes(kind) =>
    \A room \in Rooms : LET s == SubSeq(input, pos + 1, avail)
                        IN  LengthOf(kind, s, room) = Convert(kind, s, room).n

(***************************************************************************)
(* The stream gets through: in the end everything is converted, or the      *)
(* conversion has stopped with an error at an item that cannot be.          *)
(***************************************************************************)
Through == pos = Len(input) \/ res = "error" \/ (header /\ out # <<>>)
GetsThrough == <>Through
=============================================================================
