------------------------------ MODULE UtfChar ------------------------------
(***************************************************************************)
(* One character of a text: decoding it from UTF-8 and UTF-16, telling     *)
(* what is safe to write, and encoding it in UTF-8 or as an escape.        *)
(*                                                                         *)
(* A text is a sequence of numbers: bytes, 16 bit units or code points.    *)
(***************************************************************************)
EXTENDS Integers, Sequences, FiniteSetsExt

ReplacementChar    == 65533
MaxCodePoint       == 1114111
SurrogateStart     == 55296
MaxHighSurrogate   == 56319
SurrogateEnd       == 57343

Bytes == 0 .. 255
Units == 0 .. 65535

\* valid_utf_code_point()
ValidCodePoint(cp) == cp < SurrogateStart \/ (cp > SurrogateEnd /\ cp <= MaxCodePoint)
CodePoints         == {cp \in Nat : ValidCodePoint(cp)}

\* The ranges of sparse_lut and sparse_lut_b: the first that is safe and the
\* first that is not.
SafeRanges ==
  {<<32, 127>>, <<161, 688>>, <<880, 1792>>, <<2304, 2432>>, <<8352, 8384>>, <<12289, 12350>>,
   <<12353, 12544>>, <<13056, 42183>>, <<44032, 55204>>, <<127744, 127995>>, <<128000, 128728>>}

\* A bug: the first code point behind a range is taken for one of it.
SafeToTheEnd(cp) == \E r \in SafeRanges : r[1] <= cp /\ cp <= r[2]

\* safe_utf_code_point()
Safe(cp) == \E r \in SafeRanges : r[1] <= cp /\ cp < r[2]

-----------------------------------------------------------------------------
\* The bytes a lead byte announces, itself included; 0 for what is none.
LeadLength(b) ==
  CASE b < 128       -> 1
    [] b \div 32 = 6 -> 2
    [] b \div 16 = 14 -> 3
    [] b \div 8 = 30 -> 4
    [] OTHER         -> 0

Continues(b) == b \div 64 = 2

\* The bits of the data in a sequence of n bytes.
Value(in, n) ==
  CASE n = 2 -> (in[1] % 32) * 64 + (in[2] % 64)
    [] n = 3 -> (in[1] % 16) * 4096 + (in[2] % 64) * 64 + (in[3] % 64)
    [] n = 4 -> (in[1] % 8) * 262144 + (in[2] % 64) * 4096 + (in[3] % 64) * 64 + (in[4] % 64)

\* The code points for which n bytes are the shortest form.
InForm(cp, n) ==
  CASE n = 2 -> cp >= 128
    [] n = 3 -> cp >= 2048 /\ (cp < SurrogateStart \/ cp > SurrogateEnd)
    [] n = 4 -> cp >= 65536 /\ cp <= MaxCodePoint

Decoded(code, used) == [code |-> code, used |-> used]

\* A bug: all that was announced is consumed, whatever it is.
DecodeGreedy(in) ==
  LET n       == LeadLength(in[1])
      missing == {i \in 2 .. n : i > Len(in) \/ ~Continues(in[i])}
  IN  CASE n = 1                       -> Decoded(in[1], 1)
        [] n = 0 \/ n > Len(in)        -> Decoded(ReplacementChar, 1)
        [] n \in 2 .. Len(in)          ->
             Decoded(IF missing = {} /\ InForm(Value(in, n), n) THEN Value(in, n) ELSE ReplacementChar, n)

\* decode_utf8_char() of a text that is not empty: a broken sequence is
\* consumed up to the byte that breaks it, and only the lead of one that ends
\* too early.
DecodeUtf8(in) ==
  LET n      == LeadLength(in[1])
      broken == {i \in 2 .. n : ~Continues(in[i])}
  IN  CASE n = 1                                            -> Decoded(in[1], 1)
        [] n = 0 \/ n > Len(in)                             -> Decoded(ReplacementChar, 1)
        [] n \in 2 .. Len(in) /\ broken # {}                ->
             Decoded(ReplacementChar, Min(broken) - 1)
        [] n \in 2 .. Len(in) /\ broken = {}                ->
             Decoded(IF InForm(Value(in, n), n) THEN Value(in, n) ELSE ReplacementChar, n)

\* A bug: pairs are not moved behind the code points of single units.
DecodePairsLow(in) ==
  LET isPair == /\ Len(in) >= 2 /\ in[1] \in SurrogateStart .. MaxHighSurrogate
                /\ in[2] \in MaxHighSurrogate + 1 .. SurrogateEnd
  IN  CASE isPair                                                -> Decoded((in[2] % 1024) + (in[1] % 1024) * 1024, 2)
        [] ~isPair /\ in[1] \in SurrogateStart .. SurrogateEnd    -> Decoded(ReplacementChar, 1)
        [] ~isPair /\ ~(in[1] \in SurrogateStart .. SurrogateEnd) -> Decoded(in[1], 1)

\* decode_utf16_char() of a text that is not empty
DecodeUtf16(in) ==
  LET high   == in[1]
      isPair == /\ Len(in) >= 2 /\ high <= MaxHighSurrogate
                /\ in[2] > MaxHighSurrogate /\ in[2] <= SurrogateEnd
  IN  CASE high < SurrogateStart \/ high > SurrogateEnd                -> Decoded(high, 1)
        [] high >= SurrogateStart /\ high <= SurrogateEnd /\ isPair    ->
             Decoded((in[2] % 1024) + (high % 1024) * 1024 + 65536, 2)
        [] high >= SurrogateStart /\ high <= SurrogateEnd /\ ~isPair   -> Decoded(ReplacementChar, 1)

\* What utf32_to_utf8() takes for a character.
DecodeUtf32(in) == Decoded(IF ValidCodePoint(in[1]) THEN in[1] ELSE ReplacementChar, 1)

-----------------------------------------------------------------------------
\* The bytes of a character, as encode_safe_utf8_char() writes those it
\* considers safe.
Encode(cp) ==
  CASE cp < 128                      -> <<cp>>
    [] cp >= 128 /\ cp < 2048        -> <<192 + cp \div 64, 128 + (cp % 64)>>
    [] cp >= 2048 /\ cp < 65536      -> <<224 + cp \div 4096, 128 + ((cp \div 64) % 64), 128 + (cp % 64)>>
    [] cp >= 65536                   -> <<240 + cp \div 262144, 128 + ((cp \div 4096) % 64),
                                          128 + ((cp \div 64) % 64), 128 + (cp % 64)>>

\* The hexadecimal digit of cp that counts weight.
HexWeights == <<1048576, 65536, 4096, 256, 16, 1>>
HexDigit(cp, weight) == LET d == (cp \div weight) % 16 IN IF d < 10 THEN 48 + d ELSE 55 + d

\* encode_escaped(): \uXXXX or \UYYYYYYYY
ShortEscape(cp) == <<92, 117>> \o [i \in 1 .. 4 |-> HexDigit(cp, HexWeights[i + 2])]
LongEscape(cp)  == <<92, 85, 48, 48>> \o [i \in 1 .. 6 |-> HexDigit(cp, HexWeights[i])]

Escaped(cp) == IF cp <= 65535 THEN ShortEscape(cp) ELSE LongEscape(cp)

\* encode_safe_utf8_char(): the bytes and how many characters they are.
EncodeSafe(cp) ==
  IF Safe(cp) THEN [bytes |-> Encode(cp), chars |-> 1]
              ELSE [bytes |-> Escaped(cp), chars |-> Len(Escaped(cp))]
=============================================================================
