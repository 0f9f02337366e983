----------------------------- MODULE TextField -----------------------------
(***************************************************************************)
(* A text written into the line: converted from its encoding to UTF-8 as   *)
(* far as there is room, with what is not safe escaped, filled to a width, *)
(* and done again when it is the end of a message with a format of its own.*)
(***************************************************************************)
EXTENDS UtfChar, SequencesExt

CONSTANTS
  RawSources,  \* texts that may be broken: their encoding and units
  Texts,       \* texts that are not, with the characters they are
  Formats,     \* the formats of texts
  FieldRooms,  \* the room there is
  TailFormats  \* the formats of a message that ends with the text

VARIABLES
  written,  \* "nothing", "once" or "again"
  given,    \* the source, the format and the room
  field,    \* the bytes written and the error
  tail      \* the bytes there were before they were done again

fieldVars == <<written, given, field, tail>>

NoPrecision == 65535   \* format_setting_txt::precision
EscapeRoom  == 10      \* room every conversion of a character asks for

\* < ^ and >; others are as the first.
AlignLeft   == 60
AlignCenter == 94
AlignRight  == 62

NoFormat  == [width |-> 0, precision |-> NoPrecision, align |-> AlignLeft, fill |-> <<32>>]
AmpleRoom == 100       \* for texts without a format
SinkRoom  == 2048      \* the buffer of a sink for a line

\* The units of a text of characters.
EncodeUtf16(cp) ==
  IF cp < 65536 THEN <<cp>> ELSE <<55296 + (cp - 65536) \div 1024, 56320 + (cp % 1024)>>
EncodeIn(bits, cp) ==
  CASE bits = 8 -> Encode(cp) [] bits = 16 -> EncodeUtf16(cp) [] bits = 32 -> <<cp>>
UnitsOf(bits, chars) == FlattenSeq([i \in DOMAIN chars |-> EncodeIn(bits, chars[i])])

\* The units there are in an encoding.
UnitSet(bits) == CASE bits = 8 -> Bytes [] bits = 16 -> Units [] bits = 32 -> Nat

IsSource(source) ==
  /\ source.bits \in {8, 16, 32} /\ source.units \in Seq(UnitSet(source.bits))
  /\ source = [bits |-> source.bits, units |-> source.units, chars |-> source.chars]

\* A format as the formatter reads it: its fill is one character that is safe.
IsFillChar(bytes) ==
  /\ bytes \in Seq(Bytes) \ {<<>>}
  /\ LET cp == DecodeUtf8(bytes).code IN Safe(cp) /\ bytes = Encode(cp)
IsFormat(format) ==
  /\ format.width \in 0 .. NoPrecision /\ format.precision \in 0 .. NoPrecision
  /\ format.align \in Bytes /\ IsFillChar(format.fill)
  /\ format = [width |-> format.width, precision |-> format.precision, align |-> format.align, fill |-> format.fill]

\* What the texts, the formats and the room are.
TextFieldAssumption ==
  /\ \A source \in RawSources : IsSource(source) /\ source.chars = <<>>
  /\ \A source \in Texts : /\ IsSource(source) /\ source.chars \in Seq(CodePoints)
                           /\ source.units = UnitsOf(source.bits, source.chars)
  /\ \A format \in Formats \cup TailFormats : IsFormat(format)
  /\ FieldRooms \subseteq 0 .. SinkRoom
ASSUME TextFieldAssumption

-----------------------------------------------------------------------------
\* A conversion: what is left of the input, what has been written, room and
\* characters left, characters written and an error.
Conversion(in, room, max) ==
  [rest |-> in, out |-> <<>>, room |-> room, left |-> max, chars |-> 0, error |-> "none"]

\* c after one character, written as bytes that count as chars.
Step(c, used, bytes, chars) ==
  [c EXCEPT !.rest = SubSeq(@, used + 1, Len(@)), !.out = @ \o bytes, !.room = @ - Len(bytes),
            !.left = @ - 1, !.chars = @ + chars]

\* The first character of a text that is not empty
DecodeIn(bits, in) ==
  CASE bits = 8 -> DecodeUtf8(in) [] bits = 16 -> DecodeUtf16(in) [] bits = 32 -> DecodeUtf32(in)

\* One character; safe ones are copied from UTF-8.
ConvertChar(bits, c) ==
  LET d == DecodeIn(bits, c.rest)
      e == EncodeSafe(d.code)
  IN  Step(c, d.used,
           IF bits = 8 /\ Safe(d.code) THEN SubSeq(c.rest, 1, Len(Encode(d.code))) ELSE e.bytes, e.chars)

\* A bug: that there was no more room is not told.
ConvertSilently(bits, c) ==
  IF c.rest = <<>> \/ c.left = 0 \/ c.room < EscapeRoom THEN c ELSE ConvertChar(bits, c)

\* A bug: room for the short escape is taken to be enough.
ConvertTight(bits, c) ==
  CASE c.rest = <<>> \/ c.left = 0                 -> c
    [] c.rest # <<>> /\ c.left > 0 /\ c.room < 6   -> [c EXCEPT !.error = "buff_full"]
    [] c.rest # <<>> /\ c.left > 0 /\ c.room >= 6  -> ConvertChar(bits, c)

\* A turn of the loops of utf32_to_utf8(), utf16_to_utf8() and utf8_to_utf8();
\* a loop that has ended stays as it is.
ConvertTurn(bits, c) ==
  CASE c.rest = <<>> \/ c.left = 0                         -> c
    [] c.rest # <<>> /\ c.left > 0 /\ c.room < EscapeRoom  -> [c EXCEPT !.error = "buff_full"]
    [] c.rest # <<>> /\ c.left > 0 /\ c.room >= EscapeRoom -> ConvertChar(bits, c)

\* The loops: each turn consumes something.
Convert(bits, c) ==
  LET turn[n \in 0 .. Len(c.rest)] == IF n = 0 THEN c ELSE ConvertTurn(bits, turn[n - 1])
  IN  turn[Len(c.rest)]

\* The safe ASCII characters utf8_to_utf8() copies first, to the end of the
\* room if need be.
CopyTurn(c) ==
  IF c.rest # <<>> /\ c.left > 0 /\ c.room > 0 /\ c.rest[1] \in 32 .. 126
  THEN Step(c, 1, <<c.rest[1]>>, 1) ELSE c

CopyAscii(c) ==
  LET turn[n \in 0 .. Len(c.rest)] == IF n = 0 THEN c ELSE CopyTurn(turn[n - 1])
  IN  turn[Len(c.rest)]

\* utf8conv()
Utf8Conv(bits, in, room, max) ==
  LET c == Conversion(in, room, max) IN Convert(bits, IF bits = 8 THEN CopyAscii(c) ELSE c)

-----------------------------------------------------------------------------
\* A text and the characters it has.
Counted(bytes, chars) == [bytes |-> bytes, chars |-> chars]

Fill(fill, n) == FlattenSeq([i \in 1 .. n |-> fill])

\* A bug: the bytes of the text are taken for its characters.
ShiftFillBytes(t, room, format) ==
  LET grow == format.width - Len(t.bytes)
      left == CASE format.align = AlignRight -> grow [] format.align = AlignCenter -> grow \div 2 [] OTHER -> 0
  IN  IF grow <= 0 \/ grow * Len(format.fill) > room - Len(t.bytes) THEN t
      ELSE Counted(Fill(format.fill, left) \o t.bytes \o Fill(format.fill, grow - left), format.width)

\* shift_fill() in a buffer of room bytes
ShiftFill(t, room, format) ==
  LET grow == format.width - t.chars
      left == CASE format.align = AlignRight -> grow [] format.align = AlignCenter -> grow \div 2 [] OTHER -> 0
  IN  IF grow <= 0 \/ grow * Len(format.fill) > room - Len(t.bytes) THEN t
      ELSE Counted(Fill(format.fill, left) \o t.bytes \o Fill(format.fill, grow - left), format.width)

\* utf8_str_trim(): the first n characters of what has been written; each turn
\* decodes one.
TrimTurn(in, n, t) ==
  IF t.chars < n /\ t.pos < Len(in)
  THEN [pos |-> t.pos + DecodeUtf8(SubSeq(in, t.pos + 1, Len(in))).used, chars |-> t.chars + 1]
  ELSE t

StrTrim(in, n) ==
  LET turn[k \in 0 .. Len(in)] == IF k = 0 THEN [pos |-> 0, chars |-> 0] ELSE TrimTurn(in, n, turn[k - 1])
      end == turn[Len(in)]
  IN  Counted(SubSeq(in, 1, end.pos), end.chars)

\* encode() of a string
EncodeString(source, format, room) ==
  LET c      == Utf8Conv(source.bits, source.units, room, format.precision)
      filled == ShiftFill(Counted(c.out, c.chars), room, format)
  IN  CASE source.units = <<>>                        -> [bytes |-> <<>>, error |-> "none"]
        [] source.units # <<>> /\ format.width = 0    -> [bytes |-> c.out, error |-> c.error]
        [] source.units # <<>> /\ format.width # 0    -> [bytes |-> filled.bytes, error |-> c.error]

\* reencode_tail_string() for all that has been written
ReencodeTailString(bytes, format, room) ==
  IF format.width = 0 /\ format.precision = NoPrecision THEN bytes
  ELSE ShiftFill(StrTrim(bytes, format.precision), room, format).bytes

-----------------------------------------------------------------------------
FieldInit ==
  /\ written = "nothing"
  /\ given = [source |-> [bits |-> 8, units |-> <<>>, chars |-> <<>>], format |-> NoFormat, room |-> 0]
  /\ field = [bytes |-> <<>>, error |-> "none"] /\ tail = <<>>

EncodeField(source, format, room) ==
  /\ written = "nothing" /\ written' = "once"
  /\ given' = [source |-> source, format |-> format, room |-> room]
  /\ field' = EncodeString(source, format, room)
  /\ UNCHANGED tail

\* The field is a message, whose field in the line has a format too.
ReencodeTail(format) ==
  /\ written = "once" /\ written' = "again"
  /\ given' = [given EXCEPT !.format = format]
  /\ field' = [field EXCEPT !.bytes = ReencodeTailString(@, format, given.room)]
  /\ tail' = field.bytes

FieldNext ==
  \/ written = "nothing" /\ \E source \in RawSources : EncodeField(source, NoFormat, AmpleRoom)
  \/ written = "nothing" /\
     \E source \in Texts, format \in Formats, room \in FieldRooms : EncodeField(source, format, room)
  \/ \E format \in TailFormats : ReencodeTail(format)

FieldSpec == FieldInit /\ [][FieldNext]_fieldVars

-----------------------------------------------------------------------------
\* References.  The characters of a text that is well formed begin where no
\* byte continues one.
NumChars(bytes) == Cardinality({i \in DOMAIN bytes : ~Continues(bytes[i])})

FirstChars(bytes, n) ==
  LET Begins(m) == NumChars(SubSeq(bytes, 1, m)) <= n
  IN  SubSeq(bytes, 1, CHOOSE m \in 0 .. Len(bytes) : Begins(m) /\ (m < Len(bytes) => ~Begins(m + 1)))

\* cp is the character that units i .. i + n - 1 are.
IsChar(bits, units, i, n, cp) == ValidCodePoint(cp) /\ EncodeIn(bits, cp) = SubSeq(units, i, i + n - 1)

\* What units i .. i + n - 1 are if they are a character at all.
Candidate(bits, units, i, n) ==
  CASE n = 1                -> units[i]
    [] bits = 8 /\ n > 1    -> Value(SubSeq(units, i, i + n - 1), n)
    [] bits = 16 /\ n > 1   -> 65536 + 1024 * (units[i] % 1024) + (units[i + 1] % 1024)

\* How many units a character that begins at unit i has.
LengthsAt(bits, units, i) ==
  LET longest == CASE bits = 8 -> 4 [] bits = 16 -> 2 [] bits = 32 -> 1
  IN  {n \in 1 .. longest : /\ i + n - 1 <= Len(units)
                            /\ IsChar(bits, units, i, n, Candidate(bits, units, i, n))}

\* What becomes of unit i: the character that begins there, if one does; and
\* else nothing or a replacement.
Becomes(bits, units, i) ==
  IF LengthsAt(bits, units, i) = {} THEN {<<>>, Escaped(ReplacementChar)}
  ELSE {EncodeSafe(Candidate(bits, units, i, n)).bytes : n \in LengthsAt(bits, units, i)}

\* Where in bytes what the units before it became may end, and then part.
EndsWith(bytes, before, part) ==
  {p + Len(part) : p \in {q \in before : /\ q + Len(part) <= Len(bytes)
                                         /\ SubSeq(bytes, q + 1, q + Len(part)) = part}}

\* bytes are what the units became, one after the other.
IsMadeOf(bytes, bits, units) ==
  LET ends[i \in 0 .. Len(units)] ==
        IF i = 0 THEN {0}
        ELSE UNION {EndsWith(bytes, s[1], s[2]) : s \in {ends[i - 1]} \X Becomes(bits, units, i)}
  IN  Len(bytes) \in ends[Len(units)]

Plain(chars) == FlattenSeq([i \in DOMAIN chars |-> EncodeSafe(chars[i]).bytes])

Unformatted(c) == [c.format EXCEPT !.width = 0]
HasSource      == written # "nothing" /\ given.source.units # <<>>

\* Broken text costs no character around it: without a precision, what is
\* written are the characters of the source that are intact, each where it was,
\* with nothing but replacements in between; and a text is the same in whatever
\* encoding it came, as far as the precision.
NothingSwallowed ==
  written = "once" /\ field.error = "none" /\ given.format.width = 0 =>
    /\ given.format.precision = NoPrecision => IsMadeOf(field.bytes, given.source.bits, given.source.units)
    /\ given.source.chars # <<>> =>
         LET chars == given.source.chars
             n     == IF given.format.precision < Len(chars) THEN given.format.precision ELSE Len(chars)
         IN  field.bytes = Plain(SubSeq(chars, 1, n))

\* Never more is written than there is room for.  Without room for all of a
\* text, what is written is the beginning of it, an error says so, and less was
\* left than a character may take.
CutWithError ==
  /\ Len(field.bytes) <= given.room
  /\ written = "once" /\ given.format.width = 0 =>
       LET whole == EncodeString(given.source, given.format, EscapeRoom * Len(given.source.units)).bytes
       IN  /\ IsPrefix(field.bytes, whole)
           /\ field.error = "none" <=> field.bytes = whole
           /\ field.error # "none" => given.room - Len(field.bytes) < EscapeRoom

\* No control character reaches the line, and no byte that is not part of a
\* character.
NothingUnprintable ==
  LET bytes == field.bytes
      found == UNION {{i} \X LengthsAt(8, bytes, i) : i \in DOMAIN bytes}
  IN  /\ \A c \in found : LET cp == Candidate(8, bytes, c[1], c[2]) IN cp > 31 /\ ~(cp \in 127 .. 160)
      /\ \A i \in DOMAIN bytes : \E c \in found : c[1] <= i /\ i < c[1] + c[2]

\* A field is as wide as its format says, counted in characters, with the text
\* on the side it was aligned to, unless there is no room to fill it.
FieldIsWide ==
  HasSource =>
    \E text \in {IF written = "once" THEN EncodeString(given.source, Unformatted(given), given.room).bytes
                                     ELSE FirstChars(tail, given.format.precision)} :
      \E grow \in {given.format.width - NumChars(text)} :
        IF grow <= 0 \/ Len(text) + grow * Len(given.format.fill) > given.room
        THEN field.bytes = text
        ELSE \E left \in 0 .. grow :
               LET right == grow - left
               IN  /\ given.format.align = AlignRight => right = 0
                   /\ given.format.align = AlignCenter => right - left \in {0, 1}
                   /\ given.format.align = AlignLeft => left = 0
                   /\ field.bytes = Fill(given.format.fill, left) \o text \o Fill(given.format.fill, right)
=============================================================================
