---------------------------- MODULE FormatSpec ----------------------------
(***************************************************************************)
(* The format specification of a replacement field: what is accepted, and  *)
(* the format that is read from it.  Texts are sequences of bytes.         *)
(***************************************************************************)
EXTENDS UtfChar, SequencesExt

CONSTANTS
  Alphabet,    \* bytes of specifications
  MaxLength,   \* bounds the specifications made of them
  Parts        \* the parts of longer ones, with names

VARIABLES
  spec,   \* a specification
  parts,  \* the parts it was made of
  read    \* the format read from it

specVars == <<spec, parts, read>>

Open       == 123
Close      == 125
Colon      == 58
Space      == 32
Dot        == 46
Hash       == 35
Zero       == 48
LocaleChar == 76
Aligns == {60, 62, 94}    \* < > ^
Signs  == {43, 45, 32}    \* + - and space
Digits == 48 .. 57
\* a A b B c d e E f F g G o p s x X
Types  == {97, 65, 98, 66, 99, 100, 101, 69, 102, 70, 103, 71, 111, 112, 115, 120, 88}

\* F(x), where x is evaluated once, however often F has its parameter.
Once(F(_), x) == CHOOSE y \in {F(z) : z \in {x}} : TRUE

Drop(s, n)   == SubSeq(s, n + 1, Len(s))
Begins(s, C) == s # <<>> /\ s[1] \in C

-----------------------------------------------------------------------------
\* skip_fill_align(): what is left.  A fill that is not safe is not skipped.
SkipFillAlign(s) ==
  IF s = <<>> THEN s
  ELSE LET c    == DecodeUtf8(s)
           rest == Drop(s, c.used)
       IN  CASE Begins(rest, Aligns) /\ ~(c.code \in {Open, Close}) /\ Safe(c.code)  -> Tail(rest)
             [] Begins(rest, Aligns) /\ (c.code \in {Open, Close} \/ ~Safe(c.code))  -> s
             [] ~Begins(rest, Aligns) /\ c.code \in Aligns                           -> rest
             [] OTHER                                                                -> s

SkipOne(s, C) == IF Begins(s, C) THEN Tail(s) ELSE s

\* skip_sign_alt_0()
SkipSignAlt0(s) == SkipOne(SkipOne(SkipOne(s, Signs), {Hash}), {Zero})

LeadingDigits(s) == CHOOSE n \in 0 .. Len(s) : /\ \A i \in 1 .. n : s[i] \in Digits
                                               /\ n < Len(s) => ~(s[n + 1] \in Digits)

\* A bug: a number may begin with a zero.
SkipAnyNumber(s) == LET n == LeadingDigits(s) IN Drop(s, IF n < 4 THEN n ELSE 4)

\* skip_valid_fmt_number(): up to four digits, or one zero.
SkipValidNumber(s) ==
  IF Begins(s, {Zero}) THEN Tail(s)
  ELSE LET n == LeadingDigits(s) IN Drop(s, IF n < 4 THEN n ELSE 4)

\* valid_format_spec()
ValidFormatSpec(s) ==
  LET width     == SkipValidNumber(SkipSignAlt0(SkipFillAlign(s)))
      precision == IF Begins(width, {Dot}) THEN SkipValidNumber(Tail(width)) ELSE width
      type      == SkipOne(precision, {LocaleChar})
  IN  /\ Begins(width, {Dot}) => precision # Tail(width)
      /\ type = <<>> \/ (Len(type) = 1 /\ type[1] \in Types)

-----------------------------------------------------------------------------
\* The value of digits; those behind the fourth of a number do not count.
Number(digits) ==
  LET value[n \in 0 .. Len(digits)] ==
        IF n = 0 THEN 0 ELSE IF value[n - 1] <= 999 THEN 10 * value[n - 1] + digits[n] - Zero ELSE value[n - 1]
  IN  value[Len(digits)]

\* uint_fromchars_4digit(): the number and what is left.
UintFromChars(s, default) ==
  LET n == LeadingDigits(s)
  IN  [value |-> IF n = 0 THEN default ELSE Number(SubSeq(s, 1, n)), rest |-> Drop(s, n)]

MaxPrecision == 65535   \* none given

GetWidth(s)     == UintFromChars(s, 0)
GetPrecision(s) == IF Begins(s, {Dot}) THEN UintFromChars(Tail(s), MaxPrecision)
                   ELSE [value |-> MaxPrecision, rest |-> s]

DefaultFormat == [fill |-> <<Space>>, align |-> 0, sign |-> 45, alternate |-> FALSE, width |-> 0,
                  precision |-> MaxPrecision, type |-> 0]

\* A bug: fill and align are taken in the wrong order.
SetFillAlignFirst(format, filled) == [format EXCEPT !.align = filled[1], !.fill = IF Len(filled) > 1 THEN Tail(filled) ELSE @]

\* The align, and the fill in front of it
SetFillAlign(format, filled) == [format EXCEPT !.align = Last(filled), !.fill = IF Len(filled) > 1 THEN Front(filled) ELSE @]

\* The format of what is skipped as fill and align, and of the rest
FormatOf(filled, signs, width, precision) ==
  [(IF width.value # 0 /\ filled # <<>> THEN SetFillAlign(DefaultFormat, filled) ELSE DefaultFormat) EXCEPT
     !.sign = IF Begins(signs, Signs) THEN signs[1] ELSE @,
     !.alternate = Begins(SkipOne(signs, Signs), {Hash}),
     !.width = width.value,
     !.precision = precision.value,
     !.type = IF precision.rest # <<>> THEN Last(precision.rest) ELSE @]

\* get_format(): fill and align only with a width; the last byte that is left
\* is the type, whatever is before it.
GetFormat(s) ==
  LET signs     == SkipFillAlign(s)
      width     == GetWidth(SkipSignAlt0(signs))
      precision == GetPrecision(width.rest)
  IN  FormatOf(SubSeq(s, 1, Len(s) - Len(signs)), signs, width, precision)

\* get_format_align_width()
GetFormatAlignWidth(f) == [DefaultFormat EXCEPT !.align = f.align, !.fill = f.fill, !.width = f.width]

-----------------------------------------------------------------------------
\* For std::format a fill is a character, but no brace, and a number has any
\* number of digits.
IsCharacter(bytes) ==
  /\ bytes \in Seq(Bytes) \ {<<>>}
  /\ LET cp == DecodeUtf8(bytes).code IN ~(cp \in {Open, Close}) /\ bytes = Encode(cp)
IsDigits(digits) == digits \in Seq(Digits) \ {<<>>}

\* For the formatter a fill is also safe, and a number is a zero or has up to
\* four digits, the first of which is no zero.
IsFill(bytes) == IsCharacter(bytes) /\ Safe(DecodeUtf8(bytes).code)
IsNumber(digits) ==
  \/ digits = <<Zero>>
  \/ digits \in Seq(Digits) /\ Len(digits) \in 1 .. 4 /\ digits[1] # Zero
IsAtMostOne(letters, C) == letters = <<>> \/ \E c \in C : letters = <<c>>

\* Parts as std::format has them: a width is positive, a zero in front of it is
\* not part of it; a precision may begin with zeros.
IsParts(p) ==
  /\ IsAtMostOne(p.align, Aligns) /\ (p.fill = <<>> \/ (p.align # <<>> /\ IsCharacter(p.fill)))
  /\ IsAtMostOne(p.sign, Signs) /\ IsAtMostOne(p.alternate, {Hash}) /\ IsAtMostOne(p.zero, {Zero})
  /\ p.width = <<>> \/ (IsDigits(p.width) /\ p.width[1] # Zero)
  /\ p.precision = <<>> \/ \E n \in {Tail(p.precision)} : IsDigits(n) /\ p.precision = <<Dot>> \o n
  /\ IsAtMostOne(p.locale, {LocaleChar}) /\ IsAtMostOne(p.type, Types)

\* Those of them the formatter takes
AreTaken(p) ==
  /\ p.fill = <<>> \/ IsFill(p.fill)
  /\ p.width = <<>> \/ IsNumber(p.width)
  /\ p.precision = <<>> \/ IsNumber(Tail(p.precision))

NoParts == [fill |-> <<>>]

FormatSpecAssumption ==
  /\ Alphabet \subseteq Bytes /\ MaxLength \in Nat \ {0}
  /\ \A p \in Parts : p # NoParts /\ IsParts(p)
ASSUME FormatSpecAssumption

\* The text of parts
Join(p) ==
  (p.fill \o p.align) \o
    (p.sign \o (p.alternate \o (p.zero \o (p.width \o (p.precision \o (p.locale \o p.type))))))

NotRead  == <<0>>

SpecInit == spec = NotRead /\ parts = NoParts /\ read = DefaultFormat

\* A specification is read, of a field of the line or of an argument.
ReadSpec(s) == spec' = s /\ read' = GetFormat(s)

SpecNext ==
  /\ spec = NotRead /\ parts = NoParts
  /\ \/ \E n \in 0 .. MaxLength : \E s \in [1 .. n -> Alphabet] : ReadSpec(s) /\ UNCHANGED parts
     \/ \E p \in Parts : \E s \in {Join(p)} : ReadSpec(s) /\ parts' = p

ReadSpecs == SpecInit /\ [][SpecNext]_specVars

-----------------------------------------------------------------------------
(* Specifications as products of languages, as far as the alphabet and the *)
(* length go: [[fill]align][sign]["#"]["0"][width]["." precision]["L"][type]. *)
Cat(A, B)     == {c \in {a \o b : a \in A, b \in B} : Len(c) <= MaxLength}
Letters(C)    == {<<c>> : c \in C \cap Alphabet}
Maybe(A)      == {<<>>} \cup A
LocaleAndType == Cat(Maybe(Letters({LocaleChar})), Maybe(Letters(Types)))

\* Those with certain fills, flags "0" with widths, and precisions
SpecsOf(fills, widths, precisions) ==
  Cat(Maybe(Cat(Maybe(fills), Letters(Aligns))),
      Cat(Maybe(Letters(Signs)),
          Cat(Maybe(Letters({Hash})),
              Cat(widths, Cat(Maybe(Cat(Letters({Dot}), precisions)), LocaleAndType)))))

DigitTexts(C, n) == Cat(Letters(C), UNION {[1 .. k -> Digits \cap Alphabet] : k \in 0 .. n})
FillTextsOf(Is(_)) == {f \in UNION {[1 .. n -> Alphabet] : n \in 1 .. 4} : Is(f)}

\* The specifications of std::format (of C++20): a width is positive, a precision is not
\* negative.
Positives   == DigitTexts(Digits \ {Zero}, MaxLength)
StdWidths   == Cat(Maybe(Letters({Zero})), Maybe(Positives))
StdLanguage == SpecsOf(FillTextsOf(IsCharacter), StdWidths, DigitTexts(Digits, MaxLength))

\* Those of the formatter: both are the zero, or up to four digits that do not
\* begin with it.
Numbers  == Letters({Zero}) \cup DigitTexts(Digits \ {Zero}, 3)
Fills    == FillTextsOf(IsFill)
Widths   == Cat(Maybe(Letters({Zero})), Maybe(Numbers))
Language == SpecsOf(Fills, Widths, Numbers)

\* What std::format has not: behind the flag "0", the width may be zero.
ZeroWidths == SpecsOf(Fills, Cat(Letters({Zero}), Letters({Zero})), Numbers)

\* valid_format_spec() accepts the specifications of the formatter and no other
\* text; of what std::format allows, that is the texts whose parts are all taken.
\* What is accepted is a specification of std::format, or its width is zero.
OnlySpecsAccepted ==
  spec # NotRead =>
    /\ ValidFormatSpec(spec) <=> IF parts = NoParts THEN spec \in Language ELSE AreTaken(parts)
    /\ spec \in Language => spec \in StdLanguage \/ spec \in ZeroWidths

\* What was written is read: each part of a specification that is accepted is
\* where it belongs in the format.  A fill and an align mean nothing without a width, and a
\* locale without a type is left as the type.
PartsAreRead ==
  parts # NoParts /\ AreTaken(parts) =>
    /\ read.width = IF parts.width # <<>> THEN Number(parts.width) ELSE 0
    /\ read.align = IF read.width # 0 /\ parts.align # <<>> THEN parts.align[1] ELSE 0
    /\ read.fill = IF read.width # 0 /\ parts.fill # <<>> THEN parts.fill ELSE <<Space>>
    /\ read.sign = IF parts.sign # <<>> THEN parts.sign[1] ELSE 45
    /\ read.alternate = (parts.alternate # <<>>)
    /\ read.precision = IF parts.precision # <<>> THEN Number(Tail(parts.precision)) ELSE MaxPrecision
    /\ read.type = IF parts.type \o parts.locale # <<>> THEN (parts.type \o parts.locale)[1] ELSE 0

\* The formatter accepts its own specifications and nothing else, which are those of
\* std::format but for its limits on fills and numbers and for a width of zero; and
\* their parts are read as what they are: the two above.
SpecIsRead == OnlySpecsAccepted /\ PartsAreRead
=============================================================================
