------------------------------- MODULE MCText -------------------------------
(***************************************************************************)
(* Texts for TLC: every sequence of a few bytes and units, broken ones     *)
(* among them, and every pair of characters from the edges of the ranges,  *)
(* in three encodings, with formats and rooms that do and do not suffice.  *)
(***************************************************************************)
EXTENDS TextField

FieldFormat(width, precision, align, fill) == [width |-> width, precision |-> precision, align |-> align, fill |-> fill]

Raw(bits, units)           == [bits |-> bits, units |-> units, chars |-> <<>>]

UpTo(set, n) == UNION {[1 .. m -> set] : m \in 0 .. n}

\* A character, a continuation of each kind, and lead bytes: overlong, of two,
\* three and four bytes, of surrogates, and beyond the last character.
RawBytes == {65, 128, 191, 193, 195, 224, 237, 240, 244}
RawUnits == {65, 8364, 55296, 56319, 56320, 57343, 57344}

MCRawSources == {Raw(8, units) : units \in UpTo(RawBytes, 4)} \union {Raw(16, units) : units \in UpTo(RawUnits, 4)}

\* The edges of what is safe and of what takes another number of bytes.
Edges == {31, 126, 127, 161, 2047, 2304, 65535, 127744, 1114111}

Encoded(bits, chars) == [bits |-> bits, chars |-> chars, units |-> UnitsOf(bits, chars)]

MCTexts == {Encoded(bits, chars) : bits \in {8, 16, 32}, chars \in UpTo(Edges, 2)}

Euro == <<226, 130, 172>>
MCFormats ==
  {NoFormat, FieldFormat(0, 1, AlignLeft, <<32>>), FieldFormat(12, NoPrecision, AlignRight, <<42>>)} \union
  {FieldFormat(width, precision, align, Euro) :
     width \in {3, 12}, precision \in {1, NoPrecision}, align \in {AlignLeft, AlignCenter}}

MCTailFormats == {FieldFormat(5, NoPrecision, AlignCenter, Euro), FieldFormat(7, 2, AlignRight, <<42>>)}
=============================================================================
