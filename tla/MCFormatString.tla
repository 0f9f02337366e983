--------------------------- MODULE MCFormatString ---------------------------
(***************************************************************************)
(* Format strings and messages for TLC: every few pieces, and fields with  *)
(* texts between them that are escaped, quoted or long.                    *)
(***************************************************************************)
EXTENDS FormatString

NameMessage  == <<109, 101, 115, 115, 97, 103, 101>>
NameSeverity == <<115, 101, 118, 101, 114, 105, 116, 121>>
NameLevel    == <<108, 101, 118, 101, 108>>
NameTime     == <<116, 105, 109, 101>>
NameFunction == <<102, 117, 110, 99, 116, 105, 111, 110>>

\* "{timestamp:.6%Y-%m-%d %H:%M:%S %z} {severity} {file}:{line} {message}"
MCDefaultFormatString ==
  <<123, 116, 105, 109, 101, 115, 116, 97, 109, 112, 58, 46, 54, 37, 89, 45, 37, 109, 45, 37,
    100, 32, 37, 72, 58, 37, 77, 58, 37, 83, 32, 37, 122, 125, 32, 123, 115, 101, 118, 101,
    114, 105, 116, 121, 125, 32, 123, 102, 105, 108, 101, 125, 58, 123, 108, 105, 110, 101,
    125, 32, 123, 109, 101, 115, 115, 97, 103, 101, 125>>

MCPiecesOfFormat == {<<Open>>, <<Close>>, <<Colon>>, <<120>>, NameMessage}

\* A control character that is the number of a field, an opening brace with a
\* character of two bytes, and texts with and without the fast copy.
ControlText  == TextItem(<<2, 97>>)
QuotedText   == TextItem(<<Open, 233, Close>>)
LongText     == TextItem([i \in 1 .. 12 |-> 98])
SlowText     == TextItem([i \in 1 .. 6 |-> 233])

MessageField  == FieldItem(NameMessage, <<>>, 1, "none")
SeverityField == FieldItem(NameSeverity, <<62, 57>>, 2, "none")
TimeField     == FieldItem(NameTime, <<85, 37, 72, 58, 37, 77>>, 3, "none")
MCItems       == {ControlText, QuotedText, LongText, SlowText, MessageField, SeverityField, TimeField,
                  FieldItem(NameFunction, <<>>, 8, "none"), FieldItem(NameLevel, <<106>>, 2, "bad"),
                  FieldItem(<<120>>, <<>>, Invalid, "bad"), FieldItem(NameTime, <<37, 113>>, 3, "bad")}
FewItems      == {ControlText, QuotedText, LongText, MessageField, SeverityField, TimeField}

MCLines ==
  UNION {[1 .. n -> MCItems] : n \in 1 .. 3} \cup [1 .. 4 -> FewItems]

OneArg == FieldItem(<<>>, <<62, 52>>, Invalid, "none")
MCMessageLines ==
  {[items |-> m, n |-> n] :
     m \in {<<>>, <<ControlText>>, <<OneArg>>, <<QuotedText, OneArg, ControlText>>, <<OneArg, LongText, OneArg>>},
     n \in {0, 1, 2}}
=============================================================================
