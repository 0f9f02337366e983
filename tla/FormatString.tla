---------------------------- MODULE FormatString ----------------------------
(***************************************************************************)
(* The text formatter: its format string is checked and compiled once, to  *)
(* text with the numbers of fields in it, and the line of a message is     *)
(* written along it, the message along the format string it is.            *)
(***************************************************************************)
EXTENDS TimeStamp

CONSTANTS
  Pieces,       \* bytes that format strings are put together from
  MaxPieces,    \* bounds the strings put together
  Lines,        \* format strings as sequences of items
  MessageLines, \* messages as sequences of items, with their number of arguments
  DefaultFormatString, \* config::default_format_string
  LineRooms,    \* what the output has room for
  BufferSize,   \* formatting_buffer_.size(), 512 in the code
  CacheLine     \* cache_ls_nosharing, 64 in the code

VARIABLES
  items,      \* the items a format string was made of
  formatter,  \* the members of formatter_txt_mixin, the formats of fields and the error
  logged,     \* the message, its arguments and the room
  output      \* the line: bytes, fields and arguments, and the error

formatVars == <<items, formatter, logged, output>>

FormatStringAssumption == BufferSize \in Nat /\ CacheLine \in Nat \ {0} /\ BufferSize % (4 * CacheLine) = 0
ASSUME FormatStringAssumption

MaxFieldId  == 31   \* bytes up to it are fields
Message     == 1
Timestamp   == 3
Invalid     == 0

\* The names of get_repl_field_id()
FieldNames ==
  {<<<<116, 105, 109, 101>>, Timestamp>>, <<<<116, 105, 109, 101, 115, 116, 97, 109, 112>>, Timestamp>>,
   <<<<109, 101, 115, 115, 97, 103, 101>>, Message>>, <<<<108, 101, 118, 101, 108>>, 2>>,
   <<<<115, 101, 118, 101, 114, 105, 116, 121>>, 2>>, <<<<108, 111, 103, 103, 101, 114>>, 4>>,
   <<<<116, 104, 114, 101, 97, 100>>, 5>>, <<<<102, 105, 108, 101>>, 6>>, <<<<108, 105, 110, 101>>, 7>>,
   <<<<102, 117, 110, 99, 116, 105, 111, 110>>, 8>>, <<<<99, 104, 97, 110, 110, 101, 108>>, 9>>,
   <<<<112, 111, 108, 105, 99, 121>>, 10>>}

FieldId(name) == IF \E f \in FieldNames : f[1] = name THEN (CHOOSE f \in FieldNames : f[1] = name)[2] ELSE Invalid

-----------------------------------------------------------------------------
\* A text being copied: what is left, what has been written, and an error.
Text(in, out, error) == [rest |-> in, out |-> out, error |-> error]

\* A bug: control characters are copied with the others.
PlainPrefixUnsafe(in, room) ==
  LET IsPlain(n) == \A i \in 1 .. n : in[i] < 127 /\ ~(in[i] \in {Open, Close})
  IN  Max({n \in 0 .. Min({Len(in), room}) : IsPlain(n)})

\* The ASCII characters copied first, as far as there is room.
PlainPrefix(in, room) ==
  LET IsPlain(n) == \A i \in 1 .. n : in[i] \in 32 .. 126 /\ ~(in[i] \in {Open, Close})
  IN  Max({n \in 0 .. Min({Len(in), room}) : IsPlain(n)})

\* The loop of parse_fmt_text()
RECURSIVE TextFrom(_, _, _)
TextFrom(in, out, room) ==
  LET brace  == Begins(in, {Open, Close})
      double == brace /\ Len(in) > 1 /\ in[2] = in[1]
      c      == DecodeUtf8(in)
      bytes  == EncodeSafe(c.code).bytes
  IN  CASE in = <<>>                                      -> Text(in, out, "none")
        [] double /\ room = 0                             -> Text(in, out, "buff_full")
        [] double /\ room > 0                             -> TextFrom(Drop(in, 2), Append(out, in[1]), room - 1)
        [] brace /\ ~double                               -> Text(in, out, IF in[1] = Close THEN "fmt_bad" ELSE "none")
        [] in # <<>> /\ ~brace /\ room < EscapeRoom       -> Text(in, out, "buff_full")
        [] in # <<>> /\ ~brace /\ room >= EscapeRoom      -> TextFrom(Drop(in, c.used), out \o bytes, room - Len(bytes))

\* parse_fmt_text()
ParseFmtText(in, room) ==
  LET n == PlainPrefix(in, room) IN TextFrom(Drop(in, n), SubSeq(in, 1, n), room - n)

\* parse_fmt_repl_field(), where in begins with {
ParseFmtReplField(in) ==
  LET ends  == {i \in 2 .. Len(in) : in[i] \in {Open, Close}}
      last  == Min(ends)
      good  == ends # {} /\ in[last] = Close
      cuts  == {i \in 2 .. last - 1 : in[i] = Colon}
      cut   == IF cuts = {} THEN last ELSE Min(cuts)
  IN  IF good THEN [error |-> "none", rest |-> Drop(in, last), name |-> SubSeq(in, 2, cut - 1),
                    spec |-> SubSeq(in, cut + 1, last - 1)]
      ELSE [error |-> "fmt_bad", rest |-> in, name |-> <<>>, spec |-> <<>>]

-----------------------------------------------------------------------------
NewFormatter ==
  [compiled |-> <<>>, room |-> BufferSize, specs |-> [id \in 1 .. 10 |-> DefaultFormat], messageRoom |-> 0,
   encoder |-> NewEncoder(CHOOSE z \in Zones : TRUE), error |-> "none"]

Put1(f, bytes) == [f EXCEPT !.compiled = @ \o bytes, !.room = @ - Len(bytes)]
Refuse(f, e)   == [f EXCEPT !.error = e]

\* The specification of a field goes to the encoder of timestamps or to the
\* formats of fields.
SetField(f, id, s) ==
  IF id = Timestamp
  THEN Once(LAMBDA r : [f EXCEPT !.encoder = r.encoder, !.error = r.error], InitEncoderTimestamp(f.encoder, s))
  ELSE IF ValidFormatSpec(s) THEN [f EXCEPT !.specs[id] = GetFormat(s)] ELSE Refuse(f, "fmt_bad")

\* The loop of parse_format_string()
RECURSIVE CompileFrom(_, _)
CompileFrom(f, in) ==
  LET Next1(g, rest) == IF g.error # "none" THEN g ELSE CompileFrom(g, rest)
      Field(g, repl, id) ==
        CASE repl.error # "none" \/ id = Invalid                  -> Refuse(g, "fmt_bad")
          [] repl.error = "none" /\ id # Invalid /\ g.room = 0    -> Refuse(g, "buff_full")
          [] repl.error = "none" /\ id # Invalid /\ g.room > 0    ->
               Once(LAMBDA h : Next1(h, repl.rest), SetField(Put1(g, <<id>>), id, repl.spec))
      Copied1(g, rest) ==
        IF g.error # "none" \/ rest = <<>> THEN g
        ELSE Once(LAMBDA repl : Field(g, repl, FieldId(repl.name)), ParseFmtReplField(rest))
  IN  Once(LAMBDA text : Copied1([Put1(f, text.out) EXCEPT !.error = text.error], text.rest), ParseFmtText(in, f.room))

PaddedLine(n) == ((n + CacheLine - 1) \div CacheLine) * CacheLine

Accepted(f, least) ==
  LET room == BufferSize - PaddedLine(Len(f.compiled)) IN
  CASE f.error # "none"                                              -> f
    [] f.error = "none" /\ ~(Message \in ToSet(f.compiled))          -> Refuse(f, "fmt_bad")
    [] f.error = "none" /\ Message \in ToSet(f.compiled)             ->
         [f EXCEPT !.messageRoom = room, !.error = IF room < least THEN "str_long" ELSE "none"]

\* A bug: a format may leave no room for messages.
ParseFormatStringAnyLength(in) == Once(LAMBDA f : Accepted(f, 0), CompileFrom(NewFormatter, in))

\* parse_format_string(): what is left behind the format is for messages that
\* are converted.
ParseFormatString(in) == Once(LAMBDA f : Accepted(f, BufferSize \div 4), CompileFrom(NewFormatter, in))

-----------------------------------------------------------------------------
\* A line being written: in place of the values of fields and arguments there
\* is one number for each.
FieldValue(id) == 1000 + id
ArgValue(i)    == 2000 + i

Writer(out, room, rest, error) == [out |-> out, room |-> room, rest |-> rest, error |-> error]
PutValue(w, v) == IF w.room = 0 THEN [w EXCEPT !.error = "buff_full"]
                  ELSE [w EXCEPT !.out = Append(@, v), !.room = @ - 1]

\* write_message_text()
WriteMessageText(w) ==
  LET text == ParseFmtText(w.rest, w.room)
  IN  Writer(w.out \o text.out, w.room - Len(text.out), text.rest, text.error)

\* The loop of write_message_field(), before argument i of n
RECURSIVE WriteArguments(_, _, _)
WriteArguments(w, i, n) ==
  LET repl == ParseFmtReplField(w.rest)
      v     == PutValue([w EXCEPT !.rest = repl.rest], ArgValue(i))
      t     == WriteMessageText(v)
  IN  CASE w.rest = <<>>                               -> IF i <= n THEN [w EXCEPT !.error = "fmt_bad"] ELSE w
        [] w.rest # <<>> /\ repl.error # "none"       -> [w EXCEPT !.error = repl.error]
        [] w.rest # <<>> /\ repl.error = "none"       ->
             CASE i > n                                           -> [w EXCEPT !.error = "input_bad"]
               [] i <= n /\ v.error # "none"                      -> v
               [] i <= n /\ v.error = "none" /\ t.error # "none"  -> t
               [] i <= n /\ v.error = "none" /\ t.error = "none"  -> WriteArguments(t, i + 1, n)

\* write_message_field(), which consumes the format string of the message: a
\* second one finds nothing.
MessageLine(w, n) ==
  LET t == WriteMessageText(w)
  IN  CASE t.error # "none"                                            -> t
        [] t.error = "none" /\ n = 0 /\ t.rest = <<>>                  -> t
        [] t.error = "none" /\ (n = 0) # (t.rest = <<>>)               -> [t EXCEPT !.error = "fmt_bad"]
        [] t.error = "none" /\ n > 0 /\ t.rest # <<>>                  -> WriteArguments(t, 1, n)

\* write_log_line(): what is no field is copied.
RECURSIVE LineAlong(_, _, _)
LineAlong(w, compiled, n) ==
  IF compiled = <<>> \/ w.error # "none" THEN w
  ELSE LineAlong(CASE compiled[1] = Message                                -> MessageLine(w, n)
                   [] compiled[1] # Message /\ compiled[1] <= MaxFieldId   -> PutValue(w, FieldValue(compiled[1]))
                   [] compiled[1] > MaxFieldId                             -> PutValue(w, compiled[1]),
                 Tail(compiled), n)

\* set_message_format_string(): a message that is not of bytes is converted
\* behind the format.
MessageFormat(f, m) ==
  IF m.bits = 8 THEN [out |-> m.units, error |-> "none"] ELSE Utf8Conv(m.bits, m.units, f.messageRoom, NoPrecision)

\* format_message(), with one byte kept for the end of the line
FormatLine(f, m, n, room) ==
  LET Along(line)    == [out |-> line.out, error |-> line.error]
      Shown1(message) ==
        IF message.error # "none" THEN [out |-> <<>>, error |-> message.error]
        ELSE Once(Along, LineAlong(Writer(<<>>, room - 1, message.out, "none"), f.compiled, n))
  IN  Once(Shown1, MessageFormat(f, m))

-----------------------------------------------------------------------------
\* An item is text, its characters, or a field, the bytes of its name and
\* specification, the number it should have, and whether it should be refused.
TextItem(chars)                   == [chars |-> chars, name |-> <<>>, spec |-> <<>>, id |-> Invalid, cause |-> "none"]
FieldItem(name, s, id, cause)     == [chars |-> <<>>, name |-> name, spec |-> s, id |-> id, cause |-> cause]
IsText1(item)                     == item.chars # <<>>

\* A character in a format string
Quoted(cp) == IF cp \in {Open, Close} THEN <<cp, cp>> ELSE Encode(cp)

Source(item) ==
  IF IsText1(item) THEN FlattenSeq([i \in DOMAIN item.chars |-> Quoted(item.chars[i])])
  ELSE <<Open>> \o item.name \o (IF item.spec = <<>> THEN <<>> ELSE <<Colon>> \o item.spec) \o <<Close>>

SourceOf(list)  == FlattenSeq([i \in DOMAIN list |-> Source(list[i])])
Made(of, list)  == [of |-> of, list |-> list]   \* of "items", of "pieces", or of "nothing" yet

FormatInit ==
  /\ items = Made("nothing", <<>>) /\ formatter = NewFormatter
  /\ logged = [message |-> <<>>, bits |-> 8, n |-> 0, room |-> 0] /\ output = [out |-> <<>>, error |-> "none"]

\* formatter_init() with a string made of items or of pieces; an empty one is
\* replaced by the format by default.
FormatterInit(made) ==
  \E in \in {IF made.of = "pieces" THEN FlattenSeq(made.list) ELSE SourceOf(made.list)} :
    /\ items' = made
    /\ formatter' = ParseFormatString(IF in = <<>> THEN DefaultFormatString ELSE in)
    /\ UNCHANGED <<logged, output>>

\* Units of 16 bits of the source of a message, which has no character that
\* takes two.
Units16(list) ==
  FlattenSeq([i \in DOMAIN list |->
    IF IsText1(list[i])
    THEN FlattenSeq([k \in DOMAIN list[i].chars |->
           IF list[i].chars[k] \in {Open, Close} THEN Quoted(list[i].chars[k]) ELSE <<list[i].chars[k]>>])
    ELSE Source(list[i])])

FormatMessageOf(m, bits, n, room) ==
  /\ logged' = [message |-> m, bits |-> bits, n |-> n, room |-> room]
  /\ \E source \in {[bits |-> bits, units |-> IF bits = 8 THEN SourceOf(m) ELSE Units16(m)]} :
       output' = FormatLine(formatter, source, n, room)
  /\ UNCHANGED <<items, formatter>>

FormatNext ==
  \/ /\ items.of = "nothing"
     /\ \E made \in {Made("pieces", p) : p \in UNION {[1 .. n -> Pieces] : n \in 0 .. MaxPieces}}
                     \cup {Made("items", list) : list \in Lines} : FormatterInit(made)
  \/ /\ items.of = "items" /\ formatter.error = "none" /\ logged.room = 0
     /\ \E m \in MessageLines, bits \in {8, 16}, room \in LineRooms : FormatMessageOf(m.items, bits, m.n, room)

-----------------------------------------------------------------------------
\* References.  The characters of an item in a line, and the value of a field.
Shown(item) == IF IsText1(item) THEN Plain(item.chars) ELSE <<FieldValue(item.id)>>

FieldsBefore(list, i) == Cardinality({k \in 1 .. i : ~IsText1(list[k])})
MessagesBefore(list, i) == Cardinality({k \in 1 .. i : list[k].id = Message})

MessageShown(m) ==
  FlattenSeq([i \in DOMAIN m |-> IF IsText1(m[i]) THEN Shown(m[i]) ELSE <<ArgValue(FieldsBefore(m, i))>>])

\* The message is where it is named first.
LineShown(list, m) ==
  FlattenSeq([i \in DOMAIN list |->
    CASE list[i].id # Message                                       -> Shown(list[i])
      [] list[i].id = Message /\ MessagesBefore(list, i) = 1        -> MessageShown(m)
      [] list[i].id = Message /\ MessagesBefore(list, i) > 1        -> <<>>])

\* A line is the beginning of what its format and its message say, with every
\* field and argument in its place whatever the text between them is.  It is
\* all of it or has an error, because the message has another number of
\* arguments, or is shown twice with some, or because there is no room.
LineIsFormat ==
  logged.room # 0 =>
    LET whole == LineShown(items.list, logged.message)
        fits  == /\ FieldsBefore(logged.message, Len(logged.message)) = logged.n
                 /\ logged.n = 0 \/ MessagesBefore(items.list, Len(items.list)) = 1
    IN  /\ IsPrefix(output.out, whole)
        /\ output.error = "none" => output.out = whole /\ fits
        /\ output.error # "none" =>
             \/ ~fits
             \/ Len(whole) + EscapeRoom > logged.room
             \/ /\ logged.bits = 16
                /\ Len(Utf8Conv(16, Units16(logged.message), 1000, NoPrecision).out) + EscapeRoom > formatter.messageRoom

\* The format strings there are of a few pieces: text with the braces doubled
\* around a field with a specification.
Parts1   == {<<<<Open>>, <<Open>>>>, <<<<Close>>, <<Close>>>>}
            \cup {<<p>> : p \in Pieces \ {<<Open>>, <<Close>>}}
Fields1  == {<<<<Open>>, p, <<Close>>>> : p \in {q \in Pieces : FieldId(q) # Invalid}}
            \cup {<<<<Open>>, p, <<Colon>>>> \o s \o <<<<Close>>>> :
                    p \in {q \in Pieces : FieldId(q) # Invalid}, s \in {<<>>} \cup {<<t>> : t \in {u \in Pieces : u[1] \in Types /\ Len(u) = 1}}}
Longer(S)  == S \cup {s \in {a \o b : a \in S, b \in Parts1 \cup Fields1} : Len(s) <= MaxPieces - 3}
Around     == Longer(Longer(Longer({<<>>})))
WellFormed == {s \in {a \o f \o b : a \in Around, f \in Fields1, b \in Around} : Len(s) <= MaxPieces}

Compiled(list) == FlattenSeq([i \in DOMAIN list |-> Shown(list[i])])

\* A formatter is made of every format string that is well formed, names the
\* message and a timestamp at most once, and is not too long to leave a quarter
\* of the buffer to messages; and of no other but the empty one, which stands
\* for the format by default.
FormatsAccepted ==
  /\ items.of = "items" =>
       (formatter.error = "none" <=>
          /\ \A i \in DOMAIN items.list : items.list[i].cause = "none"
          /\ Message \in {items.list[i].id : i \in DOMAIN items.list}
          /\ Cardinality({i \in DOMAIN items.list : items.list[i].id = Timestamp}) <= 1
          /\ PaddedLine(Len(Compiled(items.list))) <= BufferSize - BufferSize \div 4)
  /\ items.of = "pieces" =>
       (formatter.error = "none" <=> items.list \in WellFormed \cup {<<>>})
=============================================================================
