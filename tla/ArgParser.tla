----------------------------- MODULE ArgParser -----------------------------
(***************************************************************************)
(* The reading of a message: finding the fields, skipping and decoding     *)
(* arguments by the signature of their types, down to MaxDepth containers, *)
(* and writing what was decoded as far as there is room.                   *)
(*                                                                         *)
(* The reader is a record s: the words behind the header of the message    *)
(* and the place among them (input_span), the rest of the signature, what  *)
(* has been written and how much more may be (output_span), and the error. *)
(* A value is one unit of output, whatever its length.                     *)
(***************************************************************************)
EXTENDS LogArgs

CONSTANT MaxDepth   \* config::max_parser_tree_depth

Reader(words, room) ==
  [words |-> words, pos |-> 0, signature |-> <<>>, out |-> <<>>, room |-> room, error |-> "none"]

Failed(s)   == s.error # "none"
Fail(s, e)  == [s EXCEPT !.error = e]
AtEnd(s)    == s.pos = Len(s.words)
NextWord(s) == s.words[s.pos + 1]

\* advance_input(), in words
Advance(s, n) ==
  IF n <= Len(s.words) - s.pos THEN [s EXCEPT !.pos = @ + n] ELSE Fail(s, "input_bad")

\* What an encoder does with a token of some width.
Put(s, token, width) ==
  IF width <= s.room THEN [s EXCEPT !.out = Append(@, token), !.room = @ - width]
                     ELSE Fail(s, "buff_full")

\* The bytes process_simple_type() takes for an element of a signature; 0 is
\* for types it does not know.
SizeOf(code) ==
  LET type == 16 * (code \div 16)
      meta == code % 16
  IN  CASE type = 16  -> IF meta <= 1 THEN 1 ELSE IF meta = 2 THEN 2 ELSE IF meta = 3 THEN 4 ELSE 0
        [] type = 32  -> 1
        [] type = 64  -> IF meta % 8 \in {2, 3, 4} THEN 2 ^ (meta % 8) ELSE 0
        [] type = 80  -> IF meta % 8 <= 3 THEN 2 ^ (meta % 8) ELSE 0
        [] type = 112 -> IF meta = 0 THEN 4 ELSE 0
        [] type = 128 -> 8
        [] type = 160 -> IF meta = 0 THEN 16 ELSE IF meta \in {1, 2, 4} THEN 32 * meta ELSE 0
        [] OTHER      -> 0

UnitOf(code) == CASE code % 16 \in {0, 1} -> 1 [] code % 16 = 2 -> 2 [] code % 16 = 3 -> 4 [] OTHER -> 0

\* What get_data() finds where a counter is expected; words of another kind
\* would be taken for one.
Count(s) == IF NextWord(s).is = "count" THEN NextWord(s).n ELSE -1

\* get_data() of a string and encode()
ProcessString(s, code) ==
  LET counted  == Advance(s, 1)
      n        == Count(s)
      contents == Advance(counted, Words(n * UnitOf(code)))
      isText   == n = 0 \/ /\ NextWord(counted).is = "text" /\ NextWord(counted).part = 1
                           /\ NextWord(counted).n = n /\ NextWord(counted).unit = UnitOf(code)
  IN  CASE UnitOf(code) = 0  -> Fail(s, "input_bad")
        [] Failed(counted)   -> counted
        [] n < 0             -> Fail(s, "misread")
        [] Failed(contents)  -> contents
        [] OTHER             -> Put(contents, IF isText THEN <<"text", code, n>> ELSE <<"misread">>, 1)

\* get_data() of a simple type and encode()
ProcessSimple(s, code) ==
  LET read   == Advance(s, Words(SizeOf(code)))
      isData == NextWord(s).is = "data" /\ NextWord(s).part = 1 /\ NextWord(s).bytes = SizeOf(code)
  IN  CASE SizeOf(code) = 0 -> Fail(s, "input_bad")
        [] Failed(read)     -> read
        [] OTHER            -> Put(read, IF isData THEN <<"data", code, NextWord(s).v>> ELSE <<"misread">>, 1)

-----------------------------------------------------------------------------
\* skip_type(): the signature behind one type, found by counting the types
\* that are still to come.
RECURSIVE SkipTypes(_, _)
SkipTypes(s, types) ==
  LET sig == s.signature
  IN  CASE types = 0                     -> s
        [] types > 0 /\ sig = <<>>       -> Fail(s, "input_bad")
        [] types > 0 /\ sig # <<>> ->
             CASE sig[1] = 96                -> SkipTypes([s EXCEPT !.signature = Tail(sig)], types)
               [] sig[1] = 97 /\ Len(sig) = 1 -> Fail(s, "input_bad")
               [] sig[1] = 97 /\ Len(sig) > 1 ->
                    SkipTypes([s EXCEPT !.signature = SubSeq(sig, 3, Len(sig))], types - 1 + sig[2])
               [] sig[1] \in 98 .. 111       -> Fail(s, "input_bad")
               [] OTHER                      -> SkipTypes([s EXCEPT !.signature = Tail(sig)], types - 1)

\* A bug: the signature is left at the type of the elements.
SkipListOnly(s) == [s EXCEPT !.signature = Tail(s.signature)]

\* skip_type(): one type of a signature.
SkipType(s) == SkipTypes(s, 1)

RECURSIVE ProcessElement(_, _)

\* The elements i .. n of a list, each with the signature of the elements.
RECURSIVE ListElements(_, _, _, _, _)
ListElements(s, i, n, signature, depth) ==
  LET done == ProcessElement([s EXCEPT !.signature = signature], depth)
  IN  CASE i > n                    -> s
        [] i <= n /\ Failed(done)   -> done
        [] i = n /\ ~Failed(done)   -> done
        [] i < n /\ ~Failed(done)   -> ListElements(Put(done, <<"separator">>, 2), i + 1, n, signature, depth)

\* The elements i .. n of a tuple, each with what is left of the signature.
RECURSIVE TupleElements(_, _, _, _)
TupleElements(s, i, n, depth) ==
  LET done == ProcessElement(s, depth)
  IN  CASE i > n                    -> s
        [] i <= n /\ Failed(done)   -> done
        [] i = n /\ ~Failed(done)   -> done
        [] i < n /\ ~Failed(done)   -> TupleElements(Put(done, <<"separator">>, 2), i + 1, n, depth)

\* process_list()
ProcessList(s, depth) ==
  LET n        == Count(s)
      counted  == Advance(s, 1)
      elements == ListElements(Put(counted, <<"start">>, 1), 1, n, Tail(s.signature), depth)
      closed   == Put(elements, <<"stop">>, 1)
  IN  CASE Failed(counted)               -> counted
        [] ~Failed(counted) /\ n < 0     -> Fail(s, "misread")
        [] n > 0 /\ Failed(elements)     -> elements
        [] n > 0 /\ ~Failed(elements)    -> closed
        [] n = 0                         -> SkipType(closed)

\* process_tuple()
ProcessTuple(s, depth) ==
  LET n        == s.signature[2]
      opened   == Put([s EXCEPT !.signature = SubSeq(@, 3, Len(@))], <<"start">>, 1)
      elements == TupleElements(opened, 1, n, depth)
  IN  CASE Len(s.signature) < 2                                -> Fail(s, "input_bad")
        [] Len(s.signature) >= 2 /\ n > 0 /\ Failed(elements)  -> elements
        [] OTHER                                               -> Put(elements, <<"stop">>, 1)

\* A bug: the limit is one container less.
ProcessElementEarlyLimit(s, depth) ==
  LET code   == s.signature[1]
      simple == IF code \div 16 = 3 THEN ProcessString(s, code) ELSE ProcessSimple(s, code)
  IN  CASE Failed(s) \/ s.signature = <<>>                    -> Fail(s, "input_bad")
        [] code \div 16 # 6                                  -> [simple EXCEPT !.signature = Tail(@)]
        [] code \div 16 = 6 /\ depth + 1 >= MaxDepth         -> Fail(s, "recur_lim")
        [] code = 96 /\ depth + 1 < MaxDepth                 -> ProcessList(s, depth + 1)
        [] code = 97 /\ depth + 1 < MaxDepth                 -> ProcessTuple(s, depth + 1)

\* process_element() in a container of depth - 1 others
ProcessElement(s, depth) ==
  LET code   == s.signature[1]
      simple == IF code \div 16 = 3 THEN ProcessString(s, code) ELSE ProcessSimple(s, code)
  IN  CASE Failed(s)                             -> s
        [] ~Failed(s) /\ s.signature = <<>>      -> Fail(s, "input_bad")
        [] ~Failed(s) /\ s.signature # <<>> ->
             CASE code \div 16 # 6               -> [simple EXCEPT !.signature = Tail(@)]
               [] code \div 16 = 6 /\ depth + 1 > MaxDepth -> Fail(s, "recur_lim")
               [] code = 96 /\ depth + 1 <= MaxDepth       -> ProcessList(s, depth + 1)
               [] code = 97 /\ depth + 1 <= MaxDepth       -> ProcessTuple(s, depth + 1)
               [] OTHER                                    -> Fail(s, "input_bad")

-----------------------------------------------------------------------------
\* get_signature_skip_arg_header()
GetSignature(s) ==
  LET header == NextWord(s)
      sized  == Advance(s, Padded(CounterBytes + 1 + Len(header.signature), Word) \div Word)
  IN  CASE AtEnd(s)                                              -> Fail(s, "input_bad")
        [] ~AtEnd(s) /\ header.is # "arg"                        -> Fail(s, "misread")
        [] ~AtEnd(s) /\ header.is = "arg" /\ Failed(sized)       -> sized
        [] ~AtEnd(s) /\ header.is = "arg" /\ ~Failed(sized)      -> [sized EXCEPT !.signature = header.signature]

\* skip_argument()
SkipArgument(s) ==
  CASE AtEnd(s)                                 -> Fail(s, "input_bad")
    [] ~AtEnd(s) /\ NextWord(s).is # "arg"      -> Fail(s, "misread")
    [] ~AtEnd(s) /\ NextWord(s).is = "arg"      -> Advance(s, NextWord(s).size \div Word)

\* One argument, from its header to its end: what write_field() does with a
\* field that is present, and write_message_data() with an argument.
ReadArgument(s) ==
  LET signed == GetSignature(s) IN IF Failed(signed) THEN signed ELSE ProcessElement(signed, 0)

\* The fields of a message in the order they are written.
MetaFields == <<"Logger", "Thread", "File", "Line", "Function">>

\* set_pos_and_skip() of the fields the flags name, and of the message; pos
\* has the places of the fields that were found.
RECURSIVE LocateFields(_, _)
LocateFields(s, fields) ==
  LET skipped == SkipArgument(s)
  IN  IF fields = <<>> THEN [reader |-> s, pos |-> <<>>]
      ELSE LET rest == LocateFields(skipped, Tail(fields))
           IN  IF Failed(skipped) THEN [reader |-> skipped, pos |-> <<>>]
               ELSE [reader |-> rest.reader, pos |-> <<s.pos>> \o rest.pos]

\* init_logfields(): the places of the fields of a message, with that of the
\* first argument if there is one.
InitLogfields(s, flags) ==
  LET fields  == SelectSeq(MetaFields, LAMBDA f : f \in flags) \o <<"Message">>
      located == LocateFields(s, fields)
      found   == [i \in DOMAIN located.pos |-> fields[i]]
      hasArgs == ~Failed(located.reader) /\ ~AtEnd(located.reader)
  IN  [error |-> located.reader.error,
       places |-> [f \in ToSet(found) |-> located.pos[CHOOSE i \in DOMAIN found : found[i] = f]],
       args   |-> IF hasArgs THEN located.reader.pos ELSE -1]

\* The replacement fields of write_message_field(), one argument each.
RECURSIVE WriteMessageData(_, _)
WriteMessageData(s, n) ==
  IF n = 0 THEN s
  ELSE LET read == ReadArgument(s) IN IF Failed(read) THEN read ELSE WriteMessageData(read, n - 1)

\* A bug: what is left of the input is not looked at.
MessageFieldIgnoringRest(s, args, replacements) ==
  CASE args < 0 /\ replacements = 0     -> s
    [] (args < 0) # (replacements = 0)  -> Fail(s, "fmt_bad")
    [] args >= 0 /\ replacements > 0    -> WriteMessageData([s EXCEPT !.pos = args], replacements)

\* write_message_field() behind the text up to the first replacement field, for
\* a text with some of them and arguments that begin at args.
WriteMessageField(s, args, replacements) ==
  LET written == WriteMessageData([s EXCEPT !.pos = args], replacements)
  IN  CASE args < 0 /\ replacements = 0                        -> s
        [] (args < 0) # (replacements = 0)                     -> Fail(s, "fmt_bad")
        [] args >= 0 /\ replacements > 0 /\ Failed(written)    -> written
        [] args >= 0 /\ replacements > 0 /\ ~Failed(written)   ->
             IF AtEnd(written) THEN written ELSE Fail(written, "fmt_bad")

\* write_field(): the name of the field stands for one that is not there.
WriteField(s, field, logfields, replacements) ==
  LET withText == Put(s, <<"message">>, 1)
  IN  CASE field = "Message" /\ Failed(withText)     -> withText
        [] field = "Message" /\ ~Failed(withText)    ->
             WriteMessageField(withText, logfields.args, replacements)
        [] field # "Message" /\ field \in DOMAIN logfields.places ->
             ReadArgument([s EXCEPT !.pos = logfields.places[field]])
        [] OTHER                                     -> Put(s, <<"name", field>>, 1)

\* write_log_line() for the fields of a format string
RECURSIVE WriteLogLine(_, _, _, _)
WriteLogLine(s, fields, logfields, replacements) ==
  IF fields = <<>> \/ Failed(s) THEN s
  ELSE WriteLogLine(WriteField(s, Head(fields), logfields, replacements), Tail(fields), logfields, replacements)

\* format_message(): the fields are found, then the text of the message is
\* decoded into a buffer of its own (set_message_format_string()), then the line
\* is written.
FormatMessage(s, flags, fields, replacements) ==
  LET logfields == InitLogfields(s, flags)
      text      == ReadArgument([s EXCEPT !.pos = logfields.places["Message"], !.room = 1])
  IN  CASE logfields.error # "none"                          -> Fail(s, logfields.error)
        [] logfields.error = "none" /\ text.error # "none"   -> Fail(s, text.error)
        [] OTHER                                             -> WriteLogLine(s, fields, logfields, replacements)
=============================================================================
