------------------------------ MODULE LogCall ------------------------------
(***************************************************************************)
(* A message from the arguments of a log call to a line of text, passed    *)
(* through the ring as words: the formatter, which knows nothing but the   *)
(* words and the flags, finds the fields and writes them.                  *)
(***************************************************************************)
EXTENDS LogMessage, ArgParser

CONSTANTS
  Rooms,       \* what the formatter's output has room for
  LineFields   \* the fields of the formatter's format string

VARIABLE
  line      \* the formatter's reader at the end

callVars == <<phase, call, args, max, reserved, words, line>>

Unread == Reader(<<>>, 0)

CallInit == MessageInit /\ line = Unread

\* format_message(): the header says how long the message is.
Format(room) ==
  /\ ReadMessage
  /\ line' = LET length == (reserved.size - MessageHeader) \div Word
             IN  FormatMessage(Reader(SubSeq(words, 1, length), room), call.flags, LineFields, call.replacements)

CallNext ==
  \/ phase = "idle" /\ \E c \in Calls, size \in MaxSizes : Log(c, size) /\ UNCHANGED line
  \/ ComputeMsgSize /\ UNCHANGED line
  \/ WriteMessage /\ UNCHANGED line
  \/ \E room \in Rooms : Format(room)

CallSpec == CallInit /\ [][CallNext]_callVars

-----------------------------------------------------------------------------
\* What should be written for a value: the reference the parser is held to.
RECURSIVE Tokens(_)
Tokens(a) ==
  LET parts  == [i \in DOMAIN a.elems |-> Tokens(a.elems[i])]
      listed == FlattenSeq([i \in DOMAIN parts |-> IF i = 1 THEN parts[i] ELSE <<<<"separator">>>> \o parts[i]])
  IN  CASE IsText(a.type)      -> <<<<"text", Signature[a.type][1], a.value>>>>
        [] IsAggregate(a.type) -> <<<<"start">>>> \o listed \o <<<<"stop">>>>
        [] OTHER               -> <<<<"data", Signature[a.type][1], a.value>>>>

\* How deep values are, which is as far as the parser goes into them.
RECURSIVE DepthOf(_)
DepthOf(a) ==
  IF IsAggregate(a.type)
  THEN 1 + FoldLeft(LAMBDA d, e : IF e > d THEN e ELSE d, 0, [i \in DOMAIN a.elems |-> DepthOf(a.elems[i])])
  ELSE 0

\* The line of a call nothing of which was cut off.
FullLine ==
  LET OfField(f)   == CASE f = "Message"                          ->
                             <<<<"message">>>> \o FlattenSeq([i \in DOMAIN call.args |-> Tokens(call.args[i])])
                        [] f # "Message" /\ f \in call.flags      -> Tokens(MetaArg(f))
                        [] OTHER                                  -> <<<<"name", f>>>>
  IN  FlattenSeq([i \in DOMAIN LineFields |-> OfField(LineFields[i])])

\* Room a line takes.
Width(tokens) == FoldLeft(LAMBDA w, t : w + IF t = <<"separator">> THEN 2 ELSE 1, 0, tokens)

\* A line has an error only for one of four reasons: its message was too long
\* for the ring, it is too long itself, the text has not as many replacement
\* fields as there are arguments, or a container is too deep.
HasReason ==
  \/ Cropped
  \/ Width(FullLine) > line.room + Width(line.out)
  \/ call.replacements # Len(call.args)
  \/ \E i \in DOMAIN call.args : DepthOf(call.args[i]) > MaxDepth

\* Whatever was cut off and wherever the room ends, what the formatter has
\* written is the beginning of the line: no field or argument is taken for
\* another one.  A line without an error is complete, unless the text had fewer
\* replacement fields than the call had arguments, which is not noticed where
\* those without one were cut off; a line with an error has a reason for it.
LineIsTrue ==
  phase = "formatted" =>
    /\ IsPrefix(line.out, FullLine)
    /\ line.error = "none" => line.out = FullLine \/ (Cropped /\ call.replacements < Len(call.args))
    /\ line.error # "none" => HasReason
=============================================================================
