----------------------------- MODULE LogMessage -----------------------------
(***************************************************************************)
(* A log call, as far as the ring: the call adds the arguments its flags   *)
(* name, computes the size of the message, reserves it and writes.         *)
(***************************************************************************)
EXTENDS LogArgs

CONSTANTS
  Calls,      \* the calls made: flags, the text and the arguments
  MaxSizes    \* what max_message_size() may be

VARIABLES
  phase,    \* "idle", "called", "sized", "written" or "formatted"
  call,     \* the call, of Calls
  args,     \* its arguments with those that were added
  max,      \* the buffer's max_message_size()
  reserved, \* msg_size() and arg_num()
  words     \* what has been written behind the header

messageVars == <<phase, call, args, max, reserved, words>>

\* A ring takes more than a message without arguments.
ASSUME LogMessageAssumption ==
  /\ \A c \in Calls : c.text \in Elements /\ c.args \in Seq(Elements)
  /\ \A size \in MaxSizes : size \in Nat /\ Padded(MessageHeader, MsgAlignment) <= size

\* What is logged for a field: names are small_string<32>, the file and the
\* function are literals.
MetaArg(field) ==
  CASE field \in {"Logger", "Thread"}  -> Arg(Simple("Smallstring", 0, 32), 1)
    [] field \in {"File", "Function"}  -> Arg(Literal(0, 1, 6), 5)
    [] field = "Line"                  -> Arg(Simple("Integral", 1, 4), 1)

MessageInit ==
  /\ phase = "idle" /\ call = [flags |-> {}, text |-> Arg(String(0, 1), 0), args |-> <<>>, replacements |-> 0]
  /\ args = <<>> /\ max = 0 /\ reserved = [size |-> 0, num |-> 0]
  /\ words = <<>>

\* log() of log_addmeta_mixin: the fields the flags name go before the text.
\* The macros pass the file, the line and the function themselves.  The buffer of
\* the thread takes messages of at most size bytes.
Log(c, size) ==
  /\ phase = "idle" /\ phase' = "called"
  /\ call' = c /\ max' = size
  /\ args' = LET Added(field) == IF field \in c.flags THEN <<MetaArg(field)>> ELSE <<>>
             IN  Added("Logger") \o Added("Thread") \o Added("File") \o Added("Line") \o Added("Function")
                 \o <<c.text>> \o c.args
  /\ UNCHANGED <<reserved, words>>

\* log() of log_compute_msgsize_mixin
ComputeMsgSize ==
  /\ phase = "called" /\ phase' = "sized"
  /\ reserved' = ComputeSize(args, max)
  /\ UNCHANGED <<call, args, max, words>>

\* write_message(), with the room that was reserved
WriteMessage ==
  /\ phase = "sized" /\ phase' = "written"
  /\ words' = WriteArgs(args, reserved.num)
  /\ UNCHANGED <<call, args, max, reserved>>

\* The message is read, and left as it is.
ReadMessage ==
  /\ phase = "written" /\ phase' = "formatted"
  /\ UNCHANGED <<call, args, max, reserved, words>>

MessageNext ==
  \/ phase = "idle" /\ \E c \in Calls, size \in MaxSizes : Log(c, size)
  \/ ComputeMsgSize
  \/ WriteMessage
  \/ ReadMessage

MessageSpec == MessageInit /\ [][MessageNext]_messageVars

-----------------------------------------------------------------------------
Cropped == reserved.num < Len(args)

\* What is written behind the header is as long as was computed before: a
\* message does not leave the room it has in the ring.  This is the assertion
\* at the end of write_message().
SizeIsWritten ==
  phase \in {"written", "formatted"} => MessageHeader + Word * Len(words) = reserved.size

\* A message fits into the ring, and arguments are left out only where the next
\* one would not have fitted.
CroppedOnlyIfTooLong ==
  phase \in {"sized", "written", "formatted"} =>
    /\ Padded(reserved.size, MsgAlignment) <= max
    /\ Cropped => Padded(MessageHeader + Word * Len(WriteArgs(args, reserved.num + 1)), MsgAlignment) > max

\* Whether no array of a type has elements with counters inside them, beside
\* their own.
Shallow[t \in KnownTypes] ==
  /\ t.class = "Array" => Shallow[t.elem] /\ CounterOverheadOfType[t.elem] = CounterSize(t.elem)
  /\ t.class = "Tuple" => \A i \in DOMAIN t.elems : Shallow[t.elems[i]]

\* The arguments are of no type the size of which is computed too small.
ArgsAreShallow ==
  (\A i \in DOMAIN args : SizeKnown[args[i].type]) => \A i \in DOMAIN args : Shallow[args[i].type]
=============================================================================
