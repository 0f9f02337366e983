------------------------------ MODULE Outputs ------------------------------
(***************************************************************************)
(* What sinks write through: formatters and outputs, counted by the        *)
(* handles that refer to them, most of them for one sink at a time, and    *)
(* the streams behind the outputs, which threads must not use at once.     *)
(* A sink is one actor: a core lets one thread at a time use it.           *)
(***************************************************************************)
EXTENDS FiniteSets, Integers

CONSTANTS
  Sinks,
  Formatters,
  Outputs,
  Shared,    \* the outputs made by output_stream_mt(), which lock a mutex
  Streams,
  StreamOf,  \* the stream of each output
  User,      \* the thread of the program that owns the streams
  None

ASSUME OutputsAssumption ==
  /\ IsFiniteSet(Sinks)
  /\ Shared \subseteq Outputs /\ StreamOf \in [Outputs -> Streams]
  /\ Formatters \cap Outputs = {} /\ Sinks \cap Outputs = {} /\ User \notin Sinks \cup Outputs
  /\ None \notin Formatters \cup Outputs \cup Sinks \cup {User}
  \* The streams of output_stream() belong to one output, and every output of
  \* a stream that is shared locks the same mutex.
  /\ \A o, p \in Outputs : o # p /\ StreamOf[o] = StreamOf[p] => {o, p} \subseteq Shared

Things == Formatters \cup Outputs

VARIABLES
  life,    \* of each thing: "none", "live", "dying", "flushing" (in its destructor)
  refs,    \* reference_counter_ of each thing
  inUse,   \* in_use_ of each thing
  held,    \* the things a handle of the program refers to
  step,    \* what each sink is at
  param,   \* the things the parameters of the factory of each sink refer to
  fmt,     \* formatter_ of each sink
  out,     \* output_ of each sink
  at,      \* the actors that are inside each stream
  holder   \* of the mutex of each stream, the shared ones have one

outVars == <<life, refs, inUse, held, step, param, fmt, out, at, holder>>

handleVars == <<life, refs>>
streamVars == <<at, holder>>
memberVars == <<param, fmt, out>>

OutInit ==
  /\ life = [t \in Things |-> "none"] /\ refs = [t \in Things |-> 0] /\ inUse = [t \in Things |-> FALSE]
  /\ held = {} /\ step = [s \in Sinks |-> "none"] /\ param = [s \in Sinks |-> {}]
  /\ fmt = [s \in Sinks |-> None] /\ out = [s \in Sinks |-> None]
  /\ at = [x \in Streams |-> {}] /\ holder = [x \in Streams |-> None]

-----------------------------------------------------------------------------
\* A bug: the object is destroyed when one other handle is left.
DropEarly(dropped) ==
  /\ refs' = [t \in Things |-> IF t \in dropped THEN refs[t] - 1 ELSE refs[t]]
  /\ life' = [t \in Things |-> IF t \in dropped /\ refs[t] <= 2 THEN "dying" ELSE life[t]]

\* release_referred() of each of dropped: the last reference destroys it.
Drop(dropped) ==
  /\ refs' = [t \in Things |-> IF t \in dropped THEN refs[t] - 1 ELSE refs[t]]
  /\ life' = [t \in Things |-> IF t \in dropped /\ refs[t] = 1 THEN "dying" ELSE life[t]]

\* add_reference() by copies of the handles of copied.
Copy(copied) ==
  /\ refs' = [t \in Things |-> IF t \in copied THEN refs[t] + 1 ELSE refs[t]]
  /\ UNCHANGED life

\* use(): one sink at a time, unless the output locks for itself.
Usable(t) == t \in Shared \/ ~inUse[t]
Use(t)    == inUse' = [inUse EXCEPT ![t] = t \notin Shared]
Release(t) == inUse' = [inUse EXCEPT ![t] = FALSE]

-----------------------------------------------------------------------------
\* A factory of outputs or formatters: the object is destroyed again, without
\* a stream, if that was refused.
Make(t) ==
  /\ life[t] = "none" /\ life' = [life EXCEPT ![t] = "live"]
  /\ refs' = [refs EXCEPT ![t] = 1] /\ inUse' = [inUse EXCEPT ![t] = FALSE]
  /\ held' = held \cup {t}
  /\ UNCHANGED <<step, memberVars, streamVars>>

\* The program lets go of its handle.
DropHandle(t) ==
  /\ t \in held /\ held' = held \ {t} /\ Drop({t})
  /\ UNCHANGED <<inUse, step, memberVars, streamVars>>

\* A destructor: that of an output flushes its stream, without the mutex.
DieFlushBegin(o) ==
  /\ life[o] = "dying" /\ life' = [life EXCEPT ![o] = "flushing"]
  /\ at' = [at EXCEPT ![StreamOf[o]] = @ \cup {o}]
  /\ UNCHANGED <<refs, inUse, held, step, memberVars, holder>>

DieFlushEnd(o) ==
  /\ life[o] = "flushing" /\ life' = [life EXCEPT ![o] = "none"]
  /\ at' = [at EXCEPT ![StreamOf[o]] = @ \ {o}]
  /\ UNCHANGED <<refs, inUse, held, step, memberVars, holder>>

Die(f) ==
  /\ life[f] = "dying" /\ life' = [life EXCEPT ![f] = "none"]
  /\ UNCHANGED <<refs, inUse, held, step, memberVars, streamVars>>

-----------------------------------------------------------------------------
\* sink_sort() or sink_unsort() is called with a formatter and an output,
\* copied or moved.
SinkCall(s, f, o) ==
  /\ step[s] = "none" /\ {f, o} \subseteq held
  /\ \E moved \in SUBSET {f, o} : held' = held \ moved /\ Copy({f, o} \ moved)
  /\ param' = [param EXCEPT ![s] = {f, o}]
  /\ step' = [step EXCEPT ![s] = "new"]
  /\ UNCHANGED <<inUse, fmt, out, streamVars>>

\* make_allocated() or a buffer of a sorting sink fails, or there is no filter.
AllocFails(s) ==
  /\ step[s] = "new" /\ step' = [step EXCEPT ![s] = "returning"]
  /\ UNCHANGED <<handleVars, inUse, held, memberVars, streamVars>>

\* set_formatter(): the parameter of a refused one is dropped.
SetFormatter(s) ==
  /\ step[s] = "new"
  /\ \E f \in param[s] \cap Formatters :
       /\ param' = [param EXCEPT ![s] = @ \ {f}]
       /\ \/ /\ Usable(f) /\ Use(f)
             /\ fmt' = [fmt EXCEPT ![s] = f] /\ step' = [step EXCEPT ![s] = "formatted"]
             /\ UNCHANGED handleVars
          \/ /\ ~Usable(f) /\ Drop({f})
             /\ step' = [step EXCEPT ![s] = "destroyed"]
             /\ UNCHANGED <<inUse, fmt>>
  /\ UNCHANGED <<held, out, streamVars>>

\* set_output()
SetOutput(s) ==
  /\ step[s] = "formatted"
  /\ \E o \in param[s] \cap Outputs :
       /\ param' = [param EXCEPT ![s] = @ \ {o}]
       /\ \/ /\ Usable(o) /\ Use(o)
             /\ out' = [out EXCEPT ![s] = o] /\ step' = [step EXCEPT ![s] = "ready"]
             /\ UNCHANGED handleVars
          \/ /\ ~Usable(o) /\ Drop({o})
             /\ step' = [step EXCEPT ![s] = "destroyed"]
             /\ UNCHANGED <<inUse, out>>
  /\ UNCHANGED <<held, fmt, streamVars>>

-----------------------------------------------------------------------------
\* write_message() and flush() of the output of s, which enter its stream,
\* with the mutex of a shared one.
Enter(s, next) ==
  LET x == StreamOf[out[s]] IN
  /\ at' = [at EXCEPT ![x] = @ \cup {s}]
  /\ IF out[s] \in Shared THEN holder[x] = None /\ holder' = [holder EXCEPT ![x] = s] ELSE UNCHANGED holder
  /\ step' = [step EXCEPT ![s] = next]
  /\ UNCHANGED <<handleVars, held, memberVars>>

Leave(s, next) ==
  LET x == StreamOf[out[s]] IN
  /\ at' = [at EXCEPT ![x] = @ \ {s}]
  /\ IF out[s] \in Shared THEN holder' = [holder EXCEPT ![x] = None] ELSE UNCHANGED holder
  /\ step' = [step EXCEPT ![s] = next]
  /\ UNCHANGED <<handleVars, held, memberVars>>

WriteBegin(s) == step[s] = "ready"    /\ Enter(s, "writing")  /\ UNCHANGED inUse
WriteEnd(s)   == step[s] = "writing"  /\ Leave(s, "ready")    /\ UNCHANGED inUse
FlushBegin(s) == step[s] = "ready"    /\ Enter(s, "flushing") /\ UNCHANGED inUse
FlushEnd(s)   == step[s] = "flushing" /\ Leave(s, "ready")    /\ UNCHANGED inUse

\* The program uses the stream of shared outputs with the mutex locked.
UserBegin(x) ==
  /\ \E o \in Shared : StreamOf[o] = x
  /\ holder[x] = None /\ holder' = [holder EXCEPT ![x] = User]
  /\ at' = [at EXCEPT ![x] = @ \cup {User}]
  /\ UNCHANGED <<handleVars, inUse, held, step, memberVars>>

UserEnd(x) ==
  /\ User \in at[x] /\ at' = [at EXCEPT ![x] = @ \ {User}]
  /\ holder' = [holder EXCEPT ![x] = None]
  /\ UNCHANGED <<handleVars, inUse, held, step, memberVars>>

-----------------------------------------------------------------------------
\* The last handle to the sink is gone.
LastHandle(s) ==
  /\ step[s] = "ready" /\ step' = [step EXCEPT ![s] = "destroyed"]
  /\ UNCHANGED <<handleVars, inUse, held, memberVars, streamVars>>

\* A bug: the formatter of a sink that was refused its output is not released.
ReleaseFormatterIfReady(s) ==
  /\ step[s] = "destroyed" /\ step' = [step EXCEPT ![s] = "formatter_released"]
  /\ IF fmt[s] # None /\ out[s] # None THEN Release(fmt[s]) ELSE UNCHANGED inUse
  /\ UNCHANGED <<handleVars, held, memberVars, streamVars>>

\* ~sink_formatter_mixin(), and then the member
ReleaseFormatter(s) ==
  /\ step[s] = "destroyed" /\ step' = [step EXCEPT ![s] = "formatter_released"]
  /\ IF fmt[s] # None THEN Release(fmt[s]) ELSE UNCHANGED inUse
  /\ UNCHANGED <<handleVars, held, memberVars, streamVars>>

DropFormatter(s) ==
  /\ step[s] = "formatter_released"
  /\ Drop({fmt[s]} \cap Formatters) /\ fmt' = [fmt EXCEPT ![s] = None]
  /\ step' = [step EXCEPT ![s] = IF out[s] = None THEN "returning" ELSE "output_left"]
  /\ UNCHANGED <<inUse, held, param, out, streamVars>>

\* A bug: the output is released before the last flush.
LastFlushReleased(s) == step[s] = "output_left" /\ Enter(s, "last_flush") /\ Release(out[s])

\* ~sink_output_mixin(), and then the member
LastFlushBegin(s) == step[s] = "output_left" /\ Enter(s, "last_flush") /\ UNCHANGED inUse
LastFlushEnd(s)   == step[s] = "last_flush"  /\ Leave(s, "flushed")    /\ UNCHANGED inUse

ReleaseOutput(s) ==
  /\ step[s] = "flushed" /\ Release(out[s])
  /\ step' = [step EXCEPT ![s] = "output_released"]
  /\ UNCHANGED <<handleVars, held, memberVars, streamVars>>

DropOutput(s) ==
  /\ step[s] = "output_released"
  /\ Drop({out[s]}) /\ out' = [out EXCEPT ![s] = None]
  /\ step' = [step EXCEPT ![s] = "returning"]
  /\ UNCHANGED <<inUse, held, param, fmt, streamVars>>

\* What is left of the parameters of a factory that failed.
ReturnSink(s) ==
  /\ step[s] = "returning" /\ Drop(param[s])
  /\ param' = [param EXCEPT ![s] = {}] /\ step' = [step EXCEPT ![s] = "none"]
  /\ UNCHANGED <<inUse, held, fmt, out, streamVars>>

-----------------------------------------------------------------------------
Build(s) ==
  \/ \E f \in Formatters, o \in Outputs : SinkCall(s, f, o)
  \/ AllocFails(s) \/ SetFormatter(s) \/ SetOutput(s)

Work(s) == WriteBegin(s) \/ WriteEnd(s) \/ FlushBegin(s) \/ FlushEnd(s)

End(s) ==
  \/ LastHandle(s) \/ ReleaseFormatter(s) \/ DropFormatter(s) \/ LastFlushBegin(s) \/ LastFlushEnd(s)
  \/ ReleaseOutput(s) \/ DropOutput(s) \/ ReturnSink(s)

OutNext ==
  \/ \E t \in Things : Make(t) \/ DropHandle(t)
  \/ \E f \in Formatters : Die(f)
  \/ \E o \in Outputs : DieFlushBegin(o) \/ DieFlushEnd(o)
  \/ \E x \in Streams : UserBegin(x) \/ UserEnd(x)
  \/ \E s \in Sinks : Build(s) \/ Work(s) \/ End(s)

OutSpec == OutInit /\ [][OutNext]_outVars

-----------------------------------------------------------------------------
\* The sinks that refer to t, and those of them that have not released it.
HasMember(s, t) == fmt[s] = t \/ out[s] = t
Users(t) == {s \in Sinks : \/ fmt[s] = t /\ step[s] # "formatter_released"
                           \/ out[s] = t /\ step[s] # "output_released"}

\* A formatter or an output is there as long as a sink, a factory or the
\* program refers to it, is counted by them, and is destroyed after the last.
LivesWhileHeld ==
  \A t \in Things :
    /\ refs[t] = Cardinality({s \in Sinks : t \in param[s]}) + Cardinality({s \in Sinks : HasMember(s, t)})
                 + (IF t \in held THEN 1 ELSE 0)
    /\ refs[t] > 0 <=> life[t] = "live"

\* One sink at a time uses a formatter or an output, and no longer than it
\* lives or the factory needs to find that it gets no output.
UsedByOne ==
  \A t \in Things \ Shared :
    /\ \A s, r \in Users(t) : s = r
    /\ inUse[t] <=> Users(t) # {}

\* The stream of an output is entered by one actor at a time: sinks that share
\* it, sinks that have it one after the other, the program, and, where the
\* output does not share it, the destructor of the output.
StreamsApart ==
  \A x \in Streams :
    /\ Cardinality(at[x] \ Shared) <= 1
    /\ (\A o \in Shared : StreamOf[o] # x) => Cardinality(at[x]) <= 1
=============================================================================
