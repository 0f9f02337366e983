# fstlog in TLA+

fstlog is an asynchronous logging library: threads write messages into log
buffers of their own without locks, and a *core* with a background thread reads
the buffers and passes the messages through sinks (filter, formatter, output).
This directory models the parts of it in which steps of several threads meet,
or where an algorithm is easy to get wrong by one, checks them with TLC on
small instances and proves the most important facts for all instances with
TLAPS. Paths are relative to `src/` of the repository unless they say otherwise.

## 1. The system

| part | state | operations | interacts with |
|---|---|---|---|
| log buffer (`log_buffer_impl`) | positions `write_pos_`, `read_pos_`, `snapshot_write_pos_`, `writeable_size_`, `flush_requested_`, a mutex and a condition variable, a reference count | `update_producer_state`, `advance_write_pos`, `request_flush_if_needed`, `wait_for_buffer_flush` by the one thread that logs; `snapshot_write_pos`, `get_unread`, `advance_read_pos`, `flush_requested`, `wake_producer` by the core | shared by one thread and the core |
| log policies | `w_pos_begin`, the counter of drops | guaranteed waits, nonguaranteed drops, lowlatency neither looks at a flag nor notifies | call the buffer, notify the core |
| core (`core_impl`) | buffer store, sink store, `next_buffer_poll_`, `next_sink_flush_`, `buffer_poll_interval_`, `data_ready_`, stop flag, id and place in the thread local arrays | `run` (background thread), `flush`, `start`, `stop`, `poll_interval`, `add_sink`, `release_sink`, `get_buffer`, `tls_buffer`, `init`, destruction | four mutexes (core, buffer store, sink store, background thread), a condition variable, `init_mutex_` of all cores |
| handles (`core`, `log_buffer`, `sink`) | reference counts | copy, drop, destroy with the last one | threads |
| loggers | the thread's buffers in `tls_buffers_` | a log call, `new_buffer`, `release_buffer` | core and buffers |
| sinks | `in_use_`, flush time, whether there is data to flush, a formatter and an output | `sink_msg_block`, `flush`, `needs_immediate_flush`, `use`, `release`, two factories that take a formatter and an output in use | the core holds the sink store's mutex; one sink at a time has a formatter or an output, except an output that locks its stream |
| sorting sink | messages held back, their locators, sizes of sorted blocks | collects, merges in place, writes in order | memory may fail at any growth |
| log call | message size, number of arguments, time | adds the arguments its flags name, computes the size, crops, writes | buffer, through a policy |
| filter | bits of levels and channels, in memory of its own | made, copied, moved, added to; `filter_msg` | a sink copies it |
| formatter, parser, text conversion | the compiled format string, the specifications of fields, minutes already formatted; places of fields, the rest of a signature and an error during a message | `formatter_init`, `format_message` | a sink |
| outputs | reference count, `in_use_`; a stream and its mutex, or a file with a buffer, or a console and its colours | write, flush, reopen, move, the last flush in the destructor | sinks, the program that owns a shared stream, the operating system |
| growing array (`dyn_array`) | its block of memory | grow, shrink, resize, push, write, remove, move | the stores of the core, buffers of sinks; memory may fail |

Behaviours that are hard: the producer's stale view of the reader and the
other way round; counters that overflow; three kinds of waiting (a guaranteed
producer for room, the background thread for data or a time, `stop` for the
background thread) over flags guarded by different mutexes; a deadline written
by several threads from values they read earlier; the removal of a buffer whose
thread may just be logging; places used again by later cores; memory that fails
halfway; objects whose last user is whoever happens to be last; texts that are
prepared in steps, each with a limit of its own. What makes each part correct:

* **buffer**: a queue. No message is lost, duplicated, reordered or overwritten
  while unread.
* **policies and core**: nobody sleeps over a request; log calls and `stop`
  return; a dropped message has been noticed by the core.
* **deadlines**: sinks are flushed at their intervals; an interval of zero means
  no polling.
* **messages**: what is written is as long as the room reserved; a line of text
  says what was logged, up to where it was cut off, and says so.
* **life**: a thread writes to a buffer its own core reads; what was logged
  is read before a buffer goes; one writer per sink.
* **sorting sink**: every message is written once; what a flush writes is in
  order unless memory was short.
* **formatter**: a format string, a specification or a time pattern is refused
  for a cause, and what is accepted is written as it says.
* **sinks, outputs, formatters**: used by one at a time, destroyed after the
  last reference, never left locked; a stream is entered by one actor at a time.
* **files, arrays, filters**: memory has one owner, and an operation that fails
  changes nothing.

`PROJECT.json` lists the components with what is left out of each, the hazards
with the line where each one bites and the properties that would catch it, and
for every definition the lines of the source it stands for.

## 2. The modules

**RingPos, LogBuffer, MessageQueue.** `RingPos` has the arithmetic on positions
(modulo `PosMod`, 2^32 in the code) and indexes (modulo `Size`) that
`log_buffer_impl` makes. `LogBuffer` is one producer and the reader with a step
per access to a shared position: `LogCall`, `UpdateState` (reads `read_pos_`,
may decide to give up the tail of the ring), `PublishMarker`, `CheckFits`,
`Drop` or `Retry`, `WriteMessage` (the cells, not yet visible),
`AdvanceWritePos`; and `Snapshot`, `GetUnread`, `ReadBlock1`, `ReadBlock2`,
`AdvanceReadPos`. A message is its size and a number, a cell holds the message
it belongs to. `MessageQueue` is what a buffer promises, a FIFO queue, and
`ImplementsQueue` says that `LogBuffer` implements it: a message is appended
when `write_pos_` is advanced and taken when `read_pos_` is.

**FlushProtocol** composes producers of all three policies, the passes of
`read_buffers`, `core::flush`, `stop` and `start`. A critical section that
neither blocks nor calls out is one step; `buffer_mutex_` held over the call of
the core in `wait_for_buffer_flush`, and `bufferstore_mutex_` held for a whole
pass, are visible in the state. Waits may end spuriously. Times that come due
are a choice from `Timed`, so that a run can say "no timer helps".

**CoreSched** has the deadlines: the background loop with its reads and writes
of `next_buffer_poll_`, `next_sink_flush_` and `buffer_poll_interval_` in and
out of `core_mutex_`, `core::flush`, `poll_interval`, `add_sink`,
`release_sink`, and the flush time of every sink. Time points are relative to
now, which makes the states finitely many over unbounded time.

**Lifecycle** has cores, threads, buffers and sinks as objects with references:
`InitSlot`, `InitDone`, `InitFails`, copies and drops of handles, the steps of
destruction, `tls_buffer`, `get_buffer`, `release_buffer`, the end of a thread,
the pass with the removal of unused buffers, `add_sink` and `release_sink`. A
buffer holds a number of messages. Three things the code does apart are one
step here because nobody can see the state in between: what a thread does with
its own place before it takes the mutex of the store; a buffer that is made and
stored; a buffer that is read and then tested for being empty (a message
written in between is as good as one written before, since only the snapshot is
read).

**SinkSort, InplaceMerge.** `SinkSort` is the sink from a message to the output:
`SinkMsg`, `SinkMsgNoMemory` (any of its allocations), `EndBlock`, `Flush`,
`Destroy`, with `MergeSort` made of rounds of merges. `InplaceMerge` is one merge
in the code's own arithmetic: `size_t` indexes modulo `Wrap`, forwards,
backwards, by rotation, or by qsort, whose order of equal timestamps is any.

**LogArgs, LogMessage, ArgParser, LogCall.** `LogArgs` is what a log call computes and
writes: the signature of a type, the size of an argument, once from the type
(`ArgSizeOfType`, as the compiler does) and once from the value (`ArgSize`),
`ComputeSize` with the cropping, and `WriteArg`; a function on types or on values has
those with up to `MaxNesting` containers inside each other for its domain. A message is a sequence of words
of four bytes, and a word says what it is part of, so that reading a counter
where there is data is seen (`"misread"`). `ArgParser` reads such words knowing
only signatures and flags, as the formatter does: `InitLogfields`,
`ProcessElement` with lists, tuples and the limit on nesting, `SkipType`, the
message field with its replacement fields, errors and the room in the output.
`LogMessage` goes from a call to the words in the ring: `Log`, `ComputeMsgSize`,
`WriteMessage`, `ReadMessage`. `LogCall` extends it to the line of text: its `Format` is
`ReadMessage` with what the formatter makes of the words, so that its steps are
steps of `LogMessage`; `Tokens` is the reference for what should have been written.

**UtfChar, TextField.** `UtfChar` has single characters, as numbers: decoding from
UTF-8 and UTF-16 with what is consumed when it is broken, the white list of safe
characters, encoding and escapes. `TextField` is a text on its way into the line,
byte by byte: `EncodeString` (the loops that convert, with their room of ten bytes
for each character and without it for ASCII, the precision, the width), and
`ReencodeTail`, the format of the message field applied to a text that is there
already. What a run expects is stated in terms of encodings, not of the decoder:
`LengthsAt` looks for characters that are encoded at a place of a text, `Becomes` has
what may become of each unit, and `IsMadeOf` says that a text is what became of the
units of the source, one after the other. In `LogCall` a value
is one unit of output; `TextField` is what happens inside such a unit, and
`MCFormatting` checks the two side by side, in behaviours that do the one or the
other.

**FormatSpec, FormatString, TimeStamp.** `FormatSpec` has the grammar of a
format specification (`ValidFormatSpec`) and the reading of its parts
(`GetFormat`), over bytes. The formatter has a grammar of its own: `Language` is that one,
written as sets, with the numbers of `skip_valid_fmt_number` and the fills of
`skip_fill_align`; `StdLanguage` is what std::format (of C++20, without fields in the
specification) allows, and `ZeroWidths` what the formatter takes beyond it. The longer
specifications of the run are joined from parts (`Join`); the parts are those of
std::format (`IsParts`), some of which the formatter does not take (`AreTaken`), and
what is read is compared with the parts. `Once(F, x)` is F(x); it is written where a
value that is long to compute is used several times.
`FormatString` compiles a format string (`FormatterInit`, `ParseFormatString`)
into the buffer it shares with the text of messages, and writes lines along
it (`FormatLine`): one byte stands for a field, the message is consumed as it
is written. `TimeStamp` prepares a pattern (`InitEncoderTimestamp`: taken apart,
the seconds and the offset replaced, filled) and writes stamps through the cache of
minutes (`EncodeTimestamp`); what the C library says of a minute in UTC and in a
zone is a constant. `IsStrftime` is the reference: the pattern's pieces, one
after the other.

**Outputs, OutFile, Console.** `Outputs` has sinks being made and destroyed
around formatters and outputs: `SinkCall`, `AllocFails`, `SetFormatter`,
`SetOutput`, a refusal in the middle, `LastHandle`, and the steps of the destructors
in their order (`ReleaseFormatter`, `DropFormatter`, `LastFlushBegin`,
`ReleaseOutput`, `DropOutput`), the handles of the program, and the streams with
who is inside. `OutFile` is a file of the C library with a buffer given to it,
`Open`, `TryReopen`, `Move`, any of which the library may refuse; closing,
flushing and `setvbuf` are modelled by what they do to the bytes held back.
`Console` colours level names in a line, searched for all at once.

**Filter, DynArray.** `Filter` has handles and memory, and levels and channels as
bits of words, with `wanted` remembering what was asked for. `DynArray` has arrays,
blocks of memory whose cells hold an element or nothing, and `list`
remembering what each array should be.

Definitions whose comment begins "A bug:" are not part of a specification. Each
is a slip that could have been made at that place, and shows that the property
it is paired with in `PROJECT.json` would notice.

## 3. What is checked

| run | instance | properties | what it shows |
|---|---|---|---|
| `log_buffer` | ring of 4, positions modulo 8, messages of 1 to 3, 5 calls | `WriteableIsFree`, `UnreadIntact`, `ImplementsQueue` | the ring is a queue under every interleaving; the positions overflow and the ring wraps several times within 5 messages |
| `flush` | one guaranteed producer, ring of 4, messages of 3 and 4, 3 calls, one `flush`, one `stop` and `start`, timers that may or may not fire | `NoLostWakeup`, `WaitsBounded`, `CallsReturn`, `StopReturns` | waiting and waking work without the help of a timer; a call waits at most six times |
| `flush_quarters` | nonguaranteed, ring of 8, messages up to a quarter, 9 calls, no timers | `SleepsOnlyIfRoom`, `DropWakesCore` | for messages up to a quarter of the ring the rule that notifies at quarters keeps up |
| `sched_deadlines` | two sinks with intervals 1 and 2, one released, polling switched on | `SinksNotOverslept` | deadlines written by two threads stay right |
| `sched_sinks_live` | no polling, a sink added beside another | `SinkFlushed` | a sink that holds data is flushed at its interval |
| `sched_zero_poll`, `sched_add_lost` | polling switched off; a first sink added | violated | see findings |
| `sinks` | five messages of three timestamps | `NothingLost`, `DisorderIsLate`, `NothingHeldBack`, `FlushSorts` | every order and grouping, memory failing anywhere; five messages make odd numbers of blocks and three rounds |
| `sinks` | arrays of six, `size_t` modulo 16 | `Merged`, `StableMerge` | every pair of neighbouring blocks in every place |
| `sinks` | two filters, two words of two bits, levels at both ends | `FilterIsAsked` | every order of making, copying, moving, adding and destroying |
| `sinks` | two factories, two formatters, an output of its own stream and one that shares a stream with the program | `LivesWhileHeld`, `UsedByOne`, `StreamsApart` | sinks compete for formatters and outputs, are refused, fail in the middle, and are destroyed while others are made |
| `sinks` | two file objects, two FILEs, two buffers of at most 4, three writes | `FileIsIntact` | opened, reopened, moved over one another and refused in every order, no write is lost or written twice |
| `sinks` | every line of three or four pieces: names of levels, their beginnings and ends | `OnlyLevelsColoured` | names broken off inside others hide nothing |
| `lifecycle` | two threads, two cores at one place, ids up to 3, three buffers, one sink, at most one unread message each | `CountIsHolders`, `OwnBuffer`, `NothingStranded`, `SinkExclusive`, `MessagesLeaveByReading` | a place is used by three cores in turn, the second made while the first is half destroyed |
| `lifecycle` | two arrays, three blocks of at most 4 cells, elements of one value beside the default | `ArrayIsIntact` | every sequence of operations, any allocation failing, arrays moved into each other |
| `formatting` | one argument of each shape of up to three containers, and all 32 sets of fields with up to two arguments; rings for 88 and 160 bytes, outputs of 5 and 40 units, nesting limit 2 | `SizeIsWritten`, `CroppedOnlyIfTooLong`, `LineIsTrue` | cropped anywhere, cut off anywhere, too deep: the line is the beginning of the true one, and an error says when there is more, and why |
| `formatting` | every text of up to four bytes or units of nine and seven kinds; two characters from the edges of the ranges in three encodings, with eleven formats, in 9 and 40 bytes | `NothingSwallowed`, `CutWithError`, `NothingUnprintable`, `FieldIsWide` | broken text costs no character beside it and every encoding is read alike, nothing leaves the room or gets lost without an error, and a field is as wide as it should be |
| `formatting` | every text of up to four of 13 bytes, and choices of the parts of a specification of std::format, with fills and numbers that the formatter refuses | `SpecIsRead` | accepted are the formatter's own specifications and nothing else; how they differ from those of std::format is in section 3; and the parts are read as they are meant |
| `formatting` | two zones, three minutes around a change to daylight saving time, a cache of two, some 180 patterns of up to 80 bytes | `StampIsAsked` | stamps are what the pattern says whatever was cached before, and a pattern is refused only for what is in it or for its length |
| `formatting` | format strings of any five pieces and of up to four items, a buffer of 40; messages of up to three items in lines of 12 and 64 | `FormatsAccepted`, `LineIsFormat` | strings are accepted exactly when they are well formed and fit, and every field stands in its place |
| `log_call_nested` | arrays of arrays of arrays, arrays of pairs with arrays | `SizeIsWritten` is violated | see findings |
| `stamp_percent` | the pattern `%%S` | `IsStrftime` is violated | see findings |

`MCSinks`, `MCLifecycle` and `MCFormatting` check parts that share no state side by
side: each takes its steps while the others are at their beginning, so that the
states are the sum and not the product of theirs; nothing a part can do is left
out by that, as no part reads a variable of another.

`CHECK_DEADLOCK FALSE` stands where the bounds on calls let everything end, and in
`sinks` and `formatting`, where a file has taken its writes and a call ends with
its line. Symmetry is used in `lifecycle`, over threads, cores and buffers, and in
`sinks`, over the handles of filters and the memory for them; no definition tells
these apart, and neither run has a liveness property.

*Bounds.* `MaxMsgs`, `MaxCalls`, `MaxFlushes`, `MaxStops`, `MaxUnread`,
`MaxPasses`, `MaxId`, `MaxWrites` cap how often things happen; `MaxMemory` and `MaxBuffer` cap
the size of a block and of a buffer, `MaxLength` and `MaxPieces` that of a text, `MaxNesting` how deep
containers are in each other; `MaxLag` caps the time between
a thread's reading of the clock and its use. In `lifecycle` one core at a time
has the only place; two cores side by side (`Slots = {0, 1}`) were tried with
one buffer and take too long to be a standing run with more, and `SinkExclusive`,
the one property in which two such cores meet, is proved for any number of them.

*Fairness.* `FlushProtocol` assumes weak fairness only: of the steps of each thread
in a log call, of the steps of a pass, of the background thread, of the two ends
of `core::flush` and of the join in `stop`; a thread that can run all the time
does run. Nothing is assumed of timers, of spurious wake-ups or of new calls.
`CoreSched` assumes that threads able to run do run, and strong fairness of the
clock, which `MaxLag` holds back while a thread has read it. That `core::flush`
returns is not claimed: `std::mutex` is not fair, and the background thread may
take the mutex of the store for ever.

*Findings.* Four runs show where the code and its documents part.
`sched_zero_poll`: `run()` tests the interval without the mutex and uses it under
it, so that `poll_interval(0)` in between leaves a core that polls without sleeping. 
`sched_add_lost`: `next_sink_flush_` is computed under one mutex
and written under another, so that a sink added in between is not flushed by
time. `log_call_nested`: the size of an argument that is a `std::array` of
containers, computed from its type, leaves out the counters of the containers
inside, and the message is longer than its room; arrays of numbers and of
strings, and containers in lists and tuples, are in `formatting` and are right.
`stamp_percent`: the pattern `%%S` is written as a percent sign and the seconds,
because the second `%` is taken for the beginning of `%S`. `StampIsAsked` leaves out
such patterns, those with a fill of percent signs, and widths for text beyond
ASCII, whose length is counted in bytes where `char` is signed (`Misread`).

`DropWakesCore` is claimed for messages of up to a quarter of the ring only. A
nonguaranteed call that drops its message returns before
`request_flush_if_needed`, so with larger messages, say of 3 and 6 of 8, a
message can be dropped while the core sleeps and nothing wakes it; the README's
"will wake up the core and/or request a flush if needed" (line 345) can be read
either way.

*Specifications.* `SpecIsRead` holds the formatter to its own grammar, because that is
not the one of std::format, for which the README's "with the following differences"
(lines 116-120 and 192-210) does not account. `skip_valid_fmt_number`
(format_str_helper.hpp:226-241) reads a width and a precision by one rule: a zero, or up to four
digits that do not begin with it. So `00` is accepted, a width of zero behind the
flag, which std::format refuses; and `.01` is refused, a precision it allows, as are all numbers
of five digits and more, and fills that are not on the white list of safe characters. The
unit tests expect the refusals of long numbers and of unsafe fills, and of a
leading zero in `0020` (tests/unit_tests/format_str_helper.cpp:409-455); `00` and `.01` are in
none of them. `OnlySpecsAccepted` says that these are all the differences of the
grammars: what is accepted is in `StdLanguage` or in `ZeroWidths`, and of what std::format
has the rest is accepted. Which of its types and flags goes with which argument is left out.

## 4. What is proved

Each proof module has one part of the system; `LogBufferProofs` and
`FlushProtocolProofs` begin with lemmas on positions modulo `PosMod`, the latter also on
the quarters of the ring, and `LogMessageProofs` uses those of `TextProofs` on joined
sequences. The kinds of
values are part of the inductive invariants (of `LogBuffer` a theorem of its own,
`TypeCorrect`). A theorem about a component with a specification is stated for
`Spec`; the small ones, which are run side by side, for
their initial states and steps (`FilterInit /\ [][FilterNext]_filterVars`).

The assumptions are those the modules name. *Ring*: `Size` is at least 4 and
divisible by 4, `PosMod` is at least twice `Size` and divisible by it, messages fit
the ring. *Merge*: `Wrap` exceeds `Length + 1`, timestamps are natural numbers.
*Scheduling*: there are finitely many sinks, intervals are natural numbers and shorter than the longest
sleep. *Objects*: the sets of threads, cores, buffers, sinks and slots are finite,
`None` is none of their elements, and formatters, outputs, sinks and the program
are different things. *Files, filters, arrays*: the null pointer is no block and no
FILE, raw memory is no element, the least buffer of a file is not above the largest, and
a memory resource has less than half of what a `size_t` counts. *Console*: the names
of levels are not empty and differ, as their coloured forms do, which no line contains.

* **LogBufferProofs** (`TypeCorrect`, `NeverOverrun`, `SnapshotsInRange`,
  `UnreadNeverWritten`). The invariant adds to `WriteableIsFree` that the message
  in hand fits the writeable size when it is published, that a tail given up was
  free, and that the snapshot is between the read and the write position:
  each is what one action needs to keep the others.
* **LogBufferProofs** (`Packing`, `QueueRefinement`). The ring implements
  `MessageQueue`. A read takes what lies between the read position and the snapshot,
  in two blocks when it goes round the end, so the mapping is right only if the unread
  cells are packed with messages, one behind the other, from either end (`Packing`), and
  what a thread has prepared but not published stays as it is. The queue is then what
  is read from the cells, and every step but the advance of the one or
  the other position leaves it alone.
* **FlushProtocolProofs** (`WakeupsAreNotLost`). The invariant says *why* the core
  will see a request: the notification has not been consumed, or the pass has
  not come to the buffer, or it is serving it. Every step hands the request from
  one of these to another.
* **FlushProtocolProofs** (`SleepLeavesRoom`, `DropFindsCoreAwake`), for messages of up
  to a quarter of the ring (`SmallMessages`), a hypothesis the run `flush_quarters` shares and section
  3 explains. A ring that is at least half full at the end of a quarter belongs to a
  call that has still to ask for a flush, or to a background thread that will look
  (`QuarterI`), so a message dropped for want of room finds the core awake.
* **FlushProtocolProofs** (`CallsWaitSixTimes`), without a hypothesis on sizes. Behind
  a wait there are as many more as the current pass may still wake the producer for
  nothing, and three if the end of the ring may still have to be given up
  (`WaitsI`). The proof gave the bound: the run `flush` with its one producer reaches five
  waits, and a second buffer, whose data make the pass go round again, adds the
  sixth.
* **CoreSchedProofs** (`OldSinksInTime`, `SinksInTime`). Every thread that goes about
  with a deadline it read or computed has one that is early enough for every sink
  that holds data, whatever another writes in between. The first theorem is
  about the sinks the core started with, the second about all of them where none is added
  (`Added = {}`); with `add_sink` the property is false, as `sched_add_lost` shows.
* **SinkSortProofs** (`MergeIsRight`, `MergeIsStable`, `MergeInPlace`). The
  invariant says which inputs are taken, that the outputs are the taken inputs
  in order, and that outputs and inputs left do not meet; indexes that
  went below zero are read as signed numbers (`Signed`).
* **SinkSortProofs** (`MessagesKept`, `OnlyLateOnesTrail`, `NothingLeftBehind`,
  `FlushesSort`). A locator goes to the place that its index and the number of
  locators before it in the other block add up to (`LeftPlace`, `RightPlace`), so
  a merge fills every place once; a round keeps the locators and halves the blocks,
  so the rounds end with one sorted block. The invariant `SortI` says what the sink holds,
  how it is blocked, what has gone out and what has been flushed.
* **LifecycleProofs** (`OneWriter`). A core that is given a sink must be one that
  runs: the thread's handle keeps it so (`LiveI`), because handles are counted
  (`HandlesI`) and one thread destroys a core (`BusyI`), once (`PassI`). A used sink
  is then in one store of a running core or in the hand of one thread.
* **LifecycleProofs** (`ReferencesAreCounted`, `WritesToOwnBuffer`,
  `NoMessageIsStranded`, `OnlyReadingTakesMessages`). A buffer has at most one place
  of a thread and one store, so its count is 0, 1 or 2 (`RefsI`); an entry with the
  id of a core has a buffer that core still has (`EntryI`), because ids are not
  used again (`IdI`) and a pass removes only buffers in no place (`UnusedI`);
  messages are in buffers of cores that read (`UnreadI`), whose last pass leaves none
  (`LastI`). That messages disappear only by being read is an action property from the same
  invariant.
* **LifecycleProofs** (`ArraysAreIntact`). A block holds the list of its array and raw memory
  behind it (`ListI`), no two arrays share one (`AloneI`), and it is allocated exactly when
  an array has it (`InUseI`). What growing and reallocating return is such an array whether there
  was memory or not, and there is always something to spare for one more element
  (`SpareIs`), which `try_push_back` takes for granted.
* **OutputsProofs** (`CountsAreHolders`, `UsersAreOne`, `StreamsAreApart`). The count of
  a thing is the number of factories and sinks that refer to it, and one for a handle of
  the program (`CountedI`), so the invariant says which members a sink has at each
  step of its making and destruction (`StepI`). A used thing has a sink that uses
  it and therefore a reference (`UsedByOne` needs the count: what is made again has
  no user left). A stream has in it the sinks at work with an output of that
  stream, the destructors that flush, and the program (`AtI`), and the mutex of a
  shared stream is held by the sink at work (`HolderI`).
* **OutputsProofs** (`FilesAreIntact`). `FileIsIntact` is about the disk, so the invariant
  says whose every FILE and buffer is (`HandlesOpen`, `BuffersOwned`), that there is one
  FILE at most, and that disk and buffer together are what was written (`Kept`).
* **OutputsProofs** (`FiltersAreAsked`). A filter has memory for itself, memory in use has
  a filter, and its bits are what was asked for (`TellsI`). The loop over the words of a range
  of channels is a recursive function; `TurnIs` says what it comes to after each of its turns.
* **OutputsProofs** (`LevelsAreColoured`). After each turn of the loop over a line
  (`ReadTo`) what is shown, without colours, is what was read; a search has the
  characters of any name that may begin there (`Matching`), which is why one that starts
  anew need not look back at such a place; and no name is left uncoloured there (`NoneLeft`).
* **TextProofs** (`NothingButContinuations`, `EncodedIsDecoded`). For every text,
  and for every character with anything behind it. The second is a calculation: the
  parts of a number that go into two, three and four bytes make it up again, and the
  decoder sees nothing broken in them.
* **TextProofs** (`NeverUnprintable`, `FieldsAreWide`, `CutsAreTold`,
  `NothingIsSwallowed`), from `TextFieldAssumption`: the texts are in the encoding that
  is given for them, and a field has no more room than the buffer of the sink. A text
  is printable when it can be taken apart into safe characters and escapes (`IsSafeText`),
  which each turn of the loops preserves; its characters are then the bytes that continue
  none, so that padding and trimming, which decode what was written, count right. Two
  conversions of one source in different rooms take the same turns until the smaller
  room is used up. And after each turn what is written is what became of the units that are
  consumed (`IsMadeOf`): where the decoder takes several units for one character that is
  broken, none of the others begins a character.
* **TextProofs** (`ValidIsSpec`, `SpecsAreRead`), from `FormatSpecAssumption`: bytes are
  bytes, texts may be longer than nothing, and parts are parts of specifications of
  std::format. For every alphabet and length, and both ways: what `ValidFormatSpec` accepts is
  a join of parts of the formatter's, and such a join is accepted and read as its parts,
  because no part begins like one that may follow where it is left out and no number goes on
  into what is behind it. A fill that is not safe is not skipped, and where digits are no
  number of the formatter's a digit is left of them (`UnsafeRefused`, `DigitLeft`), so that of
  std::format's parts nothing else is accepted (`AcceptedIsTaken`). That what is accepted is
  std::format's but for a width of zero (`AcceptedIsStd`) is a matter of products of
  languages that grow with their factors.
* **LogMessageProofs** (`MessageIsAsLongAsReserved`, `NothingIsLeftOutThatFits`), from
  `LogMessageAssumption`: a call has arguments, and a ring takes more than the header of a
  message. The code computes the size of a message twice, from types and from values,
  and writes it by a third recursion. Types and values are trees (`IsTree`), with as
  many containers inside each other as one likes (`MaxNesting` is any number), and induction over
  them shows that the recursive functions are what their definitions say, that `WriteVar`
  writes as much as counters and payload of the value come to (`VarIsWritten`), and that these
  are the ones computed from the type (`TypeSizeIsSize`). The last holds for types in
  which no array has elements with counters inside them (`Shallow`), so the first theorem
  has a hypothesis, `ArgsAreShallow`: it excepts those calls whose size is taken from types
  not all of which are so, the case of the finding `log_call_nested`. TLC
  finds `ArgsAreShallow` true in all states of `formatting`. The second theorem needs no hypothesis:
  where something is left out, sizes have been taken from the values.

Where a proof is about a loop (the messages in a block, the rounds of merges, the turns over the
words of a filter or over a line), the model has a recursive function and the proof takes a least
counterexample: a set of natural numbers that is not empty has a least element.

Only model-checked: `LineIsTrue`, `StampIsAsked`, `FormatsAccepted` and `LineIsFormat`, whose
modules (`ArgParser`, `LogCall`, `TimeStamp`, `FormatString`) or references have `RECURSIVE`
operators, which are out of the prover's reach; and liveness (`CallsReturn`,
`StopReturns`, `SinkFlushed`), since fairness is about `ENABLED`, of which the prover
knows nothing.

## 5. What is not modelled

* Memory orders weaker than sequential consistency (`use_count()` is a relaxed load).
* The bytes of messages beyond the kind of each word, and the fields of a line
  that come from the header of a message (severity, channel, policy, logger, place
  in the source), which have fixed places; in `FormatString` each is one byte.
* Numbers turned into text, by the library or by hand; the formatter that calls
  std::format and the one that writes nothing.
* In `TimeStamp`: a `localtime_r` or `gmtime_r` that fails, and the check that an
  offset is within 23 hours. In `OutFile`: what a refused `setvbuf` may leave
  behind in the stream. In `CoreSched` one thread adds sinks.
* Self logging of the core; moved handles and references of sinks; the compile-time
  composition of loggers; spans and `small_string` as such (`TimeStamp` has its
  capacity).
* The file of Windows, which is the one of POSIX with other calls; the lifetime of a
  stream that the program gives to `output_cstream` or `output_stream`, which is the
  program's.

Two things a reader might miss are as the code means them: a core that was stopped
by `stop()` leaves messages unread until it is started again, and without polling
a buffer nobody uses stays in the store until there is a pass.

## 6. Plan

1. *Proofs*: the parts of `TimeStamp` and `FormatString` that do not recur over data,
   taken into modules of their own.
2. *Text*: numbers (`encoder_charconv_mixin.hpp`) with width, sign and precision, as
   a further part of `formatting`.
3. *Header fields* in the line of `LogCall`, with the formats `FormatString` reads.
