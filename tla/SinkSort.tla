------------------------------ MODULE SinkSort ------------------------------
(***************************************************************************)
(* A sorting sink, from the messages that pass its filter to its output:   *)
(* sink_msg collects a message in message_buffer_ and its locator in       *)
(* message_locators_, tracks the sorted blocks the locators form, and      *)
(* falls back on unsorted output when memory is short; flush_impl merges   *)
(* the blocks two by two and writes the messages out; flush of the         *)
(* unsorted part below then flushes the output if there is anything to.    *)
(*                                                                         *)
(* The merging of two blocks is InplaceMerge's; here it is the operator    *)
(* Merge.  Everything runs under sinkstore_mutex_, one message at a time.  *)
(***************************************************************************)
EXTENDS Integers, Sequences, SequencesExt

CONSTANTS
  MaxStamp,    \* the last timestamp, numeric_limits<stamp_type>::max()
  MaxMsgs      \* bound: messages the sink gets

ASSUME MaxStampAssumption == MaxStamp \in Nat
ASSUME MaxMsgsAssumption  == MaxMsgs \in Nat

VARIABLES
  arrived,   \* the messages that passed the filter, by their timestamps
  inBlock,   \* has_sinked of a call of sink_msg_block, FALSE between calls
  data,      \* message_buffer_: messages by their place in arrived
  locators,  \* message_locators_
  blocks,    \* sorted_block_sizes_
  last,      \* last_timestamp_
  flushable, \* has_flushable_data_
  output,    \* messages given to the output
  flushed,   \* how many of them the output has been told to flush
  closed     \* the sink has been destroyed

sinkVars == <<arrived, inBlock, data, locators, blocks, last, flushable, output, flushed, closed>>
sortVars == <<data, locators, blocks, last>>

SortStamps == 0 .. MaxStamp
Locator == [timestamp : SortStamps, pos : 1 .. MaxMsgs]

SortInit ==
  /\ arrived = <<>> /\ inBlock = FALSE
  /\ data = <<>> /\ locators = <<>> /\ blocks = <<>> /\ last = MaxStamp
  /\ flushable = FALSE /\ output = <<>> /\ flushed = 0 /\ closed = FALSE

-----------------------------------------------------------------------------
\* Where each block starts among the locators, and the last one ends.
BlockStart[n \in 1 .. Len(blocks) + 1] == IF n = 1 THEN 0 ELSE BlockStart[n - 1] + blocks[n - 1]

CutBlocks ==
  [n \in DOMAIN blocks |-> SubSeq(locators, BlockStart[n] + 1, BlockStart[n] + blocks[n])]

\* A sequence of locators is sorted.
InOrder(x, y) == x.timestamp <= y.timestamp
AreSorted(locs) == IsSorted(locs, InOrder)

\* Where a locator of the left and one of the right of two sorted blocks go
\* when they are merged with the left one first among equals.
Earlier(x, y) == x.timestamp < y.timestamp
LeftPlace(l, r, i)  == i + Cardinality({j \in DOMAIN r : Earlier(r[j], l[i])})
RightPlace(l, r, j) == j + Cardinality({i \in DOMAIN l : ~Earlier(r[j], l[i])})

\* inplace_merge(): rotated if the left one is nowhere before the right one.
Merge(l, r) ==
  IF l[1].timestamp >= r[Len(r)].timestamp THEN r \o l
  ELSE [k \in 1 .. Len(l) + Len(r) |->
          IF \E i \in DOMAIN l : LeftPlace(l, r, i) = k
          THEN l[CHOOSE i \in DOMAIN l : LeftPlace(l, r, i) = k]
          ELSE r[CHOOSE j \in DOMAIN r : RightPlace(l, r, j) = k]]

\* A bug: the odd block at the end is left out of a round.
RoundWithoutOdd(bs) ==
  IF Len(bs) <= 1 THEN bs ELSE [n \in 1 .. Len(bs) \div 2 |-> Merge(bs[2 * n - 1], bs[2 * n])]

\* One round of merge_sort(): while there is more than one block they are
\* merged in pairs.
Round(bs) ==
  IF Len(bs) <= 1 THEN bs
  ELSE [n \in 1 .. (Len(bs) + 1) \div 2 |->
          IF 2 * n <= Len(bs) THEN Merge(bs[2 * n - 1], bs[2 * n]) ELSE bs[2 * n - 1]]

\* merge_sort(): as many rounds as it may take.
MergeSort(bs) ==
  LET After[n \in 0 .. Len(bs)] == IF n = 0 THEN bs ELSE Round(After[n - 1])
  IN  FlattenSeq(After[Len(bs)])

\* flush_impl(), given the order the locators are brought into.
FlushImpl(sorted) ==
  /\ output' = output \o [i \in DOMAIN sorted |-> data[sorted[i].pos]]
  /\ data' = <<>> /\ locators' = <<>> /\ blocks' = <<>> /\ last' = MaxStamp

(***************************************************************************)
(* The orders merge_sort can bring them into: the merged one, and for want *)
(* of memory for the merge buffer any sorted one, qsort not being stable.  *)
(***************************************************************************)
Sorted ==
  {MergeSort(CutBlocks)} \cup
  {locs \in [DOMAIN locators -> ToSet(locators)] :
     AreSorted(locs) /\ ToSet(locs) = ToSet(locators)}

-----------------------------------------------------------------------------
Message(t) ==
  /\ ~closed /\ Len(arrived) < MaxMsgs
  /\ arrived' = Append(arrived, t)
  /\ inBlock' = TRUE
  /\ UNCHANGED <<flushable, flushed, closed>>

\* A bug: a message is put in the block before whatever its timestamp.
SinkMsgOneBlock(t) ==
  /\ Message(t)
  /\ data' = Append(data, Len(arrived'))
  /\ locators' = Append(locators, [timestamp |-> t, pos |-> Len(data')])
  /\ blocks' = IF blocks = <<>> THEN <<1>> ELSE [blocks EXCEPT ![Len(blocks)] = @ + 1]
  /\ last' = t
  /\ UNCHANGED output

\* sink_msg() with memory enough.
SinkMsg(t) ==
  /\ Message(t)
  /\ data' = Append(data, Len(arrived'))
  /\ locators' = Append(locators, [timestamp |-> t, pos |-> Len(data')])
  /\ blocks' = IF t < last \/ blocks = <<>>
               THEN Append(blocks, 1)
               ELSE [blocks EXCEPT ![Len(blocks)] = @ + 1]
  /\ last' = t
  /\ UNCHANGED output

\* A bug: the message goes out before those collected earlier.
SinkMsgFirst(t) ==
  /\ Message(t)
  /\ \E sorted \in Sorted :
       output' = Append(output, Len(arrived')) \o [i \in DOMAIN sorted |-> data[sorted[i].pos]]
  /\ data' = <<>> /\ locators' = <<>> /\ blocks' = <<>> /\ last' = MaxStamp

(***************************************************************************)
(* sink_msg() out of memory for the data, the locator or the block:  what  *)
(* was collected is flushed, the message goes straight to the output.  The *)
(* locator and the data that did fit go the way of the rest.               *)
(***************************************************************************)
SinkMsgNoMemory(t) ==
  /\ Message(t)
  /\ \E sorted \in Sorted :
       output' = Append(output \o [i \in DOMAIN sorted |-> data[sorted[i].pos]], Len(arrived'))
  /\ data' = <<>> /\ locators' = <<>> /\ blocks' = <<>> /\ last' = MaxStamp

\* A bug: the output is not marked after a block of messages.
EndBlockUnmarked ==
  /\ inBlock
  /\ inBlock' = FALSE
  /\ UNCHANGED <<arrived, sortVars, flushable, output, flushed, closed>>

\* The end of sink_msg_block(): set_unflushed_data().
EndBlock ==
  /\ inBlock
  /\ inBlock' = FALSE /\ flushable' = TRUE
  /\ UNCHANGED <<arrived, sortVars, output, flushed, closed>>

\* flush(): sort and write, then flush the output if it has data to flush.
Flush ==
  /\ ~inBlock /\ ~closed
  /\ \E sorted \in Sorted : FlushImpl(sorted)
  /\ IF flushable THEN flushed' = Len(output') /\ flushable' = FALSE
                  ELSE UNCHANGED <<flushed, flushable>>
  /\ UNCHANGED <<arrived, inBlock, closed>>

\* The destructors: of the sorting part, then of the output part.
Destroy ==
  /\ ~inBlock /\ ~closed
  /\ \E sorted \in Sorted : FlushImpl(sorted)
  /\ flushed' = Len(output') /\ closed' = TRUE
  /\ UNCHANGED <<arrived, inBlock, flushable>>

SortNext ==
  \/ \E t \in SortStamps : SinkMsg(t) \/ SinkMsgNoMemory(t)
  \/ EndBlock \/ Flush \/ Destroy

-----------------------------------------------------------------------------
(***************************************************************************)
(* "We are not loosing messages" (sink_sort_mixin.hpp): what passed the    *)
(* filter has gone to the output or is held by a locator, and only once,   *)
(* memory being short or not.                                              *)
(***************************************************************************)
NothingLost ==
  LET held == [i \in DOMAIN locators |-> data[locators[i].pos]]
  IN  /\ ToSet(output \o held) = DOMAIN arrived
      /\ Len(output \o held) = Len(arrived)

\* What a flush writes is sorted.
StampsOut(s) == [i \in DOMAIN s |-> [timestamp |-> arrived'[s[i]]]]

FlushSorts ==
  [][output' # output /\ arrived' = arrived =>
       AreSorted(StampsOut(SubSeq(output', Len(output) + 1, Len(output'))))]_sinkVars

(***************************************************************************)
(* Messages leave the sink out of order only if the older one came late:   *)
(* whenever a message precedes an older one in the output it had arrived   *)
(* before it.                                                              *)
(***************************************************************************)
DisorderIsLate ==
  \A j \in DOMAIN output : \A i \in 1 .. j - 1 :
    arrived[output[i]] > arrived[output[j]] => output[i] < output[j]

(***************************************************************************)
(* A flush leaves nothing behind: the output has been told to flush all    *)
(* that was written, as has_flushable_data_ is set in time, and a sink     *)
(* that is destroyed has written everything.                               *)
(***************************************************************************)
NothingHeldBack ==
  /\ ~inBlock /\ ~flushable => flushed = Len(arrived)
  /\ closed => flushed = Len(arrived)
=============================================================================
