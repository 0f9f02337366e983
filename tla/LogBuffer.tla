----------------------------- MODULE LogBuffer -----------------------------
(***************************************************************************)
(* log_buffer_impl: the lock-free single-producer single-consumer ring     *)
(* through which a logger hands messages to the core, together with the    *)
(* producer's log call (the message_fits / update_buffer_state /           *)
(* write_message steps every log policy is made of) and the core's         *)
(* read_buffer with the block parser sink_msg_block.                       *)
(*                                                                         *)
(* The ring is modelled cell by cell.  Writing a message (memcpy) and      *)
(* publishing it (advance_write_pos) are separate steps, as are writing    *)
(* the end-of-data marker and publishing it, and each block of a read and  *)
(* the final advance_read_pos, so the two threads interleave as they do in *)
(* the program.                                                            *)
(***************************************************************************)
EXTENDS RingPos, Sequences

CONSTANTS MaxMsgSize,   \* max_message_size_: the largest padded message
          MaxMsgs       \* bound: log calls in a behaviour

ASSUME MaxMsgSizeAssumption == MaxMsgSize \in 1 .. Size
ASSUME MaxMsgsAssumption    == MaxMsgs \in Nat

MsgSizes == 1 .. MaxMsgSize
Messages == [id : 1 .. MaxMsgs, size : MsgSizes]

VARIABLES
  mem,        \* the cells of the ring
  writePos,   \* write_pos_
  readPos,    \* read_pos_
  snapPos,    \* snapshot_write_pos_
  writeable,  \* writeable_size_, known to the producer only
  pState,     \* where the producer is in its log call
  pMsg,       \* the message being logged
  calls,      \* number of log calls made (bounded by MaxMsgs)
  cState,     \* where the core is in its read
  unread,     \* log_buffer_unread_data of the current read
  sunk        \* the messages handed to sink_msg, oldest first

producerVars == <<writeable, pState, pMsg, calls>>
consumerVars == <<readPos, snapPos, cState, unread, sunk>>
vars == <<mem, writePos, producerVars, consumerVars>>

\* A cell: the first cell of a message holds its header, the first byte of
\* which is log_msg_type::Internal; the end marker is log_msg_type::Invalid.
Header(m) == [type |-> "Internal", id |-> m.id, size |-> m.size]
Body(m)   == [type |-> "Body",     id |-> m.id, size |-> 0]
Marker    == [type |-> "Invalid",  id |-> 0,    size |-> 0]
Garbage   == [type |-> "Garbage",  id |-> 0,    size |-> 0]

Cells == {Marker, Garbage} \cup {Header(m) : m \in Messages}
                           \cup {Body(m)   : m \in Messages}

NoMsg    == [id |-> 0, size |-> 0]
NoUnread == [first |-> 0, size1 |-> 0, size2 |-> 0]

Init ==
  /\ mem = [i \in Index |-> Garbage]
  /\ writePos = 0 /\ readPos = 0 /\ snapPos = 0
  /\ writeable = Size
  /\ pState = "idle" /\ pMsg = NoMsg /\ calls = 0
  /\ cState = "idle" /\ unread = NoUnread /\ sunk = << >>

-----------------------------------------------------------------------------
(***************************************************************************)
(* The producer.                                                           *)
(***************************************************************************)

\* message_fits(): the writeable size of the last update still suffices.
Fits(m) == writeable >= m.size

\* A log call: the fast path writes at once, the slow path first looks at
\* the position of the reader.
LogCall(size) ==
  /\ pState = "idle"
  /\ calls < MaxMsgs
  /\ calls' = calls + 1
  /\ pMsg' = [id |-> calls + 1, size |-> size]
  /\ pState' = IF writeable >= size THEN "write" ELSE "update"
  /\ UNCHANGED <<mem, writePos, writeable, consumerVars>>

\* A bug: the tail of the ring is skipped without an end marker in it.
UpdateStateNoMarker ==
  /\ pState = "update"
  /\ LET u == ProducerUpdate(writePos, readPos, pMsg.size)
     IN  /\ writeable' = u.writeable
         /\ pState' = IF u.wrap THEN "wrap" ELSE "check"
  /\ UNCHANGED <<mem, writePos, pMsg, calls, consumerVars>>

\* update_producer_state() up to the publication of the marker.
UpdateState ==
  /\ pState = "update"
  /\ LET u == ProducerUpdate(writePos, readPos, pMsg.size)
     IN  /\ writeable' = u.writeable
         /\ mem' = IF u.wrap THEN [mem EXCEPT ![IndexOf(writePos)] = Marker] ELSE mem
         /\ pState' = IF u.wrap THEN "wrap" ELSE "check"
  /\ UNCHANGED <<writePos, pMsg, calls, consumerVars>>

\* The fetch_add that publishes the end-of-data marker.
PublishMarker ==
  /\ pState = "wrap"
  /\ writePos' = Plus(writePos, Size - IndexOf(writePos))
  /\ pState' = "check"
  /\ UNCHANGED <<mem, writeable, pMsg, calls, consumerVars>>

\* The second message_fits(): write if it does.
CheckFits ==
  /\ pState = "check" /\ Fits(pMsg)
  /\ pState' = "write"
  /\ UNCHANGED <<mem, writePos, writeable, pMsg, calls, consumerVars>>

\* ... the policies that may drop count the message as dropped, ...
Drop ==
  /\ pState = "check" /\ ~Fits(pMsg)
  /\ pState' = "idle" /\ pMsg' = NoMsg
  /\ UNCHANGED <<mem, writePos, writeable, calls, consumerVars>>

\* ... the guaranteed policy waits for a flush and updates again.
Retry ==
  /\ pState = "check" /\ ~Fits(pMsg)
  /\ pState' = "update"
  /\ UNCHANGED <<mem, writePos, writeable, pMsg, calls, consumerVars>>

\* write_message() up to the call of advance_write_pos().
WriteMessage ==
  /\ pState = "write"
  /\ LET at == IndexOf(writePos)
     IN  mem' = [i \in Index |->
                   IF i = at THEN Header(pMsg)
                   ELSE IF i \in at .. at + pMsg.size - 1 THEN Body(pMsg)
                   ELSE mem[i]]
  /\ pState' = "publish"
  /\ UNCHANGED <<writePos, writeable, pMsg, calls, consumerVars>>

\* A bug: the written message stays in the writeable size.
AdvanceKeepsWriteable ==
  /\ pState = "publish"
  /\ writePos' = Plus(writePos, pMsg.size)
  /\ pState' = "idle" /\ pMsg' = NoMsg
  /\ UNCHANGED <<mem, writeable, calls, consumerVars>>

\* advance_write_pos()
AdvanceWritePos ==
  /\ pState = "publish"
  /\ writeable' = writeable - pMsg.size
  /\ writePos' = Plus(writePos, pMsg.size)
  /\ pState' = "idle" /\ pMsg' = NoMsg
  /\ UNCHANGED <<mem, calls, consumerVars>>

Producer == \/ \E size \in MsgSizes : LogCall(size)
            \/ UpdateState \/ PublishMarker \/ CheckFits
            \/ Drop \/ Retry \/ WriteMessage \/ AdvanceWritePos

-----------------------------------------------------------------------------
(***************************************************************************)
(* The core.                                                               *)
(***************************************************************************)

\* sink_msg_block(): the messages of the block that starts at first, up to
\* its end or to the first cell that is not the header of a message.  A
\* header whose message would pass the end of the block is input_bad, and
\* ends the block as well.
BlockMsgs(first, size) ==
  LET end == first + size
      msgs[i \in first .. end] ==
        IF i = end THEN << >>
        ELSE IF mem[i].type # "Internal" \/ i + mem[i].size > end THEN << >>
        ELSE <<[id |-> mem[i].id, size |-> mem[i].size]>> \o msgs[i + mem[i].size]
  IN  msgs[first]

\* snapshot_write_pos()
Snapshot ==
  /\ cState = "idle"
  /\ snapPos' = writePos
  /\ cState' = "snapped"
  /\ UNCHANGED <<mem, writePos, producerVars, readPos, unread, sunk>>

\* read_buffer(): get_unread(); an empty snapshot ends the read at once.
GetUnread ==
  /\ cState = "snapped"
  /\ unread' = Unread(snapPos, readPos)
  /\ cState' = IF snapPos = readPos THEN "idle" ELSE "block1"
  /\ UNCHANGED <<mem, writePos, producerVars, readPos, snapPos, sunk>>

\* The pass leaves the buffer alone (not flushing) after the snapshot.
SkipRead ==
  /\ cState = "snapped"
  /\ cState' = "idle"
  /\ UNCHANGED <<mem, writePos, producerVars, readPos, snapPos, unread, sunk>>

ReadBlock1 ==
  /\ cState = "block1"
  /\ sunk' = sunk \o BlockMsgs(unread.first, unread.size1)
  /\ cState' = IF unread.size2 # 0 THEN "block2" ELSE "advance"
  /\ UNCHANGED <<mem, writePos, producerVars, readPos, snapPos, unread>>

ReadBlock2 ==
  /\ cState = "block2"
  /\ sunk' = sunk \o BlockMsgs(0, unread.size2)
  /\ cState' = "advance"
  /\ UNCHANGED <<mem, writePos, producerVars, readPos, snapPos, unread>>

\* advance_read_pos().  A pass that restarts reads the buffer again under the
\* snapshot it already took.
AdvanceReadPos ==
  /\ cState = "advance"
  /\ readPos' = Plus(readPos, unread.size1 + unread.size2)
  /\ unread' = NoUnread
  /\ cState' \in {"idle", "snapped"}
  /\ UNCHANGED <<mem, writePos, producerVars, snapPos, sunk>>

Core == \/ Snapshot \/ GetUnread \/ SkipRead
        \/ ReadBlock1 \/ ReadBlock2 \/ AdvanceReadPos

Next == Producer \/ Core

Spec == Init /\ [][Next]_vars

-----------------------------------------------------------------------------
\* Every variable stays in its range (sunk is typed by the queue it refines).
TypeOK ==
  /\ mem \in [Index -> Cells]
  /\ writePos \in Pos /\ readPos \in Pos /\ snapPos \in Pos
  /\ writeable \in 0 .. Size
  /\ pState \in {"idle", "update", "wrap", "check", "write", "publish"}
  /\ pMsg \in Messages \cup {NoMsg}
  /\ calls \in 0 .. MaxMsgs
  /\ cState \in {"idle", "snapped", "block1", "block2", "advance"}
  /\ unread \in [first : Index, size1 : 0 .. Size, size2 : 0 .. Size]

\* The write position once the marker under way has been published.
NextWritePos == IF pState = "wrap"
                THEN Plus(writePos, Size - IndexOf(writePos)) ELSE writePos

(***************************************************************************)
(* The space the producer believes it may write is really free and         *)
(* contiguous, although the reader moves while the producer works with the *)
(* read position of an earlier update: the unread data never grows past    *)
(* the ring (the FSTLOG_ASSERTs of advance_write_pos and of                *)
(* update_producer_state).                                                 *)
(***************************************************************************)
WriteableIsFree ==
  /\ Fill(NextWritePos, readPos) + writeable <= Size
  /\ IndexOf(NextWritePos) + writeable <= Size

(***************************************************************************)
(* The snapshot a pass reads up to lies between the reader and the writer, *)
(* whatever the writer does after it was taken, and the blocks of a read   *)
(* end exactly at the snapshot.                                            *)
(***************************************************************************)
SnapshotInRange ==
  cState # "idle" =>
    /\ Fill(snapPos, readPos) <= Fill(writePos, readPos)
    /\ cState \notin {"snapped"} => unread.size1 + unread.size2 = Fill(snapPos, readPos)

\* Cell i holds data that is published and not yet released by the reader.
InUnread(i) ==
  LET d == IF i >= IndexOf(readPos) THEN i - IndexOf(readPos)
                                    ELSE i - IndexOf(readPos) + Size
  IN  d < Fill(writePos, readPos)

(***************************************************************************)
(* The producer never touches a byte the core may be reading: no step      *)
(* changes a cell of the published, unreleased region.                     *)
(***************************************************************************)
UnreadIntact == [][\A i \in Index : InUnread(i) => mem'[i] = mem[i]]_vars

\* The messages between two positions, as a reader would find them.
MsgsBetween(w, r) ==
  LET u == Unread(w, r)
  IN  BlockMsgs(u.first, u.size1) \o BlockMsgs(0, u.size2)

\* The messages published and not yet handed to the sinks.
Pending ==
  IF cState = "block2" THEN BlockMsgs(0, unread.size2) \o MsgsBetween(writePos, snapPos)
  ELSE IF cState = "advance" THEN MsgsBetween(writePos, snapPos)
  ELSE MsgsBetween(writePos, readPos)

(***************************************************************************)
(* The ring implements a FIFO: what the producer publishes reaches the     *)
(* sinks once, whole, in order, across wrap-arounds, end markers, position *)
(* overflow and reads cut short by an old snapshot.                        *)
(***************************************************************************)
Queue == INSTANCE MessageQueue WITH accepted <- sunk \o Pending, delivered <- sunk
ImplementsQueue == Queue!Spec
=============================================================================
