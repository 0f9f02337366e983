-------------------------- MODULE LogBufferProofs --------------------------
(***************************************************************************)
(* Safety of the ring, and that it implements the queue, for every size of *)
(* the ring, every width of the position counters, every message size and  *)
(* any number of log calls.                                                *)
(***************************************************************************)
EXTENDS LogBuffer, WellFoundedInduction, SequenceTheorems, TLAPS

(***************************************************************************)
(* Positions modulo PosMod, for every ring size and every width of the     *)
(* position counters.                                                      *)
(***************************************************************************)

\* The index of a position is an index of the ring.
LEMMA IndexRange ==
  ASSUME NEW p \in Pos PROVE IndexOf(p) \in Index
  BY SizeAssumption, PosModAssumption DEF Pos, Index, IndexOf

\* Division with remainder, by any divisor.
LEMMA DivUnique ==
  ASSUME NEW d \in Nat, d >= 1, NEW t \in Nat, NEW o \in 0 .. d - 1
  PROVE  (d * t + o) % d = o /\ (d * t + o) \div d = t
<1> DEFINE m == d * t + o
           e == m \div d
           u == m % d
<1>1. m \in Nat
  OBVIOUS
<1>2. e \in Nat /\ u \in 0 .. d - 1 /\ m = d * e + u
  BY <1>1, SMTT(30)
<1> HIDE DEF e, u
<1>3. d * (t - e) = u - o /\ t - e \in Int
  BY <1>2
<1>4. t - e < 1
  BY <1>2, <1>3, SMTT(30)
<1>5. t - e > -1
  BY <1>2, <1>3, SMTT(30)
<1>6. t - e = 0
  BY <1>3, <1>4, <1>5
<1> QED BY <1>2, <1>3, <1>6 DEF u, e

\* The same for the index of a position.
LEMMA ModUnique ==
  ASSUME NEW q \in Nat, NEW t \in 0 .. Size - 1
  PROVE  (Size * q + t) % Size = t
<1>1. Size \in Nat /\ Size >= 1
  BY SizeAssumption
<1> QED BY <1>1, DivUnique

\* Moving a position by at most one turn moves its index by the same amount,
\* around the end of the ring, whether or not the position itself overflows.
LEMMA IndexPlus ==
  ASSUME NEW p \in Pos, NEW n \in 0 .. Size
  PROVE  /\ Plus(p, n) \in Pos
         /\ IndexOf(Plus(p, n)) = IF IndexOf(p) + n >= Size
                                  THEN IndexOf(p) + n - Size
                                  ELSE IndexOf(p) + n
<1> DEFINE q == p \div Size
           t == p % Size
           k == PosMod \div Size
<1>1. /\ p \in Nat /\ n \in Nat /\ n <= Size /\ p < PosMod
      /\ Size \in Nat /\ Size >= 4 /\ PosMod \in Nat /\ PosMod >= 2 * Size
  BY SizeAssumption, PosModAssumption DEF Pos
<1>2. q \in Nat /\ t \in 0 .. Size - 1 /\ p = Size * q + t
  BY <1>1, SMTT(30)
<1>3. k \in Nat /\ PosMod = Size * k
  BY <1>1, PosModAssumption, SMTT(30)
<1> HIDE DEF q, t, k
<1>4. Plus(p, n) \in Pos
  BY <1>1 DEF Plus, Pos
<1>5. IndexOf(p) = t
  BY DEF IndexOf, t
<1>6. CASE p + n < PosMod
  <2>1. Plus(p, n) = p + n
    BY <1>1, <1>6 DEF Plus
  <2>2. CASE t + n < Size
    <3>1. p + n = Size * q + (t + n) /\ t + n \in 0 .. Size - 1
      BY <1>1, <1>2, <2>2
    <3>2. (p + n) % Size = t + n
      BY <3>1, <1>2, ModUnique
    <3> QED BY <3>2, <2>1, <2>2, <1>1, <1>2, <1>4, <1>5 DEF IndexOf
  <2>3. CASE t + n >= Size
    <3>1. /\ p + n = Size * (q + 1) + (t + n - Size)
          /\ q + 1 \in Nat /\ t + n - Size \in 0 .. Size - 1
      BY <1>1, <1>2, <2>3
    <3>2. (p + n) % Size = t + n - Size
      BY <3>1, ModUnique
    <3> QED BY <3>2, <2>1, <2>3, <1>1, <1>2, <1>4, <1>5 DEF IndexOf
  <2> QED BY <2>2, <2>3, <1>1, <1>2
<1>7. CASE p + n >= PosMod
  <2>1. Plus(p, n) = p + n - PosMod
    BY <1>1, <1>7 DEF Plus
  <2>2. Size * (k - q) = Size * k - Size * q /\ Size * (k - q) > 0
    BY <1>1, <1>2, <1>3, SMTT(30)
  <2>3. k - q >= 1
    BY <2>2, <1>1, <1>2, <1>3, SMTT(30)
  <2>4. Size * (k - q) <= t + n
    BY <2>2, <1>1, <1>2, <1>3, <1>7
  <2>5. k - q < 2
    BY <2>4, <1>1, <1>2, <1>3, SMTT(30)
  <2>6. k - q = 1
    BY <2>3, <2>5, <1>2, <1>3
  <2>7. PosMod = Size * q + Size
    BY <2>2, <2>6, <1>1, <1>2, <1>3
  <2>8. /\ p + n - PosMod = Size * 0 + (t + n - Size)
        /\ t + n - Size \in 0 .. Size - 1 /\ t + n >= Size
    BY <2>7, <1>1, <1>2, <1>7
  <2>9. (p + n - PosMod) % Size = t + n - Size
    BY <2>8, ModUnique
  <2> QED BY <2>1, <2>8, <2>9, <1>1, <1>2, <1>4, <1>5 DEF IndexOf
<1> QED BY <1>1, <1>6, <1>7

\* The unread data grows by what the producer publishes ...
LEMMA FillWrite ==
  ASSUME NEW w \in Pos, NEW r \in Pos, NEW n \in 0 .. Size, Fill(w, r) + n <= Size
  PROVE  Fill(Plus(w, n), r) = Fill(w, r) + n
  BY SizeAssumption, PosModAssumption DEF Fill, Minus, Plus, Pos

\* ... and shrinks by what the reader releases.
LEMMA FillRead ==
  ASSUME NEW w \in Pos, NEW r \in Pos, NEW n \in 0 .. Size,
         n <= Fill(w, r), Fill(w, r) <= Size
  PROVE  Fill(w, Plus(r, n)) = Fill(w, r) - n
  BY SizeAssumption, PosModAssumption DEF Fill, Minus, Plus, Pos

\* The write index is the read index moved by the unread data.
LEMMA WriteIndex ==
  ASSUME NEW w \in Pos, NEW r \in Pos, Fill(w, r) <= Size
  PROVE  /\ Fill(w, r) \in 0 .. Size
         /\ IndexOf(w) = IF IndexOf(r) + Fill(w, r) >= Size
                         THEN IndexOf(r) + Fill(w, r) - Size
                         ELSE IndexOf(r) + Fill(w, r)
<1>1. Fill(w, r) \in 0 .. Size /\ Plus(r, Fill(w, r)) = w
  BY SizeAssumption, PosModAssumption DEF Fill, Minus, Plus, Pos
<1> QED BY <1>1, IndexPlus

\* Positions in the order r, p, w: the cells between them add up.
LEMMA FillAdds ==
  ASSUME NEW w \in Pos, NEW p \in Pos, NEW r \in Pos,
         Fill(w, r) <= Size, Fill(w, p) <= Fill(w, r) \/ Fill(p, r) <= Fill(w, r)
  PROVE  /\ Fill(w, r) \in 0 .. Size /\ Fill(w, p) \in 0 .. Size /\ Fill(p, r) \in 0 .. Size
         /\ Fill(w, r) = Fill(p, r) + Fill(w, p)
BY SizeAssumption, PosModAssumption DEF Fill, Minus, Pos

\* There is nothing between a position and itself, and only there.
LEMMA FillZero ==
  ASSUME NEW w \in Pos, NEW r \in Pos
  PROVE  Fill(r, r) = 0 /\ (Fill(w, r) = 0 <=> w = r)
BY SizeAssumption, PosModAssumption DEF Fill, Minus, Pos

-----------------------------------------------------------------------------
(***************************************************************************)
(* WriteableIsFree is not inductive: publishing a message keeps it only    *)
(* because the message fits the writeable size, publishing a marker only   *)
(* because the tail it skips was free, and releasing what was read only    *)
(* because the snapshot has not overtaken the writer.                      *)
(***************************************************************************)
MsgFits == pState \in {"write", "publish"} =>
             pMsg \in Messages /\ pMsg.size <= writeable

TailIsFree == pState = "wrap" =>
  Fill(writePos, readPos) + (Size - IndexOf(writePos)) + writeable <= Size

UpdatesHaveMsg == pState \in {"update", "wrap", "check"} => pMsg \in Messages

IInv == /\ TypeOK
        /\ Fill(writePos, readPos) <= Size
        /\ WriteableIsFree
        /\ SnapshotInRange
        /\ MsgFits
        /\ TailIsFree
        /\ UpdatesHaveMsg

\* Initially the ring is empty and all of it is writeable.
LEMMA InitIInv == Init => IInv
<1> SUFFICES ASSUME Init PROVE IInv
  OBVIOUS
<1>1. IndexOf(0) = 0 /\ Fill(0, 0) = 0 /\ 0 \in Pos /\ 0 \in Index
  BY SizeAssumption, PosModAssumption DEF IndexOf, Fill, Minus, Pos, Index
<1>2. NextWritePos = 0
  BY DEF Init, NextWritePos
<1>3. TypeOK
  BY <1>1, SizeAssumption, MaxMsgsAssumption
     DEF Init, TypeOK, NoMsg, NoUnread, Cells
<1> QED
  BY <1>1, <1>2, <1>3, SizeAssumption
     DEF Init, IInv, WriteableIsFree, SnapshotInRange, MsgFits, TailIsFree,
         UpdatesHaveMsg

\* A cell written at or behind the write index, inside the free space, is not
\* unread.
LEMMA FreeCell ==
  ASSUME IInv, NEW i \in Index, NEW n \in 1 .. Size,
         Fill(writePos, readPos) + n <= Size,
         IndexOf(writePos) + n <= Size,
         i \in IndexOf(writePos) .. IndexOf(writePos) + n - 1
  PROVE  ~InUnread(i)
<1>1. writePos \in Pos /\ readPos \in Pos
  BY DEF IInv, TypeOK
<1>2. IndexOf(writePos) \in Index /\ IndexOf(readPos) \in Index
  BY <1>1, IndexRange
<1>3. /\ Fill(writePos, readPos) \in 0 .. Size
      /\ IndexOf(writePos) = IF IndexOf(readPos) + Fill(writePos, readPos) >= Size
                             THEN IndexOf(readPos) + Fill(writePos, readPos) - Size
                             ELSE IndexOf(readPos) + Fill(writePos, readPos)
  BY <1>1, WriteIndex, SizeAssumption DEF IInv
<1> QED BY <1>2, <1>3, SizeAssumption DEF InUnread, Index

\* What an update of the producer's state may conclude.
LEMMA UpdateSafe ==
  ASSUME NEW w \in Pos, NEW r \in Pos, NEW needed \in MsgSizes, Fill(w, r) <= Size
  PROVE  LET u == ProducerUpdate(w, r, needed)
         IN  /\ u.wrap \in BOOLEAN
             /\ u.writeable \in 0 .. Size
             /\ u.wrap => Fill(w, r) + (Size - IndexOf(w)) + u.writeable <= Size
             /\ ~u.wrap => /\ Fill(w, r) + u.writeable <= Size
                           /\ IndexOf(w) + u.writeable <= Size
<1>1. IndexOf(w) \in Index /\ Fill(w, r) \in 0 .. Size
  BY IndexRange, WriteIndex
<1>2. needed \in Nat
  BY MaxMsgSizeAssumption, SizeAssumption DEF MsgSizes
<1> DEFINE untilEnd == Size - IndexOf(w)
           allFree  == Size - Fill(w, r)
<1>3. untilEnd \in 1 .. Size /\ allFree \in 0 .. Size
  BY <1>1, SizeAssumption DEF Index
<1>4. CASE untilEnd > allFree
  <2>1. ProducerUpdate(w, r, needed) = [wrap |-> FALSE, write |-> w, writeable |-> allFree]
    BY <1>4, <1>3, <1>2, SizeAssumption DEF ProducerUpdate
  <2> QED BY <2>1, <1>4, <1>3, <1>1, SizeAssumption DEF Index
<1>5. CASE untilEnd <= allFree /\ untilEnd >= needed
  <2>1. ProducerUpdate(w, r, needed) = [wrap |-> FALSE, write |-> w, writeable |-> untilEnd]
    BY <1>5, <1>3, <1>2, SizeAssumption DEF ProducerUpdate
  <2> QED BY <2>1, <1>5, <1>3, <1>1, SizeAssumption DEF Index
<1>6. CASE untilEnd <= allFree /\ untilEnd < needed
  <2>1. ProducerUpdate(w, r, needed)
          = [wrap |-> TRUE, write |-> Plus(w, untilEnd), writeable |-> allFree - untilEnd]
    BY <1>6, <1>3, <1>2, SizeAssumption DEF ProducerUpdate
  <2> QED BY <2>1, <1>6, <1>3, <1>1, SizeAssumption DEF Index
<1> QED BY <1>4, <1>5, <1>6, <1>3, <1>2, SizeAssumption

\* The blocks of a read cover exactly the data up to the snapshot.
LEMMA UnreadCovers ==
  ASSUME NEW s \in Pos, NEW r \in Pos, Fill(s, r) <= Size, s # r
  PROVE  LET u == Unread(s, r)
         IN  /\ u \in [first : Index, size1 : 0 .. Size, size2 : 0 .. Size]
             /\ u.size1 + u.size2 = Fill(s, r)
<1>1. IndexOf(r) \in Index /\ IndexOf(s) \in Index
  BY IndexRange
<1>2. /\ Fill(s, r) \in 0 .. Size
      /\ IndexOf(s) = IF IndexOf(r) + Fill(s, r) >= Size
                      THEN IndexOf(r) + Fill(s, r) - Size
                      ELSE IndexOf(r) + Fill(s, r)
  BY WriteIndex
<1>3. Fill(s, r) # 0
  BY PosModAssumption, SizeAssumption DEF Fill, Minus, Pos
<1>4. CASE IndexOf(r) < IndexOf(s)
  <2>1. Unread(s, r) = [first |-> IndexOf(r), size1 |-> IndexOf(s) - IndexOf(r), size2 |-> 0]
    BY <1>4, <1>1, SizeAssumption DEF Unread, Index
  <2> QED BY <2>1, <1>4, <1>1, <1>2, SizeAssumption DEF Index
<1>5. CASE IndexOf(r) >= IndexOf(s)
  <2>1. Unread(s, r) = [first |-> IndexOf(r), size1 |-> Size - IndexOf(r), size2 |-> IndexOf(s)]
    BY <1>5, <1>1, SizeAssumption DEF Unread, Index
  <2>2. Size - IndexOf(r) + IndexOf(s) = Fill(s, r)
    BY <1>5, <1>1, <1>2, <1>3, SizeAssumption DEF Index
  <2>3. /\ Size - IndexOf(r) \in 0 .. Size /\ IndexOf(s) \in 0 .. Size
    BY <1>1, SizeAssumption DEF Index
  <2> QED BY <2>1, <2>2, <2>3, <1>1
<1> QED BY <1>4, <1>5, <1>1, SizeAssumption DEF Index

\* A message takes at least one cell and at most as many as the ring has.
LEMMA MsgSizeRange ==
  ASSUME NEW m \in Messages
  PROVE  m.size \in 1 .. Size /\ m.size \in MsgSizes
  BY MaxMsgSizeAssumption, SizeAssumption DEF Messages, MsgSizes

\* Every step of the producer or of the core preserves the invariant.
LEMMA NextIInv == IInv /\ [Next]_vars => IInv'
<1> SUFFICES ASSUME IInv, [Next]_vars PROVE IInv'
  OBVIOUS
<1> USE SizeAssumption
<1>t. /\ writePos \in Pos /\ readPos \in Pos /\ snapPos \in Pos
      /\ writeable \in 0 .. Size /\ calls \in 0 .. MaxMsgs
      /\ IndexOf(writePos) \in Index
      /\ Fill(writePos, readPos) \in 0 .. Size
      /\ Size - IndexOf(writePos) \in 1 .. Size
  <2>1. writePos \in Pos /\ readPos \in Pos /\ snapPos \in Pos
        /\ writeable \in 0 .. Size /\ calls \in 0 .. MaxMsgs
    BY DEF IInv, TypeOK
  <2>2. IndexOf(writePos) \in Index
    BY <2>1, IndexRange
  <2>3. Fill(writePos, readPos) \in 0 .. Size
    BY <2>1, WriteIndex DEF IInv
  <2> QED BY <2>1, <2>2, <2>3 DEF Index
<1>1. ASSUME NEW size \in MsgSizes, LogCall(size) PROVE IInv'
  <2>1. [id |-> calls + 1, size |-> size] \in Messages
    BY <1>1, <1>t, MaxMsgsAssumption DEF LogCall, Messages
  <2>2. TypeOK'
    BY <1>1, <1>t, <2>1, MaxMsgsAssumption
       DEF LogCall, consumerVars, IInv, TypeOK
  <2>3. NextWritePos' = NextWritePos
    BY <1>1 DEF LogCall, NextWritePos
  <2>4. WriteableIsFree' /\ SnapshotInRange'
    BY <1>1, <2>3 DEF LogCall, consumerVars, IInv, WriteableIsFree, SnapshotInRange
  <2> QED
    BY <1>1, <2>1, <2>2, <2>4
       DEF LogCall, consumerVars, IInv, MsgFits, TailIsFree, UpdatesHaveMsg
<1>2. ASSUME UpdateState PROVE IInv'
  <2> DEFINE u == ProducerUpdate(writePos, readPos, pMsg.size)
  <2>1. pMsg \in Messages /\ pMsg.size \in MsgSizes
    BY <1>2, MsgSizeRange DEF UpdateState, IInv, UpdatesHaveMsg
  <2>2. /\ u.wrap \in BOOLEAN
        /\ u.writeable \in 0 .. Size
        /\ u.wrap => Fill(writePos, readPos) + (Size - IndexOf(writePos))
                       + u.writeable <= Size
        /\ ~u.wrap => /\ Fill(writePos, readPos) + u.writeable <= Size
                      /\ IndexOf(writePos) + u.writeable <= Size
    BY <1>t, <2>1, UpdateSafe DEF IInv
  <2> HIDE DEF u
  <2>3. /\ writeable' = u.writeable
        /\ mem' = IF u.wrap THEN [mem EXCEPT ![IndexOf(writePos)] = Marker] ELSE mem
        /\ pState' = IF u.wrap THEN "wrap" ELSE "check"
        /\ UNCHANGED <<writePos, pMsg, calls, readPos, snapPos, cState, unread, sunk>>
    BY <1>2 DEF UpdateState, u, consumerVars
  <2>4. TypeOK'
    BY <2>2, <2>3, <1>t DEF IInv, TypeOK, Cells
  <2>5. CASE u.wrap
    <3>1. pState' = "wrap" /\ Plus(writePos, Size - IndexOf(writePos)) \in Pos
      BY <2>3, <2>5, <1>t, IndexPlus
    <3>2. NextWritePos' = Plus(writePos, Size - IndexOf(writePos))
      BY <2>3, <3>1 DEF NextWritePos
    <3>3. IndexOf(NextWritePos') = 0
      BY <3>2, <1>t, IndexPlus DEF Index
    <3>4. Fill(NextWritePos', readPos)
            = Fill(writePos, readPos) + (Size - IndexOf(writePos))
      BY <3>2, <1>t, <2>2, <2>5, FillWrite
    <3>5. WriteableIsFree'
      BY <3>3, <3>4, <2>2, <2>3, <2>5, <1>t DEF WriteableIsFree
    <3> QED
      BY <3>1, <3>5, <2>1, <2>2, <2>3, <2>4, <2>5
         DEF IInv, SnapshotInRange, MsgFits, TailIsFree, UpdatesHaveMsg
  <2>6. CASE ~u.wrap
    <3>1. pState' = "check"
      BY <2>3, <2>6
    <3>2. NextWritePos' = writePos
      BY <2>3, <3>1 DEF NextWritePos
    <3>3. WriteableIsFree'
      BY <3>2, <2>2, <2>3, <2>6 DEF WriteableIsFree
    <3> QED
      BY <3>1, <3>3, <2>1, <2>2, <2>3, <2>4, <2>6
         DEF IInv, SnapshotInRange, MsgFits, TailIsFree, UpdatesHaveMsg
  <2> QED BY <2>2, <2>5, <2>6
<1>3. ASSUME PublishMarker PROVE IInv'
  <2> DEFINE tail == Size - IndexOf(writePos)
  <2>1. /\ pState = "wrap" /\ writePos' = Plus(writePos, tail) /\ pState' = "check"
        /\ UNCHANGED <<mem, writeable, pMsg, calls, readPos, snapPos, cState, unread, sunk>>
    BY <1>3 DEF PublishMarker, consumerVars
  <2>2. writePos' \in Pos
    BY <2>1, <1>t, IndexPlus
  <2>3. NextWritePos' = NextWritePos
    BY <2>1 DEF NextWritePos
  <2>4. Fill(writePos, readPos) + tail + writeable <= Size
    BY <2>1 DEF IInv, TailIsFree
  <2>5. Fill(writePos', readPos) = Fill(writePos, readPos) + tail
    BY <2>1, <2>4, <1>t, FillWrite
  <2>6. TypeOK'
    BY <2>1, <2>2 DEF IInv, TypeOK
  <2>7. WriteableIsFree'
    BY <2>1, <2>3 DEF IInv, WriteableIsFree
  <2>8. SnapshotInRange'
    <3>1. Fill(snapPos, readPos) \in Int
      BY <1>t, PosModAssumption DEF Fill, Minus, Pos
    <3> QED BY <3>1, <2>1, <2>5, <1>t DEF IInv, SnapshotInRange
  <2> QED
    BY <2>1, <2>4, <2>5, <2>6, <2>7, <2>8, <1>t
       DEF IInv, MsgFits, TailIsFree, UpdatesHaveMsg
<1>4. ASSUME CheckFits PROVE IInv'
  <2>1. pMsg \in Messages /\ pMsg.size \in 1 .. Size
    BY <1>4, MsgSizeRange DEF CheckFits, IInv, UpdatesHaveMsg
  <2>2. NextWritePos' = NextWritePos
    BY <1>4 DEF CheckFits, NextWritePos
  <2>3. TypeOK' /\ WriteableIsFree' /\ SnapshotInRange'
    BY <1>4, <2>2 DEF CheckFits, consumerVars, IInv, TypeOK, WriteableIsFree, SnapshotInRange
  <2> QED
    BY <1>4, <1>t, <2>1, <2>3
       DEF CheckFits, Fits, consumerVars, IInv, MsgFits, TailIsFree, UpdatesHaveMsg
<1>5. ASSUME Drop PROVE IInv'
  <2>1. NextWritePos' = NextWritePos
    BY <1>5 DEF Drop, NextWritePos
  <2>2. TypeOK' /\ WriteableIsFree' /\ SnapshotInRange'
    BY <1>5, <2>1 DEF Drop, consumerVars, IInv, TypeOK, WriteableIsFree, SnapshotInRange
  <2> QED
    BY <1>5, <2>2 DEF Drop, consumerVars, IInv, MsgFits, TailIsFree, UpdatesHaveMsg
<1>6. ASSUME Retry PROVE IInv'
  <2>1. NextWritePos' = NextWritePos
    BY <1>6 DEF Retry, NextWritePos
  <2>2. TypeOK' /\ WriteableIsFree' /\ SnapshotInRange'
    BY <1>6, <2>1 DEF Retry, consumerVars, IInv, TypeOK, WriteableIsFree, SnapshotInRange
  <2> QED
    BY <1>6, <2>2 DEF Retry, consumerVars, IInv, MsgFits, TailIsFree, UpdatesHaveMsg
<1>7. ASSUME WriteMessage PROVE IInv'
  <2>1. pMsg \in Messages
    BY <1>7 DEF WriteMessage, IInv, MsgFits
  <2>2. mem' \in [Index -> Cells]
    BY <1>7, <2>1 DEF WriteMessage, IInv, TypeOK, Cells
  <2>3. NextWritePos' = NextWritePos
    BY <1>7 DEF WriteMessage, NextWritePos
  <2>4. TypeOK' /\ WriteableIsFree' /\ SnapshotInRange'
    BY <1>7, <2>2, <2>3
       DEF WriteMessage, consumerVars, IInv, TypeOK, WriteableIsFree, SnapshotInRange
  <2> QED
    BY <1>7, <2>4 DEF WriteMessage, consumerVars, IInv, MsgFits, TailIsFree, UpdatesHaveMsg
<1>8. ASSUME AdvanceWritePos PROVE IInv'
  <2>1. /\ pState = "publish" /\ pState' = "idle" /\ pMsg' = NoMsg
        /\ writeable' = writeable - pMsg.size /\ writePos' = Plus(writePos, pMsg.size)
        /\ UNCHANGED <<mem, calls, readPos, snapPos, cState, unread, sunk>>
    BY <1>8 DEF AdvanceWritePos, consumerVars
  <2>2. /\ pMsg.size \in 1 .. Size /\ pMsg.size <= writeable
    BY <2>1, MsgSizeRange DEF IInv, MsgFits
  <2>3. /\ NextWritePos = writePos /\ NextWritePos' = writePos'
    BY <2>1 DEF NextWritePos
  <2>4. /\ Fill(writePos, readPos) + writeable <= Size
        /\ IndexOf(writePos) + writeable <= Size
    BY <2>3 DEF IInv, WriteableIsFree
  <2>5. /\ writePos' \in Pos
        /\ IndexOf(writePos') = IF IndexOf(writePos) + pMsg.size >= Size
                                THEN IndexOf(writePos) + pMsg.size - Size
                                ELSE IndexOf(writePos) + pMsg.size
    <3> DEFINE n == pMsg.size
    <3>1. n \in 0 .. Size /\ writePos' = Plus(writePos, n)
      BY <2>1, <2>2
    <3> HIDE DEF n
    <3>2. /\ writePos' \in Pos
          /\ IndexOf(writePos') = IF IndexOf(writePos) + n >= Size
                                  THEN IndexOf(writePos) + n - Size
                                  ELSE IndexOf(writePos) + n
      BY <3>1, <1>t, IndexPlus
    <3> QED BY <3>2 DEF n
  <2>6. Fill(writePos', readPos) = Fill(writePos, readPos) + pMsg.size
    BY <2>1, <2>2, <2>4, <1>t, FillWrite
  <2>7. TypeOK'
    BY <2>1, <2>2, <2>5, <1>t DEF IInv, TypeOK
  <2>8. WriteableIsFree'
    BY <2>1, <2>2, <2>3, <2>4, <2>5, <2>6, <1>t DEF WriteableIsFree, Index
  <2>9. SnapshotInRange'
    <3>1. Fill(snapPos, readPos) \in Int
      BY <1>t, PosModAssumption DEF Fill, Minus, Pos
    <3> QED BY <3>1, <2>1, <2>2, <2>6, <1>t DEF IInv, SnapshotInRange
  <2>10. Fill(writePos', readPos') <= Size
    BY <2>1, <2>2, <2>4, <2>6, <1>t
  <2> QED
    BY <2>1, <2>7, <2>8, <2>9, <2>10 DEF IInv, MsgFits, TailIsFree, UpdatesHaveMsg
<1>9. ASSUME Snapshot PROVE IInv'
  <2>1. NextWritePos' = NextWritePos
    BY <1>9 DEF Snapshot, producerVars, NextWritePos
  <2> QED
    BY <1>9, <2>1, <1>t
       DEF Snapshot, producerVars, IInv, TypeOK, WriteableIsFree, SnapshotInRange,
           MsgFits, TailIsFree, UpdatesHaveMsg
<1>10. ASSUME GetUnread PROVE IInv'
  <2>1. NextWritePos' = NextWritePos
    BY <1>10 DEF GetUnread, producerVars, NextWritePos
  <2>2. Fill(snapPos, readPos) <= Fill(writePos, readPos) /\ Fill(snapPos, readPos) \in Int
    BY <1>10, <1>t, PosModAssumption DEF GetUnread, IInv, SnapshotInRange, Fill, Minus, Pos
  <2>3. CASE snapPos = readPos
    <3>1. unread' = NoUnread /\ cState' = "idle"
      BY <1>10, <2>3 DEF GetUnread, Unread, NoUnread
    <3>2. unread' \in [first : Index, size1 : 0 .. Size, size2 : 0 .. Size]
      BY <3>1 DEF NoUnread, Index
    <3> QED
      BY <1>10, <2>1, <3>1, <3>2, <1>t
         DEF GetUnread, producerVars, IInv, TypeOK, WriteableIsFree, SnapshotInRange,
             MsgFits, TailIsFree, UpdatesHaveMsg
  <2>4. CASE snapPos # readPos
    <3>1. /\ unread' \in [first : Index, size1 : 0 .. Size, size2 : 0 .. Size]
          /\ unread'.size1 + unread'.size2 = Fill(snapPos, readPos)
      BY <1>10, <2>2, <2>4, <1>t, UnreadCovers DEF GetUnread
    <3>2. cState' = "block1"
      BY <1>10, <2>4 DEF GetUnread
    <3> QED
      BY <1>10, <2>1, <2>2, <3>1, <3>2, <1>t
         DEF GetUnread, producerVars, IInv, TypeOK, WriteableIsFree, SnapshotInRange,
             MsgFits, TailIsFree, UpdatesHaveMsg
  <2> QED BY <2>3, <2>4
<1>11. ASSUME SkipRead PROVE IInv'
  <2>1. NextWritePos' = NextWritePos
    BY <1>11 DEF SkipRead, producerVars, NextWritePos
  <2> QED
    BY <1>11, <2>1, <1>t
       DEF SkipRead, producerVars, IInv, TypeOK, WriteableIsFree, SnapshotInRange,
           MsgFits, TailIsFree, UpdatesHaveMsg
<1>12. ASSUME ReadBlock1 \/ ReadBlock2 PROVE IInv'
  <2>1. /\ cState \in {"block1", "block2"} /\ cState' \in {"block2", "advance"}
        /\ UNCHANGED <<mem, writePos, producerVars, readPos, snapPos, unread>>
    BY <1>12 DEF ReadBlock1, ReadBlock2
  <2>2. NextWritePos' = NextWritePos
    BY <2>1 DEF producerVars, NextWritePos
  <2>3. TypeOK'
    BY <2>1 DEF producerVars, IInv, TypeOK
  <2>4. WriteableIsFree' /\ SnapshotInRange'
    BY <2>1, <2>2 DEF producerVars, IInv, WriteableIsFree, SnapshotInRange
  <2> QED
    BY <2>1, <2>3, <2>4 DEF producerVars, IInv, MsgFits, TailIsFree, UpdatesHaveMsg
<1>13. ASSUME AdvanceReadPos PROVE IInv'
  <2> DEFINE n == unread.size1 + unread.size2
  <2>1. /\ cState = "advance" /\ cState' \in {"idle", "snapped"}
        /\ readPos' = Plus(readPos, n) /\ unread' = NoUnread
        /\ UNCHANGED <<mem, writePos, writeable, pState, pMsg, calls, snapPos, sunk>>
    BY <1>13 DEF AdvanceReadPos, producerVars
  <2>2. /\ n = Fill(snapPos, readPos) /\ n <= Fill(writePos, readPos)
    BY <2>1 DEF IInv, SnapshotInRange
  <2>3. n \in 0 .. Size
    BY <2>2, <1>t, PosModAssumption DEF Fill, Minus, Pos
  <2> HIDE DEF n
  <2>4. readPos' \in Pos
    BY <2>1, <2>3, <1>t, IndexPlus
  <2>5. Fill(writePos, readPos') = Fill(writePos, readPos) - n
    BY <2>1, <2>2, <2>3, <1>t, FillRead
  <2>6. Fill(snapPos, readPos') = 0
    BY <2>1, <2>2, <2>3, <1>t, PosModAssumption DEF Fill, Minus, Plus, Pos
  <2>7. NextWritePos' = NextWritePos
    BY <2>1 DEF NextWritePos
  <2>8. WriteableIsFree'
    <3>1. CASE pState = "wrap"
      <4>1. NextWritePos = Plus(writePos, Size - IndexOf(writePos))
        BY <3>1 DEF NextWritePos
      <4>2. Fill(writePos, readPos) + (Size - IndexOf(writePos)) + writeable <= Size
        BY <3>1 DEF IInv, TailIsFree
      <4>3. Fill(NextWritePos, readPos')
              = Fill(writePos, readPos) - n + (Size - IndexOf(writePos))
        BY <4>1, <4>2, <2>2, <2>3, <2>4, <2>5, <1>t, FillWrite
      <4> QED
        BY <4>2, <4>3, <2>1, <2>3, <2>7, <1>t DEF IInv, WriteableIsFree
    <3>2. CASE pState # "wrap"
      <4>1. NextWritePos = writePos
        BY <3>2 DEF NextWritePos
      <4> QED
        BY <4>1, <2>1, <2>3, <2>5, <2>7, <1>t DEF IInv, WriteableIsFree
    <3> QED BY <3>1, <3>2
  <2>9. TypeOK'
    BY <2>1, <2>4 DEF IInv, TypeOK, NoUnread, Index
  <2>10. SnapshotInRange'
    BY <2>1, <2>2, <2>3, <2>5, <2>6, <1>t DEF SnapshotInRange
  <2> QED
    BY <2>1, <2>3, <2>5, <2>8, <2>9, <2>10, <1>t
       DEF IInv, MsgFits, TailIsFree, UpdatesHaveMsg
<1>14. ASSUME UNCHANGED vars PROVE IInv'
  <2>1. NextWritePos' = NextWritePos
    BY <1>14 DEF vars, producerVars, NextWritePos
  <2> QED
    BY <1>14, <2>1
       DEF vars, producerVars, consumerVars, IInv, TypeOK, WriteableIsFree,
           SnapshotInRange, MsgFits, TailIsFree, UpdatesHaveMsg
<1> QED
  BY <1>1, <1>2, <1>3, <1>4, <1>5, <1>6, <1>7, <1>8, <1>9, <1>10, <1>11, <1>12,
     <1>13, <1>14 DEF Next, Producer, Core

\* The invariant holds throughout every behaviour of the ring.
THEOREM Invariance == Spec => []IInv
  BY InitIInv, NextIInv, PTL DEF Spec

\* Every variable stays in its range, whatever the producer and the core do.
THEOREM TypeCorrect == Spec => []TypeOK
<1>1. IInv => TypeOK
  BY DEF IInv
<1> QED BY <1>1, Invariance, PTL

\* The producer never believes more to be writeable than is free and
\* contiguous: the ring is never overrun.
THEOREM NeverOverrun == Spec => []WriteableIsFree
<1>1. IInv => WriteableIsFree
  BY DEF IInv
<1> QED BY <1>1, Invariance, PTL

\* A read ends at its snapshot and never passes the writer.
THEOREM SnapshotsInRange == Spec => []SnapshotInRange
<1>1. IInv => SnapshotInRange
  BY DEF IInv
<1> QED BY <1>1, Invariance, PTL

\* No step of either thread changes an unread cell.
LEMMA StepIntact ==
  ASSUME IInv, Next
  PROVE  \A i \in Index : InUnread(i) => mem'[i] = mem[i]
<1> SUFFICES ASSUME NEW i \in Index, InUnread(i) PROVE mem'[i] = mem[i]
  OBVIOUS
<1>t. /\ IndexOf(writePos) \in Index /\ Fill(writePos, readPos) \in 0 .. Size
      /\ mem \in [Index -> Cells]
  BY IndexRange, WriteIndex DEF IInv, TypeOK
<1>1. CASE UpdateState
  <2> DEFINE u == ProducerUpdate(writePos, readPos, pMsg.size)
  <2>1. pMsg.size \in MsgSizes
    BY <1>1, MsgSizeRange DEF UpdateState, IInv, UpdatesHaveMsg
  <2>2. /\ u.wrap \in BOOLEAN /\ u.writeable \in 0 .. Size
        /\ u.wrap => Fill(writePos, readPos) + (Size - IndexOf(writePos))
                       + u.writeable <= Size
    BY <2>1, UpdateSafe DEF IInv, TypeOK
  <2>3. mem' = IF u.wrap THEN [mem EXCEPT ![IndexOf(writePos)] = Marker] ELSE mem
    BY <1>1 DEF UpdateState
  <2> HIDE DEF u
  <2>4. u.wrap => i # IndexOf(writePos)
    <3> SUFFICES ASSUME u.wrap, i = IndexOf(writePos) PROVE FALSE
      OBVIOUS
    <3>1. /\ Fill(writePos, readPos) + 1 <= Size
          /\ IndexOf(writePos) + 1 <= Size
          /\ 1 \in 1 .. Size
          /\ i \in IndexOf(writePos) .. IndexOf(writePos) + 1 - 1
      BY SMTT(30), <2>2, <1>t, SizeAssumption DEF Index
    <3> QED BY <3>1, FreeCell
  <2> QED BY <2>2, <2>3, <2>4, <1>t
<1>2. CASE WriteMessage
  <2>1. pMsg.size \in 1 .. Size /\ pMsg.size <= writeable /\ pState = "write"
    BY <1>2, MsgSizeRange DEF WriteMessage, IInv, MsgFits
  <2>2. /\ Fill(writePos, readPos) + writeable <= Size
        /\ IndexOf(writePos) + writeable <= Size
        /\ writeable \in 0 .. Size
    BY <2>1 DEF IInv, WriteableIsFree, NextWritePos, TypeOK
  <2>3. i \notin IndexOf(writePos) .. IndexOf(writePos) + pMsg.size - 1
    BY <2>1, <2>2, <1>t, SizeAssumption, FreeCell DEF Index
  <2>4. i # IndexOf(writePos)
    BY <2>1, <2>3, <1>t, SizeAssumption DEF Index
  <2> QED BY <1>2, <2>3, <2>4 DEF WriteMessage
<1>3. CASE UNCHANGED mem
  BY <1>3
<1> QED
  BY <1>1, <1>2, <1>3
     DEF Next, Producer, Core, LogCall, PublishMarker, CheckFits, Drop, Retry,
         AdvanceWritePos, Snapshot, GetUnread, SkipRead, ReadBlock1, ReadBlock2,
         AdvanceReadPos

\* No step of either thread changes a byte that is published and not yet
\* released: what the core is reading is never written.
THEOREM UnreadNeverWritten == Spec => UnreadIntact
<1> DEFINE Intact == \A i \in Index : InUnread(i) => mem'[i] = mem[i]
<1>1. IInv /\ [Next]_vars => Intact \/ UNCHANGED vars
  BY StepIntact
<1> QED BY <1>1, Invariance, PTL DEF Spec, UnreadIntact

(***************************************************************************)
(* What sink_msg_block reads.  The recursion over the cells of a block is  *)
(* reasoned about with a least counterexample: a set of naturals that is   *)
(* not empty has a least element.                                          *)
(***************************************************************************)
LEMMA LeastOf ==
  ASSUME NEW T \in SUBSET Nat, T # {}
  PROVE  \E n \in T : \A m \in T : n <= m
<1> DEFINE R == OpToRel(<, Nat)
<1>1. IsWellFoundedOn(R, Nat)
  BY NatLessThanWellFounded
<1>2. \A m, n \in Nat : m < n => <<m, n>> \in R
  BY DEF OpToRel
<1> HIDE DEF R
<1>3. PICK n \in T : \A m \in T : ~(<<m, n>> \in R)
  BY <1>1, WFMin
<1>4. \A m \in T : m \in Nat /\ n \in Nat /\ ~(m < n)
  BY <1>2, <1>3
<1>5. \A m \in T : n <= m
  BY <1>4
<1> QED  BY <1>5

\* The first message of a block that starts at i, and those after it.
At(M, f, i, end) ==
  IF i = end THEN << >>
  ELSE IF M[i].type # "Internal" \/ i + M[i].size > end THEN << >>
  ELSE <<[id |-> M[i].id, size |-> M[i].size]>> \o f[i + M[i].size]

\* f has the messages of memory M from every cell in first .. end to the end.
Reads(f, M, first, end) == f = [i \in first .. end |-> At(M, f, i, end)]

\* The messages that sink_msg_block finds in memory M, as the model computes them.
Block(M, first, size) == (CHOOSE f : Reads(f, M, first, first + size))[first]

\* What the cells of the ring may hold.
Memories == [Index -> Cells]

\* The recursion of the model is the one reading there is of the block.
LEMMA BlockIs == \A first, size : BlockMsgs(first, size) = Block(mem, first, size)
BY DEF BlockMsgs, Block, Reads, At

\* The same in the next state, of the memory as it is then.
LEMMA BlockIsPrime ==
  \A first, size : BlockMsgs(first, size)' = Block(mem', first, size)
BY DEF BlockMsgs, Block, Reads, At

\* A cell that starts a message is the header of one, with its size and number.
LEMMA CellIs ==
  ASSUME NEW M \in Memories, NEW i \in Index, M[i].type = "Internal"
  PROVE  /\ M[i].size \in 1 .. Size /\ [id |-> M[i].id, size |-> M[i].size] \in Messages
         /\ \E m \in Messages : M[i] = Header(m)
<1>1. PICK m \in Messages : M[i] = Header(m)
  BY DEF Memories, Cells, Marker, Garbage, Header, Body
<1> QED  BY <1>1, MsgSizeRange DEF Header, Messages

\* A cell before the end of a block is a cell of the ring.
LEMMA BlockCell ==
  ASSUME NEW end \in 0 .. Size, NEW i \in 0 .. end, i # end
  PROVE  i \in Index /\ i + 1 \in 0 .. end
BY SizeAssumption DEF Index

\* Memories agree on the cells from a up to b.
SameCells(M, N, a, b) == \A j \in a .. b - 1 : M[j] = N[j]

\* Memories agree on cell i, and readings on what follows it.
Agree(M, f, N, g, i, end) ==
  /\ i # end => M[i] = N[i]
  /\ \A j \in i + 1 .. end : f[j] = g[j]

\* A step of the recursion looks at one cell, and at what follows it.
LEMMA AtSame ==
  ASSUME NEW M \in Memories, NEW N, NEW f, NEW g, NEW end \in 0 .. Size, NEW i \in 0 .. end,
         Agree(M, f, N, g, i, end)
  PROVE  At(M, f, i, end) = At(N, g, i, end)
<1>1. CASE i = end
  BY <1>1 DEF At
<1>2. CASE i # end /\ M[i].type = "Internal" /\ ~(i + M[i].size > end)
  <2>1. i \in Index
    BY <1>2, BlockCell
  <2>2. M[i].size \in 1 .. Size
    BY <1>2, <2>1, CellIs
  <2>3. i + M[i].size \in i + 1 .. end
    BY <1>2, <2>2, SizeAssumption
  <2>4. f[i + M[i].size] = g[i + M[i].size]
    BY <2>3 DEF Agree
  <2> QED  BY <1>2, <2>4 DEF At, Agree
<1>3. CASE i # end /\ (M[i].type # "Internal" \/ i + M[i].size > end)
  BY <1>3 DEF At, Agree
<1> QED  BY <1>1, <1>2, <1>3

\* Two readings, of memories that agree from a cell on, agree on that cell.
LEMMA ReadsSame ==
  ASSUME NEW M \in Memories, NEW N, NEW end \in 0 .. Size,
         NEW a \in 0 .. end, NEW b \in 0 .. end, NEW c \in 0 .. end, a <= c, b <= c,
         NEW f, Reads(f, M, a, end), NEW g, Reads(g, N, b, end),
         SameCells(M, N, c, end)
  PROVE  f[c] = g[c]
<1> DEFINE T == {n \in 0 .. end - c : f[end - n] # g[end - n]}
<1>0. end \in Nat /\ end <= Size /\ c \in Nat /\ c <= end /\ a \in Nat /\ b \in Nat
  BY SizeAssumption
<1>1. SUFFICES ASSUME T # {} PROVE FALSE
  <2>1. end - c \in 0 .. end - c /\ end - (end - c) = c
    BY <1>0
  <2> QED  BY <1>1, <2>1
<1>2. PICK n \in T : \A m \in T : n <= m
  <2>1. T \in SUBSET Nat
    BY <1>0
  <2> HIDE DEF T
  <2> QED  BY <1>1, <2>1, LeastOf
<1>3. n \in Nat /\ n <= end - c /\ f[end - n] # g[end - n]
  BY <1>0, <1>2
<1>4. PICK i \in Nat : i = end - n
  BY <1>0, <1>3
<1>5. /\ i >= c /\ i <= end /\ f[i] # g[i]
      /\ i \in 0 .. end /\ i \in a .. end /\ i \in b .. end
  BY <1>0, <1>3, <1>4
<1>6. \A j \in i + 1 .. end : f[j] = g[j]
  <2> SUFFICES ASSUME NEW j \in i + 1 .. end, f[j] # g[j] PROVE FALSE
    OBVIOUS
  <2>1. end - j \in 0 .. end - c /\ end - (end - j) = j /\ ~(n <= end - j)
    BY <1>0, <1>4, <1>5
  <2>2. end - j \in T
    BY <2>1
  <2> QED  BY <1>2, <2>1, <2>2
<1>7. i # end => M[i] = N[i]
  <2>1. i # end => i \in c .. end - 1
    BY <1>0, <1>5
  <2> QED  BY <2>1 DEF SameCells
<1> HIDE DEF T
<1>8. At(M, f, i, end) = At(N, g, i, end)
  <2>1. Agree(M, f, N, g, i, end)
    BY <1>6, <1>7 DEF Agree
  <2> QED  BY <1>5, <2>1, AtSame
<1>9. f[i] = At(M, f, i, end)
  BY <1>5 DEF Reads
<1>10. g[i] = At(N, g, i, end)
  BY <1>5 DEF Reads
<1> QED  BY <1>5, <1>8, <1>9, <1>10

\* There is a reading of every block, whatever the cells hold.
LEMMA ReadsExist ==
  ASSUME NEW M \in Memories, NEW end \in 0 .. Size, NEW first \in 0 .. end
  PROVE  \E f : Reads(f, M, first, end)
<1> DEFINE T == {n \in 0 .. end : ~\E f : Reads(f, M, end - n, end)}
<1>0. end \in Nat /\ end <= Size /\ first \in Nat /\ first <= end
  BY SizeAssumption
<1>1. SUFFICES ASSUME T # {} PROVE FALSE
  <2>1. end - first \in 0 .. end /\ end - (end - first) = first
    BY <1>0
  <2> QED  BY <1>1, <2>1
<1>2. PICK n \in T : \A m \in T : n <= m
  <2>1. T \in SUBSET Nat
    BY <1>0
  <2> HIDE DEF T
  <2> QED  BY <1>1, <2>1, LeastOf
<1>3. n \in Nat /\ n <= end /\ ~\E f : Reads(f, M, end - n, end)
  BY <1>0, <1>2
<1>4. PICK a \in Nat : a = end - n
  BY <1>0, <1>3
<1>5. a <= end /\ ~\E f : Reads(f, M, a, end)
  BY <1>0, <1>3, <1>4
<1>6. CASE n = 0
  <2>1. a = end
    BY <1>0, <1>4, <1>6
  <2>2. \A i \in end .. end : i = end
    BY <1>0
  <2> DEFINE e == [i \in end .. end |-> At(M, << >>, i, end)]
  <2>3. Reads(e, M, end, end)
    BY <2>2 DEF Reads, At
  <2> QED  BY <1>5, <2>1, <2>3
<1>7. CASE n > 0
  <2>1. n - 1 \in 0 .. end /\ ~(n <= n - 1) /\ end - (n - 1) = a + 1 /\ a # end
    BY <1>0, <1>3, <1>4, <1>7
  <2>2. ~(n - 1 \in T)
    BY <1>2, <2>1
  <2>3. \E g : Reads(g, M, end - (n - 1), end)
    BY <2>1, <2>2
  <2>4. PICK g : Reads(g, M, a + 1, end)
    BY <2>1, <2>3
  <2> DEFINE h == [i \in a .. end |-> IF i = a THEN At(M, g, a, end) ELSE g[i]]
  <2> HIDE DEF T
  <2>5. \A i \in a .. end : i = a \/ i \in a + 1 .. end
    BY <1>0, <1>5
  <2>6. \A j \in a + 1 .. end : j \in a .. end /\ j # a
    BY <1>0, <1>5
  <2>7. \A j \in a + 1 .. end : h[j] = g[j]
    BY <2>6
  <2>8. DOMAIN h = a .. end /\ h = [i \in a .. end |-> h[i]]
    OBVIOUS
  <2>9. a \in a .. end /\ h[a] = At(M, g, a, end)
    BY <1>0, <1>5
  <2> HIDE DEF h
  <2>10. \A i \in a .. end : h[i] = At(M, h, i, end)
    <3> SUFFICES ASSUME NEW i \in a .. end PROVE h[i] = At(M, h, i, end)
      OBVIOUS
    <3>1. At(M, g, i, end) = At(M, h, i, end)
      <4>1. i \in 0 .. end /\ \A j \in i + 1 .. end : j \in a + 1 .. end
        BY <1>0, <1>5
      <4>2. \A j \in i + 1 .. end : g[j] = h[j]
        BY <4>1, <2>7
      <4>3. Agree(M, g, M, h, i, end)
        BY <4>2 DEF Agree
      <4> QED  BY <4>1, <4>3, AtSame
    <3>2. CASE i = a
      BY <2>9, <3>1, <3>2
    <3>3. CASE i # a
      <4>1. i \in a + 1 .. end
        BY <2>5, <3>3
      <4>2. g[i] = At(M, g, i, end)
        BY <2>4, <4>1 DEF Reads
      <4> QED  BY <2>7, <3>1, <4>1, <4>2
    <3> QED  BY <3>2, <3>3
  <2>11. h = [i \in a .. end |-> At(M, h, i, end)]
    <3> DEFINE k(i) == At(M, h, i, end)
    <3>1. h = [i \in a .. end |-> h[i]] /\ \A i \in a .. end : h[i] = k(i)
      BY <2>8, <2>10
    <3> HIDE DEF k
    <3>2. h = [i \in a .. end |-> k(i)]
      BY <3>1
    <3> QED  BY <3>2 DEF k
  <2>12. Reads(h, M, a, end)
    BY <2>11 DEF Reads
  <2> QED  BY <1>5, <2>12
<1> QED  BY <1>3, <1>6, <1>7

\* What is read of a block is a sequence of messages.
LEMMA ReadsType ==
  ASSUME NEW M \in Memories, NEW end \in 0 .. Size, NEW first \in 0 .. end,
         NEW f, Reads(f, M, first, end)
  PROVE  f[first] \in Seq(Messages)
<1> DEFINE T == {n \in 0 .. end - first : f[end - n] \notin Seq(Messages)}
<1>0. end \in Nat /\ end <= Size /\ first \in Nat /\ first <= end
  BY SizeAssumption
<1>1. SUFFICES ASSUME T # {} PROVE FALSE
  <2>1. end - first \in 0 .. end - first /\ end - (end - first) = first
    BY <1>0
  <2> QED  BY <1>1, <2>1
<1>2. PICK n \in T : \A m \in T : n <= m
  <2>1. T \in SUBSET Nat
    BY <1>0
  <2> HIDE DEF T
  <2> QED  BY <1>1, <2>1, LeastOf
<1>3. n \in Nat /\ n <= end - first /\ f[end - n] \notin Seq(Messages)
  BY <1>0, <1>2
<1>4. PICK i \in Nat : i = end - n
  BY <1>0, <1>3
<1>5. /\ i >= first /\ i <= end /\ f[i] \notin Seq(Messages)
      /\ i \in 0 .. end /\ i \in first .. end
  BY <1>0, <1>3, <1>4
<1>6. \A j \in i + 1 .. end : f[j] \in Seq(Messages)
  <2> SUFFICES ASSUME NEW j \in i + 1 .. end, f[j] \notin Seq(Messages) PROVE FALSE
    OBVIOUS
  <2>1. end - j \in 0 .. end - first /\ end - (end - j) = j /\ ~(n <= end - j)
    BY <1>0, <1>4, <1>5
  <2>2. end - j \in T
    BY <2>1
  <2> QED  BY <1>2, <2>1, <2>2
<1> HIDE DEF T
<1>7. f[i] = At(M, f, i, end)
  BY <1>5 DEF Reads
<1>8. CASE i = end \/ M[i].type # "Internal" \/ i + M[i].size > end
  <2>1. At(M, f, i, end) = << >>
    BY <1>8 DEF At
  <2> QED  BY <1>5, <1>7, <2>1
<1>9. CASE i # end /\ M[i].type = "Internal" /\ ~(i + M[i].size > end)
  <2>1. i \in Index
    BY <1>5, <1>9, BlockCell
  <2>2. M[i].size \in 1 .. Size /\ [id |-> M[i].id, size |-> M[i].size] \in Messages
    BY <1>9, <2>1, CellIs
  <2>3. i + M[i].size \in i + 1 .. end
    BY <1>5, <1>9, <2>2, SizeAssumption
  <2>4. At(M, f, i, end) = <<[id |-> M[i].id, size |-> M[i].size]>> \o f[i + M[i].size]
    BY <1>9 DEF At
  <2>5. <<[id |-> M[i].id, size |-> M[i].size]>> \in Seq(Messages)
    BY <2>2
  <2>6. At(M, f, i, end) \in Seq(Messages)
    BY <1>6, <2>3, <2>4, <2>5
  <2> QED  BY <1>5, <1>7, <2>6
<1> QED  BY <1>8, <1>9

\* The messages in the cells from first up to end.
Read(M, first, end) == Block(M, first, end - first)

\* The reading that a block stands for.
LEMMA ReadIs ==
  ASSUME NEW M \in Memories, NEW end \in 0 .. Size, NEW first \in 0 .. end
  PROVE  \E f : Reads(f, M, first, end) /\ Read(M, first, end) = f[first]
<1>1. first + (end - first) = end
  BY SizeAssumption
<1>2. Reads(CHOOSE f : Reads(f, M, first, end), M, first, end)
  BY ReadsExist
<1> QED  BY <1>1, <1>2 DEF Block, Read

\* What is read of a block is a sequence of messages.
LEMMA ReadType ==
  ASSUME NEW M \in Memories, NEW end \in 0 .. Size, NEW first \in 0 .. end
  PROVE  Read(M, first, end) \in Seq(Messages)
BY ReadIs, ReadsType

\* A block that is empty, or starts with something other than a message, has none.
LEMMA ReadStops ==
  ASSUME NEW M \in Memories, NEW end \in 0 .. Size, NEW first \in 0 .. end,
         first = end \/ M[first].type # "Internal"
  PROVE  Read(M, first, end) = << >>
<1>1. PICK f : Reads(f, M, first, end) /\ Read(M, first, end) = f[first]
  BY ReadIs
<1>2. first \in first .. end
  BY SizeAssumption
<1> QED  BY <1>1, <1>2 DEF Reads, At

\* A block that starts with a message has it, and what follows it.
LEMMA ReadSteps ==
  ASSUME NEW M \in Memories, NEW end \in 0 .. Size, NEW first \in 0 .. end,
         first # end, M[first].type = "Internal", first + M[first].size <= end
  PROVE  /\ M[first].size \in 1 .. Size
         /\ first + M[first].size \in 0 .. end
         /\ Read(M, first, end)
              = <<[id |-> M[first].id, size |-> M[first].size]>>
                  \o Read(M, first + M[first].size, end)
<1>1. PICK f : Reads(f, M, first, end) /\ Read(M, first, end) = f[first]
  BY ReadIs
<1>2. first \in Index /\ M[first].size \in 1 .. Size
  BY BlockCell, CellIs
<1>3. PICK c \in 0 .. end : c = first + M[first].size
  BY <1>2, SizeAssumption
<1>4. PICK g : Reads(g, M, c, end) /\ Read(M, c, end) = g[c]
  BY ReadIs
<1>5. first <= c /\ c <= c /\ c \in 0 .. end /\ SameCells(M, M, c, end)
  BY <1>2, <1>3, SizeAssumption DEF SameCells
<1>6. f[c] = g[c]
  BY <1>1, <1>4, <1>5, ReadsSame
<1>7. first \in first .. end /\ ~(first + M[first].size > end)
  BY <1>2, SizeAssumption
<1>8. f[first] = <<[id |-> M[first].id, size |-> M[first].size]>> \o f[c]
  BY <1>1, <1>3, <1>7 DEF Reads, At
<1> QED  BY <1>1, <1>2, <1>3, <1>4, <1>6, <1>8

\* The messages of a block are in its cells, and nowhere else.
LEMMA ReadSame ==
  ASSUME NEW M \in Memories, NEW N \in Memories, NEW end \in 0 .. Size, NEW first \in 0 .. end,
         SameCells(M, N, first, end)
  PROVE  Read(M, first, end) = Read(N, first, end)
<1>1. PICK f : Reads(f, M, first, end) /\ Read(M, first, end) = f[first]
  BY ReadIs
<1>2. PICK g : Reads(g, N, first, end) /\ Read(N, first, end) = g[first]
  BY ReadIs
<1>3. first <= first
  BY SizeAssumption
<1> QED  BY <1>1, <1>2, <1>3, ReadsSame

(***************************************************************************)
(* The cells from a up to b are packed with messages: one starts at a, and *)
(* behind each that starts among them the next one starts, or b is.        *)
(***************************************************************************)
Packed(M, a, b) ==
  /\ a <= b
  /\ a # b => M[a].type = "Internal"
  /\ \A i \in a .. b - 1 :
       M[i].type = "Internal" =>
         /\ i + M[i].size <= b
         /\ i + M[i].size # b => M[i + M[i].size].type = "Internal"

\* Joining sequences of messages is associative.
LEMMA JoinTwice ==
  ASSUME NEW s \in Seq(Messages), NEW t \in Seq(Messages), NEW u \in Seq(Messages)
  PROVE  s \o (t \o u) = (s \o t) \o u
BY SMTT(30), ConcatAssociative

\* No cells are packed with no messages.
LEMMA PackedEmpty == ASSUME NEW M, NEW a \in 0 .. Size PROVE Packed(M, a, a)
BY SizeAssumption DEF Packed

\* What is behind the first of packed messages is packed.
LEMMA PackedSteps ==
  ASSUME NEW M \in Memories, NEW b \in 0 .. Size, NEW a \in 0 .. b, a # b, Packed(M, a, b)
  PROVE  /\ a \in Index /\ M[a].type = "Internal" /\ M[a].size \in 1 .. Size
         /\ a + M[a].size \in 0 .. b /\ Packed(M, a + M[a].size, b)
<1>1. a \in Index /\ M[a].type = "Internal"
  BY BlockCell DEF Packed
<1>2. M[a].size \in 1 .. Size
  BY <1>1, CellIs
<1>3. a \in a .. b - 1
  BY SizeAssumption
<1>4. a + M[a].size <= b /\ (a + M[a].size # b => M[a + M[a].size].type = "Internal")
  BY <1>1, <1>3 DEF Packed
<1>5. PICK c \in 0 .. b : c = a + M[a].size
  BY <1>2, <1>4, SizeAssumption
<1>6. \A i \in c .. b - 1 : i \in a .. b - 1
  BY <1>2, <1>5, SizeAssumption
<1>7. c <= b
  BY SizeAssumption
<1>8. Packed(M, c, b)
  BY <1>4, <1>5, <1>6, <1>7 DEF Packed
<1> QED  BY <1>1, <1>2, <1>5, <1>8

\* Packed messages are read whole, whatever is behind them.
LEMMA ReadSplits ==
  ASSUME NEW M \in Memories, NEW c \in 0 .. Size, NEW b \in 0 .. c, NEW a \in 0 .. b,
         Packed(M, a, b)
  PROVE  Read(M, a, c) = Read(M, a, b) \o Read(M, b, c)
<1> DEFINE Splits(x) == Read(M, x, c) = Read(M, x, b) \o Read(M, b, c)
           T == {n \in 0 .. b - a : Packed(M, b - n, b) /\ ~Splits(b - n)}
<1>0. /\ a \in Nat /\ b \in Nat /\ c \in Nat /\ a <= b /\ b <= c /\ c <= Size
      /\ b \in 0 .. Size
  BY SizeAssumption
<1>1. SUFFICES ASSUME T # {} PROVE FALSE
  <2>1. b - a \in 0 .. b - a /\ b - (b - a) = a
    BY <1>0
  <2> QED  BY <1>1, <2>1
<1>2. PICK n \in T : \A m \in T : n <= m
  <2>1. T \in SUBSET Nat
    BY <1>0
  <2> HIDE DEF T
  <2> QED  BY <1>1, <2>1, LeastOf
<1>3. n \in Nat /\ n <= b - a /\ Packed(M, b - n, b) /\ ~Splits(b - n)
  BY <1>0, <1>2
<1>4. PICK i \in Nat : i = b - n
  BY <1>0, <1>3
<1> HIDE DEF Splits
<1>5. /\ i >= a /\ i <= b /\ i \in 0 .. b /\ i \in 0 .. c /\ Packed(M, i, b) /\ ~Splits(i)
  BY <1>0, <1>3, <1>4
<1>6. CASE i = b
  <2>1. Read(M, b, b) = << >>
    BY <1>0, <1>5, <1>6, ReadStops
  <2>2. Read(M, b, c) \in Seq(Messages)
    BY ReadType
  <2>3. Splits(i)
    BY <1>6, <2>1, <2>2 DEF Splits
  <2> QED  BY <1>5, <2>3
<1>7. CASE i # b
  <2> DEFINE m == <<[id |-> M[i].id, size |-> M[i].size]>>
  <2>1. /\ i \in Index /\ M[i].type = "Internal" /\ M[i].size \in 1 .. Size
        /\ i + M[i].size \in 0 .. b /\ Packed(M, i + M[i].size, b)
    BY <1>0, <1>5, <1>7, PackedSteps
  <2>2. PICK j \in 0 .. b : j = i + M[i].size
    BY <2>1
  <2>3. j \in 0 .. c /\ j > i /\ i # c /\ j <= b /\ j <= c
    BY <1>0, <1>5, <1>7, <2>1, <2>2
  <2>4. Splits(j)
    <3> SUFFICES ASSUME ~Splits(j) PROVE FALSE
      OBVIOUS
    <3>1. b - j \in 0 .. b - a /\ b - (b - j) = j /\ ~(n <= b - j)
      BY <1>0, <1>4, <1>5, <2>3
    <3>2. b - j \in T
      BY <2>1, <2>2, <3>1
    <3> QED  BY <1>2, <3>1, <3>2
  <2>5. Read(M, i, b) = m \o Read(M, j, b)
    BY <1>0, <1>5, <1>7, <2>1, <2>2, <2>3, ReadSteps
  <2>6. Read(M, i, c) = m \o Read(M, j, c)
    BY <1>0, <1>5, <1>7, <2>1, <2>2, <2>3, ReadSteps
  <2>7. /\ m \in Seq(Messages) /\ Read(M, j, b) \in Seq(Messages)
        /\ Read(M, b, c) \in Seq(Messages)
    <3>1. [id |-> M[i].id, size |-> M[i].size] \in Messages
      BY <2>1, CellIs
    <3>2. Read(M, j, b) \in Seq(Messages) /\ Read(M, b, c) \in Seq(Messages)
      BY <1>0, ReadType
    <3> QED  BY <3>1, <3>2
  <2> HIDE DEF m
  <2>8. Read(M, i, c) = Read(M, i, b) \o Read(M, b, c)
    <3>1. Read(M, j, c) = Read(M, j, b) \o Read(M, b, c)
      BY <2>4 DEF Splits
    <3>2. m \o (Read(M, j, b) \o Read(M, b, c)) = (m \o Read(M, j, b)) \o Read(M, b, c)
      BY <2>7, JoinTwice
    <3> QED  BY <2>5, <2>6, <3>1, <3>2
  <2> QED  BY <1>5, <2>8 DEF Splits
<1> QED  BY <1>6, <1>7

\* Messages behind packed messages are packed with them.
LEMMA PackedJoin ==
  ASSUME NEW M \in Memories, NEW c \in 0 .. Size, NEW b \in 0 .. c, NEW a \in 0 .. b,
         Packed(M, a, b), Packed(M, b, c)
  PROVE  Packed(M, a, c)
<1>0. /\ a \in Nat /\ b \in Nat /\ c \in Nat /\ a <= b /\ b <= c /\ c <= Size
  BY SizeAssumption
<1>1. a # c => M[a].type = "Internal"
  BY <1>0 DEF Packed
<1>2. ASSUME NEW i \in a .. c - 1, M[i].type = "Internal"
      PROVE  /\ i + M[i].size <= c
             /\ i + M[i].size # c => M[i + M[i].size].type = "Internal"
  <2>1. i \in Index
    BY <1>0, SizeAssumption DEF Index
  <2>2. M[i].size \in 1 .. Size
    BY <1>2, <2>1, CellIs
  <2>3. CASE i \in a .. b - 1
    <3>1. i + M[i].size <= b /\ (i + M[i].size # b => M[i + M[i].size].type = "Internal")
      BY <1>2, <2>3 DEF Packed
    <3>2. b # c => M[b].type = "Internal"
      BY DEF Packed
    <3> QED  BY <1>0, <2>2, <3>1, <3>2
  <2>4. CASE i \in b .. c - 1
    BY <1>2, <2>4 DEF Packed
  <2> QED  BY <1>0, <2>3, <2>4
<1> QED  BY <1>0, <1>1, <1>2 DEF Packed

\* Being packed is a matter of the packed cells.
LEMMA PackedSame ==
  ASSUME NEW M \in Memories, NEW N, NEW b \in 0 .. Size, NEW a \in 0 .. b,
         SameCells(M, N, a, b), Packed(M, a, b)
  PROVE  Packed(N, a, b)
<1>0. a \in Nat /\ b \in Nat /\ a <= b /\ b <= Size
  BY SizeAssumption
<1>1. a # b => N[a].type = "Internal"
  <2>1. a # b => a \in a .. b - 1
    BY <1>0
  <2> QED  BY <2>1 DEF Packed, SameCells
<1>2. ASSUME NEW i \in a .. b - 1, N[i].type = "Internal"
      PROVE  /\ i + N[i].size <= b
             /\ i + N[i].size # b => N[i + N[i].size].type = "Internal"
  <2>1. i \in Index /\ M[i] = N[i]
    BY <1>0, SizeAssumption DEF Index, SameCells
  <2>2. M[i].size \in 1 .. Size
    BY <1>2, <2>1, CellIs
  <2>3. i + M[i].size <= b /\ (i + M[i].size # b => M[i + M[i].size].type = "Internal")
    BY <1>2, <2>1 DEF Packed
  <2>4. i + M[i].size # b => i + M[i].size \in a .. b - 1
    BY <1>0, <2>2, <2>3
  <2>5. i + M[i].size # b => M[i + M[i].size] = N[i + M[i].size]
    BY <2>4 DEF SameCells
  <2> QED  BY <2>1, <2>3, <2>5
<1> QED  BY <1>0, <1>1, <1>2 DEF Packed

(***************************************************************************)
(* The n cells from index i on, round the end of the ring: the index       *)
(* behind them, the messages in them, and what makes them readable.  The   *)
(* messages in front of the end of the ring may stop at a cell that starts *)
(* none, the end marker.                                                   *)
(***************************************************************************)
Round(i, n) == IF i + n >= Size THEN i + n - Size ELSE i + n

\* The messages in the cells.
Run(M, i, n) ==
  IF i + n <= Size THEN Read(M, i, i + n)
  ELSE Read(M, i, Size) \o Read(M, 0, i + n - Size)

\* The messages from i on are packed up to the end of the ring or the marker.
PackedTail(M, i) ==
  \E e \in i .. Size : Packed(M, i, e) /\ (e # Size => M[e].type # "Internal")

\* The cells are packed with messages, up to an end marker if one is passed.
Filled(M, i, n) ==
  IF i + n < Size THEN Packed(M, i, i + n)
  ELSE PackedTail(M, i) /\ Packed(M, 0, i + n - Size)

\* Cell x is one of the n cells from i on.
InRun(x, i, n) == (x >= i /\ x < i + n) \/ x < i + n - Size

\* Memories agree on the cells of a run.
SameRun(M, N, i, n) == \A x \in Index : InRun(x, i, n) => M[x] = N[x]

\* The two forms of a run.
LEMMA RunCases ==
  ASSUME NEW i \in Index, NEW n \in 0 .. Size
  PROVE  /\ i \in Nat /\ n \in Nat /\ i < Size /\ n <= Size /\ i \in 0 .. Size /\ Size \in Nat
         /\ \/ i + n < Size /\ Round(i, n) = i + n /\ i \in 0 .. i + n /\ i + n \in 0 .. Size
            \/ /\ i + n >= Size /\ Round(i, n) = i + n - Size
               /\ i + n - Size \in 0 .. i
         /\ Round(i, n) \in Index
BY SizeAssumption DEF Index, Round

\* The messages of a run are a sequence of messages.
LEMMA RunType ==
  ASSUME NEW M \in Memories, NEW i \in Index, NEW n \in 0 .. Size
  PROVE  Run(M, i, n) \in Seq(Messages)
<1>0. i \in Nat /\ n \in Nat /\ i < Size /\ n <= Size /\ Size \in Nat
  BY RunCases
<1>1. CASE i + n <= Size
  <2>1. i + n \in 0 .. Size /\ i \in 0 .. i + n
    BY <1>0, <1>1
  <2> QED  BY <1>1, <2>1, ReadType DEF Run
<1>2. CASE i + n > Size
  <2>1. i + n - Size \in 0 .. Size /\ 0 \in 0 .. i + n - Size /\ i \in 0 .. Size
        /\ Size \in 0 .. Size
    BY <1>0, <1>2
  <2>2. Read(M, i, Size) \in Seq(Messages) /\ Read(M, 0, i + n - Size) \in Seq(Messages)
    BY <2>1, ReadType
  <2>3. ~(i + n <= Size)
    BY <1>0, <1>2
  <2> QED  BY <2>2, <2>3 DEF Run
<1> QED  BY <1>0, <1>1, <1>2

\* No cells, no messages.
LEMMA RunEmpty ==
  ASSUME NEW M \in Memories, NEW i \in Index
  PROVE  Run(M, i, 0) = << >> /\ Filled(M, i, 0)
<1>1. i \in 0 .. Size /\ i + 0 = i /\ i < Size /\ i <= Size /\ i \in 0 .. i
  BY SizeAssumption DEF Index
<1>2. Read(M, i, i) = << >>
  BY <1>1, ReadStops
<1> QED  BY <1>1, <1>2, PackedEmpty DEF Run, Filled

\* The messages of a run are those of its first k cells and those of the rest.
LEMMA RunSplits ==
  ASSUME NEW M \in Memories, NEW i \in Index, NEW n \in 0 .. Size, NEW k \in 0 .. n,
         Filled(M, i, k)
  PROVE  Run(M, i, n) = Run(M, i, k) \o Run(M, Round(i, k), n - k)
<1>0. /\ i \in Nat /\ n \in Nat /\ k \in Nat /\ i < Size /\ n <= Size /\ k <= n
      /\ Size \in Nat /\ k \in 0 .. Size /\ n - k \in 0 .. Size /\ i \in 0 .. Size
      /\ Round(i, k) \in Index
  BY SizeAssumption DEF Index, Round
<1>1. CASE i + k < Size
  <2>1. PICK j \in Index : j = i + k
    BY <1>0, <1>1 DEF Index
  <2>2. /\ Round(i, k) = j /\ Packed(M, i, j) /\ i \in 0 .. j /\ j \in 0 .. Size
        /\ j + (n - k) = i + n
    BY <1>0, <1>1, <2>1 DEF Round, Filled
  <2>3. Run(M, i, k) = Read(M, i, j)
    BY <1>0, <1>1, <2>1 DEF Run
  <2>4. CASE i + n <= Size
    <3>1. PICK c \in 0 .. Size : c = i + n
      BY <1>0, <2>4
    <3>2. j \in 0 .. c
      BY <1>0, <2>1, <3>1
    <3>3. Run(M, i, n) = Read(M, i, c) /\ Run(M, j, n - k) = Read(M, j, c)
      BY <2>2, <2>4, <3>1 DEF Run
    <3>4. Read(M, i, c) = Read(M, i, j) \o Read(M, j, c)
      BY <2>2, <3>2, ReadSplits
    <3> QED  BY <2>2, <2>3, <3>3, <3>4
  <2>5. CASE ~(i + n <= Size)
    <3>1. PICK c \in 0 .. Size : c = i + n - Size
      BY <1>0, <2>5
    <3>2. /\ Run(M, i, n) = Read(M, i, Size) \o Read(M, 0, c)
          /\ Run(M, j, n - k) = Read(M, j, Size) \o Read(M, 0, c)
      <4>1. ~(j + (n - k) <= Size) /\ c = j + (n - k) - Size
        BY <1>0, <2>1, <2>5, <3>1
      <4> QED  BY <2>5, <3>1, <4>1 DEF Run
    <3>3. Size \in 0 .. Size /\ j \in 0 .. Size /\ 0 \in 0 .. c
      BY <1>0, <2>2
    <3>4. Read(M, i, Size) = Read(M, i, j) \o Read(M, j, Size)
      BY <2>2, <3>3, ReadSplits
    <3>5. Read(M, i, j) \in Seq(Messages) /\ Read(M, j, Size) \in Seq(Messages)
          /\ Read(M, 0, c) \in Seq(Messages)
      BY <2>2, <3>3, ReadType
    <3>6. (Read(M, i, j) \o Read(M, j, Size)) \o Read(M, 0, c)
            = Read(M, i, j) \o (Read(M, j, Size) \o Read(M, 0, c))
      BY <3>5, JoinTwice
    <3> QED  BY <2>2, <2>3, <3>2, <3>4, <3>6
  <2> QED  BY <2>4, <2>5
<1>2. CASE ~(i + k < Size)
  <2>1. PICK j \in Index : j = i + k - Size
    BY <1>0, <1>2 DEF Index
  <2>2. PICK c \in 0 .. Size : c = i + n - Size
    BY <1>0, <1>2
  <2>3. /\ Round(i, k) = j /\ Packed(M, 0, j) /\ 0 \in 0 .. j /\ j \in 0 .. c
        /\ j + (n - k) = c /\ j \in 0 .. Size /\ Size \in 0 .. Size /\ i \in 0 .. Size
    BY <1>0, <1>2, <2>1, <2>2 DEF Round, Filled
  <2>4. Read(M, i, Size) \in Seq(Messages) /\ Read(M, 0, j) \in Seq(Messages)
        /\ Read(M, j, c) \in Seq(Messages)
    BY <2>3, ReadType
  <2>5. Run(M, i, k) = Read(M, i, Size) \o Read(M, 0, j)
    <3>1. CASE i + k = Size
      <4>1. j = 0 /\ Read(M, 0, 0) = << >> /\ Run(M, i, k) = Read(M, i, Size)
        BY <1>0, <2>1, <2>3, <3>1, ReadStops DEF Run
      <4> QED  BY <2>4, <4>1
    <3>2. CASE i + k # Size
      BY <1>0, <1>2, <2>1, <3>2 DEF Run
    <3> QED  BY <3>1, <3>2
  <2>6. Run(M, i, n) = Read(M, i, Size) \o Read(M, 0, c)
    <3>1. CASE i + n = Size
      <4>1. c = 0 /\ Read(M, 0, 0) = << >> /\ Run(M, i, n) = Read(M, i, Size)
        BY <1>0, <2>2, <2>3, <3>1, ReadStops DEF Run
      <4> QED  BY <2>4, <4>1
    <3>2. CASE i + n # Size
      <4>1. ~(i + n <= Size)
        BY <1>0, <1>2, <3>2
      <4> QED  BY <2>2, <4>1 DEF Run
    <3> QED  BY <3>1, <3>2
  <2>7. Run(M, j, n - k) = Read(M, j, c)
    BY <1>0, <2>3 DEF Run
  <2>8. Read(M, 0, c) = Read(M, 0, j) \o Read(M, j, c)
    BY <2>3, ReadSplits
  <2>9. Read(M, i, Size) \o (Read(M, 0, j) \o Read(M, j, c))
          = (Read(M, i, Size) \o Read(M, 0, j)) \o Read(M, j, c)
    BY <2>4, JoinTwice
  <2> QED  BY <2>3, <2>5, <2>6, <2>7, <2>8, <2>9
<1> QED  BY <1>1, <1>2

\* What a run holds is a matter of its cells.
LEMMA RunSame ==
  ASSUME NEW M \in Memories, NEW N \in Memories, NEW i \in Index, NEW n \in 0 .. Size,
         SameRun(M, N, i, n), Filled(M, i, n)
  PROVE  Filled(N, i, n) /\ Run(N, i, n) = Run(M, i, n)
<1>0. /\ i \in Nat /\ n \in Nat /\ i < Size /\ n <= Size /\ Size \in Nat
  BY SizeAssumption DEF Index
<1>1. CASE i + n < Size
  <2>1. PICK e \in 0 .. Size : e = i + n
    BY <1>0, <1>1
  <2>2. i \in 0 .. e /\ e <= Size
    BY <1>0, <2>1
  <2>3. SameCells(M, N, i, e)
    <3>1. \A x \in i .. e - 1 : x \in Index /\ InRun(x, i, n)
      BY <1>0, <2>1, SizeAssumption DEF InRun, Index
    <3> QED  BY <3>1 DEF SameRun, SameCells
  <2>4. Packed(M, i, e)
    BY <1>1, <2>1 DEF Filled
  <2>5. Packed(N, i, e)
    BY <2>2, <2>3, <2>4, PackedSame
  <2>6. Read(M, i, e) = Read(N, i, e)
    BY <2>2, <2>3, ReadSame
  <2> QED  BY <1>1, <2>1, <2>2, <2>5, <2>6 DEF Filled, Run
<1>2. CASE ~(i + n < Size)
  <2>1. PICK c \in 0 .. Size : c = i + n - Size
    BY <1>0, <1>2
  <2>2. i \in 0 .. Size /\ Size \in 0 .. Size /\ 0 \in 0 .. c
    BY <1>0
  <2>3. \A x \in i .. Size - 1 : x \in Index /\ M[x] = N[x]
    <3>1. \A x \in i .. Size - 1 : x \in Index /\ InRun(x, i, n)
      BY <1>0, <1>2, SizeAssumption DEF InRun, Index
    <3> QED  BY <3>1 DEF SameRun
  <2>4. SameCells(M, N, 0, c)
    <3>1. \A x \in 0 .. c - 1 : x \in Index /\ InRun(x, i, n)
      BY <1>0, <2>1, SizeAssumption DEF InRun, Index
    <3> QED  BY <3>1 DEF SameRun, SameCells
  <2>5. Packed(N, 0, c) /\ Read(M, 0, c) = Read(N, 0, c)
    <3>1. Packed(M, 0, c)
      BY <1>2, <2>1 DEF Filled
    <3>2. Packed(N, 0, c)
      BY <2>2, <2>4, <3>1, PackedSame
    <3>3. Read(M, 0, c) = Read(N, 0, c)
      BY <2>2, <2>4, ReadSame
    <3> QED  BY <3>2, <3>3
  <2>6. PackedTail(N, i)
    <3>1. PICK e \in i .. Size : Packed(M, i, e) /\ (e # Size => M[e].type # "Internal")
      BY <1>2 DEF Filled, PackedTail
    <3>2. /\ e \in 0 .. Size /\ i \in 0 .. e /\ \A x \in i .. e - 1 : x \in i .. Size - 1
          /\ e # Size => e \in i .. Size - 1
      BY <1>0
    <3>3. SameCells(M, N, i, e)
      BY <2>3, <3>2 DEF SameCells
    <3>4. Packed(N, i, e)
      BY <3>1, <3>2, <3>3, PackedSame
    <3>5. e # Size => N[e].type # "Internal"
      BY <2>3, <3>1, <3>2
    <3> QED  BY <3>4, <3>5 DEF PackedTail
  <2>7. Read(M, i, Size) = Read(N, i, Size)
    <3>1. SameCells(M, N, i, Size)
      BY <2>3 DEF SameCells
    <3> QED  BY <2>2, <3>1, ReadSame
  <2>8. Filled(N, i, n)
    BY <1>2, <2>1, <2>5, <2>6 DEF Filled
  <2>9. Run(N, i, n) = Run(M, i, n)
    <3>1. CASE i + n <= Size
      <4>1. i + n = Size
        BY <1>0, <1>2, <3>1
      <4> QED  BY <2>7, <3>1, <4>1 DEF Run
    <3>2. CASE ~(i + n <= Size)
      BY <2>1, <2>5, <2>7, <3>2 DEF Run
    <3> QED  BY <3>1, <3>2
  <2> QED  BY <2>8, <2>9
<1> QED  BY <1>1, <1>2

\* Message m is written at index j: its header, and cells that start no message.
Written(M, j, m) ==
  /\ m \in Messages
  /\ j + m.size <= Size
  /\ M[j] = Header(m)
  /\ \A x \in j + 1 .. j + m.size - 1 : M[x].type # "Internal"

\* A written message is packed, and is what is read of its cells.
LEMMA WrittenIsRead ==
  ASSUME NEW M \in Memories, NEW j \in Index, NEW m, Written(M, j, m)
  PROVE  /\ j + m.size \in 0 .. Size /\ j \in 0 .. j + m.size
         /\ Packed(M, j, j + m.size) /\ Read(M, j, j + m.size) = <<m>>
<1>0. j \in Nat /\ Size \in Nat /\ j < Size /\ m.size \in Nat /\ m.size >= 1
  BY SizeAssumption, MsgSizeRange DEF Index, Written
<1>1. PICK b \in 0 .. Size : b = j + m.size
  BY <1>0 DEF Written
<1>2. j \in 0 .. b /\ j # b /\ b \in 0 .. b
  BY <1>0, <1>1
<1>3. M[j].type = "Internal" /\ M[j].size = m.size /\ M[j].id = m.id
  BY DEF Written, Header
<1>4. Packed(M, j, b)
  <2>1. \A x \in j .. b - 1 : x = j \/ x \in j + 1 .. j + m.size - 1
    BY <1>0, <1>1
  <2>2. \A x \in j .. b - 1 : M[x].type = "Internal" => x = j
    BY <2>1 DEF Written
  <2>3. j <= b /\ b <= b
    BY <1>0, <1>1
  <2> QED  BY <1>1, <1>3, <2>2, <2>3 DEF Packed
<1>5. Read(M, b, b) = << >>
  BY <1>2, ReadStops
<1>6. Read(M, j, b) = <<[id |-> M[j].id, size |-> M[j].size]>> \o Read(M, b, b)
  <2>1. j + M[j].size = b /\ j + M[j].size <= b
    BY <1>0, <1>1, <1>3
  <2> QED  BY <1>2, <1>3, <2>1, ReadSteps
<1>7. [id |-> M[j].id, size |-> M[j].size] = m
  BY <1>3 DEF Written, Messages
<1>8. <<m>> \o << >> = <<m>>
  OBVIOUS
<1> QED  BY <1>1, <1>2, <1>4, <1>5, <1>6, <1>7, <1>8

\* A message written behind a run extends it.
LEMMA RunMessage ==
  ASSUME NEW M \in Memories, NEW i \in Index, NEW n \in 0 .. Size, Filled(M, i, n),
         NEW m, Written(M, Round(i, n), m), n + m.size <= Size
  PROVE  /\ Filled(M, i, n + m.size)
         /\ Run(M, i, n + m.size) = Append(Run(M, i, n), m)
<1>0. /\ i \in Nat /\ n \in Nat /\ i < Size /\ n <= Size /\ Size \in Nat
      /\ m \in Messages /\ m.size \in Nat /\ m.size >= 1
  BY SizeAssumption, MsgSizeRange DEF Index, Written
<1>1. PICK j \in Index : j = Round(i, n)
  BY RunCases
<1>2. PICK b \in 0 .. Size : b = j + m.size
  BY <1>1, WrittenIsRead
<1>3. Written(M, j, m) /\ j \in 0 .. b /\ Packed(M, j, b) /\ Read(M, j, b) = <<m>>
  BY <1>1, <1>2, WrittenIsRead
<1>4. Filled(M, i, n + m.size)
  <2>1. CASE i + n < Size
    <3>1. j = i + n /\ i \in 0 .. j /\ i + (n + m.size) = b
      BY <1>0, <1>1, <1>2, <2>1 DEF Round
    <3>2. Packed(M, i, j)
      BY <2>1, <3>1 DEF Filled
    <3>3. Packed(M, i, b)
      BY <1>3, <3>1, <3>2, PackedJoin
    <3>4. CASE b < Size
      BY <3>1, <3>3, <3>4 DEF Filled
    <3>5. CASE ~(b < Size)
      <4>1. b = Size /\ Size \in i .. Size /\ b - Size = 0 /\ 0 \in 0 .. Size
        BY <1>0, <3>5
      <4>2. PackedTail(M, i)
        BY <3>3, <4>1 DEF PackedTail
      <4>3. Packed(M, 0, 0)
        BY <4>1, PackedEmpty
      <4>4. PICK k \in Nat : k = n + m.size
        BY <1>0
      <4>5. ~(i + k < Size) /\ i + k - Size = 0
        BY <3>1, <4>1, <4>4
      <4> QED  BY <4>2, <4>3, <4>4, <4>5 DEF Filled
    <3> QED  BY <3>4, <3>5
  <2>2. CASE ~(i + n < Size)
    <3>1. /\ j = i + n - Size /\ 0 \in 0 .. j /\ ~(i + (n + m.size) < Size)
          /\ i + (n + m.size) - Size = b
      BY <1>0, <1>1, <1>2, <2>2 DEF Round
    <3>2. PackedTail(M, i) /\ Packed(M, 0, j)
      BY <2>2, <3>1 DEF Filled
    <3>3. Packed(M, 0, b)
      BY <1>3, <3>1, <3>2, PackedJoin
    <3> QED  BY <3>1, <3>2, <3>3 DEF Filled
  <2> QED  BY <2>1, <2>2
<1>5. Run(M, i, n + m.size) = Run(M, i, n) \o Run(M, j, m.size)
  <2>1. PICK k \in 0 .. Size : k = n + m.size
    BY <1>0
  <2>2. n \in 0 .. k /\ k - n = m.size
    BY <1>0, <2>1
  <2>3. Run(M, i, k) = Run(M, i, n) \o Run(M, Round(i, n), k - n)
    BY <2>2, RunSplits
  <2> QED  BY <1>1, <2>1, <2>2, <2>3
<1>6. Run(M, j, m.size) = <<m>>
  <2>1. j + m.size <= Size
    BY <1>3 DEF Written
  <2> QED  BY <1>2, <1>3, <2>1 DEF Run
<1>7. Run(M, i, n) \in Seq(Messages)
  BY RunType
<1>8. Append(Run(M, i, n), m) = Run(M, i, n) \o <<m>>
  BY <1>0, <1>7, AppendIsConcat
<1> QED  BY <1>4, <1>5, <1>6, <1>8

\* A marker behind a run, and the rest of the ring skipped, adds nothing to it.
LEMMA RunMarker ==
  ASSUME NEW M \in Memories, NEW i \in Index, NEW n \in 0 .. Size, Filled(M, i, n),
         NEW j \in Index, j = Round(i, n), M[j].type # "Internal", n + (Size - j) <= Size
  PROVE  /\ Filled(M, i, n + (Size - j))
         /\ Run(M, i, n + (Size - j)) = Run(M, i, n)
<1>0. /\ i \in Nat /\ n \in Nat /\ i < Size /\ n <= Size /\ Size \in Nat
      /\ j \in Nat /\ j < Size
  BY SizeAssumption DEF Index
<1>1. i + n < Size /\ j = i + n
  BY <1>0 DEF Round
<1>2. Filled(M, i, n + (Size - j))
  <2>1. i + (n + (Size - j)) = Size /\ j \in i .. Size /\ 0 \in 0 .. Size
    BY <1>0, <1>1
  <2>2. Packed(M, i, j)
    BY <1>1 DEF Filled
  <2>3. PackedTail(M, i)
    BY <2>1, <2>2 DEF PackedTail
  <2>4. Packed(M, 0, 0)
    BY <2>1, PackedEmpty
  <2>5. ~(i + (n + (Size - j)) < Size) /\ i + (n + (Size - j)) - Size = 0
    BY <1>0, <2>1
  <2> QED  BY <2>3, <2>4, <2>5 DEF Filled
<1>3. Run(M, i, n + (Size - j)) = Run(M, i, n) \o Run(M, j, Size - j)
  <2>1. PICK k \in 0 .. Size : k = n + (Size - j)
    BY <1>0
  <2>2. n \in 0 .. k /\ k - n = Size - j
    BY <1>0, <2>1
  <2>3. Run(M, i, k) = Run(M, i, n) \o Run(M, Round(i, n), k - n)
    BY <2>2, RunSplits
  <2> QED  BY <2>1, <2>2, <2>3
<1>4. Run(M, j, Size - j) = << >>
  <2>1. j + (Size - j) = Size /\ Size <= Size /\ j \in 0 .. Size /\ Size \in 0 .. Size
    BY <1>0
  <2>2. Read(M, j, Size) = << >>
    BY <2>1, ReadStops
  <2> QED  BY <2>1, <2>2 DEF Run
<1>5. Run(M, i, n) \in Seq(Messages)
  BY RunType
<1>6. Run(M, i, n) \o << >> = Run(M, i, n)
  BY <1>5
<1> QED  BY <1>2, <1>3, <1>4, <1>6

\* The index of a position is that of an earlier one and the cells between.
LEMMA IndexRound ==
  ASSUME NEW w \in Pos, NEW r \in Pos, Fill(w, r) <= Size
  PROVE  /\ IndexOf(w) \in Index /\ IndexOf(r) \in Index /\ Fill(w, r) \in 0 .. Size
         /\ IndexOf(w) = Round(IndexOf(r), Fill(w, r))
BY WriteIndex, IndexRange DEF Round

\* What the model's get_unread and sink_msg_block find between two positions.
Between(M, w, r) ==
  LET u == Unread(w, r) IN  Block(M, u.first, u.size1) \o Block(M, 0, u.size2)

\* The model's messages between two positions are those of the present memory.
LEMMA BetweenIs == \A w, r : MsgsBetween(w, r) = Between(mem, w, r)
BY BlockIs DEF MsgsBetween, Between

\* It is the run of the cells between them, split where the blocks are.
LEMMA BetweenIsRun ==
  ASSUME NEW M \in Memories, NEW w \in Pos, NEW r \in Pos, Fill(w, r) <= Size
  PROVE  Between(M, w, r) = Run(M, IndexOf(r), Fill(w, r))
<1> DEFINE i == IndexOf(r)
           n == Fill(w, r)
           j == IndexOf(w)
<1>1. /\ i \in Index /\ j \in Index /\ n \in 0 .. Size
      /\ j = IF i + n >= Size THEN i + n - Size ELSE i + n
      /\ n = 0 <=> w = r
  BY WriteIndex, IndexRange, FillZero
<1>2. Unread(w, r) = IF w = r THEN [first |-> 0, size1 |-> 0, size2 |-> 0]
                     ELSE IF i < j THEN [first |-> i, size1 |-> j - i, size2 |-> 0]
                     ELSE [first |-> i, size1 |-> Size - i, size2 |-> j]
  BY <1>1, SizeAssumption DEF Unread, Index
<1> HIDE DEF i, n, j
<1>0. /\ i \in Nat /\ i < Size /\ j \in Nat /\ j < Size /\ n \in Nat /\ n <= Size /\ Size \in Nat
      /\ 0 \in 0 .. Size /\ Size \in 0 .. Size /\ i \in 0 .. Size /\ j \in 0 .. Size
  BY <1>1, SizeAssumption DEF Index
<1>3. Block(M, 0, 0) = << >>
  <2>1. Read(M, 0, 0) = << >> /\ 0 - 0 = 0
    BY <1>0, ReadStops
  <2> QED  BY <2>1 DEF Read
<1>4. CASE w = r
  <2>1. Between(M, w, r) = << >> \o << >>
    BY <1>2, <1>3, <1>4 DEF Between
  <2>2. Run(M, i, n) = << >>
    BY <1>1, <1>4, RunEmpty
  <2> QED  BY <2>1, <2>2 DEF i, n
<1>5. CASE w # r /\ i < j
  <2>1. i + n = j /\ i + n <= Size /\ i \in 0 .. j
    BY <1>0, <1>1, <1>5
  <2>2. Between(M, w, r) = Read(M, i, j) \o << >>
    <3>1. Unread(w, r) = [first |-> i, size1 |-> j - i, size2 |-> 0]
      BY <1>2, <1>5
    <3>2. Between(M, w, r) = Block(M, i, j - i) \o Block(M, 0, 0)
      BY <3>1 DEF Between
    <3> QED  BY <1>3, <3>2 DEF Read
  <2>3. Read(M, i, j) \in Seq(Messages)
    BY <1>0, <2>1, ReadType
  <2>4. Run(M, i, n) = Read(M, i, j)
    BY <2>1 DEF Run
  <2> QED  BY <2>2, <2>3, <2>4 DEF i, n
<1>6. CASE w # r /\ ~(i < j)
  <2>1. i + n >= Size /\ j = i + n - Size /\ j - 0 = j
    BY <1>0, <1>1, <1>6
  <2>2. Between(M, w, r) = Read(M, i, Size) \o Read(M, 0, j)
    BY <1>2, <1>6, <2>1 DEF Between, Read
  <2>3. Read(M, i, Size) \in Seq(Messages)
    BY <1>0, ReadType
  <2>4. CASE j = 0
    <3>1. i + n = Size /\ i + n <= Size
      BY <1>0, <2>1, <2>4
    <3>2. Run(M, i, n) = Read(M, i, Size)
      BY <3>1 DEF Run
    <3>3. Read(M, 0, 0) = << >>
      BY <1>0, ReadStops
    <3> QED  BY <2>2, <2>3, <2>4, <3>2, <3>3 DEF i, n
  <2>5. CASE j # 0
    <3>1. ~(i + n <= Size)
      BY <1>0, <2>1, <2>5
    <3> QED  BY <2>1, <2>2, <3>1 DEF Run, i, n
  <2> QED  BY <2>4, <2>5
<1> QED  BY <1>4, <1>5, <1>6

(***************************************************************************)
(* What the invariant of the ring must add to implement the queue: the     *)
(* unread cells are packed with messages up to the writer, and up to and   *)
(* from the snapshot of a read; and what each thread has prepared stays.   *)
(***************************************************************************)
QInv ==
  /\ Filled(mem, IndexOf(readPos), Fill(writePos, readPos))
  /\ cState # "idle" => /\ Filled(mem, IndexOf(readPos), Fill(snapPos, readPos))
                        /\ Filled(mem, IndexOf(snapPos), Fill(writePos, snapPos))
  /\ cState \in {"block1", "block2", "advance"} =>
       unread = Unread(snapPos, readPos) /\ snapPos # readPos
  /\ cState = "block2" => unread.size2 # 0
  /\ pState = "wrap" => mem[IndexOf(writePos)] = Marker
  /\ pState = "publish" => Written(mem, IndexOf(writePos), pMsg)
  /\ sunk \in Seq(Messages)

\* The memory, the positions and their indexes are in their ranges.
LEMMA RingTypes ==
  ASSUME IInv
  PROVE  /\ mem \in Memories /\ writePos \in Pos /\ readPos \in Pos /\ snapPos \in Pos
         /\ Fill(writePos, readPos) \in 0 .. Size
         /\ IndexOf(writePos) \in Index /\ IndexOf(readPos) \in Index
         /\ IndexOf(snapPos) \in Index
BY IndexRange, IndexRound DEF IInv, TypeOK, Memories

\* A position between the reader and the writer.
LEMMA Ahead ==
  ASSUME IInv, NEW p \in Pos, Fill(writePos, p) <= Fill(writePos, readPos)
  PROVE  /\ Fill(writePos, p) \in 0 .. Size /\ Fill(p, readPos) \in 0 .. Size
         /\ Fill(writePos, readPos) = Fill(p, readPos) + Fill(writePos, p)
         /\ IndexOf(p) \in Index
         /\ IndexOf(p) = Round(IndexOf(readPos), Fill(p, readPos))
         /\ IndexOf(writePos) = Round(IndexOf(p), Fill(writePos, p))
         /\ \A x \in Index : InRun(x, IndexOf(p), Fill(writePos, p)) => InUnread(x)
<1>1. /\ writePos \in Pos /\ readPos \in Pos /\ Fill(writePos, readPos) <= Size
  BY DEF IInv, TypeOK
<1>2. /\ Fill(writePos, readPos) \in 0 .. Size
      /\ Fill(writePos, p) \in 0 .. Size /\ Fill(p, readPos) \in 0 .. Size
      /\ Fill(writePos, readPos) = Fill(p, readPos) + Fill(writePos, p)
  BY <1>1, FillAdds
<1>3. Fill(writePos, p) <= Size /\ Fill(p, readPos) <= Size
  BY <1>2, SizeAssumption
<1>4. /\ IndexOf(p) \in Index /\ IndexOf(readPos) \in Index
      /\ IndexOf(p) = Round(IndexOf(readPos), Fill(p, readPos))
      /\ IndexOf(writePos) = Round(IndexOf(p), Fill(writePos, p))
  BY <1>1, <1>3, IndexRound
<1>5. ASSUME NEW x \in Index, InRun(x, IndexOf(p), Fill(writePos, p)) PROVE InUnread(x)
  BY <1>2, <1>4, <1>5, SizeAssumption DEF InUnread, InRun, Round, Index
<1> QED  BY <1>2, <1>4, <1>5

\* What the producer does to the messages behind a position p that it cannot
\* overtake: it publishes a message behind them, or leaves them as they are.
LEMMA ProducerExtends ==
  ASSUME IInv, IInv', QInv, Producer, NEW p \in Pos,
         Fill(writePos, p) <= Fill(writePos, readPos),
         Filled(mem, IndexOf(p), Fill(writePos, p))
  PROVE  /\ Filled(mem', IndexOf(p), Fill(writePos', p))
         /\ Run(mem', IndexOf(p), Fill(writePos', p))
              = IF AdvanceWritePos THEN Append(Run(mem, IndexOf(p), Fill(writePos, p)), pMsg)
                ELSE Run(mem, IndexOf(p), Fill(writePos, p))
<1> DEFINE i == IndexOf(p)
           n == Fill(writePos, p)
           j == IndexOf(writePos)
<1>1. /\ mem \in Memories /\ mem' \in Memories /\ writePos \in Pos
      /\ i \in Index /\ j \in Index /\ n \in 0 .. Size /\ j = Round(i, n)
      /\ Filled(mem, i, n)
      /\ n <= Fill(writePos, readPos) /\ Fill(writePos, readPos) \in 0 .. Size
  BY RingTypes, Ahead DEF IInv, TypeOK, Memories
<1>2. SameRun(mem, mem', i, n)
  BY StepIntact, Ahead DEF SameRun, Next
<1>3. Filled(mem', i, n) /\ Run(mem', i, n) = Run(mem, i, n)
  <2> HIDE DEF i, n
  <2> QED  BY <1>1, <1>2, RunSame
<1>4. CASE AdvanceWritePos
  <2>1. /\ pState = "publish" /\ writePos' = Plus(writePos, pMsg.size) /\ mem' = mem
        /\ pState # "wrap"
    BY <1>4 DEF AdvanceWritePos
  <2>2. Written(mem, j, pMsg) /\ pMsg.size \in 1 .. Size /\ pMsg.size <= writeable
    BY <2>1, MsgSizeRange DEF QInv, IInv, MsgFits
  <2>3. Fill(writePos, readPos) + writeable <= Size /\ writeable \in 0 .. Size
    BY <2>1 DEF IInv, WriteableIsFree, NextWritePos, TypeOK
  <2>4. n + pMsg.size <= Size /\ pMsg.size \in 0 .. Size
    BY <1>1, <2>2, <2>3, SizeAssumption
  <2>5. Fill(writePos', p) = n + pMsg.size
    BY <1>1, <2>1, <2>4, FillWrite
  <2> HIDE DEF i, n, j
  <2>6. /\ Filled(mem, i, n + pMsg.size)
        /\ Run(mem, i, n + pMsg.size) = Append(Run(mem, i, n), pMsg)
    BY <1>1, <2>2, <2>4, RunMessage
  <2> QED  BY <1>4, <2>1, <2>5, <2>6 DEF i, n
<1>5. CASE PublishMarker
  <2>1. /\ pState = "wrap" /\ writePos' = Plus(writePos, Size - j) /\ mem' = mem
        /\ ~AdvanceWritePos
    BY <1>5 DEF PublishMarker, AdvanceWritePos
  <2>2. mem[j].type # "Internal"
    BY <2>1 DEF QInv, Marker
  <2>3. /\ Fill(writePos, readPos) + (Size - j) + writeable <= Size
        /\ writeable \in 0 .. Size
    BY <2>1 DEF IInv, TailIsFree, TypeOK
  <2>4. n + (Size - j) <= Size /\ Size - j \in 0 .. Size
    BY <1>1, <2>3, SizeAssumption DEF Index
  <2>5. Fill(writePos', p) = n + (Size - j)
    BY <1>1, <2>1, <2>4, FillWrite
  <2> HIDE DEF i, n, j
  <2>6. Filled(mem, i, n + (Size - j)) /\ Run(mem, i, n + (Size - j)) = Run(mem, i, n)
    BY <1>1, <2>2, <2>4, RunMarker
  <2> QED  BY <2>1, <2>5, <2>6 DEF i, n
<1>6. CASE ~AdvanceWritePos /\ ~PublishMarker
  <2>1. writePos' = writePos
    BY <1>6 DEF Producer, LogCall, UpdateState, CheckFits, Drop, Retry, WriteMessage
  <2> QED  BY <1>3, <1>6, <2>1
<1> QED  BY <1>4, <1>5, <1>6

\* A step of the producer leaves the core and its variables alone.
LEMMA ProducerOnly ==
  ASSUME Producer
  PROVE  UNCHANGED <<readPos, snapPos, cState, unread, sunk>>
BY DEF Producer, LogCall, UpdateState, PublishMarker, CheckFits, Drop, Retry,
       WriteMessage, AdvanceWritePos, consumerVars

\* A step of the core leaves the ring, the producer and its variables alone.
LEMMA CoreOnly ==
  ASSUME Core
  PROVE  UNCHANGED <<mem, writePos, writeable, pState, pMsg, calls>>
BY DEF Core, Snapshot, GetUnread, SkipRead, ReadBlock1, ReadBlock2, AdvanceReadPos,
       producerVars

\* The reader and, during a read, the snapshot are behind the writer.
LEMMA ReaderBehind ==
  ASSUME IInv
  PROVE  /\ readPos \in Pos /\ Fill(writePos, readPos) <= Fill(writePos, readPos)
         /\ cState # "idle" => /\ snapPos \in Pos
                               /\ Fill(writePos, snapPos) <= Fill(writePos, readPos)
                               /\ Fill(snapPos, readPos) \in 0 .. Size
                               /\ Fill(writePos, readPos)
                                    = Fill(snapPos, readPos) + Fill(writePos, snapPos)
<1>1. /\ writePos \in Pos /\ readPos \in Pos /\ snapPos \in Pos
      /\ Fill(writePos, readPos) <= Size /\ Fill(writePos, readPos) \in 0 .. Size
  BY RingTypes DEF IInv
<1>2. cState # "idle" => Fill(snapPos, readPos) <= Fill(writePos, readPos)
  BY DEF IInv, SnapshotInRange
<1>3. cState # "idle" =>
        /\ Fill(writePos, snapPos) \in 0 .. Size /\ Fill(snapPos, readPos) \in 0 .. Size
        /\ Fill(writePos, readPos) = Fill(snapPos, readPos) + Fill(writePos, snapPos)
  BY <1>1, <1>2, FillAdds
<1> QED  BY <1>1, <1>3, SizeAssumption

\* The cells the core is reading are unread.
LEMMA ReadingUnread ==
  ASSUME IInv, cState # "idle", NEW x \in Index,
         InRun(x, IndexOf(readPos), Fill(snapPos, readPos))
  PROVE  InUnread(x)
<1>1. /\ Fill(snapPos, readPos) \in 0 .. Size /\ Fill(writePos, readPos) \in 0 .. Size
      /\ Fill(snapPos, readPos) <= Fill(writePos, readPos)
      /\ IndexOf(readPos) \in Index
  BY RingTypes, ReaderBehind DEF IInv, SnapshotInRange
<1> QED  BY <1>1, SizeAssumption DEF InUnread, InRun, Index

\* A step of the producer keeps what is published packed.
LEMMA ProducerQInv == ASSUME IInv, IInv', QInv, Producer PROVE QInv'
<1>1. UNCHANGED <<readPos, snapPos, cState, unread, sunk>>
  BY ProducerOnly
<1>2. Filled(mem', IndexOf(readPos), Fill(writePos', readPos))
  BY ReaderBehind, ProducerExtends DEF QInv
<1>3. ASSUME cState # "idle"
      PROVE  /\ Filled(mem', IndexOf(readPos), Fill(snapPos, readPos))
             /\ Filled(mem', IndexOf(snapPos), Fill(writePos', snapPos))
  <2>1. Filled(mem', IndexOf(snapPos), Fill(writePos', snapPos))
    BY <1>3, ReaderBehind, ProducerExtends DEF QInv
  <2>2. SameRun(mem, mem', IndexOf(readPos), Fill(snapPos, readPos))
    BY <1>3, StepIntact, ReadingUnread DEF SameRun, Next
  <2>3. mem \in Memories /\ mem' \in Memories /\ IndexOf(readPos) \in Index
        /\ Fill(snapPos, readPos) \in 0 .. Size
    BY <1>3, RingTypes, ReaderBehind DEF IInv, TypeOK, Memories
  <2> QED  BY <1>3, <2>1, <2>2, <2>3, RunSame DEF QInv
<1>4. pState' = "wrap" => mem'[IndexOf(writePos')] = Marker
  <2>1. CASE UpdateState
    <3>1. mem \in [Index -> Cells] /\ IndexOf(writePos) \in Index /\ writePos' = writePos
      BY <2>1, RingTypes DEF UpdateState, IInv, TypeOK
    <3> DEFINE u == ProducerUpdate(writePos, readPos, pMsg.size)
    <3>2. /\ mem' = IF u.wrap THEN [mem EXCEPT ![IndexOf(writePos)] = Marker] ELSE mem
          /\ pState' = IF u.wrap THEN "wrap" ELSE "check"
      BY <2>1 DEF UpdateState
    <3> HIDE DEF u
    <3> QED  BY <3>1, <3>2
  <2>2. CASE ~UpdateState
    BY <2>2 DEF Producer, LogCall, PublishMarker, CheckFits, Drop, Retry, WriteMessage,
                AdvanceWritePos
  <2> QED  BY <2>1, <2>2
<1>5. pState' = "publish" => Written(mem', IndexOf(writePos'), pMsg')
  <2>1. CASE WriteMessage
    <3> DEFINE j == IndexOf(writePos)
    <3>1. /\ writePos' = writePos /\ pMsg' = pMsg /\ pState = "write" /\ pState # "wrap"
          /\ mem' = [i \in Index |->
                       IF i = j THEN Header(pMsg)
                       ELSE IF i \in j .. j + pMsg.size - 1 THEN Body(pMsg)
                       ELSE mem[i]]
      BY <2>1 DEF WriteMessage
    <3>2. /\ pMsg \in Messages /\ pMsg.size \in 1 .. Size /\ pMsg.size <= writeable
          /\ j + writeable <= Size /\ j \in Index /\ writeable \in 0 .. Size
      BY <3>1, RingTypes, MsgSizeRange
         DEF IInv, MsgFits, WriteableIsFree, NextWritePos, TypeOK
    <3> HIDE DEF j
    <3>3. j + pMsg.size <= Size
      BY <3>2, SizeAssumption DEF Index
    <3>4. mem'[j] = Header(pMsg)
      BY <3>1, <3>2
    <3>5. ASSUME NEW x \in j + 1 .. j + pMsg.size - 1 PROVE mem'[x].type # "Internal"
      <4>1. x \in Index /\ x # j /\ x \in j .. j + pMsg.size - 1
        BY <3>2, <3>3, SizeAssumption DEF Index
      <4>2. mem'[x] = Body(pMsg)
        BY <3>1, <4>1
      <4> QED  BY <4>2 DEF Body
    <3> QED  BY <3>1, <3>2, <3>3, <3>4, <3>5 DEF Written, j
  <2>2. CASE ~WriteMessage
    <3>1. pState' # "publish"
      BY <2>2 DEF Producer, LogCall, UpdateState, PublishMarker, CheckFits, Drop, Retry,
                  AdvanceWritePos
    <3> QED  BY <3>1
  <2> QED  BY <2>1, <2>2
<1> QED  BY <1>1, <1>2, <1>3, <1>4, <1>5 DEF QInv

\* The messages of a read: its two blocks are the run up to the snapshot.
LEMMA ReadBlocks ==
  ASSUME IInv, QInv, cState \in {"block1", "block2", "advance"}
  PROVE  /\ BlockMsgs(unread.first, unread.size1) \in Seq(Messages)
         /\ BlockMsgs(0, unread.size2) \in Seq(Messages)
         /\ unread.size2 = 0 => BlockMsgs(0, unread.size2) = << >>
         /\ BlockMsgs(unread.first, unread.size1) \o BlockMsgs(0, unread.size2)
              = Run(mem, IndexOf(readPos), Fill(snapPos, readPos))
<1>1. /\ unread = Unread(snapPos, readPos) /\ snapPos # readPos /\ mem \in Memories
      /\ Fill(snapPos, readPos) <= Size /\ snapPos \in Pos /\ readPos \in Pos
  BY RingTypes, ReaderBehind, SizeAssumption DEF QInv
<1>2. /\ IndexOf(readPos) \in 0 .. Size /\ IndexOf(snapPos) \in 0 .. Size /\ Size \in 0 .. Size
      /\ IndexOf(readPos) \in Nat /\ IndexOf(snapPos) \in Nat /\ Size \in Nat /\ 0 \in 0 .. Size
      /\ IndexOf(readPos) < Size /\ 0 \in 0 .. IndexOf(snapPos)
  BY <1>1, IndexRange, SizeAssumption DEF Index
<1>3. Block(mem, 0, 0) = << >>
  <2>1. Read(mem, 0, 0) = << >> /\ 0 - 0 = 0
    BY <1>1, <1>2, ReadStops
  <2> QED  BY <2>1 DEF Read
<1>4. BlockMsgs(unread.first, unread.size1) \o BlockMsgs(0, unread.size2)
        = Run(mem, IndexOf(readPos), Fill(snapPos, readPos))
  <2>1. Between(mem, snapPos, readPos) = Run(mem, IndexOf(readPos), Fill(snapPos, readPos))
    BY <1>1, BetweenIsRun
  <2>2. /\ BlockMsgs(unread.first, unread.size1) = Block(mem, unread.first, unread.size1)
        /\ BlockMsgs(0, unread.size2) = Block(mem, 0, unread.size2)
    BY BlockIs
  <2> QED  BY <1>1, <2>1, <2>2 DEF Between
<1>5. CASE IndexOf(readPos) < IndexOf(snapPos)
  <2>1. unread = [first |-> IndexOf(readPos), size1 |-> IndexOf(snapPos) - IndexOf(readPos),
                  size2 |-> 0]
    BY <1>1, <1>2, <1>5 DEF Unread
  <2>2. BlockMsgs(unread.first, unread.size1) = Read(mem, IndexOf(readPos), IndexOf(snapPos))
        /\ BlockMsgs(0, unread.size2) = << >>
    BY <1>3, <2>1, BlockIs DEF Read
  <2>3. IndexOf(readPos) \in 0 .. IndexOf(snapPos)
    BY <1>2, <1>5
  <2>4. Read(mem, IndexOf(readPos), IndexOf(snapPos)) \in Seq(Messages)
    BY <1>1, <1>2, <2>3, ReadType
  <2>5. BlockMsgs(0, unread.size2) \in Seq(Messages)
    BY <2>2, EmptySeq
  <2> QED  BY <1>4, <2>2, <2>4, <2>5
<1>6. CASE ~(IndexOf(readPos) < IndexOf(snapPos))
  <2>1. unread = [first |-> IndexOf(readPos), size1 |-> Size - IndexOf(readPos),
                  size2 |-> IndexOf(snapPos)]
    BY <1>1, <1>2, <1>6 DEF Unread
  <2>2. /\ BlockMsgs(unread.first, unread.size1) = Read(mem, IndexOf(readPos), Size)
        /\ BlockMsgs(0, unread.size2) = Read(mem, 0, IndexOf(snapPos))
    <3>1. IndexOf(snapPos) - 0 = IndexOf(snapPos)
      BY <1>2
    <3> QED  BY <2>1, <3>1, BlockIs DEF Read
  <2>3. /\ Read(mem, IndexOf(readPos), Size) \in Seq(Messages)
        /\ Read(mem, 0, IndexOf(snapPos)) \in Seq(Messages)
    BY <1>1, <1>2, ReadType
  <2>4. unread.size2 = 0 => BlockMsgs(0, unread.size2) = << >>
    BY <1>3, BlockIs
  <2> QED  BY <1>4, <2>2, <2>3, <2>4
<1> QED  BY <1>5, <1>6

\* A step of the core keeps what it has not read packed.
LEMMA CoreQInv == ASSUME IInv, IInv', QInv, Core PROVE QInv'
<1>1. UNCHANGED <<mem, writePos, writeable, pState, pMsg, calls>>
  BY CoreOnly
<1>2. mem \in Memories /\ IndexOf(readPos) \in Index /\ IndexOf(snapPos) \in Index
      /\ readPos \in Pos /\ snapPos \in Pos /\ writePos \in Pos
      /\ IndexOf(writePos) \in Index
  BY RingTypes
<1>3. /\ pState' = "wrap" => mem'[IndexOf(writePos')] = Marker
      /\ pState' = "publish" => Written(mem', IndexOf(writePos'), pMsg')
  BY <1>1 DEF QInv
<1>4. CASE Snapshot
  <2>1. /\ snapPos' = writePos /\ cState' = "snapped" /\ UNCHANGED <<readPos, unread, sunk>>
    BY <1>4 DEF Snapshot
  <2>2. Fill(writePos, writePos) = 0
    BY <1>2, FillZero
  <2>3. Filled(mem, IndexOf(writePos), 0)
    BY <1>2, RunEmpty
  <2> QED  BY <1>1, <1>3, <2>1, <2>2, <2>3 DEF QInv
<1>5. CASE GetUnread
  <2>1. /\ unread' = Unread(snapPos, readPos) /\ cState = "snapped"
        /\ cState' = IF snapPos = readPos THEN "idle" ELSE "block1"
        /\ UNCHANGED <<readPos, snapPos, sunk>>
    BY <1>5 DEF GetUnread
  <2> QED  BY <1>1, <1>3, <2>1 DEF QInv
<1>6. CASE SkipRead
  <2>1. cState' = "idle" /\ UNCHANGED <<readPos, snapPos, unread, sunk>>
    BY <1>6 DEF SkipRead
  <2> QED  BY <1>1, <1>3, <2>1 DEF QInv
<1>7. CASE ReadBlock1
  <2>1. /\ cState = "block1" /\ cState' = IF unread.size2 # 0 THEN "block2" ELSE "advance"
        /\ sunk' = sunk \o BlockMsgs(unread.first, unread.size1)
        /\ UNCHANGED <<readPos, snapPos, unread>>
    BY <1>7 DEF ReadBlock1
  <2>2. sunk' \in Seq(Messages)
    BY <2>1, ReadBlocks DEF QInv
  <2> QED  BY <1>1, <1>3, <2>1, <2>2 DEF QInv
<1>8. CASE ReadBlock2
  <2>1. /\ cState = "block2" /\ cState' = "advance"
        /\ sunk' = sunk \o BlockMsgs(0, unread.size2)
        /\ UNCHANGED <<readPos, snapPos, unread>>
    BY <1>8 DEF ReadBlock2
  <2>2. sunk' \in Seq(Messages)
    BY <2>1, ReadBlocks DEF QInv
  <2> QED  BY <1>1, <1>3, <2>1, <2>2 DEF QInv
<1>9. CASE AdvanceReadPos
  <2>1. /\ cState = "advance" /\ cState' \in {"idle", "snapped"}
        /\ readPos' = Plus(readPos, unread.size1 + unread.size2)
        /\ UNCHANGED <<snapPos, sunk>>
    BY <1>9 DEF AdvanceReadPos
  <2>2. unread.size1 + unread.size2 = Fill(snapPos, readPos)
    BY <2>1 DEF IInv, SnapshotInRange
  <2>3. readPos' = snapPos
    BY <1>2, <2>1, <2>2, PosModAssumption DEF Fill, Minus, Plus, Pos
  <2>4. Filled(mem, IndexOf(snapPos), Fill(writePos, snapPos))
    BY <2>1 DEF QInv
  <2>5. Filled(mem, IndexOf(snapPos), 0) /\ Fill(snapPos, snapPos) = 0
    BY <1>2, RunEmpty, FillZero
  <2> QED  BY <1>1, <1>3, <2>1, <2>3, <2>4, <2>5 DEF QInv
<1> QED  BY <1>4, <1>5, <1>6, <1>7, <1>8, <1>9 DEF Core

\* An empty ring is packed with nothing.
LEMMA InitQInv == Init => QInv
<1> SUFFICES ASSUME Init PROVE QInv
  OBVIOUS
<1>1. IInv
  BY InitIInv
<1>2. mem \in Memories /\ IndexOf(readPos) \in Index /\ readPos \in Pos
  BY <1>1, RingTypes
<1>3. Fill(writePos, readPos) = 0
  BY <1>2, FillZero DEF Init
<1>4. Filled(mem, IndexOf(readPos), 0)
  BY <1>2, RunEmpty
<1> QED  BY <1>3, <1>4 DEF Init, QInv

\* Every step keeps the invariant of the queue.
LEMMA NextQInv == IInv /\ IInv' /\ QInv /\ [Next]_vars => QInv'
<1> SUFFICES ASSUME IInv, IInv', QInv, [Next]_vars PROVE QInv'
  OBVIOUS
<1>1. CASE UNCHANGED vars
  BY <1>1 DEF vars, producerVars, consumerVars, QInv
<1> QED  BY <1>1, ProducerQInv, CoreQInv DEF Next

\* Whatever the two threads do, the published and unread bytes of the ring are
\* whole messages, one behind the other, and a read starts and ends between two.
THEOREM Packing == Spec => [](IInv /\ QInv)
<1>1. Init => IInv /\ QInv
  BY InitIInv, InitQInv
<1>2. IInv /\ QInv /\ [Next]_vars => IInv' /\ QInv'
  BY NextIInv, NextQInv
<1> QED  BY <1>1, <1>2, PTL DEF Spec

(***************************************************************************)
(* The messages that wait, written over the memory and the positions, so   *)
(* that it can be said of the next state as well.                          *)
(***************************************************************************)
PendingOf(M, c, u, w, s, r) ==
  IF c = "block2" THEN Block(M, 0, u.size2) \o Between(M, w, s)
  ELSE IF c = "advance" THEN Between(M, w, s)
  ELSE Between(M, w, r)

\* In this state they are the property's own ...
LEMMA PendingIs ==
  Pending = PendingOf(mem, cState, unread, writePos, snapPos, readPos)
BY BlockIs, BetweenIs DEF Pending, PendingOf

\* ... and so they are in the next.
LEMMA PendingIsPrime ==
  Pending' = PendingOf(mem', cState', unread', writePos', snapPos', readPos')
BY DEF Pending, PendingOf, MsgsBetween, Between, BlockMsgs, Block, Reads, At

\* The messages from a position up to the writer are those of the run of cells.
Waiting(M, w, p) == Run(M, IndexOf(p), Fill(w, p))

\* What is between a position and the writer is what waits from it on.
LEMMA BetweenWaits ==
  ASSUME NEW M \in Memories, NEW w \in Pos, NEW p \in Pos, Fill(w, p) <= Size
  PROVE  Between(M, w, p) = Waiting(M, w, p) /\ Waiting(M, w, p) \in Seq(Messages)
<1>1. IndexOf(p) \in Index /\ Fill(w, p) \in 0 .. Size
  BY IndexRound
<1> QED  BY <1>1, BetweenIsRun, RunType DEF Waiting

\* What waits from the reader and, during a read, from the snapshot on.
LEMMA WaitingTypes ==
  ASSUME IInv
  PROVE  /\ mem \in Memories
         /\ Between(mem, writePos, readPos) = Waiting(mem, writePos, readPos)
         /\ Waiting(mem, writePos, readPos) \in Seq(Messages)
         /\ cState # "idle" =>
              /\ Between(mem, writePos, snapPos) = Waiting(mem, writePos, snapPos)
              /\ Waiting(mem, writePos, snapPos) \in Seq(Messages)
<1>1. /\ mem \in Memories /\ writePos \in Pos /\ readPos \in Pos /\ snapPos \in Pos
      /\ Fill(writePos, readPos) \in 0 .. Size
  BY RingTypes
<1>2. cState # "idle" => Fill(writePos, snapPos) <= Fill(writePos, readPos)
  BY ReaderBehind
<1>3. Fill(writePos, readPos) <= Size
  BY <1>1, SizeAssumption
<1>4. cState # "idle" => Fill(writePos, snapPos) <= Size
  <2>1. Fill(writePos, snapPos) \in Int
    BY <1>1, PosModAssumption DEF Fill, Minus, Pos
  <2> QED  BY <1>1, <1>2, <2>1, SizeAssumption
<1> QED  BY <1>1, <1>3, <1>4, BetweenWaits

\* What waits is a sequence of messages.
PendingTyped == Pending \in Seq(Messages)

\* So it is in every state of the invariant.
LEMMA PendingType == ASSUME IInv, QInv PROVE PendingTyped /\ sunk \in Seq(Messages)
<1> USE DEF PendingTyped
<1>1. sunk \in Seq(Messages)
  BY DEF QInv
<1>2. CASE cState = "block2"
  <2>1. Block(mem, 0, unread.size2) \in Seq(Messages)
    BY <1>2, ReadBlocks, BlockIs
  <2>2. Between(mem, writePos, snapPos) \in Seq(Messages)
    BY <1>2, WaitingTypes
  <2>3. Pending = Block(mem, 0, unread.size2) \o Between(mem, writePos, snapPos)
    BY <1>2, PendingIs DEF PendingOf
  <2> QED  BY <1>1, <2>1, <2>2, <2>3
<1>3. CASE cState = "advance"
  BY <1>1, <1>3, PendingIs, WaitingTypes DEF PendingOf
<1>4. CASE cState \notin {"block2", "advance"}
  BY <1>1, <1>4, PendingIs, WaitingTypes DEF PendingOf
<1> QED  BY <1>2, <1>3, <1>4

\* The producer adds the message it publishes behind all that waits.
LEMMA ProducerWaiting ==
  ASSUME IInv, IInv', QInv, Producer, NEW p \in Pos,
         Fill(writePos, p) <= Fill(writePos, readPos),
         Filled(mem, IndexOf(p), Fill(writePos, p))
  PROVE  Waiting(mem', writePos', p)
           = IF AdvanceWritePos THEN Append(Waiting(mem, writePos, p), pMsg)
             ELSE Waiting(mem, writePos, p)
BY ProducerExtends DEF Waiting

\* Appending to the second of two joined sequences appends to both.
LEMMA AppendBehind ==
  ASSUME NEW s \in Seq(Messages), NEW t \in Seq(Messages), NEW m \in Messages
  PROVE  s \o Append(t, m) = Append(s \o t, m)
<1>1. Append(t, m) = t \o <<m>> /\ s \o t \in Seq(Messages) /\ <<m>> \in Seq(Messages)
  BY AppendIsConcat, ConcatProperties
<1>2. Append(s \o t, m) = (s \o t) \o <<m>>
  BY <1>1, AppendIsConcat
<1>3. s \o (t \o <<m>>) = (s \o t) \o <<m>>
  BY <1>1, JoinTwice
<1> QED  BY <1>1, <1>2, <1>3

\* Publishing a message is the only thing the producer does to what waits.
LEMMA ProducerPending ==
  ASSUME IInv, IInv', QInv, Producer
  PROVE  Pending' = IF AdvanceWritePos THEN Append(Pending, pMsg) ELSE Pending
<1>1. UNCHANGED <<readPos, snapPos, cState, unread, sunk>>
  BY ProducerOnly
<1>2. Pending' = PendingOf(mem', cState, unread, writePos', snapPos, readPos)
  BY <1>1, PendingIsPrime
<1>3. mem' \in Memories /\ writePos' \in Pos /\ readPos \in Pos /\ snapPos \in Pos
  BY RingTypes DEF IInv, TypeOK, Memories
<1>4. /\ Fill(writePos', readPos) <= Size
      /\ cState # "idle" => Fill(writePos', snapPos) <= Size
  <2>1. /\ Fill(writePos', readPos) <= Size
        /\ cState # "idle" => Fill(snapPos, readPos) <= Fill(writePos', readPos)
    BY <1>1 DEF IInv, SnapshotInRange
  <2>2. cState # "idle" => Fill(writePos', snapPos) \in 0 .. Size
    BY <1>3, <2>1, FillAdds
  <2> QED  BY <2>1, <2>2, SizeAssumption
<1>5. /\ Between(mem', writePos', readPos) = Waiting(mem', writePos', readPos)
      /\ cState # "idle" => Between(mem', writePos', snapPos) = Waiting(mem', writePos', snapPos)
  BY <1>3, <1>4, BetweenWaits
<1>6. Waiting(mem', writePos', readPos)
        = IF AdvanceWritePos THEN Append(Waiting(mem, writePos, readPos), pMsg)
          ELSE Waiting(mem, writePos, readPos)
  BY ReaderBehind, ProducerWaiting DEF QInv
<1>7. cState # "idle" =>
        Waiting(mem', writePos', snapPos)
          = IF AdvanceWritePos THEN Append(Waiting(mem, writePos, snapPos), pMsg)
            ELSE Waiting(mem, writePos, snapPos)
  BY ReaderBehind, ProducerWaiting DEF QInv
<1>8. CASE cState = "block2"
  <2>1. PICK c \in 0 .. Size : c = unread.size2
    BY DEF IInv, TypeOK
  <2>2. c = IndexOf(snapPos) /\ IndexOf(readPos) >= c
    <3>1. unread = Unread(snapPos, readPos) /\ snapPos # readPos /\ unread.size2 # 0
      BY <1>8 DEF QInv
    <3>2. IndexOf(readPos) \in Index /\ IndexOf(snapPos) \in Index
      BY RingTypes
    <3> QED  BY <2>1, <3>1, <3>2, SizeAssumption DEF Unread, Index
  <2>3. SameCells(mem, mem', 0, c)
    <3>1. /\ Fill(snapPos, readPos) \in 0 .. Size /\ IndexOf(readPos) \in Index
          /\ c = Round(IndexOf(readPos), Fill(snapPos, readPos)) /\ snapPos # readPos
          /\ Fill(snapPos, readPos) # 0 /\ c # 0 /\ c \in Index
      <4>1. Fill(snapPos, readPos) \in 0 .. Size /\ Fill(snapPos, readPos) <= Size
        BY <1>8, ReaderBehind, SizeAssumption
      <4> QED  BY <1>3, <1>8, <2>1, <2>2, <4>1, IndexRound, FillZero DEF QInv
    <3>2. \A x \in 0 .. c - 1 :
            x \in Index /\ InRun(x, IndexOf(readPos), Fill(snapPos, readPos))
      BY <2>2, <3>1, SizeAssumption DEF InRun, Round, Index
    <3>3. \A x \in 0 .. c - 1 : x \in Index /\ InUnread(x)
      BY <1>8, <3>2, ReadingUnread
    <3> QED  BY <3>3, StepIntact DEF SameCells, Next
  <2>4. Read(mem, 0, c) = Read(mem', 0, c)
    <3>1. 0 \in 0 .. c /\ mem \in Memories
      BY RingTypes, SizeAssumption
    <3> QED  BY <1>3, <2>3, <3>1, ReadSame
  <2>5. Block(mem', 0, unread.size2) = Block(mem, 0, unread.size2)
    <3>1. c - 0 = c
      BY SizeAssumption
    <3> QED  BY <2>1, <2>4, <3>1 DEF Read
  <2>6. /\ Pending = Block(mem, 0, unread.size2) \o Waiting(mem, writePos, snapPos)
        /\ Pending' = Block(mem, 0, unread.size2) \o Waiting(mem', writePos', snapPos)
    BY <1>2, <1>5, <1>8, <2>5, PendingIs, WaitingTypes DEF PendingOf
  <2>7. CASE AdvanceWritePos
    <3>1. pMsg \in Messages
      BY <2>7 DEF AdvanceWritePos, IInv, MsgFits
    <3>2. /\ Block(mem, 0, unread.size2) \in Seq(Messages)
          /\ Waiting(mem, writePos, snapPos) \in Seq(Messages)
      BY <1>8, ReadBlocks, BlockIs, WaitingTypes
    <3> QED  BY <1>7, <1>8, <2>6, <2>7, <3>1, <3>2, AppendBehind
  <2>8. CASE ~AdvanceWritePos
    BY <1>7, <1>8, <2>6, <2>8
  <2> QED  BY <2>7, <2>8
<1>9. CASE cState = "advance"
  BY <1>2, <1>5, <1>7, <1>9, PendingIs, WaitingTypes DEF PendingOf
<1>10. CASE cState \notin {"block2", "advance"}
  BY <1>2, <1>5, <1>6, <1>10, PendingIs, WaitingTypes DEF PendingOf
<1> QED  BY <1>8, <1>9, <1>10

\* During a read, what waits is what the read has before it, and the rest.
LEMMA ReadWaits ==
  ASSUME IInv, QInv, cState \in {"block1", "block2", "advance"}
  PROVE  Waiting(mem, writePos, readPos)
           = (BlockMsgs(unread.first, unread.size1) \o BlockMsgs(0, unread.size2))
               \o Waiting(mem, writePos, snapPos)
<1>1. /\ mem \in Memories /\ IndexOf(readPos) \in Index
      /\ Fill(writePos, readPos) \in 0 .. Size /\ snapPos \in Pos /\ readPos \in Pos
  BY RingTypes
<1>2. /\ Fill(snapPos, readPos) \in 0 .. Size
      /\ Fill(writePos, readPos) = Fill(snapPos, readPos) + Fill(writePos, snapPos)
  BY ReaderBehind
<1>3. Filled(mem, IndexOf(readPos), Fill(snapPos, readPos))
  BY DEF QInv
<1>4. IndexOf(snapPos) = Round(IndexOf(readPos), Fill(snapPos, readPos))
  BY <1>1, <1>2, IndexRound, SizeAssumption
<1>5. PICK n \in 0 .. Size : n = Fill(writePos, readPos)
  BY <1>1
<1>6. Fill(writePos, snapPos) \in 0 .. Size
  BY RingTypes, Ahead, ReaderBehind
<1>7. /\ Fill(snapPos, readPos) \in 0 .. n
      /\ n - Fill(snapPos, readPos) = Fill(writePos, snapPos)
  BY <1>2, <1>5, <1>6, SizeAssumption
<1>8. Run(mem, IndexOf(readPos), n)
        = Run(mem, IndexOf(readPos), Fill(snapPos, readPos))
            \o Run(mem, IndexOf(snapPos), Fill(writePos, snapPos))
  BY ZenonT(30), <1>1, <1>3, <1>4, <1>7, RunSplits
<1> QED  BY <1>5, <1>8, ReadBlocks DEF Waiting

\* The core takes from the front of what waits, and hands it on.
LEMMA CorePending ==
  ASSUME IInv, IInv', QInv, Core
  PROVE  \E s \in Seq(Messages) : sunk' = sunk \o s /\ Pending = s \o Pending'
<1>1. UNCHANGED <<mem, writePos, writeable, pState, pMsg, calls>>
  BY CoreOnly
<1>2. Pending' = PendingOf(mem, cState', unread', writePos, snapPos', readPos')
  BY <1>1, PendingIsPrime
<1>3. /\ Pending \in Seq(Messages) /\ sunk \in Seq(Messages)
      /\ << >> \in Seq(Messages) /\ sunk = sunk \o << >> /\ Pending = << >> \o Pending
  BY PendingType DEF PendingTyped
<1>4. ASSUME UNCHANGED <<sunk>>, Pending' = Pending
      PROVE  \E s \in Seq(Messages) : sunk' = sunk \o s /\ Pending = s \o Pending'
  <2>1. sunk' = sunk
    BY <1>4
  <2> QED  BY <1>3, <1>4, <2>1
<1>5. CASE Snapshot \/ GetUnread \/ SkipRead
  <2>1. /\ UNCHANGED <<readPos, sunk>> /\ cState \notin {"block2", "advance"}
        /\ cState' \notin {"block2", "advance"}
    BY <1>5 DEF Snapshot, GetUnread, SkipRead
  <2>2. Pending' = Pending
    BY <1>2, <2>1, PendingIs DEF PendingOf
  <2> QED  BY <1>4, <2>1, <2>2
<1>6. CASE ReadBlock1
  <2> DEFINE s == BlockMsgs(unread.first, unread.size1)
             t == BlockMsgs(0, unread.size2)
             v == Waiting(mem, writePos, snapPos)
  <2>1. /\ cState = "block1" /\ cState' = IF unread.size2 # 0 THEN "block2" ELSE "advance"
        /\ sunk' = sunk \o s /\ UNCHANGED <<readPos, snapPos, unread>>
    BY <1>6 DEF ReadBlock1
  <2>2. /\ s \in Seq(Messages) /\ t \in Seq(Messages) /\ v \in Seq(Messages)
        /\ unread.size2 = 0 => t = << >>
    BY <2>1, ReadBlocks, WaitingTypes
  <2>3. Pending = (s \o t) \o v
    BY <2>1, PendingIs, ReadWaits, WaitingTypes DEF PendingOf
  <2>4. Pending' = t \o v
    <3>1. CASE unread.size2 # 0
      BY <1>2, <2>1, <3>1, BlockIs, WaitingTypes DEF PendingOf
    <3>2. CASE unread.size2 = 0
      <4>1. Pending' = v
        BY <1>2, <2>1, <3>2, WaitingTypes DEF PendingOf
      <4>2. t = << >>
        BY <2>2, <3>2
      <4> HIDE DEF t, v
      <4> QED  BY <2>2, <4>1, <4>2
    <3> QED  BY <3>1, <3>2
  <2> HIDE DEF s, t, v
  <2>5. Pending = s \o Pending'
    BY <2>2, <2>3, <2>4, JoinTwice
  <2> QED  BY <2>1, <2>2, <2>5
<1>7. CASE ReadBlock2
  <2> DEFINE t == BlockMsgs(0, unread.size2)
             v == Waiting(mem, writePos, snapPos)
  <2>1. /\ cState = "block2" /\ cState' = "advance"
        /\ sunk' = sunk \o t /\ UNCHANGED <<readPos, snapPos, unread>>
    BY <1>7 DEF ReadBlock2
  <2>2. Pending = t \o v /\ t \in Seq(Messages)
    BY <2>1, PendingIs, WaitingTypes, ReadBlocks, BlockIs DEF PendingOf
  <2>3. Pending' = v
    BY <1>2, <2>1, WaitingTypes DEF PendingOf
  <2> QED  BY <2>1, <2>2, <2>3
<1>8. CASE AdvanceReadPos
  <2>1. /\ cState = "advance" /\ cState' \in {"idle", "snapped"}
        /\ readPos' = Plus(readPos, unread.size1 + unread.size2)
        /\ UNCHANGED <<snapPos, sunk>>
    BY <1>8 DEF AdvanceReadPos
  <2>2. unread.size1 + unread.size2 = Fill(snapPos, readPos)
    BY <2>1 DEF IInv, SnapshotInRange
  <2>3. readPos' = snapPos
    BY <2>1, <2>2, RingTypes, PosModAssumption DEF Fill, Minus, Plus, Pos
  <2>4. Pending' = Pending
    BY <1>2, <2>1, <2>3, PendingIs DEF PendingOf
  <2> QED  BY <1>4, <2>1, <2>4
<1> QED  BY <1>5, <1>6, <1>7, <1>8 DEF Core

\* Taking the first part of a sequence.
LEMMA TakeFirst ==
  ASSUME NEW s \in Seq(Messages), NEW t \in Seq(Messages), s # << >>
  PROVE  SubSeq(s \o t, 1, Len(s)) = s
<1>1. Len(s) \in Nat /\ Len(s) # 0
  BY EmptySeq, LenProperties
<1>2. 1 \in 1 .. Len(s) /\ Len(s) \in 1 .. Len(s)
  BY <1>1
<1>3. SubSeq(s \o t, 1, Len(s)) = SubSeq(s, 1, Len(s))
  BY <1>2, SubSeqOfConcat1
<1> QED  BY <1>3, SubSeqFull

\* Initially nothing was accepted and nothing delivered.
LEMMA InitQueue == Init => Queue!Init
<1> SUFFICES ASSUME Init PROVE Queue!Init
  OBVIOUS
<1>1. IInv /\ QInv
  BY InitIInv, InitQInv
<1>2. /\ cState = "idle" /\ sunk = << >> /\ readPos = writePos /\ readPos \in Pos
      /\ IndexOf(readPos) \in Index /\ mem \in Memories
  BY <1>1, RingTypes DEF Init
<1>3. Fill(writePos, readPos) = 0
  BY <1>2, FillZero
<1>4. Pending = Waiting(mem, writePos, readPos)
  BY <1>1, <1>2, PendingIs, WaitingTypes DEF PendingOf
<1>5. Pending = << >>
  BY <1>2, <1>3, <1>4, RunEmpty DEF Waiting
<1>6. sunk \o Pending = << >>
  BY <1>2, <1>5
<1> QED  BY <1>2, <1>6 DEF Queue!Init

\* Publishing a message accepts it; every other step of the producer stutters.
LEMMA ProducerQueue ==
  ASSUME IInv, IInv', QInv, Producer
  PROVE  Queue!Next \/ (sunk' = sunk /\ (sunk \o Pending)' = sunk \o Pending)
<1>1. sunk' = sunk
  BY ProducerOnly
<1>2. CASE AdvanceWritePos
  <2>1. pMsg \in Messages
    BY <1>2 DEF AdvanceWritePos, IInv, MsgFits
  <2>2. Pending' = Append(Pending, pMsg)
    BY <1>2, ProducerPending
  <2>3. sunk \in Seq(Messages) /\ Pending \in Seq(Messages)
    BY PendingType DEF PendingTyped
  <2>4. (sunk \o Pending)' = Append(sunk \o Pending, pMsg)
    BY <1>1, <2>1, <2>2, <2>3, AppendBehind
  <2>5. Queue!Accept(pMsg)
    BY <1>1, <2>4 DEF Queue!Accept
  <2> QED  BY <2>1, <2>5 DEF Queue!Next
<1>3. CASE ~AdvanceWritePos
  <2>1. Pending' = Pending
    BY <1>3, ProducerPending
  <2> QED  BY <1>1, <2>1
<1> QED  BY <1>2, <1>3

\* A block that is read delivers what it holds; every other step of the core stutters.
LEMMA CoreQueue ==
  ASSUME IInv, IInv', QInv, QInv', PendingTyped', Core
  PROVE  Queue!Next \/ (sunk' = sunk /\ (sunk \o Pending)' = sunk \o Pending)
<1>1. PICK s \in Seq(Messages) : sunk' = sunk \o s /\ Pending = s \o Pending'
  BY CorePending
<1>2. sunk \in Seq(Messages) /\ sunk' \in Seq(Messages) /\ Pending \in Seq(Messages)
  BY PendingType DEF QInv, PendingTyped
<1>3. Pending' \in Seq(Messages)
  BY DEF PendingTyped
<1>4. sunk' \o Pending' = sunk \o Pending
  BY SMTT(30), <1>1, <1>2, <1>3, JoinTwice
<1>5. CASE s = << >>
  <2>1. sunk' = sunk
    BY <1>1, <1>2, <1>5
  <2> QED  BY <1>4, <2>1
<1>6. CASE s # << >>
  <2>1. /\ Len(sunk) \in Nat /\ Len(s) \in Nat /\ Len(s) # 0 /\ Len(Pending') \in Nat
        /\ Len(sunk') = Len(sunk) + Len(s)
        /\ Len(sunk \o Pending) = Len(sunk') + Len(Pending')
    BY <1>1, <1>2, <1>3, <1>4, <1>6, EmptySeq, LenProperties, ConcatProperties
  <2>2. sunk' # << >>
    BY <2>1
  <2>3. SubSeq(sunk \o Pending, 1, Len(sunk')) = sunk'
    BY <1>2, <1>3, <1>4, <2>2, TakeFirst
  <2>4. Len(sunk') \in Len(sunk) + 1 .. Len(sunk \o Pending)
    BY <2>1
  <2>5. Queue!Deliver(Len(sunk'))
    BY <1>4, <2>3, <2>4 DEF Queue!Deliver
  <2>6. Len(sunk') \in 1 .. Len(sunk \o Pending)
    BY <2>1
  <2> QED  BY <2>5, <2>6 DEF Queue!Next
<1> QED  BY <1>5, <1>6

\* Every step of the ring is a step of the queue, or changes nothing of it.
LEMMA QueueStep ==
  IInv /\ IInv' /\ QInv /\ QInv' /\ PendingTyped' /\ [Next]_vars => [Queue!Next]_<<sunk \o Pending, sunk>>
<1> SUFFICES ASSUME IInv, IInv', QInv, QInv', PendingTyped', [Next]_vars
             PROVE  [Queue!Next]_<<sunk \o Pending, sunk>>
  OBVIOUS
<1>1. CASE UNCHANGED vars
  <2>1. UNCHANGED <<mem, writePos, readPos, snapPos, cState, unread, sunk>>
    BY <1>1 DEF vars, producerVars, consumerVars
  <2>2. Pending' = Pending
    BY <2>1, PendingIs, PendingIsPrime
  <2> QED  BY <2>1, <2>2
<1>2. CASE Next
  BY <1>2, ProducerQueue, CoreQueue DEF Next
<1> QED  BY <1>1, <1>2

(***************************************************************************)
(* The ring implements the FIFO: what the producer publishes reaches the   *)
(* sinks once, whole and in order, across wrap-arounds, end markers, the   *)
(* overflow of the positions and reads cut short by an old snapshot, for   *)
(* every size of the ring, of the counters and of the messages.            *)
(***************************************************************************)
THEOREM QueueRefinement == Spec => ImplementsQueue
<1>1. Init => Queue!Init
  BY InitQueue
<1>2. IInv /\ IInv' /\ QInv /\ QInv' /\ PendingTyped' /\ [Next]_vars
        => [Queue!Next]_<<sunk \o Pending, sunk>>
  BY QueueStep
<1>3. Spec => [](IInv /\ QInv)
  BY Packing
<1>4. IInv /\ QInv => PendingTyped
  BY PendingType
<1> QED  BY <1>1, <1>2, <1>3, <1>4, PTL DEF Spec, ImplementsQueue, Queue!Spec
=============================================================================
