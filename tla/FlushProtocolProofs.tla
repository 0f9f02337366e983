------------------------ MODULE FlushProtocolProofs ------------------------
(***************************************************************************)
(* No wake-up is lost, for any set of producers with any policies, any     *)
(* ring, any message sizes, and any number of log calls, flushes, stops    *)
(* and starts; and, for messages of at most a quarter of the ring, nothing *)
(* is left lying in a buffer that fills up: neither does the background    *)
(* thread sleep over one nor is a message dropped while it sleeps.  A call *)
(* that waits for room does so six times at most.                          *)
(***************************************************************************)
EXTENDS FlushProtocol, TLAPS

(***************************************************************************)
(* Positions modulo PosMod, for every ring size and every width of the     *)
(* position counters.                                                      *)
(***************************************************************************)

\* The index of a position is an index of the ring.
LEMMA IndexRange ==
  ASSUME NEW p \in Pos PROVE IndexOf(p) \in Index
  BY SizeAssumption, PosModAssumption DEF Pos, Index, IndexOf

\* Division with remainder, by any divisor.
LEMMA DivUnique ==
  ASSUME NEW d \in Nat, d >= 1, NEW t \in Nat, NEW o \in 0 .. d - 1
  PROVE  (d * t + o) % d = o /\ (d * t + o) \div d = t
<1> DEFINE m == d * t + o
           e == m \div d
           u == m % d
<1>1. m \in Nat
  OBVIOUS
<1>2. e \in Nat /\ u \in 0 .. d - 1 /\ m = d * e + u
  BY <1>1, SMTT(30)
<1> HIDE DEF e, u
<1>3. d * (t - e) = u - o /\ t - e \in Int
  BY <1>2
<1>4. t - e < 1
  BY <1>2, <1>3, SMTT(30)
<1>5. t - e > -1
  BY <1>2, <1>3, SMTT(30)
<1>6. t - e = 0
  BY <1>3, <1>4, <1>5
<1> QED BY <1>2, <1>3, <1>6 DEF u, e

\* The same for the index of a position.
LEMMA ModUnique ==
  ASSUME NEW q \in Nat, NEW t \in 0 .. Size - 1
  PROVE  (Size * q + t) % Size = t
<1>1. Size \in Nat /\ Size >= 1
  BY SizeAssumption
<1> QED BY <1>1, DivUnique

\* Moving a position by at most one turn moves its index by the same amount,
\* around the end of the ring, whether or not the position itself overflows.
LEMMA IndexPlus ==
  ASSUME NEW p \in Pos, NEW n \in 0 .. Size
  PROVE  /\ Plus(p, n) \in Pos
         /\ IndexOf(Plus(p, n)) = IF IndexOf(p) + n >= Size
                                  THEN IndexOf(p) + n - Size
                                  ELSE IndexOf(p) + n
<1> DEFINE q == p \div Size
           t == p % Size
           k == PosMod \div Size
<1>1. /\ p \in Nat /\ n \in Nat /\ n <= Size /\ p < PosMod
      /\ Size \in Nat /\ Size >= 4 /\ PosMod \in Nat /\ PosMod >= 2 * Size
  BY SizeAssumption, PosModAssumption DEF Pos
<1>2. q \in Nat /\ t \in 0 .. Size - 1 /\ p = Size * q + t
  BY <1>1, SMTT(30)
<1>3. k \in Nat /\ PosMod = Size * k
  BY <1>1, PosModAssumption, SMTT(30)
<1> HIDE DEF q, t, k
<1>4. Plus(p, n) \in Pos
  BY <1>1 DEF Plus, Pos
<1>5. IndexOf(p) = t
  BY DEF IndexOf, t
<1>6. CASE p + n < PosMod
  <2>1. Plus(p, n) = p + n
    BY <1>1, <1>6 DEF Plus
  <2>2. CASE t + n < Size
    <3>1. p + n = Size * q + (t + n) /\ t + n \in 0 .. Size - 1
      BY <1>1, <1>2, <2>2
    <3>2. (p + n) % Size = t + n
      BY <3>1, <1>2, ModUnique
    <3> QED BY <3>2, <2>1, <2>2, <1>1, <1>2, <1>4, <1>5 DEF IndexOf
  <2>3. CASE t + n >= Size
    <3>1. /\ p + n = Size * (q + 1) + (t + n - Size)
          /\ q + 1 \in Nat /\ t + n - Size \in 0 .. Size - 1
      BY <1>1, <1>2, <2>3
    <3>2. (p + n) % Size = t + n - Size
      BY <3>1, ModUnique
    <3> QED BY <3>2, <2>1, <2>3, <1>1, <1>2, <1>4, <1>5 DEF IndexOf
  <2> QED BY <2>2, <2>3, <1>1, <1>2
<1>7. CASE p + n >= PosMod
  <2>1. Plus(p, n) = p + n - PosMod
    BY <1>1, <1>7 DEF Plus
  <2>2. Size * (k - q) = Size * k - Size * q /\ Size * (k - q) > 0
    BY <1>1, <1>2, <1>3, SMTT(30)
  <2>3. k - q >= 1
    BY <2>2, <1>1, <1>2, <1>3, SMTT(30)
  <2>4. Size * (k - q) <= t + n
    BY <2>2, <1>1, <1>2, <1>3, <1>7
  <2>5. k - q < 2
    BY <2>4, <1>1, <1>2, <1>3, SMTT(30)
  <2>6. k - q = 1
    BY <2>3, <2>5, <1>2, <1>3
  <2>7. PosMod = Size * q + Size
    BY <2>2, <2>6, <1>1, <1>2, <1>3
  <2>8. /\ p + n - PosMod = Size * 0 + (t + n - Size)
        /\ t + n - Size \in 0 .. Size - 1 /\ t + n >= Size
    BY <2>7, <1>1, <1>2, <1>7
  <2>9. (p + n - PosMod) % Size = t + n - Size
    BY <2>8, ModUnique
  <2> QED BY <2>1, <2>8, <2>9, <1>1, <1>2, <1>4, <1>5 DEF IndexOf
<1> QED BY <1>1, <1>6, <1>7

\* The unread data grows by what the producer publishes ...
LEMMA FillWrite ==
  ASSUME NEW w \in Pos, NEW r \in Pos, NEW n \in 0 .. Size, Fill(w, r) + n <= Size
  PROVE  Fill(Plus(w, n), r) = Fill(w, r) + n
  BY SizeAssumption, PosModAssumption DEF Fill, Minus, Plus, Pos

\* The write index is the read index moved by the unread data.
LEMMA WriteIndex ==
  ASSUME NEW w \in Pos, NEW r \in Pos, Fill(w, r) <= Size
  PROVE  /\ Fill(w, r) \in 0 .. Size
         /\ IndexOf(w) = IF IndexOf(r) + Fill(w, r) >= Size
                         THEN IndexOf(r) + Fill(w, r) - Size
                         ELSE IndexOf(r) + Fill(w, r)
<1>1. Fill(w, r) \in 0 .. Size /\ Plus(r, Fill(w, r)) = w
  BY SizeAssumption, PosModAssumption DEF Fill, Minus, Plus, Pos
<1> QED BY <1>1, IndexPlus

\* Positions in the order r, p, w: the cells between them add up.
LEMMA FillAdds ==
  ASSUME NEW w \in Pos, NEW p \in Pos, NEW r \in Pos,
         Fill(w, r) <= Size, Fill(w, p) <= Fill(w, r) \/ Fill(p, r) <= Fill(w, r)
  PROVE  /\ Fill(w, r) \in 0 .. Size /\ Fill(w, p) \in 0 .. Size /\ Fill(p, r) \in 0 .. Size
         /\ Fill(w, r) = Fill(p, r) + Fill(w, p)
BY SizeAssumption, PosModAssumption DEF Fill, Minus, Pos

\* There is nothing between a position and itself, and only there.
LEMMA FillZero ==
  ASSUME NEW w \in Pos, NEW r \in Pos
  PROVE  Fill(r, r) = 0 /\ (Fill(w, r) = 0 <=> w = r)
BY SizeAssumption, PosModAssumption DEF Fill, Minus, Pos

\* What lies between two positions of a ring is a natural number.
LEMMA FillNat ==
  ASSUME NEW w \in Pos, NEW r \in Pos
  PROVE  Fill(w, r) \in Nat
BY PosModAssumption DEF Fill, Minus, Pos

\* From a position to another, by what lies between them.
LEMMA PlusFill ==
  ASSUME NEW w \in Pos, NEW b \in Pos
  PROVE  Fill(w, b) \in Nat /\ Plus(b, Fill(w, b)) = w
BY PosModAssumption DEF Fill, Minus, Plus, Pos


-----------------------------------------------------------------------------
(***************************************************************************)
(* The quarters of the ring: when a move of the write position leaves one. *)
(***************************************************************************)

\* The quarters of the ring, and how far a position is into its own.
Quarter == Size \div 4
Off(w)  == w % Quarter

LEMMA QuarterIs == Quarter \in Nat /\ Quarter >= 1 /\ Size = 4 * Quarter
BY SizeAssumption, SMTT(30) DEF Quarter

\* A position is its quarter and the offset in it; the overflow of the
\* positions is a boundary of quarters.
LEMMA OffIs ==
  ASSUME NEW w \in Pos
  PROVE  /\ Off(w) \in 0 .. Quarter - 1 /\ w \div Quarter \in Nat
         /\ w = Quarter * (w \div Quarter) + Off(w)
BY QuarterIs, SMTT(30) DEF Off, Pos

LEMMA TurnIs ==
  \E k \in Nat : k >= 2 /\ PosMod = Quarter * (4 * k)
<1> DEFINE k == PosMod \div Size
<1>1. k \in Nat /\ PosMod = Size * k
  BY SizeAssumption, PosModAssumption, SMTT(30)
<1> HIDE DEF k
<1>2. k >= 2
  BY <1>1, SizeAssumption, PosModAssumption, SMTT(30)
<1>3. Size * k = Quarter * (4 * k)
  BY <1>1, QuarterIs, SMTT(30)
<1> QED BY <1>1, <1>2, <1>3

\* Moving within a quarter.
LEMMA OffPlus ==
  ASSUME NEW w \in Pos, NEW n \in Nat, Off(w) + n < Quarter
  PROVE  /\ Off(Plus(w, n)) = Off(w) + n
         /\ ~QuarterCrossed(w, Plus(w, n))
<1> DEFINE t == w \div Quarter
<1>1. PICK k \in Nat : k >= 2 /\ PosMod = Quarter * (4 * k)
  BY TurnIs
<1>2. t \in Nat /\ w = Quarter * t + Off(w) /\ Off(w) \in 0 .. Quarter - 1 /\ w < PosMod
      /\ w \in Nat
  BY OffIs, PosModAssumption DEF Pos
<1>3. Quarter \in Nat /\ Quarter >= 1
  BY QuarterIs
<1> HIDE DEF t
<1>4. t < 4 * k
  BY <1>1, <1>2, <1>3, SMTT(30)
<1>5. Quarter * (t + 1) <= Quarter * (4 * k)
  BY <1>1, <1>2, <1>3, <1>4, SMTT(30)
<1>6. w + n < PosMod
  BY <1>1, <1>2, <1>3, <1>5, SMTT(30)
<1>7. Plus(w, n) = Quarter * t + (Off(w) + n)
  BY <1>1, <1>2, <1>3, <1>6 DEF Plus
<1>8. Off(w) + n \in 0 .. Quarter - 1
  BY <1>2, <1>3
<1>9. /\ (Quarter * t + (Off(w) + n)) % Quarter = Off(w) + n
      /\ (Quarter * t + (Off(w) + n)) \div Quarter = t
      /\ (Quarter * t + Off(w)) \div Quarter = t
  BY <1>2, <1>3, <1>8, DivUnique
<1> QED BY <1>2, <1>7, <1>9 DEF Off, QuarterCrossed, Quarter

\* Moving out of a quarter, by no more than half a ring.
LEMMA OffCross ==
  ASSUME NEW w \in Pos, NEW n \in Nat, n <= 2 * Quarter, Off(w) + n >= Quarter
  PROVE  QuarterCrossed(w, Plus(w, n))
<1> DEFINE t == w \div Quarter
           c == Plus(w, n)
           s == c \div Quarter
<1>1. PICK k \in Nat : k >= 2 /\ PosMod = Quarter * (4 * k)
  BY TurnIs
<1>2. t \in Nat /\ w = Quarter * t + Off(w) /\ Off(w) \in 0 .. Quarter - 1 /\ w < PosMod
      /\ w \in Nat
  BY OffIs, PosModAssumption DEF Pos
<1>3. Quarter \in Nat /\ Quarter >= 1 /\ PosMod >= 8 * Quarter /\ PosMod \in Nat
  BY QuarterIs, PosModAssumption
<1>4. c \in Nat /\ c < PosMod /\ (c = w + n \/ c = w + n - PosMod)
  BY <1>2, <1>3 DEF Plus
<1> HIDE DEF c
<1>5. s \in Nat /\ \E u \in 0 .. Quarter - 1 : c = Quarter * s + u
  BY <1>3, <1>4, SMTT(30)
<1> HIDE DEF t, s
<1>6. PICK u \in 0 .. Quarter - 1 : c = Quarter * s + u
  BY <1>5
<1>7. CASE s = t
  <2>1. c - w = u - Off(w)
    <3>1. PICK v \in Nat : v = Quarter * t
      BY <1>2, <1>3
    <3>2. c = v + u /\ w = v + Off(w)
      BY <1>2, <1>6, <1>7, <3>1
    <3> QED BY <1>2, <1>3, <1>4, <3>2
  <2>2. c - w < Quarter /\ c - w > -Quarter
    BY <1>2, <1>3, <1>6, <2>1
  <2>3. c - w >= n \/ c - w <= 2 * Quarter - PosMod
    BY <1>2, <1>3, <1>4
  <2> QED BY <1>2, <1>3, <1>4, <1>6, <2>1, <2>2, <2>3
<1> QED BY <1>7, <1>3 DEF QuarterCrossed, t, s, c, Quarter

\* The tail of the ring behind a position ends with its quarter.
LEMMA OffTail ==
  ASSUME NEW w \in Pos
  PROVE  /\ Size - IndexOf(w) \in 1 .. Size
         /\ Off(w) + (Size - IndexOf(w)) >= Quarter
         /\ Size - IndexOf(w) < Quarter => Off(w) = Quarter - (Size - IndexOf(w))
<1> DEFINE i == IndexOf(w)
           a == w \div Size
<1>1. Quarter \in Nat /\ Quarter >= 1 /\ Size = 4 * Quarter /\ Off(w) \in 0 .. Quarter - 1
  BY QuarterIs, OffIs
<1>2. i \in 0 .. Size - 1 /\ a \in Nat /\ w = Size * a + i
  BY SizeAssumption, SMTT(30) DEF IndexOf, Pos
<1> HIDE DEF i, a
<1>3. CASE Size - i >= Quarter
  BY <1>1, <1>2, <1>3 DEF i
<1>4. CASE Size - i < Quarter
  <2>1. PICK o \in 0 .. Quarter - 1 : o = Quarter - (Size - i)
    BY <1>1, <1>2, <1>4
  <2>2. Size * a = Quarter * (4 * a)
    BY <1>1, <1>2, SMTT(30)
  <2>3. Quarter * (4 * a + 3) = Quarter * (4 * a) + 3 * Quarter
    BY <1>1, <1>2, SMTT(30)
  <2>4. w = Quarter * (4 * a + 3) + o
    BY <1>1, <1>2, <2>1, <2>2, <2>3
  <2>5. Off(w) = o
    <3>1. 4 * a + 3 \in Nat
      BY <1>2
    <3> QED BY <1>1, <2>1, <2>4, <3>1, DivUnique DEF Off
  <2> QED BY <1>1, <1>2, <2>1, <2>5 DEF i
<1> QED BY <1>1, <1>2, <1>3, <1>4

\* The start of the ring is the start of a quarter.
LEMMA OffStart ==
  ASSUME NEW w \in Pos, IndexOf(w) = 0
  PROVE  Off(w) = 0
<1>1. PICK a \in Nat : w = Size * a
  <2>1. w \div Size \in Nat /\ w = Size * (w \div Size) + (w % Size)
    BY SizeAssumption, SMTT(30) DEF Pos
  <2>2. PICK a \in Nat : a = w \div Size
    BY <2>1
  <2>3. w % Size = 0
    BY DEF IndexOf
  <2>4. w = Size * a
    BY <2>1, <2>2, <2>3, SizeAssumption
  <2> QED BY <2>4
<1>2. Quarter \in Nat /\ Quarter >= 1 /\ Size = 4 * Quarter
  BY QuarterIs
<1>3. Size * a = Quarter * (4 * a)
  BY <1>1, <1>2, SMTT(30)
<1>4. w = Quarter * (4 * a) + 0 /\ 4 * a \in Nat /\ 0 \in 0 .. Quarter - 1
  BY <1>1, <1>2, <1>3
<1> QED BY <1>2, <1>4, DivUnique DEF Off

-----------------------------------------------------------------------------
\* What kinds of values the argument needs.
Types ==
  /\ flushReq \in [Producers -> BOOLEAN]
  /\ pState \in [Producers -> {"idle", "update", "lock", "notify", "wait", "asleep",
                               "woken", "write", "request", "requested"}]
  /\ dataReady \in BOOLEAN
  /\ cur \in Producers \cup {None} /\ sawReq \in BOOLEAN

\* The background thread is in a pass exactly when its state says so.
PassOfBackground == holder = "bg" <=> bg \in {"pass", "stoppass", "lastpass"}

\* A pass is at a buffer while it decides, reads or wakes.
PassAtBuffer == step \in {"decide", "read", "wake", "after"} => cur \in Producers

\* The background thread sleeps only when nothing was notified.
AsleepNotNotified == bg = "asleep" => ~dataReady

\* A stopped core has no background thread.
StoppedIsExited == ctl = "stopped" => bg = "exited"

\* The producer has requested a flush and will sleep until it is served.
Waiting(p) == \/ pState[p] \in {"wait", "asleep"}
              \/ pState[p] = "woken" /\ flushReq[p]

\* The background thread will see the request of p: it has not consumed the
\* notification, or it has not visited the buffer since, or it is serving it.
WillServe(p) ==
  \/ dataReady
  \/ bg \in {"ready", "poll", "sinks", "stopping", "last"}
  \/ holder = "bg" /\ p \in todo
  \/ holder = "bg" /\ cur = p /\ sawReq /\ step \in {"decide", "read", "wake"}

RequestsStand == \A p \in Producers :
  pState[p] \in {"notify", "wait", "asleep"} => flushReq[p]

RequestsServed == \A p \in Producers : Waiting(p) => WillServe(p)

IInv == /\ Types /\ PassOfBackground /\ PassAtBuffer /\ AsleepNotNotified
        /\ StoppedIsExited
        /\ RequestsStand /\ RequestsServed

\* Initially nobody waits.
LEMMA InitIInv == Init => IInv
  BY DEF Init, IInv, Types, PassOfBackground, PassAtBuffer, AsleepNotNotified, StoppedIsExited,
         RequestsStand, RequestsServed, Waiting, WillServe, None

\* The steps of a log call.
LEMMA CallIInv ==
  ASSUME IInv, NEW p \in Producers,
         (\E size \in MsgSizes : LogCall(p, size)) \/ ContinueCall(p) \/ SpuriousWake(p)
  PROVE  IInv'
<1> USE DEF IInv, Types, PassOfBackground, PassAtBuffer, AsleepNotNotified, StoppedIsExited,
            RequestsStand, RequestsServed, Waiting, WillServe, coreVars, passVars, bufVars
<1>1. ASSUME NEW size \in MsgSizes, LogCall(p, size) PROVE IInv'
  BY <1>1 DEF LogCall
<1>2. CASE UpdateState(p)
  <2>1. /\ UNCHANGED <<flushReq, coreVars, passVars>>
        /\ \E s \in {"write", "lock", "idle"} : pState' = [pState EXCEPT ![p] = s]
    BY <1>2 DEF UpdateState
  <2> QED BY <2>1
<1>3. CASE RequestAndLock(p)
  BY <1>3 DEF RequestAndLock
<1>4. CASE NotifyFromWait(p)
  BY <1>4 DEF NotifyFromWait, NotifyDataReady
<1>5. CASE SleepProducer(p)
  BY <1>5 DEF SleepProducer
<1>6. CASE SpuriousWake(p)
  BY <1>6 DEF SpuriousWake
<1>7. CASE Recheck(p)
  BY <1>7 DEF Recheck
<1>8. CASE WriteMessage(p)
  BY <1>8 DEF WriteMessage
<1>9. CASE RequestFlushIfNeeded(p)
  <2>1. /\ UNCHANGED <<coreVars, passVars>> /\ pState[p] = "request"
        /\ \E b \in BOOLEAN :
             /\ flushReq' = [flushReq EXCEPT ![p] = @ \/ b]
             /\ pState' = [pState EXCEPT ![p] = IF b THEN "requested" ELSE "idle"]
    BY <1>9, Zenon DEF RequestFlushIfNeeded, QuarterCrossed, HalfFull
  <2> QED BY <2>1
<1>10. CASE NotifyFromRequest(p)
  BY <1>10 DEF NotifyFromRequest, NotifyDataReady
<1> QED
  BY <1>1, <1>2, <1>3, <1>4, <1>5, <1>6, <1>7, <1>8, <1>9, <1>10 DEF ContinueCall

\* The steps of a pass, whichever thread makes it.
LEMMA PassIInv == ASSUME IInv, PassStep PROVE IInv'
<1> USE DEF IInv, Types, PassOfBackground, PassAtBuffer, AsleepNotNotified, StoppedIsExited,
            RequestsStand, RequestsServed, Waiting, WillServe, coreVars, prodVars, bufVars
<1>1. ASSUME NEW p \in Producers, VisitBuffer(p) PROVE IInv'
  BY <1>1 DEF VisitBuffer, BufferLocked
<1>2. CASE DecideBuffer
  BY <1>2 DEF DecideBuffer
<1>3. CASE ReadBuffer
  BY <1>3 DEF ReadBuffer
<1>4. CASE WakeProducer
  BY <1>4 DEF WakeProducer, BufferLocked
<1>5. CASE AfterRead
  BY <1>5 DEF AfterRead
<1> QED BY <1>1, <1>2, <1>3, <1>4, <1>5 DEF PassStep

\* The background thread and the threads that call the core.
LEMMA CoreIInv ==
  ASSUME IInv,
         Background \/ BgWake \/ UserFlush \/ UserBegin \/ UserEnd \/ Stop \/ Joined \/ Start
  PROVE  IInv'
<1> USE DEF IInv, Types, PassOfBackground, PassAtBuffer, AsleepNotNotified, StoppedIsExited,
            RequestsStand, RequestsServed, Waiting, WillServe, None,
            coreVars, prodVars, bufVars, passVars
<1>1. ASSUME NEW poll \in Timed, NEW sinks \in Timed, BgCheck(poll, sinks) PROVE IInv'
  BY <1>1, TimedAssumption DEF BgCheck
<1>2. CASE BgBegin
  BY <1>2 DEF BgBegin, BeginPass
<1>3. CASE BgEnd
  BY <1>3 DEF BgEnd, EndPass
<1>4. CASE BgWake
  BY <1>4 DEF BgWake
<1>5. CASE UserFlush
  BY <1>5 DEF UserFlush
<1>6. CASE UserBegin
  BY <1>6 DEF UserBegin, BeginPass
<1>7. CASE UserEnd
  BY <1>7 DEF UserEnd, EndPass
<1>8. CASE Stop
  BY <1>8 DEF Stop
<1>9. CASE Joined
  BY <1>9 DEF Joined
<1>10. CASE Start
  BY <1>10 DEF Start
<1> QED
  BY <1>1, <1>2, <1>3, <1>4, <1>5, <1>6, <1>7, <1>8, <1>9, <1>10 DEF Background

\* Every step preserves the invariant.
LEMMA NextIInv == IInv /\ [Next]_vars => IInv'
<1> SUFFICES ASSUME IInv, [Next]_vars PROVE IInv'
  OBVIOUS
<1>1. CASE Next
  BY <1>1, CallIInv, PassIInv, CoreIInv DEF Next
<1>2. CASE UNCHANGED vars
  BY <1>2 DEF vars, bufVars, prodVars, coreVars, passVars, IInv, Types, PassOfBackground,
              PassAtBuffer, AsleepNotNotified, StoppedIsExited, RequestsStand, RequestsServed, Waiting, WillServe
<1> QED BY <1>1, <1>2

\* A producer asleep on its condition variable has its request standing, and
\* the background thread is awake, or will be woken, to serve it.
THEOREM WakeupsAreNotLost == Spec => []NoLostWakeup
<1>1. IInv => NoLostWakeup
  BY DEF IInv, PassOfBackground, AsleepNotNotified, RequestsStand, RequestsServed,
         Waiting, WillServe, NoLostWakeup
<1>2. Spec => []IInv
  BY InitIInv, NextIInv, PTL DEF Spec
<1> QED BY <1>1, <1>2, PTL

-----------------------------------------------------------------------------
(***************************************************************************)
(* The ring of every producer: what a log call knows of it, how far it     *)
(* has moved its write position, and what a pass may read.                 *)
(***************************************************************************)
RingTypes ==
  /\ writePos \in [Producers -> Pos] /\ readPos \in [Producers -> Pos]
  /\ snapPos \in [Producers -> Pos] /\ pBegin \in [Producers -> Pos]
  /\ writeable \in [Producers -> 0 .. Size]
  /\ holder \in {None, "bg", "user"} /\ todo \subseteq Producers
  /\ step \in {"none", "next", "decide", "read", "wake", "after"}
  /\ pSize \in [Producers -> Nat]

\* What is unread in the buffer of p.
Fills(p) == Fill(writePos[p], readPos[p])

\* What is believed writeable is free and contiguous.
Room(p) ==
  /\ Fills(p) + writeable[p] <= Size
  /\ IndexOf(writePos[p]) + writeable[p] <= Size
  /\ pState[p] # "idle" => pSize[p] \in MsgSizes
  /\ pState[p] = "write" => pSize[p] <= writeable[p]

\* A pass reads between the reader and the writer.
SnapBehind(p) == holder # None => Fill(snapPos[p], readPos[p]) <= Fills(p)

\* A pass has a holder.
PassHolder == holder = None <=> step = "none"

\* The messages are at most a quarter of the ring.
SmallMessages == \A size \in MsgSizes : 4 * size <= Size

\* How far a log call has moved the write position: to the end of the ring,
\* when the tail was too short for the message, and by the message.
Moved(p) == Fill(writePos[p], pBegin[p])

\* How a log call of a small message moves the write position, and which
\* calls wait.
CallMoves(p) == SmallMessages =>
  /\ pState[p] \in {"update", "lock", "notify", "wait", "asleep", "woken", "write"} =>
       \/ Moved(p) = 0
       \/ Moved(p) < Quarter /\ IndexOf(writePos[p]) = 0
  /\ pState[p] \in {"lock", "notify", "wait", "asleep", "woken"} => Policy[p] = "guaranteed"
  /\ pState[p] = "update" /\ Policy[p] # "guaranteed" => Moved(p) = 0
  /\ pState[p] \in {"request", "requested"} => Moved(p) <= 2 * Quarter

\* The invariant of the rings.
RingI == /\ RingTypes /\ PassHolder
         /\ \A p \in Producers : Room(p) /\ SnapBehind(p) /\ CallMoves(p)

\* What messages are, and small ones.
LEMMA SizesAre ==
  ASSUME NEW size \in MsgSizes
  PROVE  /\ size \in Nat /\ size >= 1 /\ size \in 0 .. Size /\ size \in 1 .. Size
         /\ SmallMessages => size <= Quarter
BY QuarterIs, MsgSizesAssumption, SizeAssumption DEF SmallMessages

\* What an update of the producer's state may conclude.
LEMMA UpdateIs ==
  ASSUME NEW w \in Pos, NEW r \in Pos, NEW needed \in 1 .. Size, Fill(w, r) <= Size
  PROVE  LET u    == ProducerUpdate(w, r, needed)
             tail == Size - IndexOf(w)
         IN  /\ u.write \in Pos /\ u.writeable \in 0 .. Size
             /\ Fill(u.write, r) + u.writeable <= Size
             /\ IndexOf(u.write) + u.writeable <= Size
             /\ u.writeable < needed => Fill(u.write, r) > Size - needed
             /\ \/ u.write = w
                \/ /\ tail < needed /\ IndexOf(w) # 0 /\ IndexOf(u.write) = 0
                   /\ Fill(w, r) + tail <= Size
                   /\ u.write = Plus(w, tail) /\ Fill(u.write, r) = Fill(w, r) + tail
<1> DEFINE tail == Size - IndexOf(w)
           free == Size - Fill(w, r)
           u    == ProducerUpdate(w, r, needed)
<1>1. /\ IndexOf(w) \in Nat /\ IndexOf(w) < Size /\ Size \in Nat /\ Fill(w, r) \in 0 .. Size
      /\ tail \in 1 .. Size /\ tail \in 0 .. Size /\ free \in 0 .. Size
      /\ needed \in Nat /\ needed >= 1 /\ needed <= Size
  BY IndexRange, WriteIndex, SizeAssumption DEF Index
<1>2. CASE tail > free
  <2>1. u = [wrap |-> FALSE, write |-> w, writeable |-> free]
    BY <1>1, <1>2, SizeAssumption DEF ProducerUpdate
  <2> QED BY <1>1, <1>2, <2>1
<1>3. CASE tail <= free /\ tail >= needed
  <2>1. u = [wrap |-> FALSE, write |-> w, writeable |-> tail]
    BY <1>1, <1>3, SizeAssumption DEF ProducerUpdate
  <2> QED BY <1>1, <1>3, <2>1
<1>4. CASE tail <= free /\ tail < needed
  <2>1. u = [wrap |-> TRUE, write |-> Plus(w, tail), writeable |-> free - tail]
    BY <1>1, <1>4, SizeAssumption DEF ProducerUpdate
  <2>2. Fill(Plus(w, tail), r) = Fill(w, r) + tail
    BY <1>1, <1>4, FillWrite
  <2>3. Plus(w, tail) \in Pos /\ IndexOf(Plus(w, tail)) = 0
    BY <1>1, IndexPlus
  <2> QED BY <1>1, <1>4, <2>1, <2>2, <2>3
<1> QED BY <1>1, <1>2, <1>3, <1>4

\* What the invariant says of one ring.
LEMMA RingIs ==
  ASSUME RingI, NEW p \in Producers
  PROVE  /\ writePos[p] \in Pos /\ readPos[p] \in Pos /\ snapPos[p] \in Pos /\ pBegin[p] \in Pos
         /\ writeable[p] \in Nat /\ writeable[p] <= Size
         /\ Fills(p) \in Nat /\ Fills(p) <= Size /\ Size \in Nat
         /\ IndexOf(writePos[p]) \in Nat /\ IndexOf(writePos[p]) < Size
         /\ Fills(p) + writeable[p] <= Size
         /\ IndexOf(writePos[p]) + writeable[p] <= Size
         /\ pSize[p] \in Nat
         /\ Moved(p) \in Nat
<1>1. /\ writePos[p] \in Pos /\ readPos[p] \in Pos /\ snapPos[p] \in Pos /\ pBegin[p] \in Pos
      /\ writeable[p] \in 0 .. Size /\ pSize[p] \in Nat
  BY DEF RingI, RingTypes
<1>2. IndexOf(writePos[p]) \in Index
  BY <1>1, IndexRange
<1>3. Fills(p) \in Nat /\ Moved(p) \in Nat
  BY <1>1, PosModAssumption DEF Fills, Moved, Fill, Minus, Pos
<1>4. Fills(p) + writeable[p] <= Size /\ IndexOf(writePos[p]) + writeable[p] <= Size
  BY DEF RingI, Room
<1> QED BY <1>1, <1>2, <1>3, <1>4, SizeAssumption DEF Index

\* Initially the rings are empty.
LEMMA InitRingI == Init => RingI
<1> SUFFICES ASSUME Init PROVE RingI
  OBVIOUS
<1>1. 0 \in Pos /\ Fill(0, 0) = 0 /\ IndexOf(0) = 0 /\ Size \in 0 .. Size
  BY SizeAssumption, PosModAssumption DEF Pos, Fill, Minus, IndexOf
<1> QED BY <1>1, SizeAssumption
        DEF Init, RingI, RingTypes, PassHolder, Room, SnapBehind, CallMoves, Fills, Moved, None

\* What a step must keep for the invariant of a ring to stay.
RingOf(p) == <<writePos[p], readPos[p], snapPos[p], pBegin[p], writeable[p], pSize[p], pState[p]>>

\* A step that leaves a ring and the calls on it alone.
LEMMA RingKept ==
  ASSUME NEW p \in Producers, Room(p), SnapBehind(p), CallMoves(p),
         UNCHANGED RingOf(p), UNCHANGED holder
  PROVE  Room(p)' /\ SnapBehind(p)' /\ CallMoves(p)'
BY DEF RingOf, Room, SnapBehind, CallMoves, Fills, Moved

\* The steps of a log call.
LEMMA CallRingI ==
  ASSUME IInv, RingI, NEW p \in Producers,
         (\E size \in MsgSizes : LogCall(p, size)) \/ ContinueCall(p) \/ SpuriousWake(p)
  PROVE  RingI'
<1> DEFINE Kept == Room(p)' /\ SnapBehind(p)' /\ CallMoves(p)'
           Others == \A x \in Producers : x # p => UNCHANGED RingOf(x)
           PassKept == UNCHANGED <<readPos, snapPos, holder, step, todo>>
<1>0. ASSUME Kept, Others, PassKept, RingTypes' PROVE RingI'
  <2>1. ASSUME NEW x \in Producers, x # p PROVE Room(x)' /\ SnapBehind(x)' /\ CallMoves(x)'
    <3>1. UNCHANGED RingOf(x) /\ UNCHANGED holder
      BY <1>0, <2>1
    <3>2. Room(x) /\ SnapBehind(x) /\ CallMoves(x)
      BY DEF RingI
    <3> QED BY <3>1, <3>2, RingKept
  <2>2. PassHolder'
    BY <1>0 DEF PassHolder, RingI
  <2> QED BY <1>0, <2>1, <2>2 DEF RingI
<1>t. /\ RingTypes /\ Room(p) /\ SnapBehind(p) /\ CallMoves(p)
      /\ pState \in [Producers -> {"idle", "update", "lock", "notify", "wait", "asleep",
                               "woken", "write", "request", "requested"}]
  BY DEF RingI, IInv, Types
<1>r. /\ writePos[p] \in Pos /\ readPos[p] \in Pos /\ snapPos[p] \in Pos /\ pBegin[p] \in Pos
      /\ writeable[p] \in Nat /\ writeable[p] <= Size
      /\ Fills(p) \in Nat /\ Fills(p) <= Size /\ Size \in Nat
      /\ IndexOf(writePos[p]) \in Nat /\ IndexOf(writePos[p]) < Size
      /\ Fills(p) + writeable[p] <= Size
      /\ IndexOf(writePos[p]) + writeable[p] <= Size
      /\ pSize[p] \in Nat /\ Moved(p) \in Nat
  BY RingIs
<1>q. Quarter \in Nat /\ Quarter >= 1 /\ Size = 4 * Quarter
  BY QuarterIs
<1>1. ASSUME NEW size \in MsgSizes, LogCall(p, size) PROVE RingI'
  <2>1. /\ UNCHANGED <<writePos, readPos, snapPos, writeable, holder, step, todo>>
        /\ pSize' = [pSize EXCEPT ![p] = size] /\ pBegin' = [pBegin EXCEPT ![p] = writePos[p]]
        /\ pState' = [pState EXCEPT ![p] = IF writeable[p] >= size THEN "write" ELSE "update"]
    BY <1>1 DEF LogCall, bufVars, passVars
  <2>2. size \in Nat
    BY SizesAre
  <2>3. RingTypes'
    BY <1>t, <1>r, <2>1, <2>2 DEF RingTypes
  <2>4. /\ pState'[p] = IF writeable[p] >= size THEN "write" ELSE "update"
        /\ pSize'[p] = size /\ pBegin'[p] = writePos[p]
    BY <1>t, <2>1 DEF RingTypes
  <2>5. Moved(p)' = 0
    BY <1>r, <2>1, <2>4, FillZero DEF Moved
  <2>6. Kept
    BY <1>t, <2>1, <2>4, <2>5 DEF Room, SnapBehind, CallMoves, Fills
  <2>7. Others
    BY <1>t, <2>1 DEF RingOf, RingTypes
  <2> QED BY <1>0, <2>1, <2>3, <2>6, <2>7
<1>2. CASE UpdateState(p)
  <2> DEFINE u    == ProducerUpdate(writePos[p], readPos[p], pSize[p])
             tail == Size - IndexOf(writePos[p])
  <2>1. pState[p] = "update" /\ pSize[p] \in MsgSizes
    BY <1>2, <1>t DEF UpdateState, Room
  <2>2. pSize[p] \in 1 .. Size /\ (SmallMessages => pSize[p] <= Quarter)
    BY <2>1, SizesAre
  <2>3. /\ u.write \in Pos /\ u.writeable \in 0 .. Size
        /\ Fill(u.write, readPos[p]) + u.writeable <= Size
        /\ IndexOf(u.write) + u.writeable <= Size
        /\ \/ u.write = writePos[p]
           \/ /\ tail < pSize[p] /\ IndexOf(writePos[p]) # 0 /\ IndexOf(u.write) = 0
              /\ u.write = Plus(writePos[p], tail)
    BY <1>r, <2>2, UpdateIs DEF Fills
  <2>4. /\ UNCHANGED <<readPos, snapPos, pSize, pBegin, holder, step, todo>>
        /\ writePos' = [writePos EXCEPT ![p] = u.write]
        /\ writeable' = [writeable EXCEPT ![p] = u.writeable]
        /\ \E s \in {"write", "lock", "idle"} :
             /\ pState' = [pState EXCEPT ![p] = s]
             /\ s = "write" => u.writeable >= pSize[p]
             /\ s = "lock" => Policy[p] = "guaranteed"
    BY <1>2 DEF UpdateState, passVars
  <2> HIDE DEF u
  <2>5. PICK s \in {"write", "lock", "idle"} :
             /\ pState' = [pState EXCEPT ![p] = s]
             /\ s = "write" => u.writeable >= pSize[p]
             /\ s = "lock" => Policy[p] = "guaranteed"
    BY <2>4
  <2>6. /\ writePos'[p] = u.write /\ writeable'[p] = u.writeable /\ pState'[p] = s
    BY <1>t, <2>4, <2>5 DEF RingTypes
  <2>7. RingTypes'
    BY <1>t, <2>3, <2>4 DEF RingTypes
  <2>8. Others
    BY <1>t, <2>4, <2>5 DEF RingOf, RingTypes
  <2>9. ASSUME SmallMessages
        PROVE  Moved(p)' = 0 \/ (Moved(p)' < Quarter /\ IndexOf(writePos'[p]) = 0)
    <3>1. CASE u.write = writePos[p]
      <4>1. Moved(p)' = Moved(p)
        BY <2>4, <2>6, <3>1 DEF Moved
      <4> QED BY <1>t, <2>1, <2>6, <2>9, <3>1, <4>1 DEF CallMoves
    <3>2. CASE /\ tail < pSize[p] /\ IndexOf(writePos[p]) # 0 /\ IndexOf(u.write) = 0
               /\ u.write = Plus(writePos[p], tail)
      <4>1. Moved(p) = 0
        BY <1>t, <2>1, <2>9, <3>2 DEF CallMoves
      <4>2. tail \in 0 .. Size /\ tail < Quarter /\ Fill(writePos[p], pBegin[p]) = 0
        BY <1>r, <1>q, <2>2, <2>9, <3>2, <4>1 DEF Moved
      <4>3. Fill(Plus(writePos[p], tail), pBegin[p]) = Fill(writePos[p], pBegin[p]) + tail
        <5>1. Fill(writePos[p], pBegin[p]) + tail <= Size
          BY <1>r, <4>2
        <5> QED BY <1>r, <4>2, <5>1, FillWrite
      <4>4. Moved(p)' = tail
        BY <2>4, <2>6, <3>2, <4>2, <4>3 DEF Moved
      <4> QED BY <2>6, <3>2, <4>2, <4>4
    <3> QED BY <2>3, <3>1, <3>2
  <2>10. SnapBehind(p)'
    <3>1. CASE holder = None
      BY <2>4, <3>1 DEF SnapBehind
    <3>2. CASE holder # None
      <4>1. Fill(snapPos[p], readPos[p]) <= Fills(p)
        BY <1>t, <3>2 DEF SnapBehind
      <4>2. Fill(snapPos[p], readPos[p]) \in Nat
        BY <1>r, PosModAssumption DEF Fill, Minus, Pos
      <4>3. Fills(p)' = Fill(u.write, readPos[p])
        BY <2>4, <2>6 DEF Fills
      <4>4. Fill(u.write, readPos[p]) >= Fills(p)
        <5>1. CASE u.write = writePos[p]
          BY <1>r, <5>1 DEF Fills
        <5>2. CASE u.write # writePos[p]
          BY <1>r, <2>2, <5>2, UpdateIs DEF Fills, u
        <5> QED BY <5>1, <5>2
      <4>5. Fill(u.write, readPos[p]) \in Nat
        BY <1>r, <2>3, PosModAssumption DEF Fill, Minus, Pos
      <4> QED BY <1>r, <2>4, <4>1, <4>2, <4>3, <4>4, <4>5 DEF SnapBehind
    <3> QED BY <3>1, <3>2
  <2>11. Room(p)'
    BY <2>1, <2>3, <2>4, <2>5, <2>6 DEF Room, Fills
  <2>12. CallMoves(p)'
    BY <2>5, <2>6, <2>9 DEF CallMoves
  <2> QED BY <1>0, <2>4, <2>7, <2>8, <2>10, <2>11, <2>12
<1>3. CASE RequestAndLock(p) \/ NotifyFromWait(p) \/ SleepProducer(p) \/ SpuriousWake(p)
           \/ Recheck(p) \/ RequestFlushIfNeeded(p) \/ NotifyFromRequest(p)
  <2>1. /\ UNCHANGED <<writePos, readPos, snapPos, writeable, pSize, pBegin, holder, step, todo>>
        /\ \E s \in {"notify", "wait", "asleep", "woken", "update", "requested", "idle"} :
             /\ pState' = [pState EXCEPT ![p] = s]
             /\ s = "notify" => pState[p] = "lock"
             /\ s = "wait" => pState[p] = "notify"
             /\ s = "asleep" => pState[p] \in {"wait", "woken"}
             /\ s = "woken" => pState[p] = "asleep"
             /\ s = "update" => pState[p] = "woken"
             /\ s = "requested" => pState[p] = "request"
    BY <1>3, Zenon DEF RequestAndLock, NotifyFromWait, SleepProducer, SpuriousWake, Recheck,
       RequestFlushIfNeeded, NotifyFromRequest, bufVars, passVars
  <2>2. PICK s \in {"notify", "wait", "asleep", "woken", "update", "requested", "idle"} :
             /\ pState' = [pState EXCEPT ![p] = s]
             /\ s = "notify" => pState[p] = "lock"
             /\ s = "wait" => pState[p] = "notify"
             /\ s = "asleep" => pState[p] \in {"wait", "woken"}
             /\ s = "woken" => pState[p] = "asleep"
             /\ s = "update" => pState[p] = "woken"
             /\ s = "requested" => pState[p] = "request"
    BY <2>1
  <2>3. pState'[p] = s /\ Moved(p)' = Moved(p) /\ Fills(p)' = Fills(p)
    BY <1>t, <2>1, <2>2 DEF Moved, Fills
  <2>4. Others
    BY <1>t, <2>1, <2>2 DEF RingOf
  <2>5. RingTypes'
    BY <1>t, <2>1 DEF RingTypes
  <2>6. pState[p] = "idle" => s = "idle"
    BY <2>2
  <2>7. Room(p)' /\ SnapBehind(p)'
    BY <1>t, <2>1, <2>2, <2>3, <2>6 DEF Room, SnapBehind
  <2>8. CallMoves(p)'
    BY <1>t, <2>1, <2>2, <2>3 DEF CallMoves
  <2> QED BY <1>0, <2>1, <2>4, <2>5, <2>7, <2>8
<1>4. CASE WriteMessage(p)
  <2> DEFINE n == pSize[p]
  <2>1. /\ UNCHANGED <<readPos, snapPos, pSize, pBegin, holder, step, todo>>
        /\ writePos' = [writePos EXCEPT ![p] = Plus(writePos[p], n)]
        /\ writeable' = [writeable EXCEPT ![p] = writeable[p] - n]
        /\ pState[p] = "write"
        /\ pState' = [pState EXCEPT ![p] = IF Policy[p] = "lowlatency" THEN "idle" ELSE "request"]
    BY <1>4 DEF WriteMessage, passVars
  <2>2. /\ n \in MsgSizes /\ n \in Nat /\ n >= 1 /\ n \in 0 .. Size
        /\ n <= writeable[p] /\ (SmallMessages => n <= Quarter)
    BY <1>t, <2>1, SizesAre DEF Room
  <2> HIDE DEF n
  <2>3. /\ writePos'[p] = Plus(writePos[p], n) /\ writeable'[p] = writeable[p] - n
        /\ pState'[p] \in {"idle", "request"}
    BY <1>t, <2>1 DEF RingTypes
  <2>4. /\ Plus(writePos[p], n) \in Pos
        /\ IndexOf(Plus(writePos[p], n)) = IF IndexOf(writePos[p]) + n >= Size
                                           THEN IndexOf(writePos[p]) + n - Size
                                           ELSE IndexOf(writePos[p]) + n
    BY <1>r, <2>2, IndexPlus
  <2>5. Fill(Plus(writePos[p], n), readPos[p]) = Fills(p) + n
    <3>1. Fill(writePos[p], readPos[p]) + n <= Size
      BY <1>r, <2>2 DEF Fills
    <3> QED BY <1>r, <2>2, <3>1, FillWrite DEF Fills
  <2>6. ASSUME SmallMessages
        PROVE  Fill(Plus(writePos[p], n), pBegin[p]) = Moved(p) + n /\ Moved(p) + n <= 2 * Quarter
    <3>1. Moved(p) < Quarter
      BY <1>t, <1>q, <2>1, <2>6 DEF CallMoves
    <3>2. Fill(writePos[p], pBegin[p]) + n <= Size
      BY <1>r, <1>q, <2>2, <2>6, <3>1 DEF Moved
    <3> QED BY <1>r, <1>q, <2>2, <2>6, <3>1, <3>2, FillWrite DEF Moved
  <2>7. Fills(p)' = Fills(p) + n /\ (SmallMessages => Moved(p)' = Moved(p) + n)
    BY <2>1, <2>3, <2>5, <2>6 DEF Fills, Moved
  <2>8. RingTypes'
    <3>1. writeable[p] - n \in 0 .. Size
      BY <1>r, <2>2
    <3> QED BY <1>t, <2>1, <2>4, <3>1 DEF RingTypes
  <2>9. Others
    BY <1>t, <2>1 DEF RingOf, RingTypes
  <2>10. Room(p)'
    <3>1. Fills(p)' + writeable'[p] <= Size
      BY <1>r, <2>2, <2>3, <2>7
    <3>2. IndexOf(writePos'[p]) + writeable'[p] <= Size
      BY <1>r, <2>2, <2>3, <2>4
    <3>3. pState'[p] # "write" /\ pSize'[p] \in MsgSizes
      BY <2>1, <2>2, <2>3 DEF n
    <3> QED BY <3>1, <3>2, <3>3 DEF Room
  <2>11. SnapBehind(p)'
    <3>1. Fill(snapPos[p], readPos[p]) \in Nat
      BY <1>r, PosModAssumption DEF Fill, Minus, Pos
    <3> QED BY <1>r, <1>t, <2>1, <2>2, <2>7, <3>1 DEF SnapBehind
  <2>12. CallMoves(p)'
    BY <2>3, <2>6, <2>7 DEF CallMoves
  <2> QED BY <1>0, <2>1, <2>8, <2>9, <2>10, <2>11, <2>12
<1> QED BY <1>1, <1>2, <1>3, <1>4 DEF ContinueCall

\* The steps of a pass, whichever thread makes it.
LEMMA PassRingI == ASSUME IInv, RingI, PassStep PROVE RingI'
<1>t. /\ RingTypes /\ PassHolder /\ cur \in Producers \cup {None}
      /\ \A p \in Producers : Room(p) /\ SnapBehind(p) /\ CallMoves(p)
  BY DEF RingI, IInv, Types
<1>1. CASE (\E p \in Producers : VisitBuffer(p)) \/ DecideBuffer \/ AfterRead
  <2>1. /\ UNCHANGED <<writePos, readPos, snapPos, pBegin, writeable, pSize, pState, holder>>
        /\ todo' \subseteq Producers /\ step # "none"
        /\ step' \in {"next", "decide", "read", "wake", "after"}
    BY <1>1, <1>t, Zenon DEF VisitBuffer, DecideBuffer, AfterRead, bufVars, prodVars, RingTypes
  <2>2. RingTypes' /\ PassHolder'
    BY <1>t, <2>1 DEF RingTypes, PassHolder
  <2> QED BY <1>t, <2>1, <2>2, RingKept DEF RingI, RingOf
<1>2. CASE ReadBuffer
  <2>1. /\ UNCHANGED <<writePos, snapPos, pBegin, writeable, pSize, pState, holder, todo>>
        /\ readPos' = [readPos EXCEPT ![cur] = snapPos[cur]]
        /\ step = "read" /\ step' \in {"wake", "after"}
    BY <1>2 DEF ReadBuffer, prodVars
  <2>2. cur \in Producers /\ holder # None
    BY <1>t, <2>1 DEF PassHolder, IInv, PassAtBuffer
  <2>q. PICK q \in Producers : q = cur
    BY <2>2
  <2>3. RingTypes' /\ PassHolder'
    BY <1>t, <2>1, <2>2, <2>q DEF RingTypes, PassHolder
  <2>4. ASSUME NEW p \in Producers, p # q PROVE Room(p)' /\ SnapBehind(p)' /\ CallMoves(p)'
    <3>1. UNCHANGED RingOf(p)
      BY <1>t, <2>1, <2>2, <2>q, <2>4 DEF RingOf, RingTypes
    <3> QED BY <1>t, <2>1, <3>1, RingKept
  <2>5. Room(q)' /\ SnapBehind(q)' /\ CallMoves(q)'
    <3>1. /\ writePos[q] \in Pos /\ readPos[q] \in Pos /\ snapPos[q] \in Pos
          /\ Fills(q) \in Nat /\ Fills(q) <= Size /\ Size \in Nat
          /\ writeable[q] \in Nat /\ Fills(q) + writeable[q] <= Size
      BY <2>2, <2>q, RingIs
    <3>2. Fill(snapPos[q], readPos[q]) <= Fills(q)
      BY <1>t, <2>2, <2>q DEF SnapBehind
    <3>3. /\ readPos'[q] = snapPos[q]
          /\ Fills(q)' = Fill(writePos[q], snapPos[q])
      BY <1>t, <2>1, <2>2, <2>q DEF RingTypes, Fills
    <3>4. /\ Fill(writePos[q], snapPos[q]) \in 0 .. Size
          /\ Fill(snapPos[q], readPos[q]) \in 0 .. Size
          /\ Fills(q) = Fill(snapPos[q], readPos[q]) + Fill(writePos[q], snapPos[q])
      BY <3>1, <3>2, FillAdds DEF Fills
    <3>5. Fill(snapPos[q], snapPos[q]) = 0
      BY <3>1, FillZero
    <3>6. Room(q)'
      <4>1. Fills(q)' + writeable[q] <= Size
        BY <3>1, <3>3, <3>4
      <4> QED BY <1>t, <2>1, <2>2, <2>q, <4>1 DEF Room
    <3>7. SnapBehind(q)'
      BY <2>1, <3>3, <3>4, <3>5 DEF SnapBehind
    <3>8. CallMoves(q)'
      BY <1>t, <2>1, <2>2, <2>q DEF CallMoves, Moved
    <3> QED BY <3>6, <3>7, <3>8
  <2> QED BY <2>1, <2>2, <2>q, <2>3, <2>4, <2>5 DEF RingI
<1>3. CASE WakeProducer
  <2>1. /\ UNCHANGED <<writePos, readPos, snapPos, pBegin, writeable, pSize, holder, todo>>
        /\ pState' = [pState EXCEPT ![cur] = IF @ = "asleep" THEN "woken" ELSE @]
        /\ step = "wake" /\ step' = "after"
    BY <1>3 DEF WakeProducer
  <2>2. RingTypes' /\ PassHolder'
    BY <1>t, <2>1 DEF RingTypes, PassHolder
  <2>3. ASSUME NEW p \in Producers PROVE Room(p)' /\ SnapBehind(p)' /\ CallMoves(p)'
    <3>1. pState'[p] = pState[p] \/ (pState[p] = "asleep" /\ pState'[p] = "woken")
      BY <2>1 DEF IInv, Types
    <3>2. Room(p)'
      BY <1>t, <2>1, <3>1 DEF Room, Fills
    <3>3. SnapBehind(p)'
      BY <1>t, <2>1, <3>1 DEF SnapBehind, Fills
    <3>4. CallMoves(p)'
      BY <1>t, <2>1, <3>1 DEF CallMoves, Moved
    <3> QED BY <3>2, <3>3, <3>4
  <2> QED BY <2>2, <2>3 DEF RingI
<1> QED BY <1>1, <1>2, <1>3 DEF PassStep

\* A pass that begins has its snapshot at the writer.
LEMMA BeginRingI ==
  ASSUME RingI, NEW t \in {"bg", "user"}, NEW all, NEW sinks, BeginPass(t, all, sinks),
         UNCHANGED prodVars
  PROVE  RingI'
<1>t. RingTypes /\ \A p \in Producers : Room(p) /\ SnapBehind(p) /\ CallMoves(p)
  BY DEF RingI
<1>1. /\ UNCHANGED <<writePos, readPos, pBegin, writeable, pSize, pState>>
      /\ snapPos' = writePos /\ holder' = t /\ todo' = Producers /\ step' = "next"
  BY DEF BeginPass, prodVars
<1>2. RingTypes' /\ PassHolder'
  BY <1>t, <1>1 DEF RingTypes, PassHolder, None
<1>3. ASSUME NEW p \in Producers PROVE Room(p)' /\ SnapBehind(p)' /\ CallMoves(p)'
  <2>1. Fills(p)' = Fills(p) /\ Fills(p) \in Nat /\ snapPos'[p] = writePos[p]
    BY <1>1, RingIs DEF Fills
  <2>2. SnapBehind(p)'
    BY <1>1, <2>1 DEF SnapBehind, Fills
  <2>3. Room(p)' /\ CallMoves(p)'
    BY <1>t, <1>1 DEF Room, CallMoves, Fills, Moved
  <2> QED BY <2>2, <2>3
<1> QED BY <1>2, <1>3 DEF RingI

\* The background thread and the threads that call the core.
LEMMA CoreRingI ==
  ASSUME IInv, RingI,
         Background \/ BgWake \/ UserFlush \/ UserBegin \/ UserEnd \/ Stop \/ Joined \/ Start
  PROVE  RingI'
<1>t. RingTypes /\ PassHolder /\ \A p \in Producers : Room(p) /\ SnapBehind(p) /\ CallMoves(p)
  BY DEF RingI
<1>1. CASE BgBegin
  BY <1>1, BeginRingI DEF BgBegin
<1>2. CASE UserBegin
  BY <1>2, BeginRingI DEF UserBegin
<1>3. CASE BgEnd \/ UserEnd
  <2>1. /\ UNCHANGED <<bufVars, prodVars, todo>> /\ holder' = None /\ step' = "none"
    BY <1>3 DEF BgEnd, UserEnd, EndPass
  <2>2. RingTypes' /\ PassHolder'
    BY <1>t, <2>1 DEF RingTypes, PassHolder, bufVars, prodVars
  <2>3. ASSUME NEW p \in Producers PROVE Room(p)' /\ SnapBehind(p)' /\ CallMoves(p)'
    BY <1>t, <2>1 DEF Room, SnapBehind, CallMoves, Fills, Moved, bufVars, prodVars
  <2> QED BY <2>2, <2>3 DEF RingI
<1>4. CASE \/ \E poll, sinks \in Timed : BgCheck(poll, sinks)
           \/ BgWake \/ UserFlush \/ Stop \/ Joined \/ Start
  <2>1. UNCHANGED <<bufVars, prodVars, passVars>>
    BY <1>4, Zenon DEF BgCheck, BgWake, UserFlush, Stop, Joined, Start
  <2> QED
    BY <1>t, <2>1 DEF RingI, RingTypes, PassHolder, Room, SnapBehind, CallMoves, Fills, Moved,
       bufVars, prodVars, passVars
<1> QED BY <1>1, <1>2, <1>3, <1>4 DEF Background

\* Every step preserves the invariant of the rings.
LEMMA NextRingI == IInv /\ RingI /\ [Next]_vars => RingI'
<1> SUFFICES ASSUME IInv, RingI, [Next]_vars PROVE RingI'
  OBVIOUS
<1>1. CASE Next
  BY <1>1, CallRingI, PassRingI, CoreRingI DEF Next
<1>2. CASE UNCHANGED vars
  BY <1>2 DEF vars, bufVars, prodVars, coreVars, passVars, RingI, RingTypes, PassHolder, Room,
     SnapBehind, CallMoves, Fills, Moved
<1> QED BY <1>1, <1>2

-----------------------------------------------------------------------------
(***************************************************************************)
(* The quarters.  A log call that leaves a quarter of a ring at half full  *)
(* or more asks for a flush, so a ring that is fuller than that belongs to *)
(* a call that has still to ask or to a background thread that will look.  *)
(***************************************************************************)

\* The call has left the quarter it began in.
Crossed(p) == Off(pBegin[p]) + Moved(p) >= Quarter

\* The ring was less than half full where its quarter begins.
Roomy(w, r) == Fill(w, r) < 2 * Quarter + Off(w)

\* The snapshot was taken in this quarter, or in the quarter before, while
\* the writer is in the first quarter of the ring (a message that does not
\* fit in front of the end of the ring gives that up and is dropped).
Near(w, s) == \/ Fill(w, s) <= Off(w)
              \/ Fill(w, s) <= Off(w) + Quarter /\ Off(w) = IndexOf(w)

\* The background thread has a pass over p's buffer before it, or is in one
\* that is going to leave the buffer less than half full.
WillLook(p) ==
  \/ dataReady
  \/ bg \in {"ready", "poll", "sinks", "stopping", "last"}
  \/ /\ holder = "bg" /\ (p \in todo \/ (cur = p /\ step \in {"decide", "read"}))
     /\ Near(writePos[p], snapPos[p])

\* A quarter is left at half full or more: the call that left it has still
\* to request a flush, or the background thread will look at the buffer.
Looked(p) ==
  Policy[p] # "lowlatency" /\ pState[p] # "requested" =>
    \/ pState[p] # "idle" /\ Crossed(p)
    \/ Roomy(writePos[p], readPos[p])
    \/ WillLook(p)

\* The invariant of the quarters.
QuarterI == \A p \in Producers : Looked(p)

\* A snapshot taken that late leaves room when it is read.
LEMMA NearRoomy ==
  ASSUME NEW w \in Pos, NEW s \in Pos, Near(w, s)
  PROVE  Roomy(w, s)
BY QuarterIs, OffIs, FillNat DEF Near, Roomy

\* Moving within a quarter keeps both.
LEMMA WithinQuarter ==
  ASSUME NEW w \in Pos, NEW r \in Pos, NEW n \in Nat, n >= 1, Off(w) + n < Quarter,
         Fill(w, r) + n <= Size
  PROVE  /\ Roomy(w, r) => Roomy(Plus(w, n), r)
         /\ Near(w, r) => Near(Plus(w, n), r)
<1>1. /\ Quarter \in Nat /\ Quarter >= 1 /\ Size = 4 * Quarter /\ Off(w) \in 0 .. Quarter - 1
      /\ Fill(w, r) \in Nat /\ Size \in Nat
  BY QuarterIs, OffIs, FillNat
<1>2. n \in 0 .. Size
  BY <1>1
<1>3. Fill(Plus(w, n), r) = Fill(w, r) + n
  BY <1>2, FillWrite
<1>4. Off(Plus(w, n)) = Off(w) + n
  BY OffPlus
<1>5. Off(w) = IndexOf(w) => Off(Plus(w, n)) = IndexOf(Plus(w, n))
  <2>1. IndexOf(Plus(w, n)) = IF IndexOf(w) + n >= Size THEN IndexOf(w) + n - Size
                                                        ELSE IndexOf(w) + n
    BY <1>2, IndexPlus
  <2> QED BY <1>1, <1>4, <2>1
<1> QED BY <1>1, <1>3, <1>4, <1>5 DEF Roomy, Near

\* A call that moved to the start of the ring has left its quarter.
LEMMA StartCrossed ==
  ASSUME RingI, NEW p \in Producers, IndexOf(writePos[p]) = 0, Moved(p) # 0
  PROVE  Crossed(p)
<1>1. writePos[p] \in Pos /\ pBegin[p] \in Pos /\ Moved(p) \in Nat
  BY RingIs
<1>2. /\ Quarter \in Nat /\ Quarter >= 1 /\ Off(pBegin[p]) \in 0 .. Quarter - 1
      /\ Off(writePos[p]) = 0
  BY <1>1, QuarterIs, OffIs, OffStart
<1>3. Plus(pBegin[p], Moved(p)) = writePos[p]
  BY <1>1, PlusFill DEF Moved
<1>4. ASSUME Off(pBegin[p]) + Moved(p) < Quarter PROVE FALSE
  <2>1. Off(writePos[p]) = Off(pBegin[p]) + Moved(p)
    BY <1>1, <1>3, <1>4, OffPlus
  <2> QED BY <1>1, <1>2, <2>1
<1> QED BY <1>1, <1>2, <1>4 DEF Crossed

\* The test of the code is that.
LEMMA CrossedIs ==
  ASSUME RingI, NEW p \in Producers, Moved(p) <= 2 * Quarter
  PROVE  QuarterCrossed(pBegin[p], writePos[p]) <=> Crossed(p)
<1>1. writePos[p] \in Pos /\ pBegin[p] \in Pos /\ Moved(p) \in Nat
  BY RingIs
<1>2. Plus(pBegin[p], Moved(p)) = writePos[p]
  BY <1>1, PlusFill DEF Moved
<1>3. Quarter \in Nat /\ Off(pBegin[p]) \in 0 .. Quarter - 1
  BY <1>1, QuarterIs, OffIs
<1> QED BY <1>1, <1>2, <1>3, OffPlus, OffCross DEF Crossed

\* Less than half full.
LEMMA HalfIs ==
  ASSUME NEW w \in Pos, NEW r \in Pos, ~HalfFull(w, r)
  PROVE  Roomy(w, r)
<1>1. Quarter \in Nat /\ Size = 4 * Quarter /\ Off(w) \in 0 .. Quarter - 1 /\ Fill(w, r) \in Nat
  BY QuarterIs, OffIs, FillNat
<1>2. Size \div 2 = 2 * Quarter
  BY <1>1
<1> QED BY <1>1, <1>2 DEF HalfFull, Roomy

\* A message is dropped only when the background thread is going to look,
\* and it still is when the end of the ring was given up for the message.
LEMMA DropLooks ==
  ASSUME RingI, QuarterI, SmallMessages, NEW p \in Producers, pState[p] = "update",
         Policy[p] = "nonguaranteed",
         ProducerUpdate(writePos[p], readPos[p], pSize[p]).writeable < pSize[p]
  PROVE  /\ WillLook(p)
         /\ \/ ProducerUpdate(writePos[p], readPos[p], pSize[p]).write = writePos[p]
            \/ Near(writePos[p], snapPos[p]) /\ Fill(writePos[p], snapPos[p]) <= Size =>
                  Near(ProducerUpdate(writePos[p], readPos[p], pSize[p]).write, snapPos[p])
<1> DEFINE w == writePos[p]
           r == readPos[p]
           n == pSize[p]
           u == ProducerUpdate(w, r, n)
           tail == Size - IndexOf(w)
<1>1. /\ w \in Pos /\ r \in Pos /\ snapPos[p] \in Pos /\ pBegin[p] \in Pos
      /\ Fill(w, r) \in Nat /\ Fill(w, r) <= Size
      /\ Moved(p) = 0 /\ n \in MsgSizes
  BY RingIs DEF Fills, RingI, CallMoves, Room
<1>2. n \in 1 .. Size /\ n <= Quarter /\ n \in Nat
  BY <1>1, SizesAre
<1>3. /\ Quarter \in Nat /\ Quarter >= 1 /\ Size = 4 * Quarter /\ Size \in Nat
      /\ Off(w) \in 0 .. Quarter - 1 /\ tail \in 1 .. Size /\ IndexOf(w) = Size - tail
  <2>1. Quarter \in Nat /\ Quarter >= 1 /\ Size = 4 * Quarter /\ Size \in Nat
    BY QuarterIs
  <2>2. Off(w) \in 0 .. Quarter - 1 /\ tail \in 1 .. Size /\ IndexOf(w) \in Index
    BY <1>1, OffIs, OffTail, IndexRange
  <2> QED BY <2>1, <2>2 DEF Index
<1>4. u.write \in Pos /\ Fill(u.write, r) > Size - n
  BY <1>1, <1>2, UpdateIs
<1>5. \/ u.write = w
      \/ /\ tail < n /\ IndexOf(u.write) = 0 /\ u.write = Plus(w, tail)
         /\ Fill(u.write, r) = Fill(w, r) + tail
  BY <1>1, <1>2, UpdateIs
<1> HIDE DEF u
<1>6. tail < n => Off(w) = Quarter - tail
  BY <1>1, <1>2, <1>3, OffTail
<1>7. ~Roomy(w, r)
  <2>1. CASE u.write = w
    BY <1>1, <1>2, <1>3, <1>4, <2>1 DEF Roomy
  <2>2. CASE tail < n /\ Fill(u.write, r) = Fill(w, r) + tail
    BY <1>1, <1>2, <1>3, <1>4, <1>6, <2>2 DEF Roomy
  <2> QED BY <1>5, <2>1, <2>2
<1>8. ~Crossed(p)
  BY <1>1, <1>3, OffIs DEF Crossed
<1>9. WillLook(p)
  BY <1>7, <1>8 DEF QuarterI, Looked
<1>10. ASSUME u.write # w, Near(w, snapPos[p]), Fill(w, snapPos[p]) <= Size
       PROVE  Near(u.write, snapPos[p])
  <2>1. /\ tail < n /\ IndexOf(u.write) = 0 /\ u.write = Plus(w, tail)
        /\ Off(w) = Quarter - tail /\ Off(u.write) = 0
    BY <1>4, <1>5, <1>6, <1>10, OffStart
  <2>2. Fill(w, snapPos[p]) \in Nat
    BY <1>1, FillNat
  <2>3. Fill(w, snapPos[p]) <= Off(w)
    BY <1>2, <1>3, <1>10, <2>1 DEF Near
  <2>4. Fill(u.write, snapPos[p]) = Fill(w, snapPos[p]) + tail
    <3>1. Fill(w, snapPos[p]) + tail <= Size /\ tail \in 0 .. Size
      BY <1>3, <2>1, <2>2, <2>3
    <3> QED BY <1>1, <2>1, <3>1, FillWrite
  <2> QED BY <1>3, <2>1, <2>2, <2>3, <2>4 DEF Near
<1> QED BY <1>9, <1>10 DEF u

\* What a step must leave alone for the claim about a producer to stay.
LookedOf(p) == <<writePos[p], readPos[p], pBegin[p], pState[p]>>

\* A step that leaves a ring alone and does not keep a pass from it.
LEMMA LookedKept ==
  ASSUME NEW p \in Producers, Looked(p), UNCHANGED LookedOf(p), WillLook(p) => WillLook(p)'
  PROVE  Looked(p)'
BY DEF LookedOf, Looked, Crossed, Moved, Roomy

\* Initially the rings have room.
LEMMA InitQuarterI == Init => QuarterI
<1> SUFFICES ASSUME Init PROVE QuarterI
  OBVIOUS
<1>1. 0 \in Pos /\ Fill(0, 0) = 0
  BY SizeAssumption, PosModAssumption DEF Pos, Fill, Minus
<1>2. Roomy(0, 0)
  BY <1>1, QuarterIs, OffIs DEF Roomy
<1> QED BY <1>2 DEF Init, QuarterI, Looked

\* The steps of a log call.
LEMMA CallQuarterI ==
  ASSUME IInv, RingI, QuarterI, SmallMessages, NEW p \in Producers,
         (\E size \in MsgSizes : LogCall(p, size)) \/ ContinueCall(p) \/ SpuriousWake(p)
  PROVE  QuarterI'
<1> DEFINE Others == \A x \in Producers : x # p => UNCHANGED LookedOf(x) /\ UNCHANGED snapPos[x]
           Core == /\ UNCHANGED passVars
                   /\ \/ dataReady'
                      \/ UNCHANGED <<bg, dataReady>>
<1>0. ASSUME Others, Core, Looked(p)' PROVE QuarterI'
  <2>1. ASSUME NEW x \in Producers, x # p PROVE Looked(x)'
    <3>1. UNCHANGED LookedOf(x) /\ UNCHANGED snapPos[x]
      BY <1>0, <2>1
    <3>2. WillLook(x) => WillLook(x)'
      BY <1>0, <3>1 DEF WillLook, LookedOf, passVars
    <3> QED BY <3>1, <3>2, LookedKept DEF QuarterI
  <2> QED BY <1>0, <2>1 DEF QuarterI
<1>t. /\ RingTypes /\ Room(p) /\ SnapBehind(p) /\ CallMoves(p) /\ Looked(p)
      /\ pState \in [Producers -> {"idle", "update", "lock", "notify", "wait", "asleep",
                               "woken", "write", "request", "requested"}]
  BY DEF RingI, IInv, Types, QuarterI
<1>r. /\ writePos[p] \in Pos /\ readPos[p] \in Pos /\ snapPos[p] \in Pos /\ pBegin[p] \in Pos
      /\ writeable[p] \in Nat /\ writeable[p] <= Size
      /\ Fills(p) \in Nat /\ Fills(p) <= Size /\ Size \in Nat
      /\ Fills(p) + writeable[p] <= Size
      /\ pSize[p] \in Nat /\ Moved(p) \in Nat
  BY RingIs
<1>q. /\ Quarter \in Nat /\ Quarter >= 1 /\ Size = 4 * Quarter
      /\ Off(writePos[p]) \in 0 .. Quarter - 1 /\ Off(pBegin[p]) \in 0 .. Quarter - 1
  BY <1>r, QuarterIs, OffIs
<1>1. ASSUME NEW size \in MsgSizes, LogCall(p, size) PROVE QuarterI'
  <2>1. /\ UNCHANGED <<writePos, readPos, snapPos, passVars, bg, dataReady>>
        /\ pBegin' = [pBegin EXCEPT ![p] = writePos[p]] /\ pState[p] = "idle"
        /\ pState' = [pState EXCEPT ![p] = IF writeable[p] >= size THEN "write" ELSE "update"]
    BY <1>1 DEF LogCall, bufVars, coreVars
  <2>2. Others
    BY <1>t, <2>1 DEF LookedOf, RingTypes
  <2>3. Roomy(writePos[p], readPos[p]) \/ WillLook(p) \/ Policy[p] = "lowlatency"
    BY <1>t, <2>1 DEF Looked
  <2>4. WillLook(p) => WillLook(p)'
    BY <2>1 DEF WillLook, passVars
  <2>5. Looked(p)'
    BY <2>1, <2>3, <2>4 DEF Looked
  <2> QED BY <1>0, <2>1, <2>2, <2>5
<1>2. CASE UpdateState(p)
  <2> DEFINE u    == ProducerUpdate(writePos[p], readPos[p], pSize[p])
             tail == Size - IndexOf(writePos[p])
  <2>1. pState[p] = "update" /\ pSize[p] \in MsgSizes
    BY <1>2, <1>t DEF UpdateState, Room
  <2>2. pSize[p] \in 1 .. Size /\ pSize[p] <= Quarter
    BY <2>1, SizesAre
  <2>3. /\ u.write \in Pos /\ u.writeable \in 0 .. Size
        /\ \/ u.write = writePos[p]
           \/ /\ tail < pSize[p] /\ IndexOf(writePos[p]) # 0 /\ IndexOf(u.write) = 0
              /\ u.write = Plus(writePos[p], tail)
    BY <1>r, <2>2, UpdateIs DEF Fills
  <2>4. /\ UNCHANGED <<readPos, snapPos, pSize, pBegin, passVars, bg, dataReady>>
        /\ writePos' = [writePos EXCEPT ![p] = u.write]
        /\ \E s \in {"write", "lock", "idle"} :
             /\ pState' = [pState EXCEPT ![p] = s]
             /\ s = "idle" => Policy[p] # "guaranteed" /\ ~(u.writeable >= pSize[p])
    BY <1>2 DEF UpdateState, coreVars
  <2> HIDE DEF u
  <2>5. PICK s \in {"write", "lock", "idle"} :
             /\ pState' = [pState EXCEPT ![p] = s]
             /\ s = "idle" => Policy[p] # "guaranteed" /\ ~(u.writeable >= pSize[p])
    BY <2>4
  <2>6. writePos'[p] = u.write /\ pState'[p] = s
    BY <1>t, <2>4, <2>5 DEF RingTypes
  <2>7. Others
    BY <1>t, <2>4, <2>5 DEF LookedOf, RingTypes
  <2>8. CASE s = "idle" /\ Policy[p] # "lowlatency"
    <3>1. Policy[p] = "nonguaranteed" /\ u.writeable < pSize[p]
      <4>1. Policy[p] \in Policies
        BY PolicyAssumption
      <4> QED BY <1>r, <2>3, <2>5, <2>8, <4>1 DEF Policies
    <3>2. /\ WillLook(p)
          /\ \/ u.write = writePos[p]
             \/ Near(writePos[p], snapPos[p]) /\ Fill(writePos[p], snapPos[p]) <= Size =>
                  Near(u.write, snapPos[p])
      BY <2>1, <3>1, DropLooks DEF u
    <3>3. Near(writePos[p], snapPos[p]) => Near(u.write, snapPos[p])
      <4>1. Near(writePos[p], snapPos[p]) => Fill(writePos[p], snapPos[p]) <= Size
        BY <1>r, <1>q, FillNat DEF Near
      <4> QED BY <3>2, <4>1
    <3>4. WillLook(p)'
      BY <2>4, <2>6, <3>2, <3>3 DEF WillLook, passVars
    <3>5. Looked(p)'
      BY <3>4 DEF Looked
    <3> QED BY <1>0, <2>4, <2>7, <3>5
  <2>9. CASE s # "idle" /\ u.write = writePos[p]
    <3>1. Moved(p)' = Moved(p)
      BY <2>4, <2>6, <2>9 DEF Moved
    <3>2. Crossed(p)' <=> Crossed(p)
      BY <2>4, <3>1 DEF Crossed
    <3>3. WillLook(p) => WillLook(p)'
      BY <2>4, <2>6, <2>9 DEF WillLook, passVars
    <3>4. Looked(p)'
      BY <1>t, <2>1, <2>4, <2>5, <2>6, <2>9, <3>2, <3>3 DEF Looked
    <3> QED BY <1>0, <2>4, <2>7, <3>4
  <2>10. CASE s # "idle" /\ u.write # writePos[p]
    <3>1. /\ tail < pSize[p] /\ IndexOf(writePos[p]) # 0 /\ IndexOf(u.write) = 0
          /\ u.write = Plus(writePos[p], tail)
      BY <2>3, <2>10
    <3>2. tail \in 0 .. Size /\ tail < Quarter /\ Off(writePos[p]) + tail >= Quarter
          /\ tail \in Nat
      BY <1>r, <1>q, <2>2, <3>1, OffTail
    <3>3. Moved(p) = 0 /\ pBegin[p] = writePos[p]
      BY <1>t, <1>r, <2>1, <3>1, FillZero DEF CallMoves, Moved
    <3>4. Moved(p)' = tail
      <4>1. Fill(writePos[p], writePos[p]) = 0
        BY <1>r, FillZero
      <4>2. Fill(writePos[p], writePos[p]) + tail <= Size
        BY <1>r, <1>q, <3>2, <4>1
      <4>3. Fill(Plus(writePos[p], tail), writePos[p]) = tail
        BY <1>r, <3>2, <4>1, <4>2, FillWrite
      <4> QED BY <2>4, <2>6, <3>1, <3>3, <4>3 DEF Moved
    <3>5. Crossed(p)'
      BY <2>4, <3>2, <3>3, <3>4 DEF Crossed
    <3>6. Looked(p)'
      BY <2>6, <2>10, <3>5 DEF Looked
    <3> QED BY <1>0, <2>4, <2>7, <3>6
  <2>11. CASE Policy[p] = "lowlatency"
    <3>1. Looked(p)'
      BY <2>11 DEF Looked
    <3> QED BY <1>0, <2>4, <2>7, <3>1
  <2> QED BY <2>8, <2>9, <2>10, <2>11
<1>3. CASE RequestAndLock(p) \/ SleepProducer(p) \/ SpuriousWake(p) \/ Recheck(p)
  <2>1. /\ UNCHANGED <<writePos, readPos, snapPos, pBegin, passVars, bg, dataReady>>
        /\ pState[p] \in {"lock", "wait", "asleep", "woken"}
        /\ \E s \in {"notify", "asleep", "woken", "update"} : pState' = [pState EXCEPT ![p] = s]
    BY <1>3, Zenon DEF RequestAndLock, SleepProducer, SpuriousWake, Recheck, bufVars, coreVars
  <2>2. PICK s \in {"notify", "asleep", "woken", "update"} : pState' = [pState EXCEPT ![p] = s]
    BY <2>1
  <2>3. Others
    BY <1>t, <2>1, <2>2 DEF LookedOf
  <2>4. pState'[p] = s
    BY <1>t, <2>2
  <2>5. (Crossed(p)' <=> Crossed(p)) /\ (WillLook(p) => WillLook(p)')
    BY <2>1 DEF Crossed, Moved, WillLook, passVars
  <2>6. Looked(p)'
    BY <1>t, <2>1, <2>4, <2>5 DEF Looked
  <2> QED BY <1>0, <2>1, <2>3, <2>6
<1>4. CASE NotifyFromWait(p) \/ NotifyFromRequest(p)
  <2>1. /\ UNCHANGED <<writePos, readPos, snapPos, pBegin, passVars>> /\ dataReady'
        /\ \E s \in {"wait", "idle"} : pState' = [pState EXCEPT ![p] = s]
    BY <1>4, Zenon DEF NotifyFromWait, NotifyFromRequest, NotifyDataReady, bufVars
  <2>2. Others
    BY <1>t, <2>1 DEF LookedOf
  <2>3. Looked(p)'
    BY <2>1 DEF Looked, WillLook
  <2> QED BY <1>0, <2>1, <2>2, <2>3
<1>5. CASE WriteMessage(p)
  <2> DEFINE n == pSize[p]
  <2>1. /\ UNCHANGED <<readPos, snapPos, pBegin, passVars, bg, dataReady>>
        /\ writePos' = [writePos EXCEPT ![p] = Plus(writePos[p], n)]
        /\ pState[p] = "write"
        /\ pState' = [pState EXCEPT ![p] = IF Policy[p] = "lowlatency" THEN "idle" ELSE "request"]
    BY <1>5 DEF WriteMessage, coreVars
  <2>2. /\ n \in MsgSizes /\ n \in Nat /\ n >= 1 /\ n <= Quarter /\ n \in 0 .. Size
        /\ n <= writeable[p]
    BY <1>t, <2>1, SizesAre DEF Room
  <2> HIDE DEF n
  <2>3. /\ writePos'[p] = Plus(writePos[p], n)
        /\ Policy[p] # "lowlatency" => pState'[p] = "request"
    BY <1>t, <2>1 DEF RingTypes
  <2>4. Others
    BY <1>t, <2>1 DEF LookedOf, RingTypes
  <2>5. Moved(p)' = Moved(p) + n
    <3>1. Moved(p) < Quarter
      BY <1>t, <1>q, <2>1 DEF CallMoves
    <3>2. Fill(writePos[p], pBegin[p]) + n <= Size
      BY <1>r, <1>q, <2>2, <3>1 DEF Moved
    <3>3. Fill(Plus(writePos[p], n), pBegin[p]) = Moved(p) + n
      BY <1>r, <2>2, <3>2, FillWrite DEF Moved
    <3> QED BY <2>1, <2>3, <3>3 DEF Moved
  <2>6. CASE Crossed(p) \/ Off(writePos[p]) + n >= Quarter
    <3>1. Crossed(p)'
      <4>1. CASE Crossed(p)
        BY <1>r, <1>q, <2>1, <2>2, <2>5, <4>1 DEF Crossed
      <4>2. CASE Off(writePos[p]) + n >= Quarter /\ Moved(p) = 0
        <5>1. pBegin[p] = writePos[p]
          BY <1>r, <4>2, FillZero DEF Moved
        <5> QED BY <1>r, <1>q, <2>1, <2>2, <2>5, <4>2, <5>1 DEF Crossed
      <4>3. CASE Moved(p) # 0
        <5>1. Crossed(p)
          BY <1>t, <2>1, <4>3, StartCrossed DEF CallMoves
        <5> QED BY <4>1, <5>1
      <4> QED BY <2>6, <4>1, <4>2, <4>3
    <3>2. Looked(p)'
      BY <2>3, <3>1 DEF Looked
    <3> QED BY <1>0, <2>1, <2>4, <3>2
  <2>7. CASE ~Crossed(p) /\ ~(Off(writePos[p]) + n >= Quarter)
    <3>1. Off(writePos[p]) + n < Quarter
      BY <1>q, <2>2, <2>7
    <3>2. Roomy(writePos[p], readPos[p]) => Roomy(Plus(writePos[p], n), readPos[p])
      <4>1. Fill(writePos[p], readPos[p]) + n <= Size
        BY <1>r, <2>2 DEF Fills
      <4> QED BY <1>r, <2>2, <3>1, <4>1, WithinQuarter
    <3>3. Near(writePos[p], snapPos[p]) => Near(Plus(writePos[p], n), snapPos[p])
      <4>1. ASSUME Near(writePos[p], snapPos[p]) PROVE Fill(writePos[p], snapPos[p]) + n <= Size
        BY <1>r, <1>q, <2>2, <4>1, FillNat DEF Near
      <4> QED BY <1>r, <2>2, <3>1, <4>1, WithinQuarter
    <3>4. Policy[p] # "lowlatency" => Roomy(writePos[p], readPos[p]) \/ WillLook(p)
      BY <1>t, <2>1, <2>7 DEF Looked
    <3>5. WillLook(p) => WillLook(p)'
      BY <2>1, <2>3, <3>3 DEF WillLook, passVars
    <3>6. Looked(p)'
      BY <2>1, <2>3, <3>2, <3>4, <3>5 DEF Looked
    <3> QED BY <1>0, <2>1, <2>4, <3>6
  <2> QED BY <2>6, <2>7
<1>6. CASE RequestFlushIfNeeded(p)
  <2> DEFINE needed == /\ QuarterCrossed(pBegin[p], writePos[p])
                       /\ HalfFull(writePos[p], readPos[p])
  <2>1. /\ UNCHANGED <<writePos, readPos, snapPos, pBegin, passVars, bg, dataReady>>
        /\ pState[p] = "request"
        /\ pState' = [pState EXCEPT ![p] = IF needed THEN "requested" ELSE "idle"]
    BY <1>6 DEF RequestFlushIfNeeded, coreVars
  <2>2. Others
    BY <1>t, <2>1 DEF LookedOf
  <2>3. (Crossed(p)' <=> Crossed(p)) /\ (WillLook(p) => WillLook(p)')
    BY <2>1 DEF Crossed, Moved, WillLook, passVars
  <2>4. QuarterCrossed(pBegin[p], writePos[p]) <=> Crossed(p)
    BY <1>t, <2>1, CrossedIs DEF CallMoves
  <2>5. ~HalfFull(writePos[p], readPos[p]) => Roomy(writePos[p], readPos[p])
    BY <1>r, HalfIs
  <2>6. pState'[p] # "requested" => ~needed
    BY <1>t, <2>1
  <2>7. Looked(p)'
    BY <1>t, <2>1, <2>3, <2>4, <2>5, <2>6 DEF Looked
  <2> QED BY <1>0, <2>1, <2>2, <2>7
<1> QED BY <1>1, <1>2, <1>3, <1>4, <1>5, <1>6 DEF ContinueCall

\* The steps of a pass: the thread comes by every buffer.
LEMMA PassQuarterI == ASSUME IInv, RingI, QuarterI, PassStep PROVE QuarterI'
<1>t. /\ RingTypes /\ PassHolder /\ PassAtBuffer /\ cur \in Producers \cup {None}
      /\ pState \in [Producers -> {"idle", "update", "lock", "notify", "wait", "asleep",
                               "woken", "write", "request", "requested"}]
      /\ \A p \in Producers : Looked(p)
  BY DEF RingI, IInv, Types, QuarterI
<1>1. ASSUME NEW x \in Producers, VisitBuffer(x), NEW p \in Producers PROVE Looked(p)'
  <2>1. /\ UNCHANGED <<bufVars, prodVars, coreVars, holder>>
        /\ step = "next" /\ step' = "decide" /\ cur' = x /\ todo' = todo \ {x}
    BY <1>1 DEF VisitBuffer
  <2>2. WillLook(p) => WillLook(p)'
    BY <2>1 DEF WillLook, bufVars, coreVars
  <2>3. UNCHANGED LookedOf(p)
    BY <2>1 DEF LookedOf, bufVars, prodVars
  <2> QED BY <1>t, <2>2, <2>3, LookedKept
<1>2. ASSUME DecideBuffer, NEW p \in Producers PROVE Looked(p)'
  <2>1. /\ UNCHANGED <<bufVars, prodVars, coreVars, holder, todo, cur>> /\ step = "decide"
        /\ step' = "read" \/ (step' = "next" /\ ~HalfFull(writePos[cur], readPos[cur]))
    BY <1>2 DEF DecideBuffer
  <2>2. UNCHANGED LookedOf(p)
    BY <2>1 DEF LookedOf, bufVars, prodVars
  <2>3. CASE WillLook(p) => WillLook(p)'
    BY <1>t, <2>2, <2>3, LookedKept
  <2>4. CASE ~(WillLook(p) => WillLook(p)')
    <3>1. cur = p /\ step' = "next"
      BY <2>1, <2>4 DEF WillLook, bufVars, coreVars
    <3>2. Roomy(writePos[p], readPos[p])
      BY <2>1, <3>1, RingIs, HalfIs
    <3>3. Looked(p)'
      BY <2>1, <3>2 DEF Looked, Roomy, bufVars
    <3> QED BY <3>3
  <2> QED BY <2>3, <2>4
<1>3. ASSUME ReadBuffer, NEW p \in Producers PROVE Looked(p)'
  <2>1. /\ UNCHANGED <<writePos, snapPos, prodVars, coreVars, holder, todo, cur>>
        /\ readPos' = [readPos EXCEPT ![cur] = snapPos[cur]]
        /\ step = "read" /\ holder # None
    BY <1>3, <1>t DEF ReadBuffer, PassHolder
  <2>2. CASE p # cur
    <3>1. UNCHANGED LookedOf(p)
      BY <1>t, <2>1, <2>2 DEF LookedOf, RingTypes, prodVars
    <3>2. WillLook(p) => WillLook(p)'
      BY <2>1, <2>2 DEF WillLook, coreVars
    <3> QED BY <1>t, <3>1, <3>2, LookedKept
  <2>3. CASE p = cur
    <3>1. /\ writePos[p] \in Pos /\ readPos[p] \in Pos /\ snapPos[p] \in Pos
          /\ Fills(p) \in Nat /\ Fills(p) <= Size /\ Size \in Nat
      BY RingIs
    <3>2. readPos'[p] = snapPos[p]
      BY <1>t, <2>1, <2>3 DEF RingTypes
    <3>3. Roomy(writePos[p], readPos[p]) => Roomy(writePos[p], snapPos[p])
      <4>1. Fill(snapPos[p], readPos[p]) <= Fills(p)
        BY <2>1 DEF RingI, SnapBehind
      <4>2. /\ Fill(snapPos[p], readPos[p]) \in Nat
            /\ Fill(writePos[p], snapPos[p]) \in Nat
            /\ Fills(p) = Fill(snapPos[p], readPos[p]) + Fill(writePos[p], snapPos[p])
        BY <3>1, <4>1, FillAdds DEF Fills
      <4>3. Off(writePos[p]) \in Nat /\ Quarter \in Nat
        BY <3>1, QuarterIs, OffIs
      <4> QED BY <4>2, <4>3 DEF Roomy, Fills
    <3>4. Near(writePos[p], snapPos[p]) => Roomy(writePos[p], snapPos[p])
      BY <3>1, NearRoomy
    <3>5. Crossed(p)' <=> Crossed(p)
      BY <2>1 DEF Crossed, Moved, prodVars
    <3>6. WillLook(p) => Roomy(writePos[p], snapPos[p]) \/ WillLook(p)'
      BY <2>1, <3>4 DEF WillLook, coreVars
    <3> QED BY <1>t, <2>1, <3>2, <3>3, <3>5, <3>6 DEF Looked, prodVars
  <2> QED BY <2>2, <2>3
<1>4. ASSUME WakeProducer, NEW p \in Producers PROVE Looked(p)'
  <2>1. /\ UNCHANGED <<writePos, readPos, snapPos, pBegin, coreVars, holder, todo, cur>>
        /\ pState' = [pState EXCEPT ![cur] = IF @ = "asleep" THEN "woken" ELSE @]
        /\ step = "wake" /\ step' = "after"
    BY <1>4 DEF WakeProducer
  <2>2. pState'[p] = pState[p] \/ (pState[p] = "asleep" /\ pState'[p] = "woken")
    BY <1>t, <2>1
  <2>3. (Crossed(p)' <=> Crossed(p)) /\ (WillLook(p) => WillLook(p)')
    BY <2>1 DEF Crossed, Moved, WillLook, coreVars
  <2> QED BY <1>t, <2>1, <2>2, <2>3 DEF Looked
<1>5. ASSUME AfterRead, NEW p \in Producers PROVE Looked(p)'
  <2>1. /\ UNCHANGED <<bufVars, prodVars, coreVars, holder, cur>>
        /\ todo \subseteq todo' /\ step = "after"
    BY <1>5, <1>t DEF AfterRead, RingTypes
  <2>2. WillLook(p) => WillLook(p)'
    BY <2>1 DEF WillLook, bufVars, coreVars
  <2>3. UNCHANGED LookedOf(p)
    BY <2>1 DEF LookedOf, bufVars, prodVars
  <2> QED BY <1>t, <2>2, <2>3, LookedKept
<1> QED BY <1>1, <1>2, <1>3, <1>4, <1>5 DEF PassStep, QuarterI

\* The background thread and the threads that call the core.
LEMMA CoreQuarterI ==
  ASSUME IInv, RingI, QuarterI,
         Background \/ BgWake \/ UserFlush \/ UserBegin \/ UserEnd \/ Stop \/ Joined \/ Start
  PROVE  QuarterI'
<1>t. /\ RingTypes /\ PassHolder /\ PassOfBackground /\ StoppedIsExited
      /\ \A p \in Producers : Looked(p)
  BY DEF RingI, IInv, QuarterI
<1>0. ASSUME UNCHANGED <<writePos, readPos, prodVars>>,
             \A p \in Producers : WillLook(p) => WillLook(p)'
      PROVE  QuarterI'
  <2>1. ASSUME NEW p \in Producers PROVE Looked(p)'
    <3>1. UNCHANGED LookedOf(p)
      BY <1>0 DEF LookedOf, prodVars
    <3> QED BY <1>t, <1>0, <3>1, LookedKept
  <2> QED BY <2>1 DEF QuarterI
<1>1. CASE BgBegin
  <2>1. /\ UNCHANGED <<writePos, readPos, prodVars>> /\ snapPos' = writePos
        /\ holder' = "bg" /\ todo' = Producers
    BY <1>1 DEF BgBegin, BeginPass
  <2>2. ASSUME NEW p \in Producers PROVE WillLook(p)'
    <3>1. Near(writePos[p], writePos[p])
      BY RingIs, FillZero, OffIs DEF Near
    <3> QED BY <2>1, <3>1 DEF WillLook
  <2> QED BY <1>0, <2>1, <2>2
<1>2. CASE UserBegin
  <2>1. /\ UNCHANGED <<writePos, readPos, prodVars, bg, dataReady>> /\ holder = None
    BY <1>2 DEF UserBegin, BeginPass
  <2>2. \A p \in Producers : WillLook(p) => WillLook(p)'
    BY <2>1 DEF WillLook, None
  <2> QED BY <1>0, <2>1, <2>2
<1>3. CASE BgEnd
  <2>1. /\ UNCHANGED <<writePos, readPos, prodVars, dataReady>>
        /\ step = "next" /\ todo = {} /\ bg \in {"pass", "stoppass", "lastpass"}
    BY <1>3 DEF BgEnd, EndPass, bufVars
  <2>2. \A p \in Producers : WillLook(p) => WillLook(p)'
    BY <2>1 DEF WillLook
  <2> QED BY <1>0, <2>1, <2>2
<1>4. CASE UserEnd
  <2>1. /\ UNCHANGED <<writePos, readPos, prodVars, dataReady, bg>> /\ holder = "user"
    BY <1>4 DEF UserEnd, EndPass, bufVars
  <2>2. \A p \in Producers : WillLook(p) => WillLook(p)'
    BY <2>1 DEF WillLook
  <2> QED BY <1>0, <2>1, <2>2
<1>5. ASSUME NEW poll \in Timed, NEW sinks \in Timed, BgCheck(poll, sinks) PROVE QuarterI'
  <2>1. /\ UNCHANGED <<bufVars, prodVars, passVars>> /\ bg = "check"
        /\ \/ bg' \in {"ready", "poll", "sinks", "stopping"}
           \/ bg' = "asleep" /\ ~dataReady
    BY <1>5 DEF BgCheck
  <2>2. holder # "bg"
    BY <1>t, <2>1 DEF PassOfBackground
  <2>3. \A p \in Producers : WillLook(p) => WillLook(p)'
    BY <2>1, <2>2 DEF WillLook
  <2> QED BY <1>0, <2>1, <2>3 DEF bufVars
<1>6. CASE BgWake \/ UserFlush \/ Stop \/ Joined \/ Start
  <2>1. /\ UNCHANGED <<bufVars, prodVars, passVars, dataReady>>
        /\ \/ bg' = bg
           \/ bg \in {"asleep", "exited"}
    BY <1>6, <1>t DEF BgWake, UserFlush, Stop, Joined, Start, StoppedIsExited
  <2>2. \A p \in Producers : WillLook(p) => WillLook(p)'
    BY <2>1 DEF WillLook, bufVars, passVars
  <2> QED BY <1>0, <2>1, <2>2 DEF bufVars
<1> QED BY <1>1, <1>2, <1>3, <1>4, <1>5, <1>6 DEF Background

\* Every step preserves the invariant of the quarters.
LEMMA NextQuarterI == IInv /\ RingI /\ QuarterI /\ SmallMessages /\ [Next]_vars => QuarterI'
<1> SUFFICES ASSUME IInv, RingI, QuarterI, SmallMessages, [Next]_vars PROVE QuarterI'
  OBVIOUS
<1>1. CASE Next
  BY <1>1, CallQuarterI, PassQuarterI, CoreQuarterI DEF Next
<1>2. CASE UNCHANGED vars
  BY <1>2 DEF vars, bufVars, prodVars, coreVars, passVars, QuarterI, Looked, Crossed, Moved,
     Roomy, WillLook, Near
<1> QED BY <1>1, <1>2

\* All of it holds throughout.
LEMMA RingStays == SmallMessages => (Spec => [](IInv /\ RingI /\ QuarterI))
<1> SUFFICES ASSUME SmallMessages PROVE Spec => [](IInv /\ RingI /\ QuarterI)
  OBVIOUS
<1>1. Init => IInv /\ RingI /\ QuarterI
  BY InitIInv, InitRingI, InitQuarterI
<1>2. (IInv /\ RingI /\ QuarterI) /\ [Next]_vars => (IInv /\ RingI /\ QuarterI)'
  BY NextIInv, NextRingI, NextQuarterI
<1> QED BY <1>1, <1>2, PTL DEF Spec

\* The background thread never sleeps over a buffer that is three quarters
\* full, if no message is larger than a quarter of the ring.
THEOREM SleepLeavesRoom == SmallMessages => (Spec => []SleepsOnlyIfRoom)
<1> SUFFICES ASSUME SmallMessages PROVE Spec => []SleepsOnlyIfRoom
  OBVIOUS
<1>1. IInv /\ RingI /\ QuarterI => SleepsOnlyIfRoom
  <2> SUFFICES ASSUME IInv, RingI, QuarterI, bg = "asleep", NEW p \in Producers,
                      pState[p] = "idle", Policy[p] # "lowlatency"
               PROVE  4 * Fill(writePos[p], readPos[p]) < 3 * Size
    BY DEF SleepsOnlyIfRoom
  <2>1. ~WillLook(p)
    BY DEF WillLook, IInv, AsleepNotNotified, PassOfBackground
  <2>2. Roomy(writePos[p], readPos[p])
    BY <2>1 DEF QuarterI, Looked
  <2>3. /\ Fills(p) \in Nat /\ Quarter \in Nat /\ Size = 4 * Quarter
        /\ Off(writePos[p]) \in 0 .. Quarter - 1
    BY RingIs, QuarterIs, OffIs
  <2> QED BY <2>2, <2>3 DEF Roomy, Fills
<1>2. Spec => [](IInv /\ RingI /\ QuarterI)
  BY RingStays
<1> QED BY <1>1, <1>2, PTL

\* A message of the nonguaranteed policy is dropped only while the background
\* thread is awake, if no message is larger than a quarter of the ring.
THEOREM DropFindsCoreAwake == SmallMessages => (Spec => DropWakesCore)
<1> SUFFICES ASSUME SmallMessages PROVE Spec => DropWakesCore
  OBVIOUS
<1> DEFINE Drop == \A p \in Producers :
             dropped'[p] # dropped[p] /\ Policy[p] = "nonguaranteed" => bg' # "asleep"
<1>1. IInv /\ RingI /\ QuarterI /\ [Next]_vars => [Drop]_vars
  <2> SUFFICES ASSUME IInv, RingI, QuarterI, Next, NEW p \in Producers,
                      dropped'[p] # dropped[p], Policy[p] = "nonguaranteed"
               PROVE  bg' # "asleep"
    OBVIOUS
  <2>1. PICK x \in Producers : UpdateState(x) /\ dropped' # dropped
    <3>1. dropped' # dropped
      OBVIOUS
    <3>2. CASE \/ PassStep
               \/ Background \/ BgWake \/ UserFlush \/ UserBegin \/ UserEnd
               \/ Stop \/ Joined \/ Start
      BY <3>1, <3>2, Zenon DEF PassStep, VisitBuffer, DecideBuffer, ReadBuffer, WakeProducer, AfterRead,
         Background, BgCheck, BgBegin, BgEnd, BgWake, UserFlush, UserBegin, UserEnd, Stop,
         Joined, Start, EndPass, prodVars
    <3>3. ASSUME NEW q \in Producers,
                 (\E size \in MsgSizes : LogCall(q, size)) \/ SpuriousWake(q) \/ ContinueCall(q)
          PROVE  UpdateState(q)
      BY <3>1, <3>3, Zenon DEF LogCall, SpuriousWake, ContinueCall, RequestAndLock, NotifyFromWait,
         SleepProducer, Recheck, WriteMessage, RequestFlushIfNeeded, NotifyFromRequest
    <3> QED BY <3>1, <3>2, <3>3 DEF Next
  <2> DEFINE u == ProducerUpdate(writePos[x], readPos[x], pSize[x])
  <2>2. /\ pState[x] = "update" /\ ~(u.writeable >= pSize[x]) /\ UNCHANGED coreVars
        /\ dropped' = [dropped EXCEPT ![x] = @ + 1]
    BY <2>1 DEF UpdateState
  <2>3. x = p
    BY <2>2
  <2>4. u.writeable < pSize[p]
    <3>1. pSize[p] \in MsgSizes /\ writePos[p] \in Pos /\ readPos[p] \in Pos /\ Fills(p) <= Size
      BY <2>2, <2>3, RingIs DEF RingI, Room
    <3>2. pSize[p] \in 1 .. Size /\ pSize[p] \in Nat /\ Size \in Nat
      BY <3>1, SizesAre, QuarterIs
    <3>3. u.writeable \in 0 .. Size
      BY <2>3, <3>1, <3>2, UpdateIs DEF Fills
    <3> QED BY <2>2, <2>3, <3>2, <3>3
  <2>5. WillLook(p)
    BY <2>2, <2>3, <2>4, DropLooks
  <2> QED BY <2>2, <2>5 DEF WillLook, IInv, AsleepNotNotified, PassOfBackground, coreVars
<1>2. Spec => [](IInv /\ RingI /\ QuarterI)
  BY RingStays
<1> QED BY <1>1, <1>2, PTL DEF Spec, DropWakesCore

-----------------------------------------------------------------------------
(***************************************************************************)
(* How often a guaranteed call waits.  Behind a wait there are as many     *)
(* more as the current pass may still wake the producer for nothing, and   *)
(* three if the end of the ring may still have to be given up.             *)
(***************************************************************************)

\* The snapshot of the pass is not the producer's position any more.
Late(p) == holder # None /\ snapPos[p] # writePos[p]

\* How often the pass may still wake p: now or later in this round over the
\* buffers, and once more if it starts over.
Visits(p) == (IF p \in todo \/ (cur = p /\ step \in {"decide", "read", "wake"}) THEN 1 ELSE 0)
             + (IF flushAll THEN 0 ELSE 1)

\* The waits that may be ahead of p behind the one it is in ...
Behind(p) == (IF IndexOf(writePos[p]) = 0 THEN 0 ELSE 3) + (IF Late(p) THEN Visits(p) ELSE 0)

\* ... and of p while it looks: an empty buffer needs no wait.
Ahead(p) == Behind(p) + (IF readPos[p] = writePos[p] THEN 0 ELSE 1)

\* A buffer has been read when its producer is woken, and counts as visited.
ReadThenWake == /\ step = "wake" => readPos[cur] = snapPos[cur]
                /\ step \in {"decide", "read", "wake"} => cur \notin todo

\* The waits behind p and ahead of it are six at most.
CallWaits(p) ==
  /\ pState[p] = "update" \/ (pState[p] = "woken" /\ ~flushReq[p]) => waits[p] + Ahead(p) <= 6
  /\ pState[p] = "lock" => waits[p] + 1 + Behind(p) <= 6
  /\ pState[p] \in {"notify", "wait", "asleep"} \/ (pState[p] = "woken" /\ flushReq[p]) =>
       waits[p] + Behind(p) <= 6

\* The invariant of the waits.
WaitsI == /\ waits \in [Producers -> 0 .. 6]
          /\ ReadThenWake
          /\ \A p \in Producers : CallWaits(p)

\* These are small numbers.
LEMMA AheadIs ==
  ASSUME NEW p \in Producers
  PROVE  /\ Visits(p) \in 0 .. 2 /\ Visits(p)' \in 0 .. 2
         /\ Behind(p) \in 0 .. 5 /\ Behind(p)' \in 0 .. 5
         /\ Ahead(p) \in 0 .. 6 /\ Ahead(p)' \in 0 .. 6
BY DEF Visits, Behind, Ahead

\* A step that brings no new wait about.
LEMMA WaitsKept ==
  ASSUME NEW p \in Producers, waits[p] \in 0 .. 6, CallWaits(p),
         UNCHANGED <<pState[p], flushReq[p], waits[p]>>,
         Behind(p)' <= Behind(p), Ahead(p)' <= Ahead(p)
  PROVE  CallWaits(p)'
BY AheadIs DEF CallWaits

\* What the number of waits depends on, besides the pass.
WaitsOf(p) == <<pState[p], flushReq[p], waits[p], writePos[p], readPos[p], snapPos[p]>>

\* A step of a pass that leaves the buffer alone and visits it no more often
\* than expected.
LEMMA VisitsKept ==
  ASSUME NEW p \in Producers, waits[p] \in 0 .. 6, CallWaits(p), UNCHANGED WaitsOf(p),
         UNCHANGED holder, Visits(p)' <= Visits(p)
  PROVE  CallWaits(p)'
<1>1. Behind(p)' <= Behind(p)
  BY AheadIs DEF WaitsOf, Behind, Late
<1>2. Ahead(p)' <= Ahead(p)
  BY <1>1, AheadIs DEF WaitsOf, Ahead
<1> QED BY <1>1, <1>2, WaitsKept DEF WaitsOf

\* A call that does not fit was counted on to wait: it gives up the end of
\* the ring, or it has found the buffer not empty.
LEMMA UpdateWaits ==
  ASSUME RingI, NEW p \in Producers, pState[p] = "update",
         UNCHANGED <<readPos, snapPos, passVars>>,
         ProducerUpdate(writePos[p], readPos[p], pSize[p]).writeable < pSize[p],
         writePos'[p] = ProducerUpdate(writePos[p], readPos[p], pSize[p]).write
  PROVE  1 + Behind(p)' <= Ahead(p)
<1> DEFINE u == ProducerUpdate(writePos[p], readPos[p], pSize[p])
<1>1. /\ writePos[p] \in Pos /\ readPos[p] \in Pos /\ Fill(writePos[p], readPos[p]) <= Size
      /\ pSize[p] \in 1 .. Size
  BY RingIs, SizesAre DEF Fills, RingI, Room
<1>2. /\ Fill(u.write, readPos[p]) > Size - pSize[p]
      /\ u.write = writePos[p] \/ (IndexOf(writePos[p]) # 0 /\ IndexOf(u.write) = 0)
  BY <1>1, UpdateIs
<1> HIDE DEF u
<1>3. CASE u.write = writePos[p]
  <2>1. readPos[p] # writePos[p]
    <3>1. Size - pSize[p] >= 0
      BY <1>1, SizeAssumption
    <3>2. Fill(readPos[p], readPos[p]) = 0
      BY <1>1, FillZero
    <3> QED BY <1>1, <1>2, <1>3, <3>1, <3>2, SizeAssumption
  <2>2. Behind(p)' = Behind(p)
    BY <1>3 DEF Behind, Late, Visits, passVars, u
  <2> QED BY <2>1, <2>2, AheadIs DEF Ahead
<1>4. CASE IndexOf(writePos[p]) # 0 /\ IndexOf(u.write) = 0
  <2>1. Behind(p)' <= 2
    BY <1>4, AheadIs DEF Behind, u
  <2>2. Ahead(p) >= 3
    BY <1>4, AheadIs DEF Behind, Ahead
  <2> QED BY <2>1, <2>2, AheadIs
<1> QED BY <1>2, <1>3, <1>4

\* Initially nobody has waited.
LEMMA InitWaitsI == Init => WaitsI
  BY DEF Init, WaitsI, ReadThenWake, CallWaits

\* The steps of a log call.
LEMMA CallWaitsI ==
  ASSUME IInv, RingI, WaitsI, NEW p \in Producers,
         (\E size \in MsgSizes : LogCall(p, size)) \/ ContinueCall(p) \/ SpuriousWake(p)
  PROVE  WaitsI'
<1> DEFINE Others == \A x \in Producers : x # p => UNCHANGED WaitsOf(x)
<1>t. /\ pState \in [Producers -> {"idle", "update", "lock", "notify", "wait", "asleep",
                               "woken", "write", "request", "requested"}]
      /\ flushReq \in [Producers -> BOOLEAN] /\ waits \in [Producers -> 0 .. 6]
      /\ writePos \in [Producers -> Pos] /\ waits[p] \in 0 .. 6 /\ CallWaits(p)
  BY DEF IInv, Types, WaitsI, RingI, RingTypes
<1>0. ASSUME UNCHANGED <<readPos, snapPos, passVars>>, Others, CallWaits(p)',
             waits' \in [Producers -> 0 .. 6]
      PROVE  WaitsI'
  <2>1. ASSUME NEW x \in Producers, x # p PROVE CallWaits(x)'
    <3>1. UNCHANGED WaitsOf(x) /\ UNCHANGED passVars /\ CallWaits(x)
      BY <1>0, <2>1 DEF WaitsI
    <3> QED BY <3>1 DEF CallWaits, WaitsOf, Ahead, Behind, Late, Visits, passVars
  <2>2. ReadThenWake'
    BY <1>0 DEF ReadThenWake, WaitsI, passVars
  <2> QED BY <1>0, <2>1, <2>2 DEF WaitsI
<1>1. ASSUME NEW size \in MsgSizes, LogCall(p, size) PROVE WaitsI'
  <2>1. /\ UNCHANGED <<bufVars, passVars>> /\ waits' = [waits EXCEPT ![p] = 0]
        /\ \E s \in {"write", "update"} : pState' = [pState EXCEPT ![p] = s]
    BY <1>1 DEF LogCall
  <2>2. Others
    BY <1>t, <2>1 DEF WaitsOf, bufVars
  <2>3. CallWaits(p)'
    BY <1>t, <2>1, AheadIs DEF CallWaits
  <2>4. waits' \in [Producers -> 0 .. 6]
    BY <1>t, <2>1
  <2> QED BY <1>0, <2>1, <2>2, <2>3, <2>4 DEF bufVars
<1>2. CASE UpdateState(p)
  <2> DEFINE u == ProducerUpdate(writePos[p], readPos[p], pSize[p])
  <2>1. /\ UNCHANGED <<readPos, snapPos, flushReq, waits, passVars>> /\ pState[p] = "update"
        /\ writePos' = [writePos EXCEPT ![p] = u.write]
        /\ \E s \in {"write", "lock", "idle"} :
             /\ pState' = [pState EXCEPT ![p] = s]
             /\ s = "lock" => ~(u.writeable >= pSize[p])
    BY <1>2 DEF UpdateState
  <2>2. PICK s \in {"write", "lock", "idle"} :
             /\ pState' = [pState EXCEPT ![p] = s]
             /\ s = "lock" => ~(u.writeable >= pSize[p])
    BY <2>1
  <2>3. Others
    BY <1>t, <2>1, <2>2 DEF WaitsOf
  <2>4. writePos'[p] = u.write /\ pState'[p] = s
    BY <1>t, <2>1, <2>2
  <2>5. u.writeable \in Nat /\ pSize[p] \in Nat
    <3>1. /\ writePos[p] \in Pos /\ readPos[p] \in Pos
          /\ Fill(writePos[p], readPos[p]) <= Size /\ pSize[p] \in 1 .. Size
      BY <2>1, RingIs, SizesAre DEF Fills, RingI, Room
    <3>2. u.writeable \in 0 .. Size
      BY <3>1, UpdateIs
    <3> HIDE DEF u
    <3> QED BY <3>1, <3>2
  <2>6. CallWaits(p)'
    <3>1. CASE s = "lock"
      <4> HIDE DEF u
      <4>1. u.writeable < pSize[p]
        BY <2>2, <2>5, <3>1
      <4>2. 1 + Behind(p)' <= Ahead(p)
        BY <2>1, <2>4, <4>1, UpdateWaits DEF u
      <4>3. waits[p] + Ahead(p) <= 6 /\ waits'[p] = waits[p]
        BY <1>t, <2>1 DEF CallWaits
      <4>4. waits[p] + 1 + Behind(p)' <= 6
        BY <1>t, <4>2, <4>3, AheadIs
      <4> QED BY <2>4, <3>1, <4>3, <4>4 DEF CallWaits
    <3>2. CASE s # "lock"
      BY <2>2, <2>4, <3>2 DEF CallWaits
    <3> QED BY <3>1, <3>2
  <2> QED BY <1>0, <1>t, <2>1, <2>3, <2>6
<1>3. CASE RequestAndLock(p)
  <2>1. /\ UNCHANGED <<writePos, readPos, snapPos, passVars>> /\ pState[p] = "lock"
        /\ flushReq' = [flushReq EXCEPT ![p] = TRUE]
        /\ waits' = [waits EXCEPT ![p] = waits[p] + 1]
        /\ pState' = [pState EXCEPT ![p] = "notify"]
    BY <1>3 DEF RequestAndLock
  <2>2. Others
    BY <1>t, <2>1 DEF WaitsOf
  <2>3. Behind(p)' = Behind(p)
    BY <2>1 DEF Behind, Late, Visits, passVars
  <2>4. waits[p] + 1 + Behind(p) <= 6 /\ waits[p] + 1 \in 0 .. 6
    BY <1>t, <2>1, AheadIs DEF CallWaits
  <2>5. pState'[p] = "notify" /\ waits'[p] = waits[p] + 1 /\ waits' \in [Producers -> 0 .. 6]
    BY <1>t, <2>1, <2>4
  <2>6. CallWaits(p)'
    BY <2>3, <2>4, <2>5 DEF CallWaits
  <2> QED BY <1>0, <2>1, <2>2, <2>5, <2>6
<1>4. CASE NotifyFromWait(p) \/ SleepProducer(p) \/ SpuriousWake(p) \/ Recheck(p)
  <2>1. /\ UNCHANGED <<bufVars, waits, passVars>>
        /\ \E s \in {"wait", "asleep", "woken", "update"} :
             /\ pState' = [pState EXCEPT ![p] = s]
             /\ s = "wait" => pState[p] = "notify"
             /\ s = "asleep" => pState[p] = "wait" \/ (pState[p] = "woken" /\ flushReq[p])
             /\ s = "woken" => pState[p] = "asleep"
             /\ s = "update" => pState[p] = "woken" /\ ~flushReq[p]
    BY <1>4, Zenon DEF NotifyFromWait, SleepProducer, SpuriousWake, Recheck
  <2>2. PICK s \in {"wait", "asleep", "woken", "update"} :
             /\ pState' = [pState EXCEPT ![p] = s]
             /\ s = "wait" => pState[p] = "notify"
             /\ s = "asleep" => pState[p] = "wait" \/ (pState[p] = "woken" /\ flushReq[p])
             /\ s = "woken" => pState[p] = "asleep"
             /\ s = "update" => pState[p] = "woken" /\ ~flushReq[p]
    BY <2>1
  <2>3. pState[p] = "asleep" => flushReq[p]
    BY DEF IInv, RequestsStand
  <2>4. /\ Behind(p)' = Behind(p) /\ Ahead(p)' = Ahead(p) /\ pState'[p] = s
        /\ flushReq'[p] = flushReq[p] /\ waits'[p] = waits[p]
    BY <1>t, <2>1, <2>2 DEF Ahead, Behind, Late, Visits, passVars, bufVars
  <2>5. Others
    BY <1>t, <2>1, <2>2 DEF WaitsOf, bufVars
  <2>6. CallWaits(p)'
    BY <1>t, <2>2, <2>3, <2>4 DEF CallWaits
  <2> QED BY <1>0, <1>t, <2>1, <2>5, <2>6 DEF bufVars
<1>5. CASE WriteMessage(p) \/ RequestFlushIfNeeded(p) \/ NotifyFromRequest(p)
  <2>1. /\ UNCHANGED <<readPos, snapPos, waits, passVars>>
        /\ \E w : writePos' = [writePos EXCEPT ![p] = w]
        /\ \E f : flushReq' = [flushReq EXCEPT ![p] = f]
        /\ \E s \in {"idle", "request", "requested"} : pState' = [pState EXCEPT ![p] = s]
    <3>1. writePos = [writePos EXCEPT ![p] = writePos[p]]
      BY <1>t
    <3>2. flushReq = [flushReq EXCEPT ![p] = flushReq[p]]
      BY <1>t
    <3>3. CASE WriteMessage(p)
      BY <3>2, <3>3 DEF WriteMessage
    <3>4. CASE RequestFlushIfNeeded(p)
      BY <3>1, <3>4 DEF RequestFlushIfNeeded
    <3>5. CASE NotifyFromRequest(p)
      BY <3>1, <3>2, <3>5 DEF NotifyFromRequest, bufVars
    <3> QED BY <1>5, <3>3, <3>4, <3>5
  <2>2. Others
    BY <1>t, <2>1 DEF WaitsOf
  <2>3. CallWaits(p)'
    BY <1>t, <2>1 DEF CallWaits
  <2> QED BY <1>0, <1>t, <2>1, <2>2, <2>3
<1> QED BY <1>1, <1>2, <1>3, <1>4, <1>5 DEF ContinueCall

\* The steps of a pass: only a pass with an old snapshot wakes in vain.
LEMMA PassWaitsI == ASSUME IInv, RingI, WaitsI, PassStep PROVE WaitsI'
<1>t. /\ RingTypes /\ PassHolder /\ PassAtBuffer /\ ReadThenWake
      /\ cur \in Producers \cup {None}
      /\ pState \in [Producers -> {"idle", "update", "lock", "notify", "wait", "asleep",
                               "woken", "write", "request", "requested"}]
      /\ flushReq \in [Producers -> BOOLEAN] /\ waits \in [Producers -> 0 .. 6]
      /\ \A p \in Producers : waits[p] \in 0 .. 6 /\ CallWaits(p)
  BY DEF RingI, IInv, Types, WaitsI
<1>1. CASE (\E x \in Producers : VisitBuffer(x)) \/ DecideBuffer \/ AfterRead
  <2>1. UNCHANGED <<bufVars, prodVars, holder>> /\ step' # "wake"
    BY <1>1, Zenon DEF VisitBuffer, DecideBuffer, AfterRead
  <2>2. ReadThenWake'
    BY <1>1, <1>t DEF ReadThenWake, VisitBuffer, DecideBuffer, AfterRead
  <2>3. ASSUME NEW p \in Producers PROVE Visits(p)' <= Visits(p)
    <3>1. ASSUME NEW x \in Producers, VisitBuffer(x) PROVE Visits(p)' <= Visits(p)
      BY <3>1 DEF VisitBuffer, Visits
    <3>2. CASE DecideBuffer
      BY <3>2 DEF DecideBuffer, Visits
    <3>3. CASE AfterRead
      <4>1. /\ p \in todo' => p \in todo \/ (~flushAll /\ flushAll')
            /\ flushAll => flushAll'
            /\ step' = "next"
        BY <3>3 DEF AfterRead
      <4> QED BY <4>1 DEF Visits
    <3> QED BY <1>1, <3>1, <3>2, <3>3
  <2>4. ASSUME NEW p \in Producers PROVE CallWaits(p)'
    <3>1. UNCHANGED WaitsOf(p)
      BY <2>1 DEF WaitsOf, bufVars, prodVars
    <3> QED BY <1>t, <2>1, <2>3, <3>1, VisitsKept
  <2> QED BY <1>t, <2>1, <2>2, <2>4 DEF WaitsI, prodVars
<1>2. CASE ReadBuffer
  <2>1. /\ UNCHANGED <<writePos, snapPos, flushReq, prodVars, holder, todo, cur, flushAll>>
        /\ readPos' = [readPos EXCEPT ![cur] = snapPos[cur]]
        /\ step = "read" /\ step' \in {"wake", "after"}
    BY <1>2 DEF ReadBuffer
  <2>2. cur \in Producers /\ holder # None
    BY <1>t, <2>1 DEF PassHolder, PassAtBuffer
  <2>3. PICK q \in Producers : q = cur
    BY <2>2
  <2>4. readPos'[q] = snapPos[q] /\ \A p \in Producers : p # q => readPos'[p] = readPos[p]
    BY <1>t, <2>1, <2>3 DEF RingTypes
  <2>5. ReadThenWake'
    BY <1>t, <2>1, <2>3, <2>4 DEF ReadThenWake
  <2>6. ASSUME NEW p \in Producers PROVE Visits(p)' <= Visits(p)
    BY <2>1 DEF Visits
  <2>7. ASSUME NEW p \in Producers, p # q PROVE CallWaits(p)'
    <3>1. UNCHANGED WaitsOf(p)
      BY <2>1, <2>4, <2>7 DEF WaitsOf, prodVars
    <3> QED BY <1>t, <2>1, <2>6, <3>1, VisitsKept
  <2>8. CallWaits(q)'
    <3>1. Behind(q)' <= Behind(q)
      BY <2>1, <2>6, AheadIs DEF Behind, Late
    <3>2. readPos[q] = writePos[q] => snapPos[q] = writePos[q]
      <4>1. /\ writePos[q] \in Pos /\ readPos[q] \in Pos /\ snapPos[q] \in Pos
        BY RingIs
      <4>2. Fill(snapPos[q], readPos[q]) <= Fills(q)
        BY <2>2 DEF RingI, SnapBehind
      <4>3. Fill(snapPos[q], readPos[q]) \in Nat
        BY <4>1, FillNat
      <4> QED BY <4>1, <4>2, <4>3, FillZero DEF Fills
    <3>3. Ahead(q)' <= Ahead(q)
      BY <2>1, <2>4, <3>1, <3>2, AheadIs DEF Ahead
    <3> QED BY <1>t, <2>1, <3>1, <3>3, WaitsKept DEF prodVars
  <2> QED BY <1>t, <2>1, <2>5, <2>7, <2>8 DEF WaitsI, prodVars
<1>3. CASE WakeProducer
  <2>1. /\ UNCHANGED <<writePos, readPos, snapPos, waits, holder, todo, cur, flushAll>>
        /\ step = "wake" /\ step' = "after" /\ ~BufferLocked(cur)
        /\ flushReq' = [flushReq EXCEPT ![cur] = FALSE]
        /\ pState' = [pState EXCEPT ![cur] = IF @ = "asleep" THEN "woken" ELSE @]
    BY <1>3 DEF WakeProducer
  <2>2. cur \in Producers /\ holder # None /\ cur \notin todo
    BY <1>t, <2>1 DEF PassHolder, PassAtBuffer, ReadThenWake
  <2>3. PICK q \in Producers : q = cur
    BY <2>2
  <2>4. /\ flushReq'[q] = FALSE
        /\ pState'[q] = IF pState[q] = "asleep" THEN "woken" ELSE pState[q]
        /\ \A p \in Producers : p # q => pState'[p] = pState[p] /\ flushReq'[p] = flushReq[p]
    BY <1>t, <2>1, <2>3
  <2>5. ReadThenWake'
    BY <2>1 DEF ReadThenWake
  <2>6. ASSUME NEW p \in Producers PROVE Visits(p)' <= Visits(p)
    BY <2>1 DEF Visits
  <2>7. ASSUME NEW p \in Producers, p # q PROVE CallWaits(p)'
    <3>1. UNCHANGED WaitsOf(p)
      BY <2>1, <2>4, <2>7 DEF WaitsOf
    <3> QED BY <1>t, <2>1, <2>6, <3>1, VisitsKept
  <2>8. CallWaits(q)'
    <3>1. Behind(q)' <= Behind(q) /\ Ahead(q)' <= Ahead(q)
      BY <2>1, <2>6, AheadIs DEF Behind, Late, Ahead
    <3>2. Ahead(q)' <= Behind(q)
      <4>1. readPos[q] = snapPos[q]
        BY <1>t, <2>1, <2>3 DEF ReadThenWake
      <4>2. CASE ~Late(q)
        BY <2>1, <2>2, <3>1, <4>1, <4>2, AheadIs DEF Late, Ahead
      <4>3. CASE Late(q)
        <5>1. Visits(q)' = Visits(q) - 1
          BY <2>1, <2>2, <2>3 DEF Visits
        <5>2. Late(q)'
          BY <2>1, <4>3 DEF Late
        <5>3. Behind(q)' = Behind(q) - 1
          BY <2>1, <4>3, <5>1, <5>2, AheadIs DEF Behind
        <5> QED BY <5>3, AheadIs DEF Ahead
      <4> QED BY <4>2, <4>3
    <3>3. waits'[q] = waits[q] /\ pState[q] \notin {"notify", "wait"}
      BY <2>1, <2>3 DEF BufferLocked
    <3> QED BY <1>t, <2>4, <3>1, <3>2, <3>3, AheadIs DEF CallWaits
  <2> QED BY <1>t, <2>1, <2>5, <2>7, <2>8 DEF WaitsI
<1> QED BY <1>1, <1>2, <1>3 DEF PassStep

\* The background thread and the threads that call the core: a pass begins
\* with a new snapshot.
LEMMA CoreWaitsI ==
  ASSUME IInv, RingI, WaitsI,
         Background \/ BgWake \/ UserFlush \/ UserBegin \/ UserEnd \/ Stop \/ Joined \/ Start
  PROVE  WaitsI'
<1>t. /\ ReadThenWake /\ waits \in [Producers -> 0 .. 6]
      /\ \A p \in Producers : waits[p] \in 0 .. 6 /\ CallWaits(p)
  BY DEF WaitsI
<1>1. CASE BgBegin \/ UserBegin \/ BgEnd \/ UserEnd
  <2>1. /\ UNCHANGED <<writePos, readPos, flushReq, prodVars>> /\ step' \in {"next", "none"}
        /\ holder' = None \/ snapPos' = writePos
    BY <1>1 DEF BgBegin, UserBegin, BgEnd, UserEnd, BeginPass, EndPass, bufVars
  <2>2. ASSUME NEW p \in Producers PROVE CallWaits(p)'
    <3>1. ~Late(p)'
      BY <2>1 DEF Late
    <3>2. Behind(p)' <= Behind(p)
      BY <2>1, <3>1, AheadIs DEF Behind
    <3>3. Ahead(p)' <= Ahead(p)
      BY <2>1, <3>2, AheadIs DEF Ahead
    <3> QED BY <1>t, <2>1, <3>2, <3>3, WaitsKept DEF prodVars
  <2> QED BY <1>t, <2>1, <2>2 DEF WaitsI, ReadThenWake, prodVars
<1>2. CASE \/ \E poll, sinks \in Timed : BgCheck(poll, sinks)
           \/ BgWake \/ UserFlush \/ Stop \/ Joined \/ Start
  <2>1. UNCHANGED <<bufVars, prodVars, passVars>>
    BY <1>2, Zenon DEF BgCheck, BgWake, UserFlush, Stop, Joined, Start
  <2> QED
    BY <2>1 DEF WaitsI, ReadThenWake, CallWaits, Ahead, Behind, Late, Visits,
       bufVars, prodVars, passVars
<1> QED BY <1>1, <1>2 DEF Background

\* Every step preserves the invariant of the waits.
LEMMA NextWaitsI == IInv /\ RingI /\ WaitsI /\ [Next]_vars => WaitsI'
<1> SUFFICES ASSUME IInv, RingI, WaitsI, [Next]_vars PROVE WaitsI'
  OBVIOUS
<1>1. CASE Next
  BY <1>1, CallWaitsI, PassWaitsI, CoreWaitsI DEF Next
<1>2. CASE UNCHANGED vars
  BY <1>2 DEF vars, bufVars, prodVars, coreVars, passVars, WaitsI, ReadThenWake, CallWaits,
     Ahead, Behind, Late, Visits
<1> QED BY <1>1, <1>2

\* A log call waits at most six times, however many producers there are and
\* whatever fits in the ring.
THEOREM CallsWaitSixTimes == Spec => []WaitsBounded
<1>1. Init => IInv /\ RingI /\ WaitsI
  BY InitIInv, InitRingI, InitWaitsI
<1>2. (IInv /\ RingI /\ WaitsI) /\ [Next]_vars => (IInv /\ RingI /\ WaitsI)'
  BY NextIInv, NextRingI, NextWaitsI
<1>3. WaitsI => WaitsBounded
  BY DEF WaitsI, WaitsBounded
<1> QED BY <1>1, <1>2, <1>3, PTL DEF Spec
=============================================================================
