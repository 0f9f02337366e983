--------------------------- MODULE FlushProtocol ---------------------------
(***************************************************************************)
(* How logging threads and the core meet: the three log policies, the      *)
(* flush_requested_ flag and the condition variable of every log buffer,   *)
(* data_ready_ and the condition variable of the background thread, the    *)
(* pass of read_buffers over the buffer store (taken by the background     *)
(* thread and by any thread that calls core::flush), and core::stop and    *)
(* core::start.                                                            *)
(*                                                                         *)
(* Data are positions only: what the messages say is the business of       *)
(* LogBuffer.  The ring is LogBuffer's (RingPos), with the publication of  *)
(* an end marker joined to the update that decides it.                     *)
(*                                                                         *)
(* A critical section that neither blocks nor calls out is one step; the   *)
(* lock it takes then needs no variable.  buffer_mutex_ is held over a     *)
(* call by wait_for_buffer_flush only (pState "notify" and "wait"), and    *)
(* bufferstore_mutex_ for a whole pass (holder).                           *)
(***************************************************************************)
EXTENDS RingPos, FiniteSets

CONSTANTS
  Producers,    \* logging threads, each with a buffer of its own
  Policy,       \* the log policy of each of them
  MsgSizes,     \* padded message sizes, at most max_message_size_
  Timed,        \* {TRUE, FALSE}: poll and sink flush times may come; {FALSE}: never
  MaxCalls,     \* bound: log calls of one producer
  MaxFlushes,   \* bound: calls of core::flush by the user thread
  MaxStops      \* bound: calls of core::stop

Policies == {"guaranteed", "nonguaranteed", "lowlatency"}

ASSUME ProducersAssumption == IsFiniteSet(Producers)
ASSUME PolicyAssumption    == Policy \in [Producers -> Policies]
ASSUME MsgSizesAssumption  == MsgSizes \subseteq 1 .. Size
ASSUME TimedAssumption     == Timed \subseteq BOOLEAN /\ FALSE \in Timed
ASSUME BoundsAssumption    == MaxCalls \in Nat /\ MaxFlushes \in Nat /\ MaxStops \in Nat

None == "none"

VARIABLES
  \* one log buffer per producer
  writePos, readPos,  \* write_pos_, read_pos_
  snapPos,            \* snapshot_write_pos_
  writeable,          \* writeable_size_
  flushReq,           \* flush_requested_
  \* one producer per buffer
  pState,             \* where it is in its log call
  pSize, pBegin,      \* size of the message, w_pos_begin
  calls,              \* log calls begun (bounded by MaxCalls)
  dropped,            \* messages counted by count_dropped
  waits,              \* times the current call entered wait_for_buffer_flush
  \* the core
  dataReady,          \* data_ready_
  stopReq,            \* background_thread_stop_requested_
  bg,                 \* where the background thread is in run()
  user,               \* where the thread calling core::flush is
  ctl,                \* where the thread calling stop and start is
  flushes, stops,     \* calls begun (bounded by MaxFlushes, MaxStops)
  \* the pass of read_buffers under bufferstore_mutex_
  holder,             \* the thread in the pass
  todo,               \* the buffers it has not visited
  cur,                \* the buffer it is at
  step,               \* where it is with that buffer
  sawReq,             \* local flush_requested
  flushAll, sinkFlush \* flush_all, sink_flush

bufVars  == <<writePos, readPos, snapPos, writeable, flushReq>>
prodVars == <<pState, pSize, pBegin, calls, dropped, waits>>
coreVars == <<dataReady, stopReq, bg, user, ctl, flushes, stops>>
passVars == <<holder, todo, cur, step, sawReq, flushAll, sinkFlush>>
vars == <<bufVars, prodVars, coreVars, passVars>>

Init ==
  /\ writePos = [p \in Producers |-> 0] /\ readPos = [p \in Producers |-> 0]
  /\ snapPos = [p \in Producers |-> 0]
  /\ writeable = [p \in Producers |-> Size]
  /\ flushReq = [p \in Producers |-> FALSE]
  /\ pState = [p \in Producers |-> "idle"]
  /\ pSize = [p \in Producers |-> 0] /\ pBegin = [p \in Producers |-> 0]
  /\ calls = [p \in Producers |-> 0] /\ dropped = [p \in Producers |-> 0]
  /\ waits = [p \in Producers |-> 0]
  /\ dataReady = FALSE /\ stopReq = FALSE
  /\ bg = "check" /\ user = "idle" /\ ctl = "running"
  /\ flushes = 0 /\ stops = 0
  /\ holder = None /\ todo = {} /\ cur = None /\ step = "none"
  /\ sawReq = FALSE /\ flushAll = FALSE /\ sinkFlush = FALSE

-----------------------------------------------------------------------------
(***************************************************************************)
(* The producer's log call.                                                *)
(***************************************************************************)

\* core_impl::notify_data_ready(), under core_mutex_.
NotifyDataReady ==
  /\ dataReady' = TRUE
  /\ bg' = IF ~dataReady /\ bg = "asleep" THEN "check" ELSE bg
  /\ UNCHANGED <<stopReq, user, ctl, flushes, stops>>

\* Only wait_for_buffer_flush keeps buffer_mutex_ from one step to the next.
BufferLocked(p) == pState[p] \in {"notify", "wait"}

LogCall(p, size) ==
  /\ pState[p] = "idle" /\ calls[p] < MaxCalls
  /\ calls' = [calls EXCEPT ![p] = @ + 1]
  /\ pSize' = [pSize EXCEPT ![p] = size]
  /\ pBegin' = [pBegin EXCEPT ![p] = writePos[p]]
  /\ waits' = [waits EXCEPT ![p] = 0]
  /\ pState' = [pState EXCEPT ![p] = IF writeable[p] >= size THEN "write" ELSE "update"]
  /\ UNCHANGED <<bufVars, dropped, coreVars, passVars>>

\* update_buffer_state() and the message_fits() after it: write, wait
\* (guaranteed), or count the message as dropped (the other policies).
UpdateState(p) ==
  /\ pState[p] = "update"
  /\ LET u    == ProducerUpdate(writePos[p], readPos[p], pSize[p])
         fits == u.writeable >= pSize[p]
     IN  /\ writePos' = [writePos EXCEPT ![p] = u.write]
         /\ writeable' = [writeable EXCEPT ![p] = u.writeable]
         /\ \/ /\ fits
               /\ pState' = [pState EXCEPT ![p] = "write"]
               /\ UNCHANGED dropped
            \/ /\ ~fits /\ Policy[p] = "guaranteed"
               /\ pState' = [pState EXCEPT ![p] = "lock"]
               /\ UNCHANGED dropped
            \/ /\ ~fits /\ Policy[p] # "guaranteed"
               /\ pState' = [pState EXCEPT ![p] = "idle"]
               /\ dropped' = [dropped EXCEPT ![p] = @ + 1]
  /\ UNCHANGED <<readPos, snapPos, flushReq, pSize, pBegin, calls, waits, coreVars, passVars>>

\* wait_for_buffer_flush(): lock buffer_mutex_ and set the flag, ...
RequestAndLock(p) ==
  /\ pState[p] = "lock"
  /\ flushReq' = [flushReq EXCEPT ![p] = TRUE]
  /\ waits' = [waits EXCEPT ![p] = @ + 1]
  /\ pState' = [pState EXCEPT ![p] = "notify"]
  /\ UNCHANGED <<writePos, readPos, snapPos, writeable, pSize, pBegin, calls, dropped,
                 coreVars, passVars>>

\* ... notify the core under the mutex, ...
NotifyFromWait(p) ==
  /\ pState[p] = "notify"
  /\ NotifyDataReady
  /\ pState' = [pState EXCEPT ![p] = "wait"]
  /\ UNCHANGED <<bufVars, pSize, pBegin, calls, dropped, waits, passVars>>

\* ... release it and sleep, ...
SleepProducer(p) ==
  /\ pState[p] = "wait"
  /\ pState' = [pState EXCEPT ![p] = "asleep"]
  /\ UNCHANGED <<bufVars, pSize, pBegin, calls, dropped, waits, coreVars, passVars>>

\* ... woken without a notification, ...
SpuriousWake(p) ==
  /\ pState[p] = "asleep"
  /\ pState' = [pState EXCEPT ![p] = "woken"]
  /\ UNCHANGED <<bufVars, pSize, pBegin, calls, dropped, waits, coreVars, passVars>>

\* ... or by one: sleep again while the flag is set, else try once more.
Recheck(p) ==
  /\ pState[p] = "woken"
  /\ pState' = [pState EXCEPT ![p] = IF flushReq[p] THEN "asleep" ELSE "update"]
  /\ UNCHANGED <<bufVars, pSize, pBegin, calls, dropped, waits, coreVars, passVars>>

\* write_message(); a low latency call is done with that.
WriteMessage(p) ==
  /\ pState[p] = "write"
  /\ writePos' = [writePos EXCEPT ![p] = Plus(@, pSize[p])]
  /\ writeable' = [writeable EXCEPT ![p] = @ - pSize[p]]
  /\ pState' = [pState EXCEPT ![p] = IF Policy[p] = "lowlatency" THEN "idle" ELSE "request"]
  /\ UNCHANGED <<readPos, snapPos, flushReq, pSize, pBegin, calls, dropped, waits,
                 coreVars, passVars>>

\* A bug: the flag is set but the core is not notified.
RequestWithoutNotify(p) ==
  /\ pState[p] = "request"
  /\ flushReq' = [flushReq EXCEPT ![p] = @ \/
                    /\ QuarterCrossed(pBegin[p], writePos[p])
                    /\ HalfFull(writePos[p], readPos[p])]
  /\ pState' = [pState EXCEPT ![p] = "idle"]
  /\ UNCHANGED <<writePos, readPos, snapPos, writeable, pSize, pBegin, calls, dropped, waits,
                 coreVars, passVars>>

\* request_flush_if_needed(): the flag is set without buffer_mutex_, ...
RequestFlushIfNeeded(p) ==
  /\ pState[p] = "request"
  /\ LET needed == /\ QuarterCrossed(pBegin[p], writePos[p])
                   /\ HalfFull(writePos[p], readPos[p])
     IN  /\ flushReq' = [flushReq EXCEPT ![p] = @ \/ needed]
         /\ pState' = [pState EXCEPT ![p] = IF needed THEN "requested" ELSE "idle"]
  /\ UNCHANGED <<writePos, readPos, snapPos, writeable, pSize, pBegin, calls, dropped, waits,
                 coreVars, passVars>>

\* ... then the core is notified.
NotifyFromRequest(p) ==
  /\ pState[p] = "requested"
  /\ NotifyDataReady
  /\ pState' = [pState EXCEPT ![p] = "idle"]
  /\ UNCHANGED <<bufVars, pSize, pBegin, calls, dropped, waits, passVars>>

\* The steps of a log call that has begun, in any order the states allow.
ContinueCall(p) ==
  \/ UpdateState(p) \/ RequestAndLock(p) \/ NotifyFromWait(p) \/ SleepProducer(p)
  \/ Recheck(p) \/ WriteMessage(p) \/ RequestFlushIfNeeded(p) \/ NotifyFromRequest(p)

-----------------------------------------------------------------------------
(***************************************************************************)
(* The pass over the buffers: read_buffers(flush_all_buffers,              *)
(* sink_flush_needed).                                                     *)
(***************************************************************************)

\* A bug: the pass takes no snapshot of the write positions.
BeginWithoutSnapshot(t, all, sinks) ==
  /\ holder = None
  /\ holder' = t /\ todo' = Producers /\ cur' = None /\ step' = "next"
  /\ sawReq' = FALSE
  /\ flushAll' = (all \/ sinks) /\ sinkFlush' = sinks
  /\ UNCHANGED bufVars

\* Lock bufferstore_mutex_ and snapshot the write position of every buffer.
BeginPass(t, all, sinks) ==
  /\ holder = None
  /\ holder' = t /\ todo' = Producers /\ cur' = None /\ step' = "next"
  /\ sawReq' = FALSE
  /\ flushAll' = (all \/ sinks) /\ sinkFlush' = sinks
  /\ snapPos' = writePos
  /\ UNCHANGED <<writePos, readPos, writeable, flushReq>>

\* Go to the next buffer and read its flag under buffer_mutex_.
VisitBuffer(p) ==
  /\ step = "next" /\ p \in todo /\ ~BufferLocked(p)
  /\ cur' = p /\ todo' = todo \ {p}
  /\ sawReq' = flushReq[p]
  /\ step' = "decide"
  /\ UNCHANGED <<bufVars, prodVars, coreVars, holder, flushAll, sinkFlush>>

\* half_full() and the decision to flush the buffer.
DecideBuffer ==
  /\ step = "decide"
  /\ step' = IF flushAll \/ sawReq \/ HalfFull(writePos[cur], readPos[cur])
             THEN "read" ELSE "next"
  /\ UNCHANGED <<bufVars, prodVars, coreVars, holder, todo, cur, sawReq, flushAll, sinkFlush>>

\* read_buffer(): the sinks get what lies before the snapshot, and one of
\* them may then need an immediate flush.
ReadBuffer ==
  /\ step = "read"
  /\ readPos' = [readPos EXCEPT ![cur] = snapPos[cur]]
  /\ \E full \in BOOLEAN :
       /\ full => snapPos[cur] # readPos[cur]
       /\ sinkFlush' = (sinkFlush \/ full)
  /\ step' = IF sawReq THEN "wake" ELSE "after"
  /\ UNCHANGED <<writePos, snapPos, writeable, flushReq, prodVars, coreVars,
                 holder, todo, cur, sawReq, flushAll>>

\* A bug: the flag is cleared but nobody is notified.
WakeNobody ==
  /\ step = "wake" /\ ~BufferLocked(cur)
  /\ flushReq' = [flushReq EXCEPT ![cur] = FALSE]
  /\ step' = "after"
  /\ UNCHANGED <<writePos, readPos, snapPos, writeable, prodVars, coreVars,
                 holder, todo, cur, sawReq, flushAll, sinkFlush>>

\* wake_producer(), under buffer_mutex_.
WakeProducer ==
  /\ step = "wake" /\ ~BufferLocked(cur)
  /\ flushReq' = [flushReq EXCEPT ![cur] = FALSE]
  /\ pState' = [pState EXCEPT ![cur] = IF @ = "asleep" THEN "woken" ELSE @]
  /\ step' = "after"
  /\ UNCHANGED <<writePos, readPos, snapPos, writeable, pSize, pBegin, calls, dropped, waits,
                 coreVars, holder, todo, cur, sawReq, flushAll, sinkFlush>>

\* A full sink makes the pass start over and flush all buffers.
AfterRead ==
  /\ step = "after"
  /\ LET restart == ~flushAll /\ sinkFlush
     IN  /\ flushAll' = (flushAll \/ restart)
         /\ todo' = IF restart THEN Producers ELSE todo
  /\ step' = "next"
  /\ UNCHANGED <<bufVars, prodVars, coreVars, holder, cur, sawReq, sinkFlush>>

\* The last buffer is behind: unlock bufferstore_mutex_.
EndPass(t) ==
  /\ holder = t /\ step = "next" /\ todo = {}
  /\ holder' = None /\ cur' = None /\ step' = "none" /\ sawReq' = FALSE
  /\ flushAll' = FALSE /\ sinkFlush' = FALSE
  /\ UNCHANGED <<bufVars, prodVars, todo>>

PassStep == \/ \E p \in Producers : VisitBuffer(p)
            \/ DecideBuffer \/ ReadBuffer \/ WakeProducer \/ AfterRead

-----------------------------------------------------------------------------
(***************************************************************************)
(* The background thread: run().                                           *)
(***************************************************************************)

\* The wait loop under core_mutex_: what there is to do, else sleep.
BgCheck(poll, sinks) ==
  /\ bg = "check"
  /\ IF dataReady \/ poll \/ sinks \/ stopReq
     THEN /\ dataReady' = FALSE /\ stopReq' = FALSE
          /\ bg' = CASE stopReq                    -> "stopping"
                     [] ~stopReq /\ sinks          -> "sinks"
                     [] ~stopReq /\ ~sinks /\ poll -> "poll"
                     [] OTHER                      -> "ready"
     ELSE bg' = "asleep" /\ UNCHANGED <<dataReady, stopReq>>
  /\ UNCHANGED <<bufVars, prodVars, user, ctl, flushes, stops, passVars>>

\* wait_until() ends by itself: spuriously or at its time.
BgWake ==
  /\ bg = "asleep"
  /\ bg' = "check"
  /\ UNCHANGED <<bufVars, prodVars, dataReady, stopReq, user, ctl, flushes, stops, passVars>>

\* read_buffers() of the loop (bg names its arguments), or the one after it.
BgBegin ==
  /\ bg \in {"ready", "poll", "sinks", "stopping", "last"}
  /\ BeginPass("bg", bg # "ready", bg \in {"sinks", "stopping", "last"})
  /\ bg' = CASE bg = "stopping" -> "stoppass" [] bg = "last" -> "lastpass" [] OTHER -> "pass"
  /\ UNCHANGED <<prodVars, dataReady, stopReq, user, ctl, flushes, stops>>

\* A bug: data_ready_ is cleared after the pass.
BgEndClearsReady ==
  /\ bg \in {"pass", "stoppass", "lastpass"}
  /\ EndPass("bg")
  /\ dataReady' = FALSE
  /\ bg' = CASE bg = "pass" -> "check" [] bg = "stoppass" -> "last" [] OTHER -> "exited"
  /\ UNCHANGED <<stopReq, user, ctl, flushes, stops>>

\* The sinks have been flushed: once more around, or out of the loop.
BgEnd ==
  /\ bg \in {"pass", "stoppass", "lastpass"}
  /\ EndPass("bg")
  /\ bg' = CASE bg = "pass" -> "check" [] bg = "stoppass" -> "last" [] OTHER -> "exited"
  /\ UNCHANGED <<dataReady, stopReq, user, ctl, flushes, stops>>

Background == (\E poll, sinks \in Timed : BgCheck(poll, sinks)) \/ BgBegin \/ BgEnd

-----------------------------------------------------------------------------
(***************************************************************************)
(* Other threads that use the core.                                        *)
(***************************************************************************)

\* core::flush(): a pass over all buffers by the calling thread.
UserFlush ==
  /\ user = "idle" /\ flushes < MaxFlushes
  /\ flushes' = flushes + 1
  /\ user' = "flush"
  /\ UNCHANGED <<bufVars, prodVars, dataReady, stopReq, bg, ctl, stops, passVars>>

UserBegin ==
  /\ user = "flush" /\ BeginPass("user", TRUE, TRUE)
  /\ user' = "pass"
  /\ UNCHANGED <<prodVars, dataReady, stopReq, bg, ctl, flushes, stops>>

UserEnd ==
  /\ user = "pass" /\ EndPass("user")
  /\ user' = "idle"
  /\ UNCHANGED <<dataReady, stopReq, bg, ctl, flushes, stops>>

\* A bug: the stop request is not notified.
StopWithoutNotify ==
  /\ ctl = "running" /\ stops < MaxStops
  /\ stops' = stops + 1
  /\ stopReq' = TRUE
  /\ ctl' = "joining"
  /\ UNCHANGED <<bufVars, prodVars, dataReady, bg, user, flushes, passVars>>

\* core::stop(): request, notify, join.
Stop ==
  /\ ctl = "running" /\ stops < MaxStops
  /\ stops' = stops + 1
  /\ stopReq' = TRUE
  /\ bg' = IF bg = "asleep" THEN "check" ELSE bg
  /\ ctl' = "joining"
  /\ UNCHANGED <<bufVars, prodVars, dataReady, user, flushes, passVars>>

Joined ==
  /\ ctl = "joining" /\ bg = "exited"
  /\ ctl' = "stopped"
  /\ UNCHANGED <<bufVars, prodVars, dataReady, stopReq, bg, user, flushes, stops, passVars>>

\* core::start(): a new background thread.
Start ==
  /\ ctl = "stopped"
  /\ stopReq' = FALSE /\ bg' = "check" /\ ctl' = "running"
  /\ UNCHANGED <<bufVars, prodVars, dataReady, user, flushes, stops, passVars>>

Next ==
  \/ \E p \in Producers : \/ \E size \in MsgSizes : LogCall(p, size)
                          \/ ContinueCall(p) \/ SpuriousWake(p)
  \/ PassStep
  \/ Background \/ BgWake
  \/ UserFlush \/ UserBegin \/ UserEnd
  \/ Stop \/ Joined \/ Start

Spec == Init /\ [][Next]_vars

(***************************************************************************)
(* Threads that are able to run are run.  A log call need not be made,     *)
(* core::flush, stop and start need not be called, and no wait ends by     *)
(* itself.                                                                 *)
(***************************************************************************)
Fairness ==
  /\ \A p \in Producers : WF_vars(ContinueCall(p))
  /\ WF_vars(PassStep)
  /\ WF_vars(Background)
  /\ WF_vars(UserBegin) /\ WF_vars(UserEnd)
  /\ WF_vars(Joined)

FairSpec == Spec /\ Fairness

-----------------------------------------------------------------------------
(***************************************************************************)
(* No wake-up is lost: a producer asleep in wait_for_buffer_flush has its  *)
(* request standing, and the background thread does not sleep over it,     *)
(* although the flag, data_ready_ and the two condition variables are      *)
(* guarded by different mutexes and read in different orders.              *)
(***************************************************************************)
NoLostWakeup ==
  \A p \in Producers : pState[p] = "asleep" => flushReq[p] /\ bg # "asleep"

(***************************************************************************)
(* The background thread never sleeps over a buffer that is three quarters *)
(* full or more and whose producer is not about to notify it: crossing a   *)
(* quarter at more than half full raised a request in time.                *)
(***************************************************************************)
SleepsOnlyIfRoom ==
  bg = "asleep" =>
    \A p \in Producers : pState[p] = "idle" /\ Policy[p] # "lowlatency" =>
      4 * Fill(writePos[p], readPos[p]) < 3 * Size

(***************************************************************************)
(* A message of the nonguaranteed policy is dropped only while the core is *)
(* about to flush ("will wake up the core and/or request a flush if        *)
(* needed", README.md): a buffer too full for it never waits for a later   *)
(* message to be noticed.                                                  *)
(***************************************************************************)
DropWakesCore ==
  [][\A p \in Producers :
       dropped'[p] # dropped[p] /\ Policy[p] = "nonguaranteed" => bg' # "asleep"]_vars

(***************************************************************************)
(* A guaranteed call waits at most six times, although it asks for a flush *)
(* only when it cannot go on (log_policy_guaranteed.hpp expects "two       *)
(* loops"): a pass that snapshot the buffer before the call waited may     *)
(* wake it for nothing, and so may its restart; the next pass empties the  *)
(* buffer; the end of the ring may then have to be given up, which a pass  *)
(* begun just before, and its restart for a sink that another buffer       *)
(* filled, may miss; the pass after it sees it.                            *)
(***************************************************************************)
WaitsBounded == \A p \in Producers : waits[p] <= 6

(***************************************************************************)
(* While the core runs every log call returns, guaranteed calls on a full  *)
(* buffer included.                                                        *)
(***************************************************************************)
CallsReturn ==
  <>[](ctl = "running") =>
    \A p \in Producers : (pState[p] # "idle" ~> pState[p] = "idle")

\* core::stop() returns: the background thread finds the request, whatever
\* it is doing or waiting for, and leaves.
StopReturns == ctl = "joining" ~> ctl = "stopped"
=============================================================================
