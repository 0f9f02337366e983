----------------------------- MODULE CoreSched -----------------------------
(***************************************************************************)
(* When the core works: next_buffer_poll_, next_sink_flush_ and the wait   *)
(* of the background thread on them, with everything that moves the two    *)
(* deadlines: the loop of run(), core::flush, poll_interval, add_sink and  *)
(* release_sink, and the flush time every sink keeps for itself.           *)
(*                                                                         *)
(* The buffers are one place that holds nothing, some data, or so much     *)
(* that the core has been notified; FlushProtocol has the detail.          *)
(*                                                                         *)
(* A time point is kept relative to now: a deadline of d is due in d       *)
(* milliseconds, -d of them ago, Never for time_point::max().  A time a    *)
(* thread has read from the clock is its age.  MaxLag bounds that age, and *)
(* a deadline overdue by MaxLag or more cannot be told from one overdue by *)
(* MaxLag; with that the states are finitely many and time is unbounded.   *)
(***************************************************************************)
EXTENDS Integers, FiniteSets, FiniteSetsExt

CONSTANTS
  Sinks,          \* sinks the program has made
  FlushInterval,  \* flush_interval_ of each, 0: no periodic flushing
  InitialSinks,   \* those the core has at first
  Added,          \* those the program adds while the core runs
  Released,       \* those it releases
  PollIntervals,  \* what poll_interval() is called with
  InitialPoll,    \* buffer_poll_interval_ at first
  MaxSleep,       \* clamp_dur, longer than any interval
  MaxLag          \* bound: from a thread's reading the clock to its using it

ASSUME SinksAssumption ==
  /\ IsFiniteSet(Sinks) /\ FlushInterval \in [Sinks -> Nat]
  /\ InitialSinks \subseteq Sinks /\ Added \subseteq Sinks /\ Released \subseteq Sinks
ASSUME PollAssumption == PollIntervals \subseteq Nat /\ InitialPoll \in Nat
ASSUME LagAssumption  == MaxLag \in Nat
ASSUME SleepAssumption ==
  /\ MaxSleep \in Nat
  /\ \A i \in PollIntervals \cup {InitialPoll} \cup {FlushInterval[s] : s \in Sinks} :
       i < MaxSleep

Never == MaxSleep + 1
None  == "none"

VARIABLES
  pending,            \* what the log buffers hold: "none", "some", "half"
  \* the core, under core_mutex_
  interval,           \* buffer_poll_interval_
  nextPoll, nextSink, \* next_buffer_poll_, next_sink_flush_
  dataReady,          \* data_ready_
  \* the sink store
  stored,             \* sinkstore_
  due,                \* next_flush_time_ of each sink
  unflushed,          \* sinks that hold data not written out
  full,               \* sinks that need an immediate flush
  \* the background thread
  bg,                 \* where it is in run()
  bgAge,              \* age of its current_time
  bgAll, bgSinks,     \* flush_all_buffers, sink_flush_needed
  bgNew,              \* new_flush_time
  sleepUntil,         \* sleep_until_time
  \* a thread that calls core::flush
  user, userAge, userNew,
  \* a thread that calls add_sink
  adding, addTime     \* the sink it has put in the store, sink_flush_time

dataVars == <<pending, unflushed, full>>
coreVars == <<interval, nextPoll, nextSink, dataReady>>
sinkVars == <<stored, due>>
bgVars   == <<bg, bgAge, bgAll, bgSinks, bgNew, sleepUntil>>
userVars == <<user, userAge, userNew>>
addVars  == <<adding, addTime>>
vars == <<dataVars, coreVars, sinkVars, bgVars, userVars, addVars>>

\* What comes first of some deadlines.
Earliest(deadlines) == Min(deadlines \cup {Never})

\* i milliseconds from a time read a milliseconds ago, or never.
After(i, a) == IF i = 0 THEN Never ELSE i - a

Init ==
  /\ pending = "none" /\ unflushed = {} /\ full = {}
  /\ interval = InitialPoll /\ nextPoll = IF InitialPoll = 0 THEN Never ELSE 0
  /\ dataReady = FALSE
  /\ stored = InitialSinks
  /\ due = [s \in Sinks |-> IF FlushInterval[s] = 0 THEN Never ELSE 0]
  /\ nextSink = Earliest({due[s] : s \in InitialSinks})
  /\ bg = "start" /\ bgAge = 0 /\ bgAll = FALSE /\ bgSinks = FALSE
  /\ bgNew = Never /\ sleepUntil = Never
  /\ user = "idle" /\ userAge = 0 /\ userNew = Never
  /\ adding = None /\ addTime = Never

-----------------------------------------------------------------------------
\* Time goes on by a millisecond.
Tick ==
  LET Closer(d) == IF d = Never \/ d = -MaxLag THEN d ELSE d - 1
  IN  /\ bg \in {"asleep", "woken", "start"} \/ bgAge < MaxLag
      /\ user \in {"idle", "pass"} \/ userAge < MaxLag
      /\ nextPoll' = Closer(nextPoll) /\ nextSink' = Closer(nextSink)
      /\ due' = [s \in Sinks |-> Closer(due[s])]
      /\ bgNew' = Closer(bgNew) /\ userNew' = Closer(userNew)
      /\ addTime' = Closer(addTime) /\ sleepUntil' = Closer(sleepUntil)
      /\ bgAge' = IF bg \in {"asleep", "woken", "start"} THEN 0 ELSE bgAge + 1
      /\ userAge' = IF user \in {"idle", "pass"} THEN 0 ELSE userAge + 1
      /\ UNCHANGED <<dataVars, interval, dataReady, stored, bg, bgAll, bgSinks, user, adding>>

\* background_thread_condvar_.notify_all()
Notify ==
  /\ bg' = IF bg = "asleep" THEN "woken" ELSE bg
  /\ UNCHANGED <<bgAge, bgAll, bgSinks, bgNew, sleepUntil>>

\* A message is logged, which may notify the core.
Log(amount) ==
  /\ pending = "none" \/ (pending = "some" /\ amount = "half")
  /\ pending' = amount
  /\ IF amount = "half" THEN dataReady' = TRUE /\ Notify
                        ELSE UNCHANGED <<dataReady, bgVars>>
  /\ UNCHANGED <<unflushed, full, interval, nextPoll, nextSink, sinkVars, userVars, addVars>>

(***************************************************************************)
(* read_buffers(all, sinks): what there is goes to every sink of the       *)
(* store, and some of them may then be full.                               *)
(***************************************************************************)
Reads(all, sinks) == pending = "half" \/ (pending = "some" /\ (all \/ sinks))

ReadBuffers(all, sinks) ==
  IF Reads(all, sinks)
  THEN /\ pending' = "none"
       /\ unflushed' = unflushed \cup stored
       /\ \E filled \in SUBSET stored : full' = full \cup filled
  ELSE UNCHANGED dataVars

\* sink_flush_needed after it.
NeedsSinkFlush(all, sinks) == sinks \/ (Reads(all, sinks) /\ full' \cap stored # {})

(***************************************************************************)
(* flush_sinks(force, current_time) with a current_time of age a: the time *)
(* it returns is the earliest at which a sink of the store is due.         *)
(***************************************************************************)
FlushSinks(force, a) ==
  LET flushed == {s \in stored : force \/ due[s] <= -a \/ s \in full}
  IN  /\ due' = [s \in Sinks |-> IF s \in flushed THEN After(FlushInterval[s], a) ELSE due[s]]
      /\ unflushed' = unflushed \ flushed
      /\ full' = full \ flushed
      /\ UNCHANGED <<pending, stored>>

-----------------------------------------------------------------------------
(***************************************************************************)
(* The background thread: run().                                           *)
(***************************************************************************)

\* current_time is read before core_mutex_ is locked.
BgStart ==
  /\ bg = "start"
  /\ bg' = "check" /\ bgAge' = 0
  /\ UNCHANGED <<bgAll, bgSinks, bgNew, sleepUntil, dataVars, coreVars, sinkVars,
                 userVars, addVars>>

\* The wait loop under core_mutex_, with a current_time of age a.
CheckOrSleep(a) ==
  LET poll  == nextPoll <= -a
      sinks == nextSink <= -a
  IN  /\ dataReady' = FALSE
      /\ IF dataReady \/ poll \/ sinks
         THEN /\ bg' = "pass" /\ bgAge' = a
              /\ bgAll' = poll /\ bgSinks' = sinks /\ sleepUntil' = Never
         ELSE /\ bg' = "asleep" /\ bgAge' = 0
              /\ bgAll' = FALSE /\ bgSinks' = FALSE
              /\ sleepUntil' = Min({nextPoll, nextSink, MaxSleep - a})
      /\ bgNew' = Never
      /\ UNCHANGED <<dataVars, interval, nextPoll, nextSink, sinkVars, userVars, addVars>>

BgCheck == bg = "check" /\ CheckOrSleep(bgAge)

\* The wait is over: notified or in time, ...
BgAwake == (bg = "woken" \/ (bg = "asleep" /\ sleepUntil <= 0)) /\ CheckOrSleep(0)

\* ... or for no reason.
BgSpurious == bg = "asleep" /\ CheckOrSleep(0)

BgPass ==
  /\ bg = "pass"
  /\ ReadBuffers(bgAll, bgSinks)
  /\ bgSinks' = NeedsSinkFlush(bgAll, bgSinks)
  /\ bgAll' = (bgAll \/ bgSinks')
  /\ bg' = CASE bgSinks' -> "sinks" [] ~bgSinks' /\ bgAll' -> "interval" [] OTHER -> "start"
  /\ UNCHANGED <<bgAge, bgNew, sleepUntil, coreVars, sinkVars, userVars, addVars>>

\* A bug: only the sinks flushed now count for the next flush.
BgFlushForgetsTheRest ==
  /\ bg = "sinks"
  /\ FlushSinks(FALSE, bgAge)
  /\ bgNew' = Earliest({due'[s] : s \in {t \in stored : due'[t] # due[t]}})
  /\ bg' = "set"
  /\ UNCHANGED <<bgAge, bgAll, bgSinks, sleepUntil, coreVars, userVars, addVars>>

BgFlushSinks ==
  /\ bg = "sinks"
  /\ FlushSinks(FALSE, bgAge)
  /\ bgNew' = Earliest({due'[s] : s \in stored})
  /\ bg' = "set"
  /\ UNCHANGED <<bgAge, bgAll, bgSinks, sleepUntil, coreVars, userVars, addVars>>

\* Both deadlines under one lock of core_mutex_.
BgSetBoth ==
  /\ bg = "set"
  /\ nextSink' = bgNew
  /\ nextPoll' = IF interval = 0 THEN nextPoll ELSE interval - bgAge
  /\ bg' = "start" /\ bgNew' = Never /\ bgAge' = 0 /\ bgAll' = FALSE /\ bgSinks' = FALSE
  /\ UNCHANGED <<interval, dataReady, sleepUntil, dataVars, sinkVars, userVars, addVars>>

\* Without a sink flush the poll interval is looked at before the lock, ...
BgReadInterval ==
  /\ bg = "interval"
  /\ bg' = IF interval = 0 THEN "start" ELSE "setpoll"
  /\ UNCHANGED <<bgAge, bgAll, bgSinks, bgNew, sleepUntil, dataVars, coreVars, sinkVars,
                 userVars, addVars>>

\* ... and read again under it.
BgSetPoll ==
  /\ bg = "setpoll"
  /\ nextPoll' = interval - bgAge
  /\ bg' = "start" /\ bgAge' = 0 /\ bgAll' = FALSE
  /\ UNCHANGED <<interval, nextSink, dataReady, bgSinks, bgNew, sleepUntil, dataVars,
                 sinkVars, userVars, addVars>>

Background ==
  \/ BgStart \/ BgCheck \/ BgAwake \/ BgPass \/ BgFlushSinks
  \/ BgSetBoth \/ BgReadInterval \/ BgSetPoll

-----------------------------------------------------------------------------
(***************************************************************************)
(* core::flush()                                                           *)
(***************************************************************************)
UserFlush ==
  /\ user = "idle" /\ user' = "pass"
  /\ UNCHANGED <<userAge, userNew, dataVars, coreVars, sinkVars, bgVars, addVars>>

UserPass ==
  /\ user = "pass"
  /\ ReadBuffers(TRUE, TRUE)
  /\ user' = "clock"
  /\ UNCHANGED <<userAge, userNew, coreVars, sinkVars, bgVars, addVars>>

UserClock ==
  /\ user = "clock"
  /\ user' = "sinks" /\ userAge' = 0
  /\ UNCHANGED <<userNew, dataVars, coreVars, sinkVars, bgVars, addVars>>

UserFlushSinks ==
  /\ user = "sinks"
  /\ FlushSinks(TRUE, userAge)
  /\ userNew' = Earliest({due'[s] : s \in stored})
  /\ user' = "set"
  /\ UNCHANGED <<userAge, coreVars, bgVars, addVars>>

UserSet ==
  /\ user = "set"
  /\ nextSink' = userNew
  /\ nextPoll' = IF interval = 0 THEN nextPoll ELSE interval - userAge
  /\ user' = "idle" /\ userAge' = 0 /\ userNew' = Never
  /\ UNCHANGED <<interval, dataReady, dataVars, sinkVars, bgVars, addVars>>

User == UserPass \/ UserClock \/ UserFlushSinks \/ UserSet

-----------------------------------------------------------------------------
\* poll_interval(i)
SetPollInterval(i) ==
  /\ interval' = i
  /\ nextPoll' = IF i = 0 THEN Never ELSE 0
  /\ Notify
  /\ UNCHANGED <<nextSink, dataReady, dataVars, sinkVars, userVars, addVars>>

\* add_sink(): into the store under sinkstore_mutex_, ...
AddSink(s) ==
  /\ adding = None /\ s \notin stored
  /\ stored' = stored \cup {s}
  /\ adding' = s /\ addTime' = due[s]
  /\ UNCHANGED <<due, dataVars, coreVars, bgVars, userVars>>

\* ... then its flush time under core_mutex_.
AddFlushTime ==
  /\ adding # None
  /\ IF addTime < nextSink
     THEN nextSink' = addTime /\ Notify
     ELSE UNCHANGED <<nextSink, bgVars>>
  /\ adding' = None /\ addTime' = Never
  /\ UNCHANGED <<interval, nextPoll, dataReady, dataVars, sinkVars, userVars>>

\* release_sink(): out of the store, flushed, then free to be added again.
ReleaseSink(s) ==
  /\ s \in stored \ {adding}
  /\ stored' = stored \ {s}
  /\ due' = [due EXCEPT ![s] = After(FlushInterval[s], 0)]
  /\ unflushed' = unflushed \ {s} /\ full' = full \ {s}
  /\ UNCHANGED <<pending, coreVars, bgVars, userVars, addVars>>

Next ==
  \/ Tick
  \/ \E amount \in {"some", "half"} : Log(amount)
  \/ Background \/ BgSpurious
  \/ UserFlush \/ User
  \/ \E i \in PollIntervals : SetPollInterval(i)
  \/ \E s \in Added : AddSink(s)
  \/ \E s \in Released : ReleaseSink(s)
  \/ AddFlushTime

Spec == Init /\ [][Next]_vars

(***************************************************************************)
(* Time goes on, and threads that are able to run are run.  Tick needs     *)
(* strong fairness because MaxLag holds it back while a thread is between  *)
(* its reading of the clock and its use of it.                             *)
(***************************************************************************)
FairSpec ==
  /\ Spec
  /\ SF_vars(Tick) /\ WF_vars(Background) /\ WF_vars(User) /\ WF_vars(AddFlushTime)

-----------------------------------------------------------------------------
(***************************************************************************)
(* A poll interval of zero means no polling (README.md), and any other     *)
(* interval means that a poll is scheduled, whoever set the deadline last. *)
(***************************************************************************)
ZeroMeansNoPolling == interval = 0 <=> nextPoll = Never

(***************************************************************************)
(* The background thread does not sleep past the flush time of a sink in   *)
(* the store by more than the age a time can have when it is used, whether *)
(* it or a thread in core::flush wrote the deadline last.                  *)
(***************************************************************************)
SinksNotOverslept ==
  bg = "asleep" => \A s \in stored \ {adding} :
    due[s] # Never => sleepUntil <= due[s] + MaxLag

(***************************************************************************)
(* A sink is flushed at its interval as long as it is in the store: what a *)
(* sink with a flush interval holds is written out.                        *)
(***************************************************************************)
SinkFlushed ==
  \A s \in Sinks : FlushInterval[s] # 0 => (s \in unflushed ~> s \notin unflushed)
=============================================================================
