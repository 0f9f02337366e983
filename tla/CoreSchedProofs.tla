-------------------------- MODULE CoreSchedProofs --------------------------
(***************************************************************************)
(* The background thread does not sleep past the flush time of a sink, for *)
(* any sinks, intervals and delays, whatever core::flush, poll_interval    *)
(* and release_sink do meanwhile, and of the sinks that were there before  *)
(* the core started whatever add_sink does.                                *)
(***************************************************************************)
EXTENDS CoreSched, TLAPS, WellFoundedInduction, NaturalsInduction

\* The times there are, relative to now, and the ages a time can have.
Times == -MaxLag .. Never
Ages  == 0 .. MaxLag

\* The sinks that are in the store from the beginning, or not at all.
Old == stored \ Added

Types ==
  /\ interval \in PollIntervals \cup {InitialPoll}
  /\ nextPoll \in Times /\ nextSink \in Times
  /\ stored \subseteq Sinks
  /\ due \in [Sinks -> Times]
  /\ bgAge \in Ages /\ userAge \in Ages
  /\ bgNew \in Times /\ sleepUntil \in Times /\ userNew \in Times /\ addTime \in Times
  /\ bg \in {"start", "check", "pass", "sinks", "interval", "setpoll", "set", "asleep", "woken"}

\* A sink is due an interval from now at the latest, or never.
DueInInterval ==
  \A s \in Sinks : IF FlushInterval[s] = 0 THEN due[s] = Never ELSE due[s] <= FlushInterval[s]

\* A deadline a thread may go by, for some sinks with their flush times: it is
\* not later than that of any of them, not even of one that is being flushed
\* by a thread that read the clock before.
Early(d, sinks, times) ==
  \A s \in sinks : FlushInterval[s] # 0 => d <= times[s] + MaxLag /\ d <= FlushInterval[s]

\* The deadlines that there are: written, about to be written, slept to.
Deadlines ==
  /\ Early(nextSink, Old, due)
  /\ bg = "set" => Early(bgNew, Old, due)
  /\ user = "set" => Early(userNew, Old, due)
  /\ bg = "asleep" => Early(sleepUntil, Old, due)

IInv == Types /\ DueInInterval /\ Deadlines

-----------------------------------------------------------------------------
\* What the constants are.
LEMMA ConstantsAre ==
  /\ MaxLag \in Nat /\ MaxSleep \in Nat /\ Never = MaxSleep + 1 /\ Never \in Times
  /\ \A i \in PollIntervals \cup {InitialPoll} : i \in Nat /\ i < MaxSleep
  /\ \A s \in Sinks : FlushInterval[s] \in Nat /\ FlushInterval[s] < MaxSleep
<1>1. MaxLag \in Nat /\ MaxSleep \in Nat /\ Never = MaxSleep + 1
  BY LagAssumption, SleepAssumption DEF Never
<1>2. \A s \in Sinks : FlushInterval[s] \in Nat /\ FlushInterval[s] < MaxSleep
  BY SinksAssumption, SleepAssumption
<1> QED BY <1>1, <1>2, PollAssumption, SleepAssumption DEF Times

\* A set of times that is not empty has an earliest one.
LEMMA MinIs ==
  ASSUME NEW T \in SUBSET Times, T # {}
  PROVE  Min(T) \in T /\ \A m \in T : Min(T) <= m
<1> DEFINE N == {m + MaxLag : m \in T}
           R == OpToRel(<, Nat)
<1>1. MaxLag \in Nat /\ \A m \in T : m \in Int /\ m + MaxLag \in Nat
  BY ConstantsAre DEF Times
<1>2. N \in SUBSET Nat /\ N # {}
  BY <1>1
<1>3. IsWellFoundedOn(R, Nat)
  BY NatLessThanWellFounded
<1>4. \A m, n \in Nat : m < n => <<m, n>> \in R
  BY DEF OpToRel
<1> HIDE DEF R
<1>5. PICK n \in N : \A m \in N : ~(<<m, n>> \in R)
  <2> HIDE DEF N
  <2> QED BY <1>2, <1>3, WFMin
<1>6. PICK t \in T : n = t + MaxLag
  BY <1>5
<1>7. ASSUME NEW m \in T PROVE t <= m
  <2>1. m + MaxLag \in N /\ m + MaxLag \in Nat /\ n \in Nat
    BY <1>1, <1>2
  <2>2. ~(m + MaxLag < n)
    BY <1>4, <1>5, <2>1
  <2>3. m \in Int /\ t \in Int
    BY <1>1
  <2> QED BY <1>1, <1>6, <2>2, <2>3
<1>8. \E x \in T : \A y \in T : x =< y
  BY <1>7
<1> QED BY <1>8 DEF Min

\* What comes first of some deadlines is a time, and none of them is before it.
LEMMA EarliestIs ==
  ASSUME NEW D \in SUBSET Times
  PROVE  Earliest(D) \in Times /\ \A d \in D : Earliest(D) <= d
<1>1. D \cup {Never} \in SUBSET Times
  BY ConstantsAre
<1> QED BY <1>1, MinIs DEF Earliest

\* Some time after a clock was read.
LEMMA AfterIs ==
  ASSUME NEW i \in Nat, i < MaxSleep, NEW a \in Ages
  PROVE  /\ After(i, a) \in Times /\ i - a \in Times
         /\ IF i = 0 THEN After(i, a) = Never
                     ELSE After(i, a) = i - a /\ i - a <= i /\ i <= (i - a) + MaxLag
BY ConstantsAre DEF After, Times, Ages

\* Initially all deadlines are now or never.
LEMMA InitIInv == Init => IInv
<1> SUFFICES ASSUME Init PROVE IInv
  OBVIOUS
<1>1. /\ 0 \in Times /\ Never \in Times /\ MaxLag \in Nat /\ 0 \in Ages
      /\ \A s \in Sinks : FlushInterval[s] \in Nat
  BY ConstantsAre DEF Times, Ages
<1>2. due = [s \in Sinks |-> IF FlushInterval[s] = 0 THEN Never ELSE 0]
  BY DEF Init
<1>3. due \in [Sinks -> Times] /\ DueInInterval
  BY <1>1, <1>2 DEF DueInInterval
<1>4. {due[s] : s \in InitialSinks} \in SUBSET Times
  BY <1>3, SinksAssumption
<1>5. nextSink \in Times /\ \A s \in InitialSinks : nextSink <= due[s]
  BY <1>4, EarliestIs DEF Init
<1>6. Early(nextSink, Old, due)
  <2> SUFFICES ASSUME NEW s \in Old, FlushInterval[s] # 0
               PROVE  nextSink <= due[s] + MaxLag /\ nextSink <= FlushInterval[s]
    BY DEF Early
  <2>1. s \in InitialSinks /\ s \in Sinks
    BY SinksAssumption DEF Old, Init
  <2>2. nextSink <= due[s] /\ due[s] = 0 /\ FlushInterval[s] \in Nat /\ nextSink \in Int
    BY <1>1, <1>2, <1>5, <2>1 DEF Times
  <2> QED BY <1>1, <2>2
<1> QED BY <1>1, <1>3, <1>5, <1>6, SinksAssumption DEF Init, IInv, Types, Deadlines

-----------------------------------------------------------------------------
\* Sinks that leave the store take nothing from what is early.
LEMMA EarlyFewer ==
  ASSUME NEW S, NEW T \in SUBSET S, NEW f, NEW d, Early(d, S, f)
  PROVE  Early(d, T, f)
BY DEF Early

(***************************************************************************)
(* Flushing sinks, by a thread that read the clock a milliseconds ago,     *)
(* keeps every deadline early, and the one it returns is early too.        *)
(***************************************************************************)
LEMMA FlushKeeps ==
  ASSUME IInv, NEW a \in Ages, NEW force, FlushSinks(force, a)
  PROVE  /\ stored' = stored /\ due' \in [Sinks -> Times] /\ DueInInterval'
         /\ \A d \in Times : Early(d, Old, due) => Early(d, Old, due')
         /\ Earliest({due'[s] : s \in stored}) \in Times
         /\ Early(Earliest({due'[s] : s \in stored}), Old, due')
<1>1. PICK flushed \in SUBSET stored :
        /\ due' = [s \in Sinks |-> IF s \in flushed THEN After(FlushInterval[s], a) ELSE due[s]]
        /\ stored' = stored
  BY DEF FlushSinks
<1>2. /\ due \in [Sinks -> Times] /\ DueInInterval /\ stored \subseteq Sinks /\ MaxLag \in Nat
      /\ \A t \in Times : t \in Int
  BY ConstantsAre DEF IInv, Types, Times
<1>3. ASSUME NEW s \in Sinks
      PROVE  /\ FlushInterval[s] \in Nat
             /\ due'[s] \in Times
             /\ IF FlushInterval[s] = 0 THEN due'[s] = Never ELSE due'[s] <= FlushInterval[s]
             /\ FlushInterval[s] # 0 =>
                  due'[s] = due[s] \/ FlushInterval[s] <= due'[s] + MaxLag
  <2>1. FlushInterval[s] \in Nat /\ FlushInterval[s] < MaxSleep
    BY ConstantsAre
  <2>2. due'[s] = IF s \in flushed THEN After(FlushInterval[s], a) ELSE due[s]
    BY <1>1
  <2> QED BY <1>2, <2>1, <2>2, AfterIs DEF DueInInterval
<1>4. due' \in [Sinks -> Times]
  <2>1. due' = [s \in Sinks |-> due'[s]]
    BY <1>1
  <2> QED BY <1>3, <2>1
<1>5. DueInInterval'
  BY <1>3 DEF DueInInterval
<1>6. ASSUME NEW d \in Times, Early(d, Old, due) PROVE Early(d, Old, due')
  <2>1. Old \subseteq Sinks
    BY <1>2 DEF Old
  <2>2. ASSUME NEW s \in Old, FlushInterval[s] # 0
        PROVE  d <= due'[s] + MaxLag /\ d <= FlushInterval[s]
    <3>1. d <= due[s] + MaxLag /\ d <= FlushInterval[s]
      BY <1>6, <2>2 DEF Early
    <3>2. /\ due'[s] \in Int /\ d \in Int /\ FlushInterval[s] \in Nat
          /\ due'[s] = due[s] \/ FlushInterval[s] <= due'[s] + MaxLag
      BY <1>2, <1>3, <2>1, <2>2
    <3> QED BY <1>2, <3>1, <3>2
  <2> QED BY <2>2 DEF Early
<1>7. DEFINE D == {due'[s] : s \in stored}
<1>8. D \in SUBSET Times
  BY <1>2, <1>3
<1>9. Earliest(D) \in Times /\ \A s \in stored : Earliest(D) <= due'[s]
  <2>1. \A s \in stored : due'[s] \in D
    OBVIOUS
  <2> HIDE DEF D
  <2> QED BY <1>8, <2>1, EarliestIs
<1> HIDE DEF D
<1>10. Early(Earliest(D), Old, due')
  <2>1. ASSUME NEW s \in Old, FlushInterval[s] # 0
        PROVE  Earliest(D) <= due'[s] + MaxLag /\ Earliest(D) <= FlushInterval[s]
    <3>1. s \in stored /\ s \in Sinks
      BY <1>2 DEF Old
    <3>2. /\ Earliest(D) <= due'[s] /\ due'[s] <= FlushInterval[s] /\ FlushInterval[s] \in Nat
          /\ due'[s] \in Int /\ Earliest(D) \in Int
      BY <1>2, <1>3, <1>9, <2>1, <3>1
    <3> QED BY <1>2, <3>2
  <2> QED BY <2>1 DEF Early
<1> QED BY <1>1, <1>4, <1>5, <1>6, <1>9, <1>10 DEF D

\* Time goes on.
LEMMA TickIInv == ASSUME IInv, Tick PROVE IInv'
<1> DEFINE Closer(d) == IF d = Never \/ d = -MaxLag THEN d ELSE d - 1
<1>1. /\ UNCHANGED <<interval, stored, bg, user>>
      /\ nextPoll' = Closer(nextPoll) /\ nextSink' = Closer(nextSink)
      /\ due' = [s \in Sinks |-> Closer(due[s])]
      /\ bgNew' = Closer(bgNew) /\ userNew' = Closer(userNew)
      /\ addTime' = Closer(addTime) /\ sleepUntil' = Closer(sleepUntil)
      /\ bgAge' = 0 \/ (bgAge < MaxLag /\ bgAge' = bgAge + 1)
      /\ userAge' = 0 \/ (userAge < MaxLag /\ userAge' = userAge + 1)
  BY DEF Tick
<1>2. /\ MaxLag \in Nat /\ MaxSleep \in Nat /\ Never = MaxSleep + 1
      /\ \A t \in Times : t \in Int /\ t >= -MaxLag /\ t <= Never
      /\ \A s \in Sinks : FlushInterval[s] \in Nat /\ FlushInterval[s] < MaxSleep
  BY ConstantsAre DEF Times
<1>3. ASSUME NEW d \in Times PROVE Closer(d) \in Times /\ Closer(d) <= d
  BY <1>2 DEF Times
<1>4. Types'
  BY <1>1, <1>2, <1>3 DEF IInv, Types, Ages
<1>5. ASSUME NEW s \in Sinks
      PROVE  due'[s] = Closer(due[s]) /\ due[s] \in Times
  BY <1>1 DEF IInv, Types
<1>6. DueInInterval'
  <2>1. ASSUME NEW s \in Sinks
        PROVE  IF FlushInterval[s] = 0 THEN due'[s] = Never ELSE due'[s] <= FlushInterval[s]
    <3>1. IF FlushInterval[s] = 0 THEN due[s] = Never ELSE due[s] <= FlushInterval[s]
      BY DEF IInv, DueInInterval
    <3> QED BY <1>2, <1>5, <3>1
  <2> QED BY <2>1 DEF DueInInterval
<1>7. ASSUME NEW d \in Times, Early(d, Old, due) PROVE Early(Closer(d), Old, due')
  <2>1. ASSUME NEW s \in Old, FlushInterval[s] # 0
        PROVE  Closer(d) <= due'[s] + MaxLag /\ Closer(d) <= FlushInterval[s]
    <3>1. s \in Sinks /\ d <= due[s] + MaxLag /\ d <= FlushInterval[s] /\ due[s] <= FlushInterval[s]
      BY <1>7, <2>1 DEF Early, Old, IInv, Types, DueInInterval
    <3>2. /\ due'[s] = Closer(due[s]) /\ due[s] \in Int /\ due[s] >= -MaxLag
          /\ d \in Int /\ d >= -MaxLag /\ FlushInterval[s] \in Nat /\ FlushInterval[s] < MaxSleep
      BY <1>2, <1>5, <3>1
    <3> HIDE DEF Closer
    <3>3. due[s] # Never /\ d # Never
      BY <1>2, <3>1, <3>2
    <3> USE DEF Closer
    <3> QED BY <1>2, <3>1, <3>2, <3>3
  <2> QED BY <2>1 DEF Early
<1> HIDE DEF Closer
<1>8. Old' = Old
  BY <1>1 DEF Old
<1>9. Deadlines'
  BY <1>1, <1>7, <1>8 DEF IInv, Types, Deadlines
<1> QED BY <1>4, <1>6, <1>9 DEF IInv

\* The wait loop sleeps to an early deadline.
LEMMA CheckIInv == ASSUME IInv, NEW a \in Ages, CheckOrSleep(a) PROVE IInv'
<1> DEFINE T == {nextPoll, nextSink, MaxSleep - a}
<1>1. /\ UNCHANGED <<interval, nextPoll, nextSink, sinkVars, userVars, addVars>>
      /\ bgNew' = Never
      /\ \/ bg' = "pass" /\ bgAge' = a /\ sleepUntil' = Never
         \/ bg' = "asleep" /\ bgAge' = 0 /\ sleepUntil' = Min(T)
  BY DEF CheckOrSleep
<1>2. nextPoll \in Times /\ nextSink \in Times
  BY DEF IInv, Types
<1>3. T \in SUBSET Times
  <2>1. MaxSleep - a \in Times
    BY ConstantsAre DEF Ages, Times
  <2> QED BY <1>2, <2>1
<1>4. Min(T) \in Times /\ Min(T) <= nextSink
  <2>1. nextSink \in T
    OBVIOUS
  <2> HIDE DEF T
  <2> QED BY <1>3, <2>1, MinIs
<1> HIDE DEF T
<1>5. Early(Min(T), Old, due)
  <2>1. ASSUME NEW s \in Old, FlushInterval[s] # 0
        PROVE  Min(T) <= due[s] + MaxLag /\ Min(T) <= FlushInterval[s]
    <3>1. nextSink <= due[s] + MaxLag /\ nextSink <= FlushInterval[s] /\ s \in Sinks
      BY <2>1 DEF IInv, Deadlines, Early, Old, Types
    <3>2. /\ due[s] \in Int /\ FlushInterval[s] \in Nat /\ MaxLag \in Nat /\ nextSink \in Int
          /\ Min(T) \in Int
      BY <1>2, <1>4, <3>1, ConstantsAre DEF IInv, Types, Times
    <3> QED BY <1>4, <3>1, <3>2
  <2> QED BY <2>1 DEF Early
<1>6. 0 \in Ages /\ Never \in Times
  BY ConstantsAre DEF Ages
<1>7. Types'
  BY <1>1, <1>4, <1>6 DEF IInv, Types, sinkVars, userVars, addVars
<1>8. DueInInterval'
  BY <1>1 DEF IInv, DueInInterval, sinkVars
<1>9. Deadlines'
  BY <1>1, <1>5 DEF IInv, Deadlines, Old, sinkVars, userVars
<1> QED BY <1>7, <1>8, <1>9 DEF IInv

\* The background thread.
LEMMA BackgroundIInv == ASSUME IInv, Background \/ BgSpurious PROVE IInv'
<1>a. 0 \in Ages /\ Never \in Times /\ bgAge \in Ages
  BY ConstantsAre DEF Ages, IInv, Types
<1>i. interval \in Nat /\ interval < MaxSleep
  BY ConstantsAre DEF IInv, Types
<1>1. CASE BgCheck \/ BgAwake \/ BgSpurious
  BY <1>1, <1>a, CheckIInv DEF BgCheck, BgAwake, BgSpurious
<1>2. CASE BgStart \/ BgReadInterval \/ BgPass
  <2>1. /\ UNCHANGED <<interval, nextPoll, nextSink, due, stored, bgNew, sleepUntil, user,
                       userAge, userNew, addTime>>
        /\ bgAge' \in {0, bgAge}
        /\ bg' \in {"start", "check", "setpoll", "sinks", "interval"}
    <3>1. CASE BgPass
      BY <3>1 DEF BgPass, coreVars, sinkVars, userVars, addVars
    <3> QED BY <1>2, <3>1 DEF BgStart, BgReadInterval, coreVars, sinkVars, userVars, addVars
  <2> QED BY <1>a, <2>1 DEF IInv, Types, DueInInterval, Deadlines, Old, Early
<1>3. CASE BgFlushSinks
  <2>1. /\ FlushSinks(FALSE, bgAge) /\ bg' = "set"
        /\ bgNew' = Earliest({due'[s] : s \in stored})
        /\ UNCHANGED <<interval, nextPoll, nextSink, sleepUntil, bgAge, user, userAge,
                       userNew, addTime>>
    BY <1>3 DEF BgFlushSinks, coreVars, userVars, addVars
  <2>2. /\ stored' = stored /\ due' \in [Sinks -> Times] /\ DueInInterval'
        /\ \A d \in Times : Early(d, Old, due) => Early(d, Old, due')
        /\ bgNew' \in Times
        /\ Early(bgNew', Old, due')
    BY <1>a, <2>1, FlushKeeps
  <2>3. Types'
    BY <2>1, <2>2 DEF IInv, Types
  <2>4. Deadlines'
    BY <2>1, <2>2 DEF IInv, Types, Deadlines, Old
  <2> QED BY <2>2, <2>3, <2>4 DEF IInv
<1>4. CASE BgSetBoth \/ BgSetPoll
  <2>1. /\ UNCHANGED <<interval, due, stored, sleepUntil, user, userAge, userNew, addTime>>
        /\ bg' = "start" /\ bgAge' = 0 /\ bgNew' \in {Never, bgNew}
        /\ nextPoll' \in {nextPoll, interval - bgAge}
        /\ nextSink' = nextSink \/ (nextSink' = bgNew /\ bg = "set")
    BY <1>4 DEF BgSetBoth, BgSetPoll, sinkVars, userVars, addVars
  <2>2. interval - bgAge \in Times
    BY <1>a, <1>i, AfterIs
  <2>3. Types'
    BY <1>a, <2>1, <2>2 DEF IInv, Types
  <2>4. Deadlines' /\ DueInInterval'
    BY <2>1 DEF IInv, Deadlines, DueInInterval, Old
  <2> QED BY <2>3, <2>4 DEF IInv
<1> QED BY <1>1, <1>2, <1>3, <1>4 DEF Background

\* core::flush()
LEMMA UserIInv == ASSUME IInv, UserFlush \/ User PROVE IInv'
<1>a. 0 \in Ages /\ Never \in Times /\ userAge \in Ages
  BY ConstantsAre DEF Ages, IInv, Types
<1>i. interval \in Nat /\ interval < MaxSleep
  BY ConstantsAre DEF IInv, Types
<1>1. CASE UserFlush \/ UserPass \/ UserClock
  <2>1. /\ UNCHANGED <<interval, nextPoll, nextSink, due, stored, bgNew, sleepUntil, bg, bgAge,
                       userNew, addTime>>
        /\ userAge' \in {0, userAge} /\ user' # "set"
    BY <1>1 DEF UserFlush, UserPass, UserClock, coreVars, sinkVars, bgVars, addVars
  <2> QED BY <1>a, <2>1 DEF IInv, Types, DueInInterval, Deadlines, Old
<1>2. CASE UserFlushSinks
  <2>1. /\ FlushSinks(TRUE, userAge) /\ user' = "set"
        /\ userNew' = Earliest({due'[s] : s \in stored})
        /\ UNCHANGED <<interval, nextPoll, nextSink, sleepUntil, bg, bgNew, bgAge, userAge, addTime>>
    BY <1>2 DEF UserFlushSinks, coreVars, bgVars, addVars
  <2>2. /\ stored' = stored /\ due' \in [Sinks -> Times] /\ DueInInterval'
        /\ \A d \in Times : Early(d, Old, due) => Early(d, Old, due')
        /\ userNew' \in Times
        /\ Early(userNew', Old, due')
    BY <1>a, <2>1, FlushKeeps
  <2>3. Types'
    BY <2>1, <2>2 DEF IInv, Types
  <2>4. Deadlines'
    BY <2>1, <2>2 DEF IInv, Types, Deadlines, Old
  <2> QED BY <2>2, <2>3, <2>4 DEF IInv
<1>3. CASE UserSet
  <2>1. /\ UNCHANGED <<interval, due, stored, sleepUntil, bg, bgNew, bgAge, addTime>>
        /\ user' = "idle" /\ userAge' = 0 /\ userNew' = Never
        /\ nextPoll' \in {nextPoll, interval - userAge}
        /\ nextSink' = userNew /\ user = "set"
    BY <1>3 DEF UserSet, sinkVars, bgVars, addVars
  <2>2. interval - userAge \in Times
    BY <1>a, <1>i, AfterIs
  <2>3. Types'
    BY <1>a, <2>1, <2>2 DEF IInv, Types
  <2>4. Deadlines' /\ DueInInterval'
    BY <2>1 DEF IInv, Deadlines, DueInInterval, Old
  <2> QED BY <2>3, <2>4 DEF IInv
<1> QED BY <1>1, <1>2, <1>3 DEF User

\* Logging, poll_interval, add_sink and release_sink.
LEMMA CallsIInv ==
  ASSUME IInv,
         \/ \E amount \in {"some", "half"} : Log(amount)
         \/ \E i \in PollIntervals : SetPollInterval(i)
         \/ \E s \in Added : AddSink(s)
         \/ \E s \in Released : ReleaseSink(s)
         \/ AddFlushTime
  PROVE  IInv'
<1>a. 0 \in Times /\ Never \in Times
  BY ConstantsAre DEF Times
<1>1. ASSUME NEW amount \in {"some", "half"}, Log(amount) PROVE IInv'
  <2>1. /\ UNCHANGED <<interval, nextPoll, nextSink, due, stored, bgNew, sleepUntil, bgAge,
                       user, userAge, userNew, addTime>>
        /\ bg' = bg \/ bg' = "woken"
    BY <1>1, Zenon DEF Log, Notify, sinkVars, userVars, addVars, bgVars
  <2> QED BY <2>1 DEF IInv, Types, DueInInterval, Deadlines, Old
<1>2. ASSUME NEW i \in PollIntervals, SetPollInterval(i) PROVE IInv'
  <2>1. /\ UNCHANGED <<nextSink, due, stored, bgNew, sleepUntil, bgAge,
                       user, userAge, userNew, addTime>>
        /\ interval' = i /\ nextPoll' \in {Never, 0}
        /\ bg' = bg \/ bg' = "woken"
    BY <1>2 DEF SetPollInterval, Notify, sinkVars, userVars, addVars
  <2> QED BY <1>a, <2>1 DEF IInv, Types, DueInInterval, Deadlines, Old
<1>3. ASSUME NEW s \in Added, AddSink(s) PROVE IInv'
  <2>1. /\ UNCHANGED <<interval, nextPoll, nextSink, due, bg, bgNew, sleepUntil, bgAge,
                       user, userAge, userNew>>
        /\ stored' = stored \cup {s} /\ addTime' = due[s]
    BY <1>3 DEF AddSink, coreVars, bgVars, userVars
  <2>2. Old' = Old /\ s \in Sinks
    BY <2>1, SinksAssumption DEF Old
  <2> QED BY <2>1, <2>2 DEF IInv, Types, DueInInterval, Deadlines
<1>4. ASSUME NEW s \in Released, ReleaseSink(s) PROVE IInv'
  <2>1. /\ UNCHANGED <<interval, nextPoll, nextSink, bg, bgNew, sleepUntil, bgAge,
                       user, userAge, userNew, addTime>>
        /\ stored' = stored \ {s} /\ s \in Sinks
        /\ due' = [due EXCEPT ![s] = After(FlushInterval[s], 0)]
    BY <1>4, SinksAssumption DEF ReleaseSink, coreVars, bgVars, userVars, addVars
  <2>2. /\ FlushInterval[s] \in Nat /\ FlushInterval[s] < MaxSleep /\ 0 \in Ages
        /\ due \in [Sinks -> Times]
    BY <2>1, ConstantsAre DEF Ages, IInv, Types
  <2>3. /\ After(FlushInterval[s], 0) \in Times
        /\ IF FlushInterval[s] = 0 THEN After(FlushInterval[s], 0) = Never
                                   ELSE After(FlushInterval[s], 0) <= FlushInterval[s]
    BY <2>2, AfterIs
  <2>4. Types'
    BY <2>1, <2>2, <2>3 DEF IInv, Types
  <2>5. DueInInterval'
    BY <2>1, <2>2, <2>3 DEF IInv, DueInInterval
  <2>6. Old' \subseteq Old /\ \A x \in Old' : due'[x] = due[x]
    BY <2>1, <2>2 DEF Old, IInv, Types
  <2>7. \A d : Early(d, Old, due) => Early(d, Old', due')
    BY <2>6 DEF Early
  <2>8. Deadlines'
    BY <2>1, <2>7 DEF IInv, Deadlines
  <2> QED BY <2>4, <2>5, <2>8 DEF IInv
<1>5. CASE AddFlushTime
  <2>1. /\ UNCHANGED <<interval, nextPoll, due, stored, bgNew, sleepUntil, bgAge,
                       user, userAge, userNew>>
        /\ addTime' = Never
        /\ nextSink' = nextSink \/ (nextSink' = addTime /\ addTime < nextSink)
        /\ bg' = bg \/ bg' = "woken"
    BY <1>5 DEF AddFlushTime, Notify, sinkVars, userVars, bgVars
  <2>2. Types' /\ DueInInterval'
    BY <1>a, <2>1 DEF IInv, Types, DueInInterval
  <2>3. Early(nextSink, Old, due)'
    <3> SUFFICES ASSUME NEW s \in Old, FlushInterval[s] # 0
                 PROVE  nextSink' <= due[s] + MaxLag /\ nextSink' <= FlushInterval[s]
      BY <2>1 DEF Early, Old
    <3>1. nextSink <= due[s] + MaxLag /\ nextSink <= FlushInterval[s] /\ s \in Sinks
      BY DEF IInv, Deadlines, Early, Old, Types
    <3>2. /\ nextSink \in Int /\ addTime \in Int /\ due[s] \in Int /\ MaxLag \in Nat
          /\ FlushInterval[s] \in Nat
      BY <3>1, ConstantsAre DEF IInv, Types, Times
    <3> QED BY <2>1, <3>1, <3>2
  <2>4. Deadlines'
    BY <2>1, <2>3 DEF IInv, Deadlines, Old
  <2> QED BY <2>2, <2>4 DEF IInv
<1> QED BY <1>1, <1>2, <1>3, <1>4, <1>5

\* Every step preserves the invariant.
LEMMA NextIInv == IInv /\ [Next]_vars => IInv'
<1> SUFFICES ASSUME IInv, [Next]_vars PROVE IInv'
  OBVIOUS
<1>1. CASE Next
  BY <1>1, TickIInv, BackgroundIInv, UserIInv, CallsIInv DEF Next
<1>2. CASE UNCHANGED vars
  BY <1>2 DEF vars, coreVars, sinkVars, bgVars, userVars, addVars,
     IInv, Types, DueInInterval, Deadlines, Old
<1> QED BY <1>1, <1>2

\* The background thread does not sleep past the flush time of a sink that
\* was there before the core started.
OldNotOverslept ==
  bg = "asleep" => \A s \in Old : due[s] # Never => sleepUntil <= due[s] + MaxLag

\* It sleeps past the flush time of none of these, whatever sinks are added
\* while it runs.
THEOREM OldSinksInTime == Spec => []OldNotOverslept
<1>1. IInv => OldNotOverslept
  BY DEF IInv, Types, DueInInterval, Deadlines, Early, Old, OldNotOverslept
<1>2. Spec => []IInv
  BY InitIInv, NextIInv, PTL DEF Spec
<1> QED BY <1>1, <1>2, PTL

\* Nor of any sink, if none is added while the core runs.
THEOREM SinksInTime == Added = {} => (Spec => []SinksNotOverslept)
<1> SUFFICES ASSUME Added = {} PROVE Spec => []SinksNotOverslept
  OBVIOUS
<1>1. OldNotOverslept => SinksNotOverslept
  BY DEF OldNotOverslept, SinksNotOverslept, Old
<1> QED BY <1>1, OldSinksInTime, PTL
=============================================================================
