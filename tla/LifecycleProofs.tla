-------------------------- MODULE LifecycleProofs --------------------------
(***************************************************************************)
(* Sinks have one writer, and buffers are counted, written by who owns     *)
(* them and lose no message, for any number of threads, cores, buffers,    *)
(* sinks and places, and of passes side by side.  The arrays the cores     *)
(* keep them in hold what they were given, whatever allocation fails.      *)
(***************************************************************************)
EXTENDS Lifecycle, DynArray, FiniteSetTheorems, TLAPS

(***************************************************************************)
(* SinkExclusive is not inductive.  A core that is given a sink has to be  *)
(* one that runs, as a thread with a handle sees to (LiveI), which holds   *)
(* because the handles are counted (HandlesI) and only the last one stops  *)
(* a core; one thread makes or destroys a core (BusyI), which stops once   *)
(* (PassI); and a sink in use is one in a store or in the hand of a thread *)
(* (UsedI, OneI).                                                          *)
(***************************************************************************)
CoreStates == {"none", "init", "live", "stopping", "stopped", "released", "members"}
Pcs == {"idle", "init", "destroy", "get", "getnew", "write", "flushsink"}
Holders(c) == {t \in Threads : c \in holds[t]}

TypeI ==
  /\ coreState \in [Cores -> CoreStates] /\ handles \in [Cores -> Int]
  /\ holds \in [Threads -> SUBSET Cores]
  /\ pass \in [Cores -> {"idle", "next", "last"}]
  /\ tpc \in [Threads -> Pcs] /\ on \in [Threads -> Cores \cup {None}]
  /\ flushing \in [Threads -> Sinks \cup {None}]
  /\ sinkStore \in [Cores -> SUBSET Sinks] /\ inUse \in [Sinks -> BOOLEAN]

HandlesI == \A c \in Cores : handles[c] = Cardinality(Holders(c))
LiveI == \A t \in Threads : \A c \in holds[t] : coreState[c] = "live"
OnI == \A t \in Threads :
  /\ tpc[t] = "init" => on[t] \in Cores /\ coreState[on[t]] = "init"
  /\ tpc[t] = "destroy" =>
       on[t] \in Cores /\ coreState[on[t]] \in {"stopping", "stopped", "released", "members"}
BusyI == \A t, u \in Threads :
  tpc[t] \in {"init", "destroy"} /\ tpc[u] \in {"init", "destroy"} /\ on[t] = on[u] => t = u
PassI == \A c \in Cores : pass[c] = "last" => coreState[c] = "stopping"
CoreI == TypeI /\ HandlesI /\ LiveI /\ OnI /\ BusyI /\ PassI

FlushI == \A t \in Threads : (tpc[t] = "flushsink") <=> (flushing[t] # None)
EmptyI == \A c \in Cores : coreState[c] \in {"none", "init"} => sinkStore[c] = {}

Writes(c, s) == s \in sinkStore[c] /\ coreState[c] \in Running

\* SinkExclusive without a cardinality: a used sink has a writer, ...
UsedI == \A s \in Sinks :
  inUse[s] <=> \/ \E c \in Cores : Writes(c, s)
               \/ \E t \in Threads : flushing[t] = s
\* ... and only one.
OneI == \A s \in Sinks :
  /\ \A c, d \in Cores : Writes(c, s) /\ Writes(d, s) => c = d
  /\ \A t, u \in Threads : flushing[t] = s /\ flushing[u] = s => t = u
  /\ \A c \in Cores, t \in Threads : ~(Writes(c, s) /\ flushing[t] = s)

SinkI == FlushI /\ EmptyI /\ UsedI /\ OneI
IInv == CoreI /\ SinkI

LEMMA InitIInv == Init => IInv
<1> SUFFICES ASSUME Init PROVE IInv
  OBVIOUS
<1>1. TypeI
  BY DEF Init, TypeI, CoreStates, Pcs
<1>2. HandlesI
  <2>1. \A c \in Cores : Holders(c) = {}
    BY DEF Init, Holders
  <2> QED  BY <2>1, FS_EmptySet DEF Init, HandlesI
<1>3. LiveI /\ OnI /\ BusyI /\ PassI
  BY DEF Init, LiveI, OnI, BusyI, PassI
<1>4. FlushI /\ EmptyI /\ OneI
  BY NoneAssumption DEF Init, FlushI, EmptyI, OneI, Writes, Running
<1>5. UsedI
  BY NoneAssumption DEF Init, UsedI, Writes, Running
<1> QED  BY <1>1, <1>2, <1>3, <1>4, <1>5 DEF IInv, CoreI, SinkI

\* The steps that leave alone what CoreI is about.
coreIVars == <<coreState, handles, holds, pass, tpc, on, sinkStore, inUse, flushing>>

LEMMA Untouched ==
  ASSUME IInv, UNCHANGED coreIVars
  PROVE  IInv'
BY DEF IInv, CoreI, SinkI, coreIVars, TypeI, HandlesI, Holders, LiveI, OnI, BusyI, PassI,
       FlushI, EmptyI, UsedI, OneI, Writes

\* The steps in which only the call of a thread goes on, with no core made
\* or destroyed and no sink released.
Calling == {"idle", "get", "getnew", "write"}

LEMMA CallGoesOn ==
  ASSUME IInv, NEW t \in Threads, tpc[t] \in Calling,
         NEW p \in Calling, tpc' = [tpc EXCEPT ![t] = p],
         NEW c \in Cores \cup {None}, on' = [on EXCEPT ![t] = c],
         UNCHANGED <<coreState, handles, holds, pass, sinkStore, inUse, flushing>>
  PROVE  IInv'
<1> USE DEF IInv, CoreI, SinkI
<1>1. TypeI'
  BY DEF TypeI, Calling, Pcs
<1>2. /\ tpc' \in [Threads -> Pcs] /\ \A u \in Threads : u # t => tpc'[u] = tpc[u] /\ on'[u] = on[u]
      /\ tpc'[t] \notin {"init", "destroy", "flushsink"}
      /\ tpc[t] \notin {"init", "destroy", "flushsink"}
  BY <1>1 DEF TypeI, Calling
<1>3. HandlesI' /\ LiveI' /\ PassI' /\ EmptyI' /\ UsedI' /\ OneI'
  BY DEF HandlesI, Holders, LiveI, PassI, EmptyI, UsedI, OneI, Writes
<1>4. OnI' /\ BusyI' /\ FlushI'
  BY <1>2 DEF OnI, BusyI, FlushI
<1> QED  BY <1>1, <1>3, <1>4

LEMMA NextCall ==
  ASSUME IInv, NEW t \in Threads,
         \/ \E c \in Cores, new \in BOOLEAN : Call(t, c, new)
         \/ GetBuffer(t) \/ GetBufferFails(t) \/ WriteMessage(t)
  PROVE  IInv'
<1>1. CASE \E c \in Cores, new \in BOOLEAN : Call(t, c, new)
  <2> PICK c \in Cores, new \in BOOLEAN : Call(t, c, new)
    BY <1>1
  <2> DEFINE p == IF new THEN "getnew" ELSE IF tls'[t][slot[c]].buf = None THEN "get" ELSE "write"
  <2>1. p \in Calling /\ tpc[t] \in Calling /\ tpc' = [tpc EXCEPT ![t] = p]
    BY DEF Call, Calling
  <2> HIDE DEF p
  <2> QED  BY <2>1, CallGoesOn DEF Call, coreVars, passVars, sinkVars
<1>2. CASE GetBuffer(t)
  <2> DEFINE p == IF tpc[t] = "get" THEN "write" ELSE "idle"
             d == IF tpc[t] = "get" THEN on[t] ELSE None
  <2>1. p \in Calling /\ tpc[t] \in Calling /\ tpc' = [tpc EXCEPT ![t] = p]
    BY <1>2 DEF GetBuffer, Calling
  <2>2. d \in Cores \cup {None} /\ on' = [on EXCEPT ![t] = d]
    BY <1>2 DEF GetBuffer, IInv, CoreI, TypeI
  <2> HIDE DEF p, d
  <2> QED  BY <1>2, <2>1, <2>2, CallGoesOn DEF GetBuffer, coreVars, passVars, sinkVars
<1>3. CASE GetBufferFails(t)
  BY <1>3, CallGoesOn DEF GetBufferFails, coreVars, passVars, sinkVars, Calling
<1>4. CASE WriteMessage(t)
  BY <1>4, CallGoesOn DEF WriteMessage, coreVars, passVars, sinkVars, Calling
<1> QED  BY <1>1, <1>2, <1>3, <1>4

(***************************************************************************)
(* A core comes and goes.                                                  *)
(***************************************************************************)
LEMMA NextInitSlot ==
  ASSUME IInv, NEW t \in Threads, NEW c \in Cores, InitSlot(t, c)
  PROVE  IInv'
<1> USE DEF IInv, CoreI, SinkI
<1>1. /\ tpc[t] = "idle" /\ coreState[c] = "none"
      /\ coreState' = [coreState EXCEPT ![c] = "init"]
      /\ tpc' = [tpc EXCEPT ![t] = "init"] /\ on' = [on EXCEPT ![t] = c]
      /\ UNCHANGED <<handles, holds, pass, sinkStore, inUse, flushing>>
  BY DEF InitSlot, passVars, sinkVars
<1>2. TypeI'
  BY <1>1 DEF TypeI, CoreStates, Pcs
<1>3. \A d \in Cores : d # c => coreState'[d] = coreState[d]
  BY <1>1 DEF TypeI
<1>4. coreState'[c] = "init" /\ tpc'[t] = "init" /\ on'[t] = c
  BY <1>1 DEF TypeI
<1>5. \A u \in Threads : u # t => tpc'[u] = tpc[u] /\ on'[u] = on[u]
  BY <1>1 DEF TypeI
<1>6. HandlesI' /\ LiveI' /\ PassI'
  BY <1>1, <1>3 DEF TypeI, HandlesI, Holders, LiveI, PassI
<1>7. \A u \in Threads : tpc[u] \in {"init", "destroy"} => on[u] # c
  BY <1>1 DEF OnI
<1>8. OnI' /\ BusyI'
  BY <1>3, <1>4, <1>5, <1>7 DEF OnI, BusyI
<1>9. FlushI' /\ EmptyI'
  BY <1>1, <1>3, <1>4, <1>5 DEF FlushI, EmptyI
<1>10. \A d \in Cores, s \in Sinks : Writes(d, s)' <=> Writes(d, s)
  BY <1>1, <1>3, <1>4 DEF Writes, EmptyI
<1>11. UsedI' /\ OneI'
  BY <1>1, <1>10 DEF UsedI, OneI
<1> QED  BY <1>2, <1>6, <1>8, <1>9, <1>11

\* A core that is made has no handle yet.
LEMMA NextInitDone ==
  ASSUME IInv, NEW t \in Threads, InitDone(t)
  PROVE  IInv'
<1> USE DEF IInv, CoreI, SinkI
<1>0. PICK c \in Cores : c = on[t] /\ coreState[c] = "init"
  BY DEF InitDone, OnI
<1>1. /\ tpc[t] = "init" /\ c \in Cores /\ coreState[c] = "init"
      /\ coreState' = [coreState EXCEPT ![c] = "live"]
      /\ handles' = [handles EXCEPT ![c] = 1]
      /\ holds' = [holds EXCEPT ![t] = @ \cup {c}]
      /\ tpc' = [tpc EXCEPT ![t] = "idle"] /\ on' = [on EXCEPT ![t] = None]
      /\ UNCHANGED <<pass, sinkStore, inUse, flushing>>
  BY <1>0 DEF InitDone, passVars, sinkVars
<1>2. TypeI'
  BY <1>1 DEF TypeI, CoreStates, Pcs
<1>3. /\ \A d \in Cores : d # c => coreState'[d] = coreState[d] /\ handles'[d] = handles[d]
      /\ \A u \in Threads : u # t => tpc'[u] = tpc[u] /\ on'[u] = on[u] /\ holds'[u] = holds[u]
      /\ coreState'[c] = "live" /\ handles'[c] = 1 /\ tpc'[t] = "idle"
      /\ holds'[t] = holds[t] \cup {c}
  BY <1>1 DEF TypeI
<1>4. \A u \in Threads : c \notin holds[u]
  BY <1>1 DEF LiveI
<1>5. Holders(c)' = {t} /\ \A d \in Cores \ {c} : Holders(d)' = Holders(d)
  BY <1>3, <1>4 DEF Holders
<1>6. HandlesI'
  <2>1. Cardinality(Holders(c)') = 1
    BY <1>5, FS_Singleton
  <2>2. \A d \in Cores \ {c} : handles'[d] = Cardinality(Holders(d)')
    BY <1>3, <1>5 DEF HandlesI
  <2> QED  BY <1>3, <2>1, <2>2 DEF HandlesI
<1>7. LiveI'
  BY <1>1, <1>3 DEF TypeI, LiveI
<1>8. PassI'
  BY <1>1, <1>3 DEF PassI
<1>9. \A u \in Threads \ {t} : tpc[u] \in {"init", "destroy"} => on[u] # c
  BY <1>0, <1>1 DEF BusyI
<1>10. OnI' /\ BusyI'
  BY <1>3, <1>9 DEF OnI, BusyI
<1>11. FlushI' /\ EmptyI'
  BY <1>1, <1>3 DEF FlushI, EmptyI
<1>12. \A d \in Cores, s \in Sinks : Writes(d, s)' <=> Writes(d, s)
  BY <1>1, <1>3 DEF Writes, EmptyI
<1>13. UsedI' /\ OneI'
  BY <1>1, <1>12 DEF UsedI, OneI
<1> QED  BY <1>2, <1>6, <1>7, <1>8, <1>10, <1>11, <1>13

LEMMA NextShareCore ==
  ASSUME IInv, NEW t \in Threads, NEW u \in Threads, NEW c \in Cores, ShareCore(t, u, c)
  PROVE  IInv'
<1> USE DEF IInv, CoreI, SinkI
<1>1. /\ c \in holds[t] /\ c \notin holds[u]
      /\ handles' = [handles EXCEPT ![c] = @ + 1]
      /\ holds' = [holds EXCEPT ![u] = @ \cup {c}]
      /\ UNCHANGED <<coreState, pass, tpc, on, sinkStore, inUse, flushing>>
  BY DEF ShareCore, passVars, sinkVars, callVars
<1>2. TypeI'
  BY <1>1 DEF TypeI
<1>3. Holders(c)' = Holders(c) \cup {u} /\ u \notin Holders(c)
  BY <1>1 DEF Holders, TypeI
<1>4. \A d \in Cores \ {c} : Holders(d)' = Holders(d) /\ handles'[d] = handles[d]
  BY <1>1 DEF Holders, TypeI
<1>5. IsFiniteSet(Holders(c))
  BY ObjectsAssumption, FS_Subset DEF Holders
<1>6. Cardinality(Holders(c)') = handles[c] + 1
  BY <1>3, <1>5, FS_AddElement DEF HandlesI
<1>7. HandlesI'
  BY <1>1, <1>4, <1>6 DEF HandlesI, TypeI
<1>8. LiveI'
  BY <1>1 DEF LiveI, TypeI
<1>9. OnI' /\ BusyI' /\ PassI' /\ FlushI' /\ EmptyI' /\ UsedI' /\ OneI'
  BY <1>1 DEF OnI, BusyI, PassI, FlushI, EmptyI, UsedI, OneI, Writes
<1> QED  BY <1>2, <1>7, <1>8, <1>9

\* With the last handle gone no thread has one, and the core may stop.
LEMMA NextDropCore ==
  ASSUME IInv, NEW t \in Threads, NEW c \in Cores, DropCore(t, c)
  PROVE  IInv'
<1> USE DEF IInv, CoreI, SinkI
<1>1. /\ tpc[t] = "idle" /\ c \in holds[t] /\ coreState[c] = "live"
      /\ handles' = [handles EXCEPT ![c] = @ - 1]
      /\ holds' = [holds EXCEPT ![t] = @ \ {c}]
      /\ UNCHANGED <<pass, sinkStore, inUse, flushing>>
  BY DEF DropCore, passVars, sinkVars, LiveI
<1>2. Holders(c)' = Holders(c) \ {t} /\ t \in Holders(c)
  BY <1>1 DEF Holders, TypeI
<1>3. \A d \in Cores \ {c} : Holders(d)' = Holders(d) /\ handles'[d] = handles[d]
  BY <1>1 DEF Holders, TypeI
<1>4. IsFiniteSet(Holders(c)) /\ IsFiniteSet(Holders(c)')
  BY <1>2, ObjectsAssumption, FS_Subset, FS_RemoveElement DEF Holders
<1>5. Cardinality(Holders(c)') = handles[c] - 1
  BY <1>2, <1>4, FS_RemoveElement DEF HandlesI
<1>6. HandlesI'
  BY <1>1, <1>3, <1>5 DEF HandlesI, TypeI
<1>7. CASE handles[c] = 1
  <2>1. /\ coreState' = [coreState EXCEPT ![c] = "stopping"]
        /\ tpc' = [tpc EXCEPT ![t] = "destroy"] /\ on' = [on EXCEPT ![t] = c]
    BY <1>7 DEF DropCore
  <2>2. TypeI'
    BY <1>1, <2>1 DEF TypeI, CoreStates, Pcs
  <2>3. Holders(c)' = {}
    BY <1>4, <1>5, <1>7, FS_EmptySet
  <2>4. /\ \A d \in Cores : d # c => coreState'[d] = coreState[d]
        /\ \A u \in Threads : u # t => tpc'[u] = tpc[u] /\ on'[u] = on[u]
        /\ coreState'[c] = "stopping" /\ tpc'[t] = "destroy" /\ on'[t] = c
    BY <2>1 DEF TypeI
  <2>5. LiveI'
    BY <1>1, <2>3, <2>4, <2>2 DEF LiveI, Holders, TypeI
  <2>6. PassI'
    BY <1>1, <2>4 DEF PassI
  <2>7. \A u \in Threads : tpc[u] \in {"init", "destroy"} => on[u] # c
    BY <1>1 DEF OnI
  <2>8. OnI' /\ BusyI'
    BY <2>4, <2>7 DEF OnI, BusyI
  <2>9. FlushI' /\ EmptyI'
    BY <1>1, <2>4 DEF FlushI, EmptyI
  <2>10. \A d \in Cores, s \in Sinks : Writes(d, s)' <=> Writes(d, s)
    BY <1>1, <2>4 DEF Writes, Running
  <2>11. UsedI' /\ OneI'
    BY <1>1, <2>10 DEF UsedI, OneI
  <2> QED  BY <1>6, <2>2, <2>5, <2>6, <2>8, <2>9, <2>11
<1>8. CASE handles[c] # 1
  <2>1. UNCHANGED <<coreState, tpc, on>>
    BY <1>8 DEF DropCore
  <2>2. TypeI'
    BY <1>1, <2>1 DEF TypeI
  <2>3. LiveI'
    BY <1>1, <2>1 DEF LiveI, TypeI
  <2>4. OnI' /\ BusyI' /\ PassI' /\ FlushI' /\ EmptyI' /\ UsedI' /\ OneI'
    BY <1>1, <2>1 DEF OnI, BusyI, PassI, FlushI, EmptyI, UsedI, OneI, Writes
  <2> QED  BY <1>6, <2>2, <2>3, <2>4
<1> QED  BY <1>7, <1>8

\* The core of a thread that destroys it changes its state, and no other.
DestroyStep(t, from, to) ==
  /\ tpc[t] \in {"init", "destroy"} /\ on[t] \in Cores /\ coreState[on[t]] \in from
  /\ coreState' = [coreState EXCEPT ![on[t]] = to]
  /\ UNCHANGED <<handles, holds, pass, flushing>>

\* What holds after any such step but the last one.
LEMMA DestroyGoesOn ==
  ASSUME IInv, NEW t \in Threads, NEW from \in SUBSET {"init", "stopped", "released"},
         NEW to \in {"stopped", "released", "members"}, DestroyStep(t, from, to),
         tpc' = [tpc EXCEPT ![t] = "destroy"], on' = on, sinkStore' = sinkStore,
         inUse' \in [Sinks -> BOOLEAN]
  PROVE  CoreI' /\ FlushI' /\ EmptyI'
<1> USE DEF IInv, CoreI, SinkI, DestroyStep
<1>0. PICK c \in Cores : c = on[t] /\ coreState[c] \in {"init", "stopped", "released"}
  OBVIOUS
<1>1. /\ \A d \in Cores : d # c => coreState'[d] = coreState[d]
      /\ \A u \in Threads : u # t => tpc'[u] = tpc[u]
      /\ coreState'[c] = to /\ tpc'[t] = "destroy"
  BY <1>0 DEF TypeI
<1>2. TypeI'
  BY <1>0 DEF TypeI, CoreStates, Pcs
<1>3. HandlesI' /\ PassI'
  BY <1>0, <1>1 DEF HandlesI, Holders, PassI
<1>4. LiveI'
  BY <1>0, <1>1, <1>2 DEF LiveI, TypeI
<1>5. \A u \in Threads \ {t} : tpc[u] \in {"init", "destroy"} => on[u] # c
  BY <1>0 DEF BusyI
<1>6. OnI' /\ BusyI'
  BY <1>0, <1>1, <1>5 DEF OnI, BusyI
<1>7. FlushI' /\ EmptyI'
  BY <1>1 DEF FlushI, EmptyI
<1> QED  BY <1>2, <1>3, <1>4, <1>6, <1>7

LEMMA NextInitFails ==
  ASSUME IInv, NEW t \in Threads, InitFails(t)
  PROVE  IInv'
<1> USE DEF IInv, CoreI, SinkI
<1>1. /\ DestroyStep(t, {"init"}, "stopped") /\ UNCHANGED <<on, sinkStore, inUse>>
      /\ tpc' = [tpc EXCEPT ![t] = "destroy"]
  BY DEF InitFails, DestroyStep, passVars, sinkVars, OnI
<1>2. CoreI' /\ FlushI' /\ EmptyI'
  BY <1>1, DestroyGoesOn DEF TypeI
<1>3. \A d \in Cores, s \in Sinks : Writes(d, s)' <=> Writes(d, s)
  BY <1>1 DEF Writes, EmptyI, DestroyStep, TypeI
<1>4. UsedI' /\ OneI'
  BY <1>1, <1>3 DEF UsedI, OneI, DestroyStep
<1> QED  BY <1>2, <1>4

\* The sinks of a core that has stopped are free, and it no longer writes.
LEMMA NextDestroySinks ==
  ASSUME IInv, NEW t \in Threads, DestroySinks(t)
  PROVE  IInv'
<1> USE DEF IInv, CoreI, SinkI
<1>1. /\ DestroyStep(t, {"stopped"}, "released") /\ UNCHANGED <<on, sinkStore>>
      /\ tpc' = [tpc EXCEPT ![t] = "destroy"]
      /\ inUse' = [s \in Sinks |-> inUse[s] /\ s \notin sinkStore[on[t]]]
  BY DEF DestroySinks, DestroyStep, passVars, callVars, OnI, TypeI
<1>2. CoreI' /\ FlushI' /\ EmptyI'
  BY <1>1, DestroyGoesOn
<1>3. PICK c \in Cores : c = on[t] /\ coreState[c] = "stopped"
  BY <1>1 DEF DestroyStep
<1>4. coreState'[c] = "released" /\ \A d \in Cores \ {c} : coreState'[d] = coreState[d]
  BY <1>1, <1>3 DEF DestroyStep, TypeI
<1>5. \A d \in Cores, s \in Sinks : Writes(d, s)' <=> d # c /\ Writes(d, s)
  BY <1>1, <1>4 DEF Writes, Running
<1>6. \A s \in Sinks : s \in sinkStore[c] => Writes(c, s)
  BY <1>3 DEF Writes, Running
<1>7. OneI'
  BY <1>1, <1>5 DEF OneI, DestroyStep
<1>8. UsedI'
  <2> SUFFICES ASSUME NEW s \in Sinks
               PROVE  inUse'[s] <=> \/ \E d \in Cores : Writes(d, s)'
                                    \/ \E u \in Threads : flushing'[u] = s
    BY DEF UsedI
  <2>1. flushing' = flushing /\ (inUse'[s] <=> inUse[s] /\ s \notin sinkStore[c])
    BY <1>1, <1>3 DEF DestroyStep
  <2>2. CASE s \in sinkStore[c]
    BY <1>5, <1>6, <2>1, <2>2 DEF OneI
  <2>3. CASE s \notin sinkStore[c]
    BY <1>5, <2>1, <2>3 DEF UsedI, Writes
  <2> QED  BY <2>2, <2>3
<1> QED  BY <1>2, <1>7, <1>8

LEMMA NextDestroySlot ==
  ASSUME IInv, NEW t \in Threads, DestroySlot(t)
  PROVE  IInv'
<1> USE DEF IInv, CoreI, SinkI
<1>1. /\ DestroyStep(t, {"released"}, "members") /\ UNCHANGED <<on, sinkStore, inUse>>
      /\ tpc' = [tpc EXCEPT ![t] = "destroy"]
  BY DEF DestroySlot, DestroyStep, passVars, sinkVars, callVars, OnI, TypeI
<1>2. CoreI' /\ FlushI' /\ EmptyI'
  BY <1>1, DestroyGoesOn DEF TypeI
<1>3. \A d \in Cores, s \in Sinks : Writes(d, s)' <=> Writes(d, s)
  BY <1>1 DEF Writes, Running, DestroyStep, TypeI
<1>4. UsedI' /\ OneI'
  BY <1>1, <1>3 DEF UsedI, OneI, DestroyStep
<1> QED  BY <1>2, <1>4

LEMMA NextDestroyMembers ==
  ASSUME IInv, NEW t \in Threads, DestroyMembers(t)
  PROVE  IInv'
<1> USE DEF IInv, CoreI, SinkI
<1>0. PICK c \in Cores : c = on[t] /\ coreState[c] = "members"
  BY DEF DestroyMembers, OnI
<1>1. /\ tpc[t] = "destroy"
      /\ coreState' = [coreState EXCEPT ![c] = "none"]
      /\ sinkStore' = [sinkStore EXCEPT ![c] = {}]
      /\ tpc' = [tpc EXCEPT ![t] = "idle"] /\ on' = [on EXCEPT ![t] = None]
      /\ UNCHANGED <<handles, holds, pass, inUse, flushing>>
  BY <1>0 DEF DestroyMembers, passVars
<1>2. TypeI'
  BY <1>1 DEF TypeI, CoreStates, Pcs
<1>3. /\ \A d \in Cores : d # c => coreState'[d] = coreState[d] /\ sinkStore'[d] = sinkStore[d]
      /\ \A u \in Threads : u # t => tpc'[u] = tpc[u] /\ on'[u] = on[u]
      /\ coreState'[c] = "none" /\ sinkStore'[c] = {} /\ tpc'[t] = "idle"
  BY <1>1 DEF TypeI
<1>4. HandlesI' /\ PassI'
  BY <1>0, <1>1, <1>3 DEF HandlesI, Holders, PassI
<1>5. LiveI'
  BY <1>0, <1>1, <1>3, <1>2 DEF LiveI, TypeI
<1>6. \A u \in Threads \ {t} : tpc[u] \in {"init", "destroy"} => on[u] # c
  BY <1>0, <1>1 DEF BusyI
<1>7. OnI' /\ BusyI'
  BY <1>3, <1>6 DEF OnI, BusyI
<1>8. FlushI' /\ EmptyI'
  BY <1>1, <1>3 DEF FlushI, EmptyI
<1>9. \A d \in Cores, s \in Sinks : Writes(d, s)' <=> Writes(d, s)
  BY <1>0, <1>3 DEF Writes, Running
<1>10. UsedI' /\ OneI'
  BY <1>1, <1>9 DEF UsedI, OneI
<1> QED  BY <1>2, <1>4, <1>5, <1>7, <1>8, <1>10

(***************************************************************************)
(* Passes.                                                                 *)
(***************************************************************************)
LEMMA NextBeginPass ==
  ASSUME IInv, NEW c \in Cores, BeginPass(c)
  PROVE  IInv'
<1> USE DEF IInv, CoreI, SinkI
<1>1. /\ pass' = [pass EXCEPT ![c] = IF coreState[c] = "stopping" THEN "last" ELSE "next"]
      /\ UNCHANGED <<coreState, handles, holds, tpc, on, sinkStore, inUse, flushing>>
  BY DEF BeginPass, coreVars, sinkVars, callVars
<1>2. TypeI' /\ PassI'
  BY <1>1 DEF TypeI, PassI
<1>3. HandlesI' /\ LiveI' /\ OnI' /\ BusyI' /\ FlushI' /\ EmptyI' /\ UsedI' /\ OneI'
  BY <1>1 DEF HandlesI, Holders, LiveI, OnI, BusyI, FlushI, EmptyI, UsedI, OneI, Writes
<1> QED  BY <1>2, <1>3

\* After its last pass a core has stopped, and it was about to.
LEMMA NextEndPass ==
  ASSUME IInv, NEW c \in Cores, EndPass(c)
  PROVE  IInv'
<1> USE DEF IInv, CoreI, SinkI
<1>1. /\ pass' = [pass EXCEPT ![c] = "idle"]
      /\ coreState' = [coreState EXCEPT ![c] = IF pass[c] = "last" THEN "stopped" ELSE @]
      /\ UNCHANGED <<handles, holds, tpc, on, sinkStore, inUse, flushing>>
  BY DEF EndPass, sinkVars, callVars
<1>2. TypeI'
  BY <1>1 DEF TypeI, CoreStates
<1>3. /\ \A d \in Cores : d # c => coreState'[d] = coreState[d] /\ pass'[d] = pass[d]
      /\ \/ coreState[c] = "stopping" /\ coreState'[c] = "stopped"
         \/ coreState'[c] = coreState[c]
      /\ pass'[c] = "idle"
  BY <1>1 DEF TypeI, PassI
<1>4. HandlesI' /\ LiveI' /\ OnI' /\ BusyI' /\ PassI' /\ FlushI' /\ EmptyI'
  BY <1>1, <1>3 DEF TypeI, HandlesI, Holders, LiveI, OnI, BusyI, PassI, FlushI, EmptyI
<1>5. \A d \in Cores, s \in Sinks : Writes(d, s)' <=> Writes(d, s)
  BY <1>1, <1>3 DEF Writes, Running
<1>6. UsedI' /\ OneI'
  BY <1>1, <1>5 DEF UsedI, OneI
<1> QED  BY <1>2, <1>4, <1>6

(***************************************************************************)
(* Sinks.                                                                  *)
(***************************************************************************)
LEMMA NextAddSink ==
  ASSUME IInv, NEW t \in Threads, NEW c \in Cores, NEW s \in Sinks, AddSink(t, c, s)
  PROVE  IInv'
<1> USE DEF IInv, CoreI, SinkI
<1>1. /\ coreState[c] = "live" /\ ~inUse[s]
      /\ inUse' = [inUse EXCEPT ![s] = TRUE]
      /\ sinkStore' = [sinkStore EXCEPT ![c] = @ \cup {s}]
      /\ UNCHANGED <<coreState, handles, holds, pass, tpc, on, flushing>>
  BY DEF AddSink, coreVars, passVars, callVars, LiveI
<1>2. TypeI' /\ HandlesI' /\ LiveI' /\ OnI' /\ BusyI' /\ PassI' /\ FlushI' /\ EmptyI'
  BY <1>1 DEF TypeI, HandlesI, Holders, LiveI, OnI, BusyI, PassI, FlushI, EmptyI
<1>3. \A d \in Cores, r \in Sinks : Writes(d, r)' <=> Writes(d, r) \/ (d = c /\ r = s)
  BY <1>1 DEF Writes, Running, TypeI
<1>4. /\ \A d \in Cores : ~Writes(d, s)
      /\ \A u \in Threads : flushing[u] # s
  BY <1>1 DEF UsedI
<1>5. OneI'
  BY <1>1, <1>3, <1>4 DEF OneI
<1>6. UsedI'
  BY <1>1, <1>3 DEF UsedI, TypeI
<1> QED  BY <1>2, <1>5, <1>6

\* The sink goes from a store to the hand of a thread.
LEMMA NextReleaseSink ==
  ASSUME IInv, NEW t \in Threads, NEW c \in Cores, NEW s \in Sinks, ReleaseSink(t, c, s)
  PROVE  IInv'
<1> USE DEF IInv, CoreI, SinkI
<1>1. /\ tpc[t] = "idle" /\ coreState[c] = "live" /\ s \in sinkStore[c]
      /\ sinkStore' = [sinkStore EXCEPT ![c] = @ \ {s}]
      /\ flushing' = [flushing EXCEPT ![t] = s]
      /\ tpc' = [tpc EXCEPT ![t] = "flushsink"]
      /\ UNCHANGED <<coreState, handles, holds, pass, on, inUse>>
  BY DEF ReleaseSink, coreVars, passVars, LiveI
<1>2. TypeI'
  BY <1>1 DEF TypeI, Pcs
<1>3. /\ \A u \in Threads : u # t => tpc'[u] = tpc[u] /\ flushing'[u] = flushing[u]
      /\ tpc'[t] = "flushsink" /\ flushing'[t] = s /\ flushing[t] = None /\ s # None
  BY <1>1, NoneAssumption DEF TypeI, FlushI
<1>4. HandlesI' /\ LiveI' /\ OnI' /\ BusyI' /\ PassI' /\ FlushI'
  BY <1>1, <1>3 DEF HandlesI, Holders, LiveI, OnI, BusyI, PassI, FlushI
<1>5. EmptyI'
  BY <1>1 DEF EmptyI, TypeI
<1>6. \A d \in Cores, r \in Sinks : Writes(d, r)' <=> Writes(d, r) /\ ~(d = c /\ r = s)
  BY <1>1 DEF Writes, TypeI
<1>7. Writes(c, s)
  BY <1>1 DEF Writes, Running
<1>8. \A d \in Cores : ~Writes(d, s)'
  BY <1>6, <1>7 DEF OneI
<1>9. \A u \in Threads : flushing[u] # s
  BY <1>7 DEF OneI
<1>10. OneI'
  BY <1>3, <1>6, <1>8, <1>9, NoneAssumption DEF OneI
<1>11. UsedI'
  <2> SUFFICES ASSUME NEW r \in Sinks
               PROVE  inUse'[r] <=> \/ \E d \in Cores : Writes(d, r)'
                                    \/ \E u \in Threads : flushing'[u] = r
    BY DEF UsedI
  <2>1. CASE r = s
    BY <1>1, <1>3, <1>7, <2>1 DEF UsedI
  <2>2. CASE r # s
    BY <1>1, <1>3, <1>6, <2>2, NoneAssumption DEF UsedI
  <2> QED  BY <2>1, <2>2
<1> QED  BY <1>2, <1>4, <1>5, <1>10, <1>11

LEMMA NextFreeSink ==
  ASSUME IInv, NEW t \in Threads, FreeSink(t)
  PROVE  IInv'
<1> USE DEF IInv, CoreI, SinkI
<1>0. PICK s \in Sinks : s = flushing[t]
  BY DEF FreeSink, FlushI, TypeI
<1>1. /\ tpc[t] = "flushsink"
      /\ inUse' = [inUse EXCEPT ![s] = FALSE]
      /\ flushing' = [flushing EXCEPT ![t] = None]
      /\ tpc' = [tpc EXCEPT ![t] = "idle"]
      /\ UNCHANGED <<coreState, handles, holds, pass, on, sinkStore>>
  BY <1>0 DEF FreeSink, coreVars, passVars
<1>2. TypeI'
  BY <1>1 DEF TypeI, Pcs
<1>3. /\ \A u \in Threads : u # t => tpc'[u] = tpc[u] /\ flushing'[u] = flushing[u]
      /\ tpc'[t] = "idle" /\ flushing'[t] = None
  BY <1>1 DEF TypeI
<1>4. HandlesI' /\ LiveI' /\ OnI' /\ BusyI' /\ PassI' /\ FlushI' /\ EmptyI'
  BY <1>1, <1>3 DEF HandlesI, Holders, LiveI, OnI, BusyI, PassI, FlushI, EmptyI
<1>5. \A d \in Cores, r \in Sinks : Writes(d, r)' <=> Writes(d, r)
  BY <1>1 DEF Writes
<1>6. /\ \A d \in Cores : ~Writes(d, s)
      /\ \A u \in Threads : u # t => flushing[u] # s
  BY <1>0 DEF OneI
<1>7. OneI'
  BY <1>3, <1>5, NoneAssumption DEF OneI
<1>8. UsedI'
  <2> SUFFICES ASSUME NEW r \in Sinks
               PROVE  inUse'[r] <=> \/ \E d \in Cores : Writes(d, r)'
                                    \/ \E u \in Threads : flushing'[u] = r
    BY DEF UsedI
  <2>1. CASE r = s
    BY <1>1, <1>3, <1>5, <1>6, <2>1, NoneAssumption DEF TypeI
  <2>2. CASE r # s
    BY <1>0, <1>1, <1>3, <1>5, <2>2, NoneAssumption DEF UsedI, TypeI
  <2> QED  BY <2>1, <2>2
<1> QED  BY <1>2, <1>4, <1>7, <1>8

(***************************************************************************)
(* The theorem about sinks.                                                *)
(***************************************************************************)
LEMMA NextIInv == IInv /\ [Next]_vars => IInv'
<1> SUFFICES ASSUME IInv, [Next]_vars PROVE IInv'
  OBVIOUS
<1> USE DEF coreIVars, idVars, coreVars, passVars, bufVars, sinkVars, callVars
<1>1. CASE UNCHANGED vars
  BY <1>1, Untouched DEF vars
<1>2. ASSUME NEW t \in Threads, ThreadStep(t) PROVE IInv'
  <2>1. ASSUME NEW c \in Cores, InitSlot(t, c) PROVE IInv'
    BY <2>1, NextInitSlot
  <2>2. ASSUME NEW c \in Cores, DropCore(t, c) PROVE IInv'
    BY <2>2, NextDropCore
  <2>3. ASSUME NEW c \in Cores, ReleaseBuffer(t, c) PROVE IInv'
    BY <2>3, Untouched DEF ReleaseBuffer
  <2>4. ASSUME NEW c \in Cores, NEW new \in BOOLEAN, Call(t, c, new) PROVE IInv'
    BY <2>4, NextCall
  <2>5. ASSUME NEW c \in Cores, NEW u \in Threads, ShareCore(t, u, c) PROVE IInv'
    BY <2>5, NextShareCore
  <2>6. ASSUME NEW c \in Cores, NEW s \in Sinks, AddSink(t, c, s) PROVE IInv'
    BY <2>6, NextAddSink
  <2>7. ASSUME NEW c \in Cores, NEW s \in Sinks, ReleaseSink(t, c, s) PROVE IInv'
    BY <2>7, NextReleaseSink
  <2>8. CASE InitDone(t)
    BY <2>8, NextInitDone
  <2>9. CASE InitFails(t)
    BY <2>9, NextInitFails
  <2>10. CASE DestroySinks(t)
    BY <2>10, NextDestroySinks
  <2>11. CASE DestroySlot(t)
    BY <2>11, NextDestroySlot
  <2>12. CASE DestroyMembers(t)
    BY <2>12, NextDestroyMembers
  <2>13. CASE GetBuffer(t) \/ GetBufferFails(t) \/ WriteMessage(t)
    BY <2>13, NextCall
  <2>14. CASE ThreadExit(t)
    BY <2>14, Untouched DEF ThreadExit
  <2>15. CASE FreeSink(t)
    BY <2>15, NextFreeSink
  <2> QED
    BY <1>2, <2>1, <2>2, <2>3, <2>4, <2>5, <2>6, <2>7, <2>8, <2>9, <2>10, <2>11, <2>12,
       <2>13, <2>14, <2>15 DEF ThreadStep
<1>3. ASSUME NEW c \in Cores, CoreStep(c) PROVE IInv'
  <2>1. CASE BeginPass(c)
    BY <2>1, NextBeginPass
  <2>2. CASE SkipBuffer(c)
    BY <2>2, Untouched DEF SkipBuffer
  <2>3. CASE ReadBuffer(c)
    BY <2>3, Untouched DEF ReadBuffer
  <2>4. CASE EndPass(c)
    BY <2>4, NextEndPass
  <2>5. ASSUME NEW b \in Buffers, VisitBuffer(c, b) PROVE IInv'
    BY <2>5, Untouched DEF VisitBuffer
  <2> QED  BY <1>3, <2>1, <2>2, <2>3, <2>4, <2>5 DEF CoreStep
<1> QED  BY <1>1, <1>2, <1>3 DEF Next

LEMMA IInvExclusive == IInv => SinkExclusive
<1> SUFFICES ASSUME IInv, NEW s \in Sinks
             PROVE  Cardinality(Writers(s)) = IF inUse[s] THEN 1 ELSE 0
  BY DEF SinkExclusive
<1> USE DEF IInv, SinkI
<1>1. /\ \A c \in Cores : Writes(c, s) <=> <<"core", c>> \in Writers(s)
      /\ \A t \in Threads : flushing[t] = s <=> <<"thread", t>> \in Writers(s)
      /\ \A w \in Writers(s) : \/ \E c \in Cores : Writes(c, s) /\ w = <<"core", c>>
                               \/ \E t \in Threads : flushing[t] = s /\ w = <<"thread", t>>
  BY DEF Writers, Writes
<1>2. CASE ~inUse[s]
  <2>1. Writers(s) = {}
    BY <1>1, <1>2 DEF UsedI
  <2> QED  BY <1>2, <2>1, FS_EmptySet
<1>3. CASE inUse[s]
  <2>1. \A v, w \in Writers(s) : v = w
    BY <1>1 DEF OneI
  <2>2. PICK w \in Writers(s) : TRUE
    BY <1>1, <1>3 DEF UsedI
  <2>3. Writers(s) = {w}
    BY <2>1, <2>2
  <2> QED  BY <1>3, <2>3, FS_Singleton
<1> QED  BY <1>2, <1>3

\* A sink has one writer while it is in use, and can be used again when it
\* has none, whatever threads add, release and destroy at the same time
\* (exclusive_use_mixin.hpp, add_sink, release_sink and ~core_impl).
THEOREM OneWriter == Spec => []SinkExclusive
<1>1. Spec => []IInv
  BY InitIInv, NextIInv, PTL DEF Spec
<1> QED  BY <1>1, IInvExclusive, PTL

(***************************************************************************)
(* Buffers.  A count of references is right because each buffer has at     *)
(* most one place of a thread (PlaceI) and one store (StoreI), so that it  *)
(* is 0, 1 or 2 (RefsI).  A thread that finds its own entry for a core     *)
(* finds a buffer that the core still has (EntryI), as ids are not used    *)
(* again (IdI), and a pass removes only buffers without a place (UnusedI). *)
(* Messages are in buffers of cores that still read (UnreadI), as the last *)
(* pass of a core leaves none in its buffers (LastI).                      *)
(***************************************************************************)
Placed == {"init", "live", "stopping", "stopped", "released"}

Buf(t, i)     == tls[t][i].buf
EntryId(t, i) == tls[t][i].id
InPlace(b) == \E t \in Threads, i \in Slots : Buf(t, i) = b
InStore(b) == \E c \in Cores : b \in store[c]

BufTypeI ==
  /\ nextId \in Nat \ {0} /\ slotUsed \in [Slots -> BOOLEAN]
  /\ id \in [Cores -> Nat] /\ slot \in [Cores -> Slots \cup {NoSlot}]
  /\ store \in [Cores -> SUBSET Buffers]
  /\ todo \in [Cores -> SUBSET Buffers] /\ cur \in [Cores -> Buffers \cup {None}]
  /\ unused \in [Cores -> BOOLEAN] /\ flushAll \in [Cores -> BOOLEAN]
  /\ refs \in [Buffers -> Nat] /\ owner \in [Buffers -> Nat]
  /\ unread \in [Buffers -> Nat] /\ snap \in [Buffers -> Nat]
  /\ tls \in [Threads -> [Slots -> [id : Nat, buf : Buffers \cup {None}]]]

IdI ==
  /\ \A c \in Cores : coreState[c] \in Placed =>
       id[c] \in 1 .. nextId - 1 /\ slot[c] \in Slots /\ slotUsed[slot[c]]
  /\ \A c, d \in Cores :
       /\ coreState[c] \in Placed /\ coreState[d] \in Placed
       /\ id[c] = id[d] \/ slot[c] = slot[d]
       => c = d

PlaceI == \A t, u \in Threads, i, j \in Slots :
  Buf(t, i) = Buf(u, j) /\ Buf(t, i) # None => t = u /\ i = j
StoreI == \A c, d \in Cores : \A b \in store[c] : b \in store[d] => c = d
One(p) == IF p THEN 1 ELSE 0
RefsI == \A b \in Buffers : refs[b] = One(InPlace(b)) + One(InStore(b))

EntryI == \A t \in Threads, i \in Slots :
  /\ EntryId(t, i) < nextId
  /\ \A c \in Cores : Buf(t, i) # None /\ coreState[c] \in Placed /\ id[c] = EntryId(t, i)
                      => Buf(t, i) \in store[c]
StoredI == \A c \in Cores :
  /\ coreState[c] \in {"none", "init"} => store[c] = {}
  /\ coreState[c] \in Placed => \A b \in store[c] : owner[b] = id[c]

PassesI == \A c \in Cores :
  /\ pass[c] # "idle" => coreState[c] \in {"live", "stopping"}
  /\ pass[c] = "idle" => todo[c] = {} /\ cur[c] = None
  /\ todo[c] \subseteq store[c] /\ cur[c] \in (store[c] \cup {None}) \ todo[c]
  /\ pass[c] = "last" => flushAll[c]
UnusedI == \A c \in Cores : cur[c] # None /\ unused[c] => ~InPlace(cur[c])

UnreadI == \A b \in Buffers :
  /\ snap[b] <= unread[b]
  /\ unread[b] > 0 => \E c \in Cores : b \in store[c] /\ coreState[c] \in {"live", "stopping"}
LastI == \A c \in Cores : pass[c] = "last" =>
  \A b \in store[c] : /\ unread[b] = snap[b]
                      /\ b \notin todo[c] /\ b # cur[c] => unread[b] = 0

\* The call of a thread goes on with what it found in its entry.
CallI == \A t \in Threads : tpc[t] \in {"get", "getnew", "write"} =>
  /\ on[t] \in holds[t] /\ EntryId(t, slot[on[t]]) = id[on[t]]
  /\ tpc[t] = "write" => Buf(t, slot[on[t]]) # None

HoldI == /\ BufTypeI /\ IdI /\ PlaceI /\ StoreI /\ RefsI /\ EntryI /\ StoredI
         /\ PassesI /\ UnusedI /\ UnreadI /\ LastI
BufI == HoldI /\ CallI

LEMMA InitBufI == Init => BufI
<1> SUFFICES ASSUME Init PROVE BufI
  OBVIOUS
<1> USE NoneAssumption
<1>1. BufTypeI
  BY DEF Init, BufTypeI, NoEntry
<1>2. \A t \in Threads, i \in Slots : Buf(t, i) = None /\ EntryId(t, i) = 0
  BY DEF Init, Buf, EntryId, NoEntry
<1>3. IdI /\ StoreI /\ StoredI /\ PassesI /\ UnusedI /\ UnreadI /\ LastI /\ CallI
  BY DEF Init, IdI, Placed, StoreI, StoredI, PassesI, UnusedI, UnreadI, LastI, CallI
<1>4. PlaceI /\ EntryI
  BY <1>2 DEF Init, PlaceI, EntryI
<1>5. RefsI
  BY <1>2 DEF Init, RefsI, One, InPlace, InStore
<1> QED  BY <1>1, <1>3, <1>4, <1>5 DEF BufI, HoldI

\* What a reference less does to each buffer.
LEMMA DropOneAt ==
  ASSUME BufTypeI, NEW B, DropOne(B)
  PROVE  /\ \A b \in Buffers :
              /\ refs'[b] = IF b \in B THEN refs[b] - 1 ELSE refs[b]
              /\ b \in B /\ refs[b] = 1 => owner'[b] = 0 /\ unread'[b] = 0 /\ snap'[b] = 0
              /\ b \notin B \/ refs[b] # 1 =>
                   owner'[b] = owner[b] /\ unread'[b] = unread[b] /\ snap'[b] = snap[b]
         /\ owner' \in [Buffers -> Nat] /\ unread' \in [Buffers -> Nat]
         /\ snap' \in [Buffers -> Nat]
         /\ (\A b \in Buffers \cap B : refs[b] > 0) => refs' \in [Buffers -> Nat]
BY NoneAssumption DEF BufTypeI, DropOne

\* Threads let go of the buffers in B, each at its only place.
LEMMA LetGo ==
  ASSUME IInv, BufI, NEW B \in SUBSET (Buffers \cup {None}), DropOne(B),
         tls' \in [Threads -> [Slots -> [id : Nat, buf : Buffers \cup {None}]]],
         \A t \in Threads, i \in Slots :
           /\ EntryId(t, i)' < nextId
           /\ \/ /\ Buf(t, i)' = Buf(t, i) /\ Buf(t, i) \notin B \ {None}
                 /\ EntryId(t, i)' = EntryId(t, i) \/ Buf(t, i) = None
              \/ Buf(t, i)' = None /\ Buf(t, i) \in B,
         \A b \in B \ {None} : InPlace(b),
         UNCHANGED <<idVars, coreState, id, slot, store, passVars>>
  PROVE  HoldI'
<1> USE NoneAssumption DEF BufI, HoldI, idVars, passVars
<1>1. \A b \in Buffers : InPlace(b)' <=> InPlace(b) /\ b \notin B
  BY DEF InPlace
<1>2. \A b \in Buffers : b \in B => refs[b] = 1 + One(InStore(b))
  BY DEF RefsI, One
<1>3. \A b \in Buffers : b \in B => refs[b] > 0 /\ (InStore(b) => refs[b] # 1)
  BY <1>2 DEF One
<1>4. BufTypeI'
  BY <1>3, DropOneAt DEF BufTypeI
<1>5. IdI' /\ StoreI' /\ PassesI'
  BY DEF IdI, StoreI, PassesI
<1>6. PlaceI'
  BY DEF PlaceI
<1>7. RefsI'
  BY <1>1, <1>2, DropOneAt DEF RefsI, One, InStore
<1>8. EntryI'
  BY DEF EntryI
<1>9. \A b \in Buffers : InStore(b) =>
        owner'[b] = owner[b] /\ unread'[b] = unread[b] /\ snap'[b] = snap[b]
  BY <1>3, DropOneAt
<1>10. \A c \in Cores : \A b \in store[c] : b \in Buffers /\ InStore(b)
  BY DEF InStore, BufTypeI
<1>11. StoredI' /\ LastI'
  BY <1>9, <1>10 DEF StoredI, LastI
<1>12. UnusedI'
  BY <1>1 DEF UnusedI, BufTypeI
<1>13. UnreadI'
  BY DropOneAt DEF UnreadI, BufTypeI
<1> QED  BY <1>4, <1>5, <1>6, <1>7, <1>8, <1>11, <1>12, <1>13

\* What a thread has at the place of a core it has a handle to.
LEMMA EntryAt ==
  ASSUME IInv, BufI, NEW t \in Threads, NEW c \in holds[t]
  PROVE  /\ c \in Cores /\ coreState[c] = "live" /\ coreState[c] \in Placed /\ slot[c] \in Slots
         /\ id[c] \in Nat /\ id[c] < nextId
         /\ Entry(t, c).buf = Buf(t, slot[c]) /\ Entry(t, c).id = EntryId(t, slot[c])
         /\ Buf(t, slot[c]) \in Buffers \cup {None}
BY DEF IInv, CoreI, LiveI, TypeI, BufI, HoldI, IdI, Placed, BufTypeI, Entry, Buf, EntryId

LEMMA SetEntryAt ==
  ASSUME IInv, BufI, NEW t \in Threads, NEW c \in holds[t], NEW b \in Buffers \cup {None},
         SetEntry(t, c, b)
  PROVE  /\ tls' \in [Threads -> [Slots -> [id : Nat, buf : Buffers \cup {None}]]]
         /\ \A u \in Threads, i \in Slots :
              IF u = t /\ i = slot[c]
              THEN Buf(u, i)' = b /\ EntryId(u, i)' = id[c]
              ELSE Buf(u, i)' = Buf(u, i) /\ EntryId(u, i)' = EntryId(u, i)
<1>1. c \in Cores /\ slot[c] \in Slots /\ id[c] \in Nat
  BY EntryAt
<1> QED  BY <1>1 DEF SetEntry, BufI, HoldI, BufTypeI, Buf, EntryId

\* The calls of the other threads, in a step of a thread.
LEMMA OtherCalls ==
  ASSUME IInv, BufI, NEW t \in Threads,
         \A u \in Threads \ {t} :
           /\ tpc'[u] = tpc[u] /\ on'[u] = on[u] /\ holds[u] \subseteq holds'[u]
           /\ \A i \in Slots : Buf(u, i)' = Buf(u, i) /\ EntryId(u, i)' = EntryId(u, i),
         \A c \in Cores : coreState[c] = "live" => id'[c] = id[c] /\ slot'[c] = slot[c],
         tpc'[t] \in {"get", "getnew", "write"} =>
           /\ on'[t] \in holds'[t]
           /\ \E i \in Slots :
                /\ i = slot'[on'[t]] /\ EntryId(t, i)' = id'[on'[t]]
                /\ tpc'[t] = "write" => Buf(t, i)' # None
  PROVE  CallI'
<1>1. \A u \in Threads \ {t} : \A c \in holds[u] :
         c \in Cores /\ coreState[c] = "live" /\ slot[c] \in Slots
  BY EntryAt
<1>2. SUFFICES ASSUME NEW u \in Threads, tpc'[u] \in {"get", "getnew", "write"}
               PROVE  /\ on'[u] \in holds'[u] /\ EntryId(u, slot[on[u]])' = id'[on'[u]]
                      /\ tpc'[u] = "write" => Buf(u, slot[on[u]])' # None
  BY DEF CallI
<1>3. CASE u = t
  BY <1>2, <1>3 DEF Buf, EntryId
<1>4. CASE u # t
  BY <1>1, <1>2, <1>4 DEF BufI, CallI, Buf, EntryId
<1> QED  BY <1>3, <1>4

\* A thread has one entry less, or the one it had for another core.
LEMMA LetGoOfEntry ==
  ASSUME IInv, BufI, NEW t \in Threads, NEW c \in holds[t],
         DropOne({Entry(t, c).buf}), SetEntry(t, c, None),
         UNCHANGED <<idVars, coreState, id, slot, store, passVars>>
  PROVE  HoldI'
<1> DEFINE B == {Buf(t, slot[c])}
<1>1. /\ B \in SUBSET (Buffers \cup {None}) /\ DropOne(B)
      /\ slot[c] \in Slots /\ id[c] < nextId /\ nextId' = nextId
  BY EntryAt DEF idVars
<1>2. /\ tls' \in [Threads -> [Slots -> [id : Nat, buf : Buffers \cup {None}]]]
      /\ \A u \in Threads, i \in Slots :
           IF u = t /\ i = slot[c]
           THEN Buf(u, i)' = None /\ EntryId(u, i)' = id[c]
           ELSE Buf(u, i)' = Buf(u, i) /\ EntryId(u, i)' = EntryId(u, i)
  BY SetEntryAt
<1>3. \A b \in B \ {None} : InPlace(b)
  BY <1>1 DEF InPlace
<1>4. \A u \in Threads, i \in Slots :
        /\ EntryId(u, i)' < nextId
        /\ \/ /\ Buf(u, i)' = Buf(u, i) /\ Buf(u, i) \notin B \ {None}
              /\ EntryId(u, i)' = EntryId(u, i) \/ Buf(u, i) = None
           \/ Buf(u, i)' = None /\ Buf(u, i) \in B
  BY <1>1, <1>2 DEF BufI, HoldI, EntryI, PlaceI
<1> HIDE DEF B
<1> QED  BY <1>1, <1>2, <1>3, <1>4, LetGo

LEMMA BufReleaseBuffer ==
  ASSUME IInv, BufI, NEW t \in Threads, NEW c \in Cores, ReleaseBuffer(t, c)
  PROVE  BufI'
<1>1. /\ tpc[t] = "idle" /\ c \in holds[t] /\ DropOne({Entry(t, c).buf}) /\ SetEntry(t, c, None)
      /\ UNCHANGED <<idVars, coreState, id, slot, store, passVars, holds, tpc, on>>
  BY DEF ReleaseBuffer, coreVars, callVars
<1>2. HoldI'
  BY <1>1, LetGoOfEntry
<1>3. CallI'
  BY <1>1, SetEntryAt, OtherCalls
<1> QED  BY <1>2, <1>3 DEF BufI

LEMMA BufGetBufferFails ==
  ASSUME IInv, BufI, NEW t \in Threads, GetBufferFails(t)
  PROVE  BufI'
<1>0. PICK c \in holds[t] : c = on[t]
  BY DEF GetBufferFails, BufI, CallI
<1>1. /\ DropOne({Entry(t, c).buf}) /\ SetEntry(t, c, None)
      /\ tpc' = [tpc EXCEPT ![t] = "idle"] /\ on' = [on EXCEPT ![t] = None]
      /\ UNCHANGED <<idVars, coreState, id, slot, store, passVars, holds>>
  BY <1>0 DEF GetBufferFails, coreVars
<1>2. HoldI'
  BY <1>1, LetGoOfEntry
<1>3. /\ \A u \in Threads \ {t} : tpc'[u] = tpc[u] /\ on'[u] = on[u]
      /\ tpc'[t] = "idle"
  BY <1>1 DEF IInv, CoreI, TypeI
<1>4. CallI'
  BY <1>1, <1>3, SetEntryAt, OtherCalls
<1> QED  BY <1>2, <1>4 DEF BufI

\* The thread keeps the entry for the core of the call, and lets go of that
\* for any other.
LEMMA BufCall ==
  ASSUME IInv, BufI, NEW t \in Threads, NEW c \in Cores, NEW new \in BOOLEAN, Call(t, c, new)
  PROVE  BufI'
<1>1. /\ c \in holds[t] /\ slot[c] \in Slots /\ id[c] \in Nat /\ id[c] < nextId
      /\ TlsBuffer(t, c) /\ on' = [on EXCEPT ![t] = c]
      /\ tpc' = [tpc EXCEPT ![t] = IF new THEN "getnew"
                       ELSE IF tls'[t][slot[c]].buf = None THEN "get" ELSE "write"]
      /\ UNCHANGED <<idVars, coreState, id, slot, store, passVars, holds>>
  BY EntryAt DEF Call, coreVars
<1>2. HoldI' /\ \A u \in Threads, i \in Slots :
           IF u = t /\ i = slot[c]
           THEN EntryId(u, i)' = id[c]
           ELSE Buf(u, i)' = Buf(u, i) /\ EntryId(u, i)' = EntryId(u, i)
  <2>1. CASE EntryId(t, slot[c]) = id[c]
    <3>1. SetEntry(t, c, Buf(t, slot[c])) /\ DropOne({})
      BY <1>1, <2>1, EntryAt DEF TlsBuffer
    <3>2. /\ tls' \in [Threads -> [Slots -> [id : Nat, buf : Buffers \cup {None}]]]
          /\ \A u \in Threads, i \in Slots : Buf(u, i)' = Buf(u, i) /\ EntryId(u, i)' = EntryId(u, i)
      BY <1>1, <2>1, <3>1, SetEntryAt, EntryAt
    <3> DEFINE B == {}
    <3>3. /\ B \in SUBSET (Buffers \cup {None}) /\ DropOne(B)
          /\ \A b \in B \ {None} : InPlace(b)
          /\ \A u \in Threads, i \in Slots :
               /\ EntryId(u, i)' < nextId
               /\ \/ /\ Buf(u, i)' = Buf(u, i) /\ Buf(u, i) \notin B \ {None}
                     /\ EntryId(u, i)' = EntryId(u, i) \/ Buf(u, i) = None
                  \/ Buf(u, i)' = None /\ Buf(u, i) \in B
      BY <3>1, <3>2, <1>1 DEF BufI, HoldI, EntryI, idVars
    <3> HIDE DEF B
    <3>4. HoldI'
      BY <1>1, <3>2, <3>3, LetGo
    <3> QED  BY <2>1, <3>2, <3>4
  <2>2. CASE EntryId(t, slot[c]) # id[c]
    <3>1. SetEntry(t, c, None) /\ DropOne({Entry(t, c).buf})
      BY <1>1, <2>2, EntryAt DEF TlsBuffer
    <3> QED  BY ZenonT(30), <1>1, <3>1, LetGoOfEntry, SetEntryAt
  <2> QED  BY <2>1, <2>2
<1>3. /\ \A u \in Threads \ {t} : tpc'[u] = tpc[u] /\ on'[u] = on[u]
      /\ on'[t] = c /\ (tpc'[t] = "write" => Buf(t, slot[c])' # None)
  <2>1. slot' = slot
    BY <1>1
  <2> QED  BY <1>1, <2>1 DEF IInv, CoreI, TypeI, Buf
<1>4. CallI'
  BY <1>1, <1>2, <1>3, OtherCalls DEF Buf
<1> QED  BY <1>2, <1>4 DEF BufI

\* The places of a thread that ends.
LEMMA BufThreadExit ==
  ASSUME IInv, BufI, NEW t \in Threads, ThreadExit(t)
  PROVE  BufI'
<1> DEFINE B == {Buf(t, i) : i \in Slots}
<1>1. /\ tpc[t] = "idle" /\ DropOne(B) /\ tls' = [tls EXCEPT ![t] = [i \in Slots |-> NoEntry]]
      /\ UNCHANGED <<idVars, coreState, id, slot, store, passVars, holds, tpc, on>>
  BY DEF ThreadExit, coreVars, callVars, Buf
<1>2. /\ tls' \in [Threads -> [Slots -> [id : Nat, buf : Buffers \cup {None}]]]
      /\ \A i \in Slots : Buf(t, i)' = None /\ EntryId(t, i)' = 0
      /\ \A u \in Threads \ {t}, i \in Slots :
           Buf(u, i)' = Buf(u, i) /\ EntryId(u, i)' = EntryId(u, i)
  BY <1>1 DEF BufI, HoldI, BufTypeI, Buf, EntryId, NoEntry
<1>3. B \in SUBSET (Buffers \cup {None}) /\ \A b \in B \ {None} : InPlace(b)
  BY DEF BufI, HoldI, BufTypeI, Buf, InPlace
<1>4. nextId \in Nat /\ nextId > 0
  BY DEF BufI, HoldI, BufTypeI
<1>5. \A u \in Threads, i \in Slots :
        /\ EntryId(u, i)' < nextId
        /\ \/ /\ Buf(u, i)' = Buf(u, i) /\ Buf(u, i) \notin B \ {None}
              /\ EntryId(u, i)' = EntryId(u, i) \/ Buf(u, i) = None
           \/ Buf(u, i)' = None /\ Buf(u, i) \in B
  BY <1>2, <1>4 DEF BufI, HoldI, EntryI, PlaceI
<1> HIDE DEF B
<1>6. HoldI'
  BY <1>1, <1>2, <1>3, <1>5, LetGo
<1>7. CallI'
  BY <1>1, <1>2, OtherCalls
<1> QED  BY <1>6, <1>7 DEF BufI

\* A buffer that is made: two refer to it, and the thread lets go of the one
\* it had, which the core still has.
LEMMA BufGetBuffer ==
  ASSUME IInv, BufI, NEW t \in Threads, GetBuffer(t)
  PROVE  BufI'
<1> USE NoneAssumption DEF BufI, HoldI
<1>0. PICK c \in holds[t] : c = on[t] /\ pass[c] = "idle" /\ EntryId(t, slot[c]) = id[c]
  BY DEF GetBuffer, CallI
<1>1. PICK b \in Buffers :
        /\ refs[b] = 0 /\ ReplaceBuffer(t, c, b)
        /\ owner' = [owner EXCEPT ![b] = id[c]]
        /\ store' = [store EXCEPT ![c] = @ \cup {b}]
  BY <1>0 DEF GetBuffer
<1>2. /\ tpc' = [tpc EXCEPT ![t] = IF @ = "get" THEN "write" ELSE "idle"]
      /\ on' = [on EXCEPT ![t] = IF tpc[t] = "get" THEN c ELSE None]
      /\ UNCHANGED <<nextId, slotUsed, coreState, id, slot, passVars, unread, snap, holds>>
      /\ UNCHANGED <<pass, todo, cur, unused, flushAll>>
  BY <1>0 DEF GetBuffer, idVars, coreVars, passVars
<1> DEFINE old == Buf(t, slot[c])
<1>3. /\ c \in Cores /\ coreState[c] = "live" /\ coreState[c] \in Placed /\ slot[c] \in Slots
      /\ id[c] \in Nat /\ id[c] < nextId /\ old \in Buffers \cup {None}
      /\ SetEntry(t, c, b)
      /\ refs' = [x \in Buffers |-> IF x = b THEN 2 ELSE IF x = old THEN refs[x] - 1 ELSE refs[x]]
  BY <1>1, EntryAt DEF ReplaceBuffer
<1>4. /\ tls' \in [Threads -> [Slots -> [id : Nat, buf : Buffers \cup {None}]]]
      /\ \A u \in Threads, i \in Slots :
           IF u = t /\ i = slot[c]
           THEN Buf(u, i)' = b /\ EntryId(u, i)' = id[c]
           ELSE Buf(u, i)' = Buf(u, i) /\ EntryId(u, i)' = EntryId(u, i)
  BY <1>3, SetEntryAt
<1>5. ~InPlace(b) /\ ~InStore(b)
  BY <1>1 DEF RefsI, One
<1>6. /\ store' \in [Cores -> SUBSET Buffers] /\ store'[c] = store[c] \cup {b}
      /\ \A d \in Cores \ {c} : store'[d] = store[d]
      /\ owner' \in [Buffers -> Nat] /\ owner'[b] = id[c]
      /\ \A x \in Buffers \ {b} : owner'[x] = owner[x]
  BY <1>1, <1>3 DEF BufTypeI
<1>7. old # None => old \in store[c] /\ old # b /\ InPlace(old) /\ InStore(old) /\ refs[old] = 2
  <2> SUFFICES ASSUME old # None PROVE old \in store[c] /\ InPlace(old)
    BY <1>3, <1>5 DEF InStore, RefsI, One
  <2> QED  BY <1>0, <1>3 DEF EntryI, InPlace
<1>8. \A x \in Buffers : /\ InStore(x)' <=> InStore(x) \/ x = b
                         /\ InPlace(x)' <=> (InPlace(x) /\ x # old) \/ x = b
  <2>1. \A x \in Buffers : InStore(x)' <=> InStore(x) \/ x = b
    BY <1>3, <1>6 DEF InStore
  <2>2. \A x \in Buffers : InPlace(x)' <=> (InPlace(x) /\ x # old) \/ x = b
    BY <1>3, <1>4 DEF InPlace, PlaceI
  <2> QED  BY <2>1, <2>2
<1>9. RefsI'
  <2> SUFFICES ASSUME NEW x \in Buffers PROVE refs'[x] = One(InPlace(x)') + One(InStore(x)')
    BY DEF RefsI, One
  <2>1. CASE x = b
    BY <1>3, <1>8, <2>1 DEF One
  <2>2. CASE x # b /\ x = old
    BY <1>3, <1>7, <1>8, <2>2 DEF One
  <2>3. CASE x # b /\ x # old
    BY <1>3, <1>8, <2>3 DEF One, RefsI
  <2> QED  BY <2>1, <2>2, <2>3
<1>10. BufTypeI'
  <2>1. refs' \in [Buffers -> Nat]
    BY <1>3, <1>7 DEF BufTypeI
  <2> QED  BY <1>2, <1>4, <1>6, <2>1 DEF BufTypeI
<1>11. IdI'
  BY <1>2 DEF IdI
<1>12. PlaceI'
  BY <1>4, <1>5 DEF PlaceI, InPlace
<1>13. StoreI'
  BY <1>5, <1>6 DEF StoreI, InStore
<1>14. EntryI'
  <2> SUFFICES ASSUME NEW u \in Threads, NEW i \in Slots
               PROVE  /\ EntryId(u, i)' < nextId'
                      /\ \A d \in Cores : /\ Buf(u, i)' # None
                                          /\ coreState'[d] \in Placed /\ id'[d] = EntryId(u, i)'
                                          => Buf(u, i)' \in store'[d]
    BY DEF EntryI, Placed
  <2>1. \A d \in Cores : store[d] \subseteq store'[d]
    BY <1>6
  <2>2. CASE u = t /\ i = slot[c]
    BY <1>2, <1>3, <1>4, <1>6, <2>2 DEF IdI
  <2>3. CASE ~(u = t /\ i = slot[c])
    BY <1>2, <1>4, <2>1, <2>3 DEF EntryI
  <2> QED  BY <2>2, <2>3
<1>15. StoredI'
  <2>1. \A d \in Cores : \A x \in store'[d] : (x \in store[d] /\ x # b) \/ (x = b /\ d = c)
    BY <1>5, <1>6 DEF InStore
  <2>2. \A d \in Cores : coreState[d] \in {"none", "init"} => d # c
    BY <1>3
  <2> QED  BY <1>2, <1>6, <2>1, <2>2 DEF StoredI, BufTypeI, Placed
<1>16. PassesI' /\ LastI'
  BY <1>0, <1>2, <1>6 DEF PassesI, LastI
<1>17. UnusedI'
  <2>1. \A d \in Cores : cur[d] # None => InStore(cur[d])
    BY DEF PassesI, InStore
  <2> QED  BY <1>2, <1>5, <1>8, <2>1 DEF UnusedI, BufTypeI
<1>18. UnreadI'
  BY <1>2, <1>3, <1>6 DEF UnreadI
<1>19. CallI'
  <2>1. /\ \A u \in Threads \ {t} : tpc'[u] = tpc[u] /\ on'[u] = on[u]
        /\ tpc'[t] \in {"idle", "write"} /\ (tpc'[t] = "write" => on'[t] = c)
    BY <1>2 DEF IInv, CoreI, TypeI
  <2> QED  BY <1>2, <1>3, <1>4, <2>1, OtherCalls
<1> QED  BY <1>9, <1>10, <1>11, <1>12, <1>13, <1>14, <1>15, <1>16, <1>17, <1>18, <1>19

LEMMA BufWriteMessage ==
  ASSUME IInv, BufI, NEW t \in Threads, WriteMessage(t)
  PROVE  BufI'
<1> USE NoneAssumption DEF BufI, HoldI
<1>0. PICK c \in holds[t] : c = on[t] /\ EntryId(t, slot[c]) = id[c] /\ Buf(t, slot[c]) # None
  BY DEF WriteMessage, CallI
<1>1. /\ c \in Cores /\ coreState[c] = "live" /\ coreState[c] \in Placed /\ slot[c] \in Slots
      /\ Buf(t, slot[c]) \in Buffers
  BY <1>0, EntryAt
<1>2. PICK b \in Buffers : b = Buf(t, slot[c])
  BY <1>1
<1>3. /\ unread' = [unread EXCEPT ![b] = @ + 1]
      /\ tpc' = [tpc EXCEPT ![t] = "idle"] /\ on' = [on EXCEPT ![t] = None]
      /\ UNCHANGED <<nextId, slotUsed, coreState, id, slot, store, refs, owner, snap, holds, tls>>
      /\ UNCHANGED <<pass, todo, cur, unused, flushAll>>
  BY <1>0, <1>2, EntryAt DEF WriteMessage, idVars, coreVars, passVars
<1>4. b \in store[c]
  BY <1>0, <1>1, <1>2 DEF EntryI
<1>5. /\ unread' \in [Buffers -> Nat] /\ unread'[b] = unread[b] + 1
      /\ \A x \in Buffers \ {b} : unread'[x] = unread[x]
  BY <1>3 DEF BufTypeI
<1>6. BufTypeI' /\ IdI' /\ StoreI' /\ StoredI' /\ PassesI'
  BY <1>3, <1>5 DEF BufTypeI, IdI, StoreI, StoredI, PassesI
<1>7. PlaceI' /\ RefsI' /\ EntryI' /\ UnusedI'
  BY <1>3 DEF PlaceI, RefsI, One, EntryI, UnusedI, InPlace, InStore, Buf, EntryId
<1>8. UnreadI'
  BY <1>1, <1>3, <1>4, <1>5 DEF UnreadI, BufTypeI
<1>9. LastI'
  <2>1. \A d \in Cores : pass[d] = "last" => b \notin store[d]
    BY <1>1, <1>4 DEF IInv, CoreI, PassI, StoreI
  <2> QED  BY <1>3, <1>5, <2>1 DEF LastI, BufTypeI
<1>10. CallI'
  <2>1. /\ \A u \in Threads \ {t} : tpc'[u] = tpc[u] /\ on'[u] = on[u]
        /\ tpc'[t] = "idle"
    BY <1>3 DEF IInv, CoreI, TypeI
  <2> QED  BY <1>3, <2>1, OtherCalls DEF Buf, EntryId
<1> QED  BY <1>6, <1>7, <1>8, <1>9, <1>10

(***************************************************************************)
(* Buffers while a core comes and goes.                                    *)
(***************************************************************************)

\* Steps that change where cores are in their lives, and no buffer.
LEMMA BufMoves ==
  ASSUME IInv, BufI,
         \A c \in Cores :
           /\ coreState'[c] \in Placed => coreState[c] \in Placed
           /\ coreState'[c] \in {"none", "init"} => coreState[c] \in {"none", "init"}
           /\ coreState[c] \in {"live", "stopping"} => coreState'[c] \in {"live", "stopping"},
         UNCHANGED <<idVars, id, slot, store, passVars, bufVars, tls>>
  PROVE  HoldI'
<1> USE DEF BufI, HoldI, idVars, passVars, bufVars
<1>1. /\ BufTypeI' /\ PlaceI' /\ StoreI' /\ RefsI' /\ UnusedI' /\ LastI'
  BY DEF BufTypeI, PlaceI, StoreI, RefsI, One, InPlace, InStore, UnusedI, LastI, Buf
<1>2. IdI' /\ EntryI' /\ StoredI' /\ PassesI' /\ UnreadI'
  BY DEF IdI, EntryI, StoredI, PassesI, UnreadI, Buf, EntryId
<1> QED  BY <1>1, <1>2

LEMMA BufInitSlot ==
  ASSUME IInv, BufI, NEW t \in Threads, NEW c \in Cores, InitSlot(t, c)
  PROVE  BufI'
<1> USE DEF BufI, HoldI
<1>1. PICK i \in Slots :
        /\ ~slotUsed[i] /\ slotUsed' = [slotUsed EXCEPT ![i] = TRUE]
        /\ slot' = [slot EXCEPT ![c] = i]
  BY DEF InitSlot
<1>2. /\ coreState[c] = "none"
      /\ id' = [id EXCEPT ![c] = nextId] /\ nextId' = nextId + 1
      /\ coreState' = [coreState EXCEPT ![c] = "init"]
      /\ tpc' = [tpc EXCEPT ![t] = "init"] /\ on' = [on EXCEPT ![t] = c]
      /\ UNCHANGED <<store, pass, todo, cur, unused, flushAll, refs, owner, unread, snap,
                     holds, tls>>
  BY DEF InitSlot, passVars, bufVars
<1>3. /\ BufTypeI' /\ id'[c] = nextId /\ slot'[c] = i /\ slotUsed'[i] /\ coreState'[c] = "init"
      /\ \A d \in Cores \ {c} : id'[d] = id[d] /\ slot'[d] = slot[d] /\ coreState'[d] = coreState[d]
      /\ \A j \in Slots : slotUsed[j] => slotUsed'[j]
  BY <1>1, <1>2 DEF BufTypeI, IInv, CoreI, TypeI
<1>4. PlaceI' /\ StoreI' /\ RefsI' /\ UnusedI' /\ LastI'
  BY <1>2 DEF PlaceI, StoreI, RefsI, One, InPlace, InStore, UnusedI, LastI, Buf
<1>5. IdI'
  BY <1>1, <1>2, <1>3 DEF IdI, BufTypeI
<1>6. \A u \in Threads, j \in Slots : Buf(u, j)' = Buf(u, j) /\ EntryId(u, j)' = EntryId(u, j)
  BY <1>2 DEF Buf, EntryId
<1>7. EntryI'
  <2>1. nextId \in Nat /\ \A u \in Threads, j \in Slots : EntryId(u, j) \in Nat
    BY DEF BufTypeI, EntryId
  <2> QED  BY <1>2, <1>3, <1>6, <2>1 DEF EntryI
<1>8. StoredI' /\ PassesI' /\ UnreadI'
  BY <1>2, <1>3 DEF StoredI, PassesI, UnreadI
<1>9. CallI'
  <2>1. /\ \A u \in Threads \ {t} : tpc'[u] = tpc[u] /\ on'[u] = on[u]
        /\ tpc'[t] = "init"
    BY <1>2 DEF IInv, CoreI, TypeI
  <2>2. \A d \in Cores : coreState[d] = "live" => id'[d] = id[d] /\ slot'[d] = slot[d]
    BY <1>2, <1>3
  <2> QED  BY <1>2, <1>6, <2>1, <2>2, OtherCalls
<1> QED  BY <1>3, <1>4, <1>5, <1>7, <1>8, <1>9

LEMMA BufInitDone ==
  ASSUME IInv, BufI, NEW t \in Threads, InitDone(t) \/ InitFails(t)
  PROVE  BufI'
<1>0. PICK c \in Cores : c = on[t] /\ coreState[c] = "init"
  BY DEF InitDone, InitFails, IInv, CoreI, OnI
<1>1. /\ \/ coreState' = [coreState EXCEPT ![c] = "live"] /\ tpc' = [tpc EXCEPT ![t] = "idle"]
            /\ holds' = [holds EXCEPT ![t] = @ \cup {c}] /\ on' = [on EXCEPT ![t] = None]
         \/ coreState' = [coreState EXCEPT ![c] = "stopped"] /\ tpc' = [tpc EXCEPT ![t] = "destroy"]
            /\ UNCHANGED <<holds, on>>
      /\ UNCHANGED <<idVars, id, slot, store, passVars, bufVars, tls>>
  BY <1>0 DEF InitDone, InitFails
<1>2. HoldI'
  BY <1>0, <1>1, BufMoves DEF IInv, CoreI, TypeI, Placed
<1>3. \A u \in Threads \ {t} : tpc'[u] = tpc[u] /\ on'[u] = on[u] /\ holds'[u] = holds[u]
  BY <1>1 DEF IInv, CoreI, TypeI
<1>4. tpc'[t] \in {"idle", "destroy"}
  BY <1>1 DEF IInv, CoreI, TypeI
<1>5. CallI'
  BY <1>1, <1>3, <1>4, OtherCalls DEF Buf, EntryId
<1> QED  BY <1>2, <1>5 DEF BufI

LEMMA BufShareCore ==
  ASSUME IInv, BufI, NEW t \in Threads, NEW u \in Threads, NEW c \in Cores, ShareCore(t, u, c)
  PROVE  BufI'
<1>1. /\ holds' = [holds EXCEPT ![u] = @ \cup {c}]
      /\ UNCHANGED <<idVars, coreState, id, slot, store, passVars, bufVars, tls, tpc, on>>
  BY DEF ShareCore, callVars
<1>2. HoldI'
  BY <1>1, BufMoves
<1>3. CallI'
  BY <1>1 DEF BufI, CallI, IInv, CoreI, TypeI, Buf, EntryId
<1> QED  BY <1>2, <1>3 DEF BufI

LEMMA BufDropCore ==
  ASSUME IInv, BufI, NEW t \in Threads, NEW c \in Cores, DropCore(t, c)
  PROVE  BufI'
<1>1. /\ tpc[t] = "idle" /\ c \in holds[t] /\ coreState[c] = "live"
      /\ holds' = [holds EXCEPT ![t] = @ \ {c}]
      /\ \/ UNCHANGED <<coreState, tpc, on>>
         \/ /\ coreState' = [coreState EXCEPT ![c] = "stopping"]
            /\ tpc' = [tpc EXCEPT ![t] = "destroy"] /\ on' = [on EXCEPT ![t] = c]
      /\ UNCHANGED <<idVars, id, slot, store, passVars, bufVars, tls>>
  BY DEF DropCore, IInv, CoreI, LiveI
<1>2. HoldI'
  BY <1>1, BufMoves DEF IInv, CoreI, TypeI, Placed
<1>3. \A u \in Threads \ {t} : tpc'[u] = tpc[u] /\ on'[u] = on[u] /\ holds'[u] = holds[u]
  BY <1>1 DEF IInv, CoreI, TypeI
<1>4. tpc'[t] \in {"idle", "destroy"}
  BY <1>1 DEF IInv, CoreI, TypeI
<1>5. CallI'
  BY <1>1, <1>3, <1>4, OtherCalls DEF Buf, EntryId
<1> QED  BY <1>2, <1>5 DEF BufI

LEMMA BufDestroySinks ==
  ASSUME IInv, BufI, NEW t \in Threads, DestroySinks(t)
  PROVE  BufI'
<1>0. PICK c \in Cores : c = on[t] /\ coreState[c] = "stopped"
  BY DEF DestroySinks, IInv, CoreI, OnI
<1>1. /\ coreState' = [coreState EXCEPT ![c] = "released"]
      /\ UNCHANGED <<idVars, id, slot, store, passVars, bufVars, tls, holds, tpc, on>>
  BY <1>0 DEF DestroySinks, callVars
<1>2. HoldI'
  BY <1>0, <1>1, BufMoves DEF IInv, CoreI, TypeI, Placed
<1>3. CallI'
  BY <1>1 DEF BufI, CallI, Buf, EntryId
<1> QED  BY <1>2, <1>3 DEF BufI

LEMMA BufDestroySlot ==
  ASSUME IInv, BufI, NEW t \in Threads, DestroySlot(t)
  PROVE  BufI'
<1> USE DEF BufI, HoldI
<1>0. PICK c \in Cores : c = on[t] /\ coreState[c] = "released"
  BY DEF DestroySlot, IInv, CoreI, OnI
<1>1. PICK i \in Slots : i = slot[c]
  BY <1>0 DEF IdI, Placed
<1>2. /\ slotUsed' = [slotUsed EXCEPT ![i] = FALSE]
      /\ slot' = [slot EXCEPT ![c] = NoSlot] /\ id' = [id EXCEPT ![c] = 0]
      /\ coreState' = [coreState EXCEPT ![c] = "members"]
      /\ UNCHANGED <<nextId, store, pass, todo, cur, unused, flushAll, refs, owner, unread, snap,
                     holds, tls, tpc, on>>
  BY <1>0, <1>1 DEF DestroySlot, passVars, bufVars, callVars
<1>3. /\ BufTypeI' /\ id'[c] = 0 /\ coreState'[c] = "members"
      /\ \A d \in Cores \ {c} : id'[d] = id[d] /\ slot'[d] = slot[d] /\ coreState'[d] = coreState[d]
      /\ \A j \in Slots \ {i} : slotUsed'[j] = slotUsed[j]
  BY <1>0, <1>1, <1>2 DEF BufTypeI, IInv, CoreI, TypeI
<1>4. PlaceI' /\ StoreI' /\ RefsI' /\ UnusedI' /\ LastI'
  BY <1>2 DEF PlaceI, StoreI, RefsI, One, InPlace, InStore, UnusedI, LastI, Buf
<1>5. "members" \notin Placed /\ "released" \in Placed
  BY DEF Placed
<1>6. IdI'
  BY <1>0, <1>1, <1>2, <1>3, <1>5 DEF IdI
<1>7. EntryI' /\ StoredI' /\ PassesI' /\ UnreadI'
  BY <1>0, <1>2, <1>3, <1>5 DEF EntryI, StoredI, PassesI, UnreadI, Buf, EntryId
<1>8. CallI'
  <2>1. \A u \in Threads : \A d \in holds[u] : d \in Cores /\ d # c
    BY <1>0, EntryAt
  <2>2. \A u \in Threads : \A d \in holds[u] : slot'[d] = slot[d] /\ id'[d] = id[d]
    BY <1>3, <2>1
  <2> QED  BY <1>2, <2>2 DEF CallI, Buf, EntryId
<1> QED  BY <1>3, <1>4, <1>6, <1>7, <1>8

\* The buffers of a core that is gone: those a thread has stay with it.
LEMMA BufDestroyMembers ==
  ASSUME IInv, BufI, NEW t \in Threads, DestroyMembers(t)
  PROVE  BufI'
<1> USE DEF BufI, HoldI
<1>0. PICK c \in Cores : c = on[t] /\ coreState[c] = "members"
  BY DEF DestroyMembers, IInv, CoreI, OnI
<1>1. /\ DropOne(store[c]) /\ store' = [store EXCEPT ![c] = {}]
      /\ coreState' = [coreState EXCEPT ![c] = "none"]
      /\ tpc' = [tpc EXCEPT ![t] = "idle"] /\ on' = [on EXCEPT ![t] = None]
      /\ UNCHANGED <<nextId, slotUsed, id, slot, pass, todo, cur, unused, flushAll, holds, tls>>
  BY <1>0 DEF DestroyMembers, passVars, idVars
<1>2. /\ store' \in [Cores -> SUBSET Buffers] /\ store'[c] = {} /\ coreState'[c] = "none"
      /\ \A d \in Cores \ {c} : store'[d] = store[d] /\ coreState'[d] = coreState[d]
  BY <1>1 DEF BufTypeI, IInv, CoreI, TypeI
<1>3. \A b \in Buffers : /\ InStore(b)' <=> InStore(b) /\ b \notin store[c]
                         /\ InPlace(b)' <=> InPlace(b)
  <2>1. \A b \in Buffers : InPlace(b)' <=> InPlace(b)
    BY <1>1 DEF InPlace, Buf
  <2>2. \A b \in Buffers : InStore(b)' <=> InStore(b) /\ b \notin store[c]
    BY <1>2 DEF InStore, StoreI
  <2> QED  BY <2>1, <2>2
<1>4. \A b \in store[c] : b \in Buffers /\ InStore(b) /\ refs[b] = 1 + One(InPlace(b))
  <2>1. \A b \in store[c] : b \in Buffers /\ InStore(b)
    BY <1>0 DEF BufTypeI, InStore
  <2> QED  BY <2>1 DEF RefsI, One
<1>5. \A b \in store[c] : refs[b] > 0
  BY <1>4 DEF One
<1>6. BufTypeI'
  BY <1>1, <1>2, <1>5, DropOneAt DEF BufTypeI
<1>7. RefsI'
  <2> SUFFICES ASSUME NEW b \in Buffers PROVE refs'[b] = One(InPlace(b)') + One(InStore(b)')
    BY DEF RefsI, One
  <2>1. refs'[b] = IF b \in store[c] THEN refs[b] - 1 ELSE refs[b]
    BY <1>1, DropOneAt
  <2>2. CASE b \in store[c]
    BY <1>3, <1>4, <2>1, <2>2 DEF One
  <2>3. CASE b \notin store[c]
    BY <1>3, <2>1, <2>3 DEF RefsI, One
  <2> QED  BY <2>2, <2>3
<1>8. IdI'
  BY <1>1, <1>2 DEF IdI, Placed
<1>9. PlaceI' /\ StoreI'
  BY <1>1, <1>2 DEF PlaceI, StoreI, Buf
<1>10. EntryI'
  BY <1>1, <1>2 DEF EntryI, Placed, Buf, EntryId
<1>11. PassesI' /\ UnusedI'
  BY <1>0, <1>1, <1>2, <1>3 DEF PassesI, UnusedI, BufTypeI
\* A buffer of another core is not one of these.
<1>12. \A d \in Cores \ {c} : \A b \in store[d] : b \in Buffers /\ b \notin store[c]
  BY DEF StoreI, BufTypeI
<1>13. StoredI'
  BY <1>1, <1>2, <1>12, DropOneAt DEF StoredI, Placed
<1>14. LastI'
  BY <1>1, <1>2, <1>12, DropOneAt DEF LastI
<1>15. UnreadI'
  <2> SUFFICES ASSUME NEW b \in Buffers
               PROVE  /\ snap'[b] <= unread'[b]
                      /\ unread'[b] > 0 => \E d \in Cores : /\ b \in store'[d]
                                                            /\ coreState'[d] \in {"live", "stopping"}
    BY DEF UnreadI
  <2>1. b \in store[c] => unread[b] = 0
    <3> SUFFICES ASSUME b \in store[c], unread[b] # 0 PROVE FALSE
      OBVIOUS
    <3>0. unread[b] > 0
      BY DEF BufTypeI
    <3>1. PICK d \in Cores : b \in store[d] /\ coreState[d] \in {"live", "stopping"}
      BY <3>0 DEF UnreadI
    <3>2. c = d
      BY <1>0, <3>1 DEF StoreI
    <3> QED  BY <1>0, <3>1, <3>2
  <2>2. CASE b \in store[c] /\ refs[b] = 1
    <3>1. unread'[b] = 0 /\ snap'[b] = 0
      BY <1>1, <2>2, DropOneAt
    <3> QED  BY <3>1
  <2>3. CASE b \notin store[c] \/ refs[b] # 1
    <3>1. unread'[b] = unread[b] /\ snap'[b] = snap[b]
      BY <1>1, <2>3, DropOneAt
    <3> QED  BY <1>0, <1>2, <2>1, <3>1 DEF UnreadI, BufTypeI
  <2> QED  BY <2>2, <2>3
<1>16. CallI'
  <2>1. /\ \A u \in Threads \ {t} : tpc'[u] = tpc[u] /\ on'[u] = on[u]
        /\ tpc'[t] = "idle"
    BY <1>1 DEF IInv, CoreI, TypeI
  <2> QED  BY <1>1, <2>1, OtherCalls DEF Buf, EntryId
<1> QED  BY <1>6, <1>7, <1>8, <1>9, <1>10, <1>11, <1>13, <1>14, <1>15, <1>16

(***************************************************************************)
(* Buffers in a pass.                                                      *)
(***************************************************************************)
LEMMA BufBeginPass ==
  ASSUME IInv, BufI, NEW c \in Cores, BeginPass(c)
  PROVE  BufI'
<1> USE DEF BufI, HoldI
<1>1. /\ pass[c] = "idle" /\ coreState[c] \in {"live", "stopping"}
      /\ pass' = [pass EXCEPT ![c] = IF coreState[c] = "stopping" THEN "last" ELSE "next"]
      /\ flushAll' = [flushAll EXCEPT ![c] = coreState[c] = "stopping"]
      /\ todo' = [todo EXCEPT ![c] = store[c]]
      /\ snap' = [b \in Buffers |-> IF b \in store[c] THEN unread[b] ELSE snap[b]]
      /\ UNCHANGED <<nextId, slotUsed, coreState, id, slot, store, cur, unused, refs, owner, unread,
                     holds, tls, tpc, on>>
  BY DEF BeginPass, idVars, coreVars, callVars
<1>2. BufTypeI'
  BY <1>1 DEF BufTypeI
<1>3. /\ \A d \in Cores \ {c} : pass'[d] = pass[d] /\ flushAll'[d] = flushAll[d] /\ todo'[d] = todo[d]
      /\ todo'[c] = store[c] /\ pass'[c] # "idle"
      /\ pass'[c] = "last" => flushAll'[c]
  BY <1>1 DEF BufTypeI, IInv, CoreI, TypeI
<1>4. IdI' /\ PlaceI' /\ StoreI' /\ RefsI' /\ EntryI' /\ StoredI' /\ UnusedI' /\ CallI'
  BY <1>1 DEF IdI, PlaceI, StoreI, RefsI, One, InPlace, InStore, EntryI, StoredI, UnusedI,
              CallI, Buf, EntryId
<1>5. PassesI'
  <2>1. cur[c] = None /\ cur[c] \notin store[c]
    BY <1>1, NoneAssumption DEF PassesI, BufTypeI
  <2> QED  BY <1>1, <1>3, <2>1 DEF PassesI
<1>6. UnreadI'
  BY <1>1 DEF UnreadI, BufTypeI
<1>7. LastI'
  BY <1>1, <1>3 DEF LastI, StoreI, BufTypeI
<1> QED  BY <1>2, <1>4, <1>5, <1>6, <1>7

LEMMA BufVisitBuffer ==
  ASSUME IInv, BufI, NEW c \in Cores, NEW b \in Buffers, VisitBuffer(c, b)
  PROVE  BufI'
<1> USE DEF BufI, HoldI
<1>1. /\ pass[c] \in {"next", "last"} /\ b \in todo[c] /\ cur[c] = None
      /\ todo' = [todo EXCEPT ![c] = @ \ {b}] /\ cur' = [cur EXCEPT ![c] = b]
      /\ unused' = [unused EXCEPT ![c] = refs[b] = 1]
      /\ UNCHANGED <<nextId, slotUsed, coreState, id, slot, store, pass, flushAll, refs, owner,
                     unread, snap, holds, tls, tpc, on>>
  BY DEF VisitBuffer, idVars, coreVars, bufVars, callVars
<1>2. BufTypeI'
  BY <1>1 DEF BufTypeI
<1>3. /\ \A d \in Cores \ {c} : cur'[d] = cur[d] /\ unused'[d] = unused[d] /\ todo'[d] = todo[d]
      /\ todo'[c] = todo[c] \ {b} /\ cur'[c] = b /\ (unused'[c] <=> refs[b] = 1)
  BY <1>1 DEF BufTypeI
<1>4. IdI' /\ PlaceI' /\ StoreI' /\ RefsI' /\ EntryI' /\ StoredI' /\ UnreadI' /\ CallI'
  BY <1>1 DEF IdI, PlaceI, StoreI, RefsI, One, InPlace, InStore, EntryI, StoredI, UnreadI,
              CallI, Buf, EntryId
<1>5. PassesI'
  BY <1>1, <1>3 DEF PassesI
<1>6. UnusedI'
  <2>1. InStore(b)
    BY <1>1 DEF PassesI, InStore
  <2>2. refs[b] = 1 => ~InPlace(b)
    BY <2>1 DEF RefsI, One
  <2>3. \A x : InPlace(x)' <=> InPlace(x)
    BY <1>1 DEF InPlace, Buf
  <2> QED  BY <1>3, <2>2, <2>3 DEF UnusedI
<1>7. LastI'
  <2>1. \A d \in Cores : \A x \in store[d] : x \in todo[d] \/ x = cur[d] => x \in todo'[d] \/ x = cur'[d]
    BY <1>1, <1>3, NoneAssumption DEF BufTypeI
  <2> QED  BY <1>1, <2>1 DEF LastI
<1> QED  BY <1>2, <1>4, <1>5, <1>6, <1>7

\* The last pass of a core skips no buffer.
LEMMA BufSkipBuffer ==
  ASSUME IInv, BufI, NEW c \in Cores, SkipBuffer(c)
  PROVE  BufI'
<1> USE DEF BufI, HoldI
<1>1. /\ pass[c] = "next" /\ cur' = [cur EXCEPT ![c] = None]
      /\ UNCHANGED <<nextId, slotUsed, coreState, id, slot, store, pass, todo, unused, flushAll,
                     refs, owner, unread, snap, holds, tls, tpc, on>>
  BY DEF SkipBuffer, idVars, coreVars, bufVars, callVars
<1>2. BufTypeI' /\ cur'[c] = None /\ \A d \in Cores \ {c} : cur'[d] = cur[d]
  BY <1>1 DEF BufTypeI
<1>3. IdI' /\ PlaceI' /\ StoreI' /\ RefsI' /\ EntryI' /\ StoredI' /\ UnreadI' /\ CallI'
  BY <1>1 DEF IdI, PlaceI, StoreI, RefsI, One, InPlace, InStore, EntryI, StoredI, UnreadI,
              CallI, Buf, EntryId
<1>4. PassesI'
  BY <1>1, <1>2, NoneAssumption DEF PassesI, BufTypeI
<1>5. UnusedI' /\ LastI'
  BY <1>1, <1>2 DEF UnusedI, LastI, InPlace, Buf
<1> QED  BY <1>2, <1>3, <1>4, <1>5

\* What a read does to the buffer at hand: it is removed only if nobody else
\* refers to it, and then it is empty.
LEMMA ReadAt ==
  ASSUME IInv, BufI, NEW c \in Cores, ReadBuffer(c)
  PROVE  \E b \in Buffers, gone \in BOOLEAN :
           /\ b = cur[c] /\ b \in store[c] /\ pass[c] # "idle" /\ coreState[c] \in {"live", "stopping"}
           /\ gone => refs[b] = 1 /\ ~InPlace(b) /\ unread[b] = snap[b]
           /\ refs' = [refs EXCEPT ![b] = IF gone THEN 0 ELSE @]
           /\ owner' = [owner EXCEPT ![b] = IF gone THEN 0 ELSE @]
           /\ unread' = [unread EXCEPT ![b] = @ - snap[b]] /\ snap' = [snap EXCEPT ![b] = 0]
           /\ store' = [store EXCEPT ![c] = IF gone THEN @ \ {b} ELSE @]
<1> USE DEF BufI, HoldI
<1>1. PICK b \in Buffers : b = cur[c] /\ b # None
  BY NoneAssumption DEF ReadBuffer, BufTypeI
<1>2. b \in store[c] /\ pass[c] # "idle" /\ coreState[c] \in {"live", "stopping"}
  BY <1>1 DEF PassesI
<1> DEFINE gone == unused[c] /\ unread[b] = snap[b]
<1>3. gone \in BOOLEAN /\ Removed(c, gone)
  BY <1>1 DEF ReadBuffer, Remove
<1>4. gone => refs[b] = 1 /\ ~InPlace(b) /\ unread[b] = snap[b]
  BY <1>1, <1>2 DEF UnusedI, RefsI, One, InStore
<1> HIDE DEF gone
<1>5. /\ refs' = [refs EXCEPT ![b] = IF gone THEN 0 ELSE @]
      /\ owner' = [owner EXCEPT ![b] = IF gone THEN 0 ELSE @]
      /\ unread' = [unread EXCEPT ![b] = @ - snap[b]] /\ snap' = [snap EXCEPT ![b] = 0]
      /\ store' = [store EXCEPT ![c] = IF gone THEN @ \ {b} ELSE @]
  <2>1. CASE gone
    <3>1. refs[b] = 1 /\ refs[b] - 1 = 0 /\ unread[b] - snap[b] = 0
      BY <1>4, <2>1 DEF BufTypeI
    <3> QED  BY <1>1, <1>3, <2>1, <3>1 DEF Removed
  <2>2. CASE ~gone
    BY <1>1, <1>3, <2>2 DEF Removed, BufTypeI
  <2> QED  BY <2>1, <2>2
<1> QED  BY <1>1, <1>2, <1>3, <1>4, <1>5

LEMMA BufReadBuffer ==
  ASSUME IInv, BufI, NEW c \in Cores, ReadBuffer(c)
  PROVE  BufI'
<1> USE DEF BufI, HoldI
<1>1. PICK b \in Buffers, gone \in BOOLEAN :
        /\ b = cur[c] /\ b \in store[c] /\ pass[c] # "idle" /\ coreState[c] \in {"live", "stopping"}
        /\ gone => refs[b] = 1 /\ ~InPlace(b) /\ unread[b] = snap[b]
        /\ refs' = [refs EXCEPT ![b] = IF gone THEN 0 ELSE @]
        /\ owner' = [owner EXCEPT ![b] = IF gone THEN 0 ELSE @]
        /\ unread' = [unread EXCEPT ![b] = @ - snap[b]] /\ snap' = [snap EXCEPT ![b] = 0]
        /\ store' = [store EXCEPT ![c] = IF gone THEN @ \ {b} ELSE @]
  BY ReadAt
<1>2. PICK restart \in BOOLEAN :
        /\ restart => ~flushAll[c]
        /\ todo' = [todo EXCEPT ![c] = IF restart THEN store'[c] ELSE @]
        /\ flushAll' = [flushAll EXCEPT ![c] = @ \/ restart]
  BY DEF ReadBuffer
<1>3. /\ cur' = [cur EXCEPT ![c] = None] /\ unused' = [unused EXCEPT ![c] = FALSE]
      /\ cur[c] # None
      /\ UNCHANGED <<nextId, slotUsed, coreState, id, slot, pass, holds, tls, tpc, on>>
  BY DEF ReadBuffer, idVars, coreVars, callVars
<1>4. snap[b] <= unread[b] /\ unread[b] \in Nat /\ snap[b] \in Nat
  BY DEF UnreadI, BufTypeI
<1>5. /\ refs' \in [Buffers -> Nat] /\ owner' \in [Buffers -> Nat]
      /\ unread' \in [Buffers -> Nat] /\ snap' \in [Buffers -> Nat]
      /\ refs'[b] = (IF gone THEN 0 ELSE refs[b]) /\ owner'[b] = (IF gone THEN 0 ELSE owner[b])
      /\ unread'[b] = unread[b] - snap[b] /\ snap'[b] = 0
      /\ \A x \in Buffers \ {b} : /\ refs'[x] = refs[x] /\ owner'[x] = owner[x]
                                  /\ unread'[x] = unread[x] /\ snap'[x] = snap[x]
  BY <1>1, <1>4 DEF BufTypeI
<1>6. /\ store' \in [Cores -> SUBSET Buffers]
      /\ store'[c] = (IF gone THEN store[c] \ {b} ELSE store[c])
      /\ \A d \in Cores \ {c} : store'[d] = store[d]
  BY <1>1 DEF BufTypeI
<1>7. /\ todo' \in [Cores -> SUBSET Buffers] /\ flushAll' \in [Cores -> BOOLEAN]
      /\ cur' \in [Cores -> Buffers \cup {None}] /\ unused' \in [Cores -> BOOLEAN]
      /\ todo'[c] = (IF restart THEN store'[c] ELSE todo[c]) /\ flushAll'[c] = (flushAll[c] \/ restart)
      /\ cur'[c] = None /\ ~unused'[c]
      /\ \A d \in Cores \ {c} : /\ todo'[d] = todo[d] /\ flushAll'[d] = flushAll[d]
                                /\ cur'[d] = cur[d] /\ unused'[d] = unused[d]
  BY <1>2, <1>3, <1>6 DEF BufTypeI
<1>8. BufTypeI'
  BY <1>3, <1>5, <1>6, <1>7 DEF BufTypeI
<1>9. IdI' /\ PlaceI' /\ CallI'
  BY <1>3 DEF IdI, PlaceI, CallI, Buf, EntryId
<1>10. \A d \in Cores : store'[d] \subseteq store[d]
  BY <1>6
<1>11. StoreI'
  BY <1>10 DEF StoreI
<1>12. /\ \A x : InPlace(x)' <=> InPlace(x)
       /\ \A x \in Buffers : InStore(x)' <=> InStore(x) /\ ~(gone /\ x = b)
  <2>1. \A x : InPlace(x)' <=> InPlace(x)
    BY <1>3 DEF InPlace, Buf
  <2>2. \A d \in Cores \ {c} : b \notin store[d]
    BY <1>1 DEF StoreI
  <2>3. \A x \in Buffers : InStore(x)' <=> InStore(x) /\ ~(gone /\ x = b)
    BY <1>1, <1>6, <2>2 DEF InStore
  <2> QED  BY <2>1, <2>3
<1>13. RefsI'
  <2> SUFFICES ASSUME NEW x \in Buffers PROVE refs'[x] = One(InPlace(x)') + One(InStore(x)')
    BY DEF RefsI, One
  <2>1. CASE x = b /\ gone
    BY <1>1, <1>5, <1>12, <2>1 DEF One
  <2>2. CASE ~(x = b /\ gone)
    BY <1>5, <1>12, <2>2 DEF RefsI, One
  <2> QED  BY <2>1, <2>2
<1>14. EntryI'
  <2>1. \A t \in Threads, i \in Slots : gone => Buf(t, i) # b
    BY <1>1 DEF InPlace
  <2> QED  BY <1>3, <1>6, <2>1 DEF EntryI, Buf, EntryId
<1>15. StoredI'
  <2>1. \A d \in Cores : \A x \in store'[d] : x \in store[d] /\ owner'[x] = owner[x]
    BY <1>5, <1>6, <1>1 DEF StoreI, BufTypeI
  <2> QED  BY <1>3, <1>10, <2>1 DEF StoredI
<1>16. PassesI'
  BY <1>1, <1>3, <1>6, <1>7, NoneAssumption DEF PassesI
<1>17. UnusedI'
  BY <1>7, <1>12 DEF UnusedI
<1>18. UnreadI'
  <2> SUFFICES ASSUME NEW x \in Buffers
               PROVE  /\ snap'[x] <= unread'[x]
                      /\ unread'[x] > 0 => \E d \in Cores : /\ x \in store'[d]
                                                            /\ coreState'[d] \in {"live", "stopping"}
    BY DEF UnreadI
  <2>1. CASE x = b
    BY <1>1, <1>3, <1>4, <1>5, <1>6, <2>1
  <2>2. CASE x # b
    BY <1>3, <1>5, <1>6, <2>2 DEF UnreadI
  <2> QED  BY <2>1, <2>2
<1>19. LastI'
  <2> SUFFICES ASSUME NEW d \in Cores, pass[d] = "last", NEW x \in store'[d]
               PROVE  /\ unread'[x] = snap'[x]
                      /\ x \notin todo'[d] /\ x # cur'[d] => unread'[x] = 0
    BY <1>3 DEF LastI
  <2>1. x \in store[d] /\ x \in Buffers /\ unread[x] = snap[x]
    BY <1>10 DEF LastI, BufTypeI
  <2>2. CASE x = b
    BY <1>4, <1>5, <2>1, <2>2
  <2>3. CASE x # b
    <3>1. unread'[x] = unread[x] /\ snap'[x] = snap[x]
      BY <1>5, <2>1, <2>3
    <3>2. todo'[d] = todo[d]
      BY <1>2, <1>7 DEF PassesI
    <3>3. x # cur'[d] => x # cur[d]
      BY <1>1, <1>7, <2>3
    <3> QED  BY <2>1, <3>1, <3>2, <3>3 DEF LastI
  <2> QED  BY <2>2, <2>3
<1> QED  BY <1>8, <1>9, <1>11, <1>13, <1>14, <1>15, <1>16, <1>17, <1>18, <1>19

\* After its last pass there is nothing in the buffers of a core.
LEMMA BufEndPass ==
  ASSUME IInv, BufI, NEW c \in Cores, EndPass(c)
  PROVE  BufI'
<1> USE DEF BufI, HoldI
<1>1. /\ pass[c] \in {"next", "last"} /\ cur[c] = None /\ todo[c] = {}
      /\ pass' = [pass EXCEPT ![c] = "idle"] /\ flushAll' = [flushAll EXCEPT ![c] = FALSE]
      /\ coreState' = [coreState EXCEPT ![c] = IF pass[c] = "last" THEN "stopped" ELSE @]
      /\ snap' = [b \in Buffers |-> IF b \in store[c] THEN 0 ELSE snap[b]]
      /\ UNCHANGED <<nextId, slotUsed, id, slot, store, todo, cur, unused, refs, owner, unread,
                     holds, tls, tpc, on>>
  BY DEF EndPass, idVars, callVars
<1>2. coreState[c] \in {"live", "stopping"}
  BY <1>1 DEF PassesI
<1>3. /\ \A d \in Cores \ {c} : /\ pass'[d] = pass[d] /\ flushAll'[d] = flushAll[d]
                                /\ coreState'[d] = coreState[d]
      /\ pass'[c] = "idle"
      /\ coreState'[c] = IF pass[c] = "last" THEN "stopped" ELSE coreState[c]
  BY <1>1 DEF BufTypeI, IInv, CoreI, TypeI
<1>4. BufTypeI'
  BY <1>1 DEF BufTypeI
<1>5. PlaceI' /\ StoreI' /\ RefsI' /\ UnusedI' /\ CallI'
  BY <1>1 DEF PlaceI, StoreI, RefsI, One, InPlace, InStore, UnusedI, CallI, Buf, EntryId
<1>6. \A d \in Cores : coreState'[d] \in Placed <=> coreState[d] \in Placed
  BY <1>2, <1>3 DEF Placed
<1>7. IdI' /\ EntryI'
  BY <1>1, <1>6 DEF IdI, EntryI, Buf, EntryId
<1>8. StoredI'
  BY <1>1, <1>2, <1>3, <1>6 DEF StoredI
<1>9. PassesI'
  BY <1>1, <1>3 DEF PassesI
<1>10. LastI'
  BY <1>1, <1>3 DEF LastI, StoreI, BufTypeI
<1>11. UnreadI'
  <2> SUFFICES ASSUME NEW b \in Buffers
               PROVE  /\ snap'[b] <= unread'[b]
                      /\ unread'[b] > 0 => \E d \in Cores : /\ b \in store'[d]
                                                            /\ coreState'[d] \in {"live", "stopping"}
    BY DEF UnreadI
  <2>1. snap'[b] <= unread'[b]
    BY <1>1 DEF UnreadI, BufTypeI
  <2>2. b \in store[c] /\ pass[c] = "last" => unread[b] = 0
    BY <1>1, NoneAssumption DEF LastI
  <2>3. ASSUME unread[b] > 0
        PROVE  \E d \in Cores : b \in store[d] /\ coreState'[d] \in {"live", "stopping"}
    <3>1. PICK d \in Cores : b \in store[d] /\ coreState[d] \in {"live", "stopping"}
      BY <2>3 DEF UnreadI
    <3>2. coreState'[d] = coreState[d]
      BY <1>3, <2>2, <2>3, <3>1
    <3> QED  BY <3>1, <3>2
  <2> QED  BY <1>1, <2>1, <2>3
<1> QED  BY <1>4, <1>5, <1>7, <1>8, <1>9, <1>10, <1>11

(***************************************************************************)
(* The theorems about buffers.                                             *)
(***************************************************************************)

\* The steps of the sinks leave alone what BufI is about.
LEMMA BufSinks ==
  ASSUME IInv, BufI, UNCHANGED <<idVars, coreVars, store, passVars, bufVars, holds, tls, on>>,
         \A t \in Threads : tpc'[t] \in {"get", "getnew", "write"} => tpc'[t] = tpc[t]
  PROVE  BufI'
<1>1. HoldI'
  BY BufMoves DEF coreVars
<1>2. CallI'
  BY DEF BufI, CallI, coreVars, Buf, EntryId
<1> QED  BY <1>1, <1>2 DEF BufI

LEMMA NextBufI == IInv /\ BufI /\ [Next]_vars => BufI'
<1> SUFFICES ASSUME IInv, BufI, [Next]_vars PROVE BufI'
  OBVIOUS
<1>1. CASE UNCHANGED vars
  BY <1>1, BufSinks DEF vars, callVars
<1>2. ASSUME NEW t \in Threads, ThreadStep(t) PROVE BufI'
  <2>1. ASSUME NEW c \in Cores, InitSlot(t, c) PROVE BufI'
    BY <2>1, BufInitSlot
  <2>2. ASSUME NEW c \in Cores, DropCore(t, c) PROVE BufI'
    BY <2>2, BufDropCore
  <2>3. ASSUME NEW c \in Cores, ReleaseBuffer(t, c) PROVE BufI'
    BY <2>3, BufReleaseBuffer
  <2>4. ASSUME NEW c \in Cores, NEW new \in BOOLEAN, Call(t, c, new) PROVE BufI'
    BY <2>4, BufCall
  <2>5. ASSUME NEW c \in Cores, NEW u \in Threads, ShareCore(t, u, c) PROVE BufI'
    BY <2>5, BufShareCore
  <2>6. ASSUME NEW c \in Cores, NEW s \in Sinks, AddSink(t, c, s) PROVE BufI'
    BY <2>6, BufSinks DEF AddSink, callVars
  <2>7. ASSUME NEW c \in Cores, NEW s \in Sinks, ReleaseSink(t, c, s) PROVE BufI'
    BY <2>7, BufSinks DEF ReleaseSink, IInv, CoreI, TypeI
  <2>8. CASE InitDone(t) \/ InitFails(t)
    BY <2>8, BufInitDone
  <2>9. CASE DestroySinks(t)
    BY <2>9, BufDestroySinks
  <2>10. CASE DestroySlot(t)
    BY <2>10, BufDestroySlot
  <2>11. CASE DestroyMembers(t)
    BY <2>11, BufDestroyMembers
  <2>12. CASE GetBuffer(t)
    BY <2>12, BufGetBuffer
  <2>13. CASE GetBufferFails(t)
    BY <2>13, BufGetBufferFails
  <2>14. CASE WriteMessage(t)
    BY <2>14, BufWriteMessage
  <2>15. CASE ThreadExit(t)
    BY <2>15, BufThreadExit
  <2>16. CASE FreeSink(t)
    BY <2>16, BufSinks DEF FreeSink, IInv, CoreI, TypeI
  <2> QED
    BY <1>2, <2>1, <2>2, <2>3, <2>4, <2>5, <2>6, <2>7, <2>8, <2>9, <2>10, <2>11, <2>12,
       <2>13, <2>14, <2>15, <2>16 DEF ThreadStep
<1>3. ASSUME NEW c \in Cores, CoreStep(c) PROVE BufI'
  BY <1>3, BufBeginPass, BufSkipBuffer, BufReadBuffer, BufEndPass, BufVisitBuffer DEF CoreStep
<1> QED  BY <1>1, <1>2, <1>3 DEF Next

LEMMA Invariance == Spec => [](IInv /\ BufI)
<1>1. Init => IInv /\ BufI
  BY InitIInv, InitBufI
<1>2. IInv /\ BufI /\ [Next]_vars => (IInv /\ BufI)'
  BY NextIInv, NextBufI
<1> QED  BY <1>1, <1>2, PTL DEF Spec

\* A set with at most one member counts one if it has one.
LEMMA CountsOne ==
  ASSUME NEW S, \A x, y \in S : x = y
  PROVE  Cardinality(S) = One(S # {})
<1>1. CASE S = {}
  BY <1>1, FS_EmptySet DEF One
<1>2. CASE S # {}
  <2>1. PICK x \in S : S = {x}
    BY <1>2
  <2> QED  BY <1>2, <2>1, FS_Singleton DEF One
<1> QED  BY <1>1, <1>2

LEMMA BufICounted == BufI => CountIsHolders
<1> SUFFICES ASSUME BufI, NEW b \in Buffers
             PROVE  refs[b] = Cardinality({x \in Threads \X Slots : tls[x[1]][x[2]].buf = b})
                              + Cardinality({c \in Cores : b \in store[c]})
  BY DEF CountIsHolders
<1> USE NoneAssumption DEF BufI, HoldI
<1> DEFINE P == {x \in Threads \X Slots : tls[x[1]][x[2]].buf = b}
           S == {c \in Cores : b \in store[c]}
<1>1. (\A x, y \in P : x = y) /\ (P # {} <=> InPlace(b))
  <2>1. \A x, y \in P : x = y
    BY DEF PlaceI, Buf
  <2>2. ASSUME NEW t \in Threads, NEW i \in Slots, Buf(t, i) = b PROVE <<t, i>> \in P
    BY <2>2 DEF Buf
  <2>3. ASSUME NEW x \in P PROVE InPlace(b)
    <3>1. PICK t \in Threads, i \in Slots : x = <<t, i>>
      OBVIOUS
    <3> QED  BY <3>1 DEF InPlace, Buf
  <2> HIDE DEF P
  <2>4. P # {} <=> InPlace(b)
    BY <2>2, <2>3 DEF InPlace
  <2> QED  BY <2>1, <2>4
<1>2. (\A c, d \in S : c = d) /\ (S # {} <=> InStore(b))
  BY DEF StoreI, InStore
<1> HIDE DEF P, S
<1>3. Cardinality(P) = One(InPlace(b)) /\ Cardinality(S) = One(InStore(b))
  BY <1>1, <1>2, CountsOne DEF One
<1> QED  BY <1>3 DEF RefsI, P, S

\* The number of references to a buffer is the number of places of threads
\* and stores that refer to it, in every step of any number of threads and
\* cores (reference_counter_mixin.hpp; tls_buffer, set_buffer, the removal of
\* unused buffers by read_buffers, ~core_impl and the end of a thread).
THEOREM ReferencesAreCounted == Spec => []CountIsHolders
BY Invariance, BufICounted, PTL

LEMMA BufIOwn == IInv /\ BufI => OwnBuffer
<1> SUFFICES ASSUME IInv, BufI, NEW t \in Threads, tpc[t] = "write"
             PROVE  LET b == Entry(t, on[t]).buf
                    IN  b # None /\ owner[b] = id[on[t]] /\ b \in store[on[t]]
  BY DEF OwnBuffer
<1>1. PICK c \in holds[t] : c = on[t] /\ EntryId(t, slot[c]) = id[c] /\ Buf(t, slot[c]) # None
  BY DEF BufI, CallI
<1>2. /\ c \in Cores /\ coreState[c] \in Placed /\ slot[c] \in Slots
      /\ Entry(t, c).buf = Buf(t, slot[c])
  BY <1>1, EntryAt
<1>3. Buf(t, slot[c]) \in store[c]
  BY <1>1, <1>2 DEF BufI, HoldI, EntryI
<1>4. owner[Buf(t, slot[c])] = id[c]
  BY <1>2, <1>3 DEF BufI, HoldI, StoredI
<1> QED  BY <1>1, <1>2, <1>3, <1>4

\* A thread writes to a buffer of the core it logs to, one that this core has
\* in its store, whichever cores had the same place of the thread before
\* (tls_buffer, get_buffer and set_buffer of core_impl).
THEOREM WritesToOwnBuffer == Spec => []OwnBuffer
BY Invariance, BufIOwn, PTL

LEMMA BufINothingStranded == BufI => NothingStranded
BY DEF BufI, HoldI, UnreadI, StoredI, NothingStranded, Placed

\* A message that has not been read is in a buffer of a core that still runs
\* and will read it, although threads end, let go of their buffers and drop
\* their cores at any time (read_buffers, stop and ~core_impl).
THEOREM NoMessageIsStranded == Spec => []NothingStranded
BY Invariance, BufINothingStranded, PTL

\* Steps that make no buffer lose a message.
LEMMA DropsAreEmpty ==
  ASSUME BufI, NEW B, DropOne(B),
         \A b \in B \cap Buffers : refs[b] = 1 => unread[b] = 0
  PROVE  \A b \in Buffers : unread'[b] = unread[b]
BY DropOneAt DEF BufI, HoldI

\* The buffer in the entry of a thread, with nobody else to refer to it, is
\* in no store, and so it is empty.
LEMMA PlacesAreEmpty ==
  ASSUME BufI, NEW b \in Buffers, InPlace(b), refs[b] = 1
  PROVE  unread[b] = 0
<1>1. ~InStore(b)
  BY DEF BufI, HoldI, RefsI, One
<1> QED  BY <1>1 DEF BufI, HoldI, UnreadI, InStore, BufTypeI

LEMMA NextLeaves ==
  ASSUME IInv, BufI, [Next]_vars
  PROVE  \A b \in Buffers : unread'[b] < unread[b] =>
           \E c \in Cores : cur[c] = b /\ cur'[c] = None /\ unread'[b] = unread[b] - snap[b]
<1> DEFINE Kept == \A b \in Buffers : unread'[b] >= unread[b]
<1>0. \A b \in Buffers : unread[b] \in Nat
  BY DEF BufI, HoldI, BufTypeI
<1>1. CASE UNCHANGED vars
  BY <1>0, <1>1 DEF vars, bufVars
<1>2. ASSUME NEW t \in Threads, ThreadStep(t) PROVE Kept
  <2>0. ASSUME UNCHANGED bufVars PROVE Kept
    BY <1>0, <2>0 DEF bufVars
  <2>1. ASSUME NEW c \in holds[t], DropOne({Entry(t, c).buf}) PROVE Kept
    <3>1. \A b \in {Entry(t, c).buf} \cap Buffers : InPlace(b)
      BY EntryAt DEF InPlace
    <3> QED  BY <1>0, <2>1, <3>1, DropsAreEmpty, PlacesAreEmpty
  <2>2. ASSUME NEW c \in Cores, ReleaseBuffer(t, c) PROVE Kept
    BY <2>1, <2>2 DEF ReleaseBuffer
  <2>3. ASSUME NEW c \in Cores, NEW new \in BOOLEAN, Call(t, c, new) PROVE Kept
    <3>1. c \in holds[t] /\ TlsBuffer(t, c)
      BY <2>3 DEF Call
    <3>2. CASE Entry(t, c).id = id[c]
      <4>1. DropOne({})
        BY <3>1, <3>2 DEF TlsBuffer
      <4> QED  BY <1>0, <4>1, DropsAreEmpty
    <3>3. CASE Entry(t, c).id # id[c]
      BY <2>1, <3>1, <3>3 DEF TlsBuffer
    <3> QED  BY <3>2, <3>3
  <2>4. CASE GetBufferFails(t)
    <3>1. on[t] \in holds[t]
      BY <2>4 DEF GetBufferFails, BufI, CallI
    <3> QED  BY <2>1, <2>4, <3>1 DEF GetBufferFails
  <2>5. CASE ThreadExit(t)
    <3> DEFINE B == {Buf(t, i) : i \in Slots}
    <3>1. DropOne(B) /\ \A b \in B \cap Buffers : InPlace(b)
      BY <2>5 DEF ThreadExit, Buf, InPlace
    <3> HIDE DEF B
    <3> QED  BY <1>0, <3>1, DropsAreEmpty, PlacesAreEmpty
  <2>6. CASE DestroyMembers(t)
    <3>0. PICK c \in Cores : c = on[t] /\ coreState[c] = "members"
      BY <2>6 DEF DestroyMembers, IInv, CoreI, OnI
    <3>1. DropOne(store[c])
      BY <2>6, <3>0 DEF DestroyMembers
    <3>2. ASSUME NEW b \in store[c] \cap Buffers, unread[b] # 0 PROVE FALSE
      <4>1. PICK d \in Cores : b \in store[d] /\ coreState[d] \in {"live", "stopping"}
        BY <1>0, <3>2 DEF BufI, HoldI, UnreadI
      <4> QED  BY <3>0, <4>1 DEF BufI, HoldI, StoreI
    <3> QED  BY <1>0, <3>1, <3>2, DropsAreEmpty
  <2>7. CASE WriteMessage(t)
    <3>1. PICK b : unread' = [unread EXCEPT ![b] = @ + 1]
      BY <2>7 DEF WriteMessage
    <3> QED  BY <1>0, <3>1 DEF BufI, HoldI, BufTypeI
  <2>8. CASE GetBuffer(t)
    BY <1>0, <2>8 DEF GetBuffer
  <2> QED
    BY <1>2, <2>0, <2>2, <2>3, <2>4, <2>5, <2>6, <2>7, <2>8
    DEF ThreadStep, InitSlot, DropCore, ShareCore, AddSink, ReleaseSink, InitDone, InitFails,
        DestroySinks, DestroySlot, FreeSink
<1>3. ASSUME NEW c \in Cores, CoreStep(c)
      PROVE  Kept \/ \E b \in Buffers :
                       /\ cur[c] = b /\ cur'[c] = None
                       /\ unread' = [unread EXCEPT ![b] = @ - snap[b]]
  <2>1. CASE ReadBuffer(c)
    <3>1. PICK b \in Buffers : /\ b = cur[c]
                               /\ unread' = [unread EXCEPT ![b] = @ - snap[b]]
      BY <2>1, ReadAt
    <3>2. cur'[c] = None
      BY <2>1 DEF ReadBuffer, BufI, HoldI, BufTypeI
    <3> QED  BY <3>1, <3>2
  <2>2. CASE BeginPass(c) \/ SkipBuffer(c) \/ EndPass(c) \/ \E b \in Buffers : VisitBuffer(c, b)
    BY <1>0, <2>2 DEF BeginPass, SkipBuffer, EndPass, VisitBuffer, bufVars
  <2> QED  BY <1>3, <2>1, <2>2 DEF CoreStep
<1>4. ASSUME Kept
      PROVE  \A b \in Buffers : ~(unread'[b] < unread[b])
  <2>1. unread' \in [Buffers -> Nat]
    BY NextBufI DEF BufI, HoldI, BufTypeI
  <2> QED  BY <1>0, <1>4, <2>1
<1> HIDE DEF Kept
<1>5. CASE \E t \in Threads : ThreadStep(t)
  BY <1>2, <1>4, <1>5
<1>6. CASE \E c \in Cores : CoreStep(c)
  <2>1. PICK c \in Cores : CoreStep(c)
    BY <1>6
  <2>2. CASE Kept
    BY <1>4, <2>2
  <2>3. CASE \E b \in Buffers : /\ cur[c] = b /\ cur'[c] = None
                                /\ unread' = [unread EXCEPT ![b] = @ - snap[b]]
    BY <1>0, <2>3 DEF BufI, HoldI, BufTypeI
  <2> QED  BY <1>3, <2>1, <2>2, <2>3
<1> QED  BY <1>0, <1>1, <1>5, <1>6 DEF Next, vars, bufVars

\* No step but the reading of a buffer takes messages out of it, and it takes
\* what the snapshot of the pass has seen: not the removal of an unused
\* buffer, not the end of a thread, not a new buffer for a thread, not the
\* destruction of a core (read_buffers, tls_buffer, ~core_impl).
THEOREM OnlyReadingTakesMessages == Spec => MessagesLeaveByReading
<1>1. IInv /\ BufI /\ [Next]_vars =>
        [\A b \in Buffers : unread'[b] < unread[b] =>
           \E c \in Cores : cur[c] = b /\ cur'[c] = None /\ unread'[b] = unread[b] - snap[b]]_vars
  BY NextLeaves
<1> QED  BY <1>1, Invariance, PTL DEF Spec, MessagesLeaveByReading
-----------------------------------------------------------------------------
(***************************************************************************)
(* The growing arrays.  The block of an array holds its list and raw       *)
(* memory behind it (HoldsList), no two arrays have one block (AloneI),    *)
(* and a block is allocated exactly when an array has it (InUseI).  What   *)
(* reallocating and growing return is such an array again, whether the     *)
(* memory was there or not (Sound).                                        *)
(***************************************************************************)
Values == Elements \cup {Default}
Cells  == Values \cup {Raw}

\* What is in the block of an array.
CellsOf(arr, l) == [i \in 1 .. arr.cap |-> IF i <= arr.size THEN l[i] ELSE Raw]

\* An array is the list l, in the memory mem.
HoldsList(arr, mem, l) ==
  /\ arr \in [begin : Blocks \cup {Null}, size : Nat, cap : Nat]
  /\ arr.size <= arr.cap /\ arr.cap <= MaxMemory
  /\ l \in Seq(Values) /\ Len(l) = arr.size
  /\ arr.begin = Null => arr.cap = 0
  /\ arr.begin # Null => arr.cap # 0 /\ mem[arr.begin] = CellsOf(arr, l)

ArrayTypeI ==
  /\ array \in [Arrays -> [begin : Blocks \cup {Null}, size : Nat, cap : Nat]]
  /\ memory \in [Blocks -> Seq(Cells)] /\ list \in [Arrays -> Seq(Values)]
ListI  == \A a \in Arrays : HoldsList(array[a], memory, list[a])
AloneI == \A a, c \in Arrays : array[a].begin # Null /\ array[a].begin = array[c].begin => a = c
InUseI == \A b \in Blocks : memory[b] # <<>> <=> \E a \in Arrays : array[a].begin = b

\* The invariant of the arrays.
ArrayI == ArrayTypeI /\ ListI /\ AloneI /\ InUseI

\* What the invariant says of one array.
LEMMA ArrayIs ==
  ASSUME ArrayI, NEW a \in Arrays
  PROVE  /\ array[a] \in [begin : Blocks \cup {Null}, size : Nat, cap : Nat]
         /\ array[a].begin \in Blocks \cup {Null} /\ array[a].size \in Nat /\ array[a].cap \in Nat
         /\ array[a].size <= array[a].cap /\ array[a].cap <= MaxMemory
         /\ list[a] \in Seq(Values) /\ Len(list[a]) = array[a].size
         /\ array[a].begin = Null => array[a].cap = 0 /\ array[a].size = 0 /\ array[a] = NoMemory
         /\ array[a].begin # Null =>
              /\ array[a].begin \in Blocks /\ array[a].cap # 0
              /\ memory[array[a].begin] = CellsOf(array[a], list[a])
              /\ memory[array[a].begin] # <<>>
<1>1. HoldsList(array[a], memory, list[a])
  BY DEF ArrayI, ListI
<1>2. array[a].begin = Null => array[a].cap = 0 /\ array[a].size = 0 /\ array[a] = NoMemory
  BY <1>1 DEF HoldsList, NoMemory
<1>3. array[a].begin # Null => array[a].begin \in Blocks /\ memory[array[a].begin] # <<>>
  BY <1>1 DEF HoldsList, ArrayI, InUseI
<1> QED BY <1>1, <1>2, <1>3 DEF HoldsList

\* What the constants are.
LEMMA SizesAre ==
  /\ MinGrowth \in Nat /\ MinGrowth >= 1 /\ MaxMemory \in Nat /\ MaxSize \in Nat
  /\ MinGrowth <= MaxMemory /\ 2 * MaxMemory <= MaxSize
  /\ Null \notin Blocks /\ Raw \notin Values
BY DynArrayAssumption DEF Values

\* The content of an array is its list.
LEMMA ContentIs ==
  ASSUME ArrayI, NEW a \in Arrays
  PROVE  Content(a) = list[a]
<1>1. /\ array[a].size \in Nat /\ array[a].cap \in Nat /\ array[a].size <= array[a].cap
      /\ list[a] \in Seq(Values) /\ Len(list[a]) = array[a].size
  BY ArrayIs
<1>2. CASE array[a].begin = Null
  BY <1>1, <1>2, ArrayIs DEF Content
<1>3. CASE array[a].begin # Null
  <2> DEFINE cells == memory[array[a].begin]
  <2>1. cells = CellsOf(array[a], list[a]) /\ cells \in Seq(Cells)
    BY <1>3, ArrayIs DEF ArrayI, ArrayTypeI
  <2>2. /\ \A i \in 1 .. array[a].cap : cells[i] = IF i <= array[a].size THEN list[a][i] ELSE Raw
        /\ Len(cells) = array[a].cap
    <3>1. DOMAIN cells = 1 .. array[a].cap
      BY <2>1 DEF CellsOf
    <3> QED BY <1>1, <2>1, <3>1 DEF CellsOf
  <2> HIDE DEF cells
  <2>3. /\ SubSeq(cells, 1, array[a].size) \in Seq(Cells)
        /\ Len(SubSeq(cells, 1, array[a].size)) = array[a].size
        /\ \A i \in 1 .. array[a].size : SubSeq(cells, 1, array[a].size)[i] = cells[i]
    BY <1>1, <2>1, <2>2
  <2>4. \A i \in 1 .. array[a].size : SubSeq(cells, 1, array[a].size)[i] = list[a][i]
    BY <1>1, <2>2, <2>3
  <2>5. SubSeq(cells, 1, array[a].size) = list[a]
    BY <1>1, <2>3, <2>4
  <2> QED BY <1>3, <2>5 DEF Content, cells
<1> QED BY <1>2, <1>3

\* The larger of two numbers.
LEMMA MaxIs ==
  ASSUME NEW x \in Nat, NEW y \in Nat
  PROVE  /\ Max({x, y}) \in Nat /\ Max({x, y}) >= x /\ Max({x, y}) >= y
         /\ Max({x, y}) \in {x, y}
<1>1. \E m \in {x, y} : \A z \in {x, y} : m >= z
  BY x >= y \/ y >= x
<1>2. Max({x, y}) \in {x, y} /\ \A z \in {x, y} : Max({x, y}) >= z
  BY <1>1 DEF Max
<1> QED BY <1>2

\* There is always something to spare.
LEMMA SpareIs ==
  ASSUME NEW n \in Nat, n <= MaxMemory
  PROVE  Spare(n) \in Nat /\ Spare(n) >= 1
<1> DEFINE more == Max({n \div 2, MinGrowth})
<1>1. /\ n \div 2 \in Nat /\ n \div 2 <= n
      /\ MinGrowth \in Nat /\ MinGrowth >= 1 /\ MaxMemory \in Nat /\ MaxSize \in Nat
      /\ MinGrowth <= MaxMemory /\ 2 * MaxMemory <= MaxSize
  BY SizesAre
<1>2. more \in Nat /\ more >= MinGrowth /\ more \in {n \div 2, MinGrowth}
  BY <1>1, MaxIs
<1> HIDE DEF more
<1>3. more <= MaxMemory /\ more >= 1
  BY <1>1, <1>2
<1>4. ~(MaxSize - n < more)
  BY <1>1, <1>2, <1>3
<1>5. Spare(n) = more
  BY <1>4 DEF Spare, more
<1> QED BY <1>2, <1>3, <1>5

\* Everything but the block of an array and another that is free stays as it
\* is, and what the array does not keep is free.
Frame(a, arr, mem) ==
  /\ \A x \in Blocks : x # array[a].begin /\ x # arr.begin => mem[x] = memory[x]
  /\ arr.begin # array[a].begin =>
       /\ arr.begin # Null => memory[arr.begin] = <<>>
       /\ array[a].begin # Null => mem[array[a].begin] = <<>>

\* A step that gives an array a new list.
LEMMA ReplaceArrayI ==
  ASSUME ArrayI, NEW a \in Arrays, NEW arr, NEW mem \in [Blocks -> Seq(Cells)], NEW l,
         HoldsList(arr, mem, l), Frame(a, arr, mem),
         array' = [array EXCEPT ![a] = arr], memory' = mem, list' = [list EXCEPT ![a] = l]
  PROVE  ArrayI'
<1>t. ArrayTypeI /\ ListI /\ AloneI /\ InUseI /\ Null \notin Blocks
  BY SizesAre DEF ArrayI
<1>1. /\ array'[a] = arr /\ list'[a] = l
      /\ \A c \in Arrays : c # a => array'[c] = array[c] /\ list'[c] = list[c]
  BY <1>t DEF ArrayTypeI
<1>2. arr.begin # Null => arr.begin \in Blocks /\ mem[arr.begin] # <<>>
  <2> SUFFICES ASSUME arr.begin # Null PROVE arr.begin \in Blocks /\ mem[arr.begin] # <<>>
    OBVIOUS
  <2>1. arr.begin \in Blocks /\ arr.cap \in Nat /\ arr.cap # 0 /\ mem[arr.begin] = CellsOf(arr, l)
    BY DEF HoldsList
  <2>2. DOMAIN CellsOf(arr, l) = 1 .. arr.cap /\ 1 \in 1 .. arr.cap
    BY <2>1 DEF CellsOf
  <2>3. DOMAIN <<>> = {}
    OBVIOUS
  <2> QED BY <2>1, <2>2, <2>3
<1>3. ASSUME NEW c \in Arrays, c # a, array[c].begin # Null
      PROVE  /\ array[c].begin \in Blocks /\ memory[array[c].begin] # <<>>
             /\ array[c].begin # array[a].begin /\ array[c].begin # arr.begin
             /\ mem[array[c].begin] = memory[array[c].begin]
  <2>1. array[c].begin \in Blocks /\ memory[array[c].begin] # <<>>
    BY <1>3, ArrayIs
  <2>2. array[c].begin # array[a].begin
    BY <1>3, <1>t DEF AloneI
  <2> QED BY <1>3, <2>1, <2>2 DEF Frame
<1>4. ArrayTypeI'
  <2>1. arr \in [begin : Blocks \cup {Null}, size : Nat, cap : Nat] /\ l \in Seq(Values)
    BY DEF HoldsList
  <2> QED BY <1>t, <2>1 DEF ArrayTypeI
<1>5. ListI'
  <2> SUFFICES ASSUME NEW c \in Arrays PROVE HoldsList(array'[c], memory', list'[c])
    BY DEF ListI, HoldsList, CellsOf
  <2>1. CASE c = a
    BY <1>1, <2>1
  <2>2. CASE c # a
    <3>1. HoldsList(array[c], memory, list[c])
      BY <1>t DEF ListI
    <3>2. HoldsList(array[c], mem, list[c])
      BY <1>3, <2>2, <3>1 DEF HoldsList
    <3> QED BY <1>1, <2>2, <3>2
  <2> QED BY <2>1, <2>2
<1>6. AloneI'
  BY <1>t, <1>1, <1>3 DEF AloneI
<1>7. InUseI'
  <2> SUFFICES ASSUME NEW x \in Blocks
               PROVE  mem[x] # <<>> <=> \E c \in Arrays : array'[c].begin = x
    BY DEF InUseI
  <2>1. CASE x = arr.begin
    BY <1>t, <1>1, <1>2, <2>1
  <2>2. CASE x # arr.begin /\ x = array[a].begin
    <3>1. mem[x] = <<>>
      BY <1>t, <2>2 DEF Frame
    <3>2. \A c \in Arrays : array'[c].begin # x
      BY <1>t, <1>1, <1>3, <2>2
    <3> QED BY <3>1, <3>2
  <2>3. CASE x # arr.begin /\ x # array[a].begin
    <3>1. mem[x] = memory[x]
      BY <2>3 DEF Frame
    <3>2. \A c \in Arrays : array'[c].begin = x <=> array[c].begin = x
      BY <1>1, <2>3
    <3> QED BY <1>t, <3>1, <3>2 DEF InUseI
  <2> QED BY <2>1, <2>2, <2>3
<1> QED BY <1>4, <1>5, <1>6, <1>7 DEF ArrayI

\* What an operation that manages memory returns: the array with its list,
\* perhaps elsewhere, and nothing else changed.
Sound(a, s) ==
  /\ s.mem \in [Blocks -> Seq(Cells)] /\ HoldsList(s.arr, s.mem, list[a]) /\ Frame(a, s.arr, s.mem)
  /\ s.arr.size = array[a].size /\ s.ok \in BOOLEAN

\* An array that is left alone.
LEMMA UnchangedIs ==
  ASSUME ArrayI, NEW a \in Arrays, NEW ok \in BOOLEAN
  PROVE  /\ Sound(a, State(array[a], memory, ok))
         /\ State(array[a], memory, ok).ok = ok /\ State(array[a], memory, ok).arr = array[a]
BY DEF Sound, State, Frame, ArrayI, ArrayTypeI, ListI

\* New memory.
LEMMA MovedIs ==
  ASSUME ArrayI, NEW a \in Arrays, NEW cap \in Nat, cap > array[a].size, cap <= MaxMemory,
         NEW b \in FreeBlocks
  PROVE  LET new   == [array[a] EXCEPT !.begin = b, !.cap = cap]
             moved == [Freed(memory, array[a]) EXCEPT ![b] = [i \in 1 .. cap |-> Raw]]
         IN  Sound(a, State(new, Filled(moved, [new EXCEPT !.size = 0], Content(a)), TRUE))
<1> DEFINE old == array[a]
           new == [array[a] EXCEPT !.begin = b, !.cap = cap]
           moved == [Freed(memory, array[a]) EXCEPT ![b] = [i \in 1 .. cap |-> Raw]]
           mem == Filled(moved, [new EXCEPT !.size = 0], Content(a))
<1>1. /\ old \in [begin : Blocks \cup {Null}, size : Nat, cap : Nat]
      /\ old.size \in Nat /\ list[a] \in Seq(Values) /\ Len(list[a]) = old.size
      /\ old.begin # Null => old.begin \in Blocks /\ memory[old.begin] # <<>>
      /\ b \in Blocks /\ memory[b] = <<>> /\ b # Null /\ memory \in [Blocks -> Seq(Cells)]
  BY ArrayIs, SizesAre DEF FreeBlocks, ArrayI, ArrayTypeI
<1>2. b # old.begin
  BY <1>1
<1>3. new \in [begin : Blocks \cup {Null}, size : Nat, cap : Nat]
      /\ new.begin = b /\ new.size = old.size /\ new.cap = cap
  BY <1>1
<1>4. [new EXCEPT !.size = 0].begin = b /\ [new EXCEPT !.size = 0].size = 0
  BY <1>3
<1>5. /\ Freed(memory, old) \in [Blocks -> Seq(Cells)]
      /\ \A x \in Blocks : Freed(memory, old)[x] = IF x = old.begin /\ old.begin # Null THEN <<>> ELSE memory[x]
  <2>1. <<>> \in Seq(Cells)
    OBVIOUS
  <2> QED BY <1>1, <2>1 DEF Freed
<1>6. /\ moved \in [Blocks -> Seq(Cells)] /\ moved[b] = [i \in 1 .. cap |-> Raw]
      /\ \A x \in Blocks : x # b => moved[x] = Freed(memory, old)[x]
  <2>1. [i \in 1 .. cap |-> Raw] \in Seq(Cells)
    BY DEF Cells
  <2> QED BY <1>1, <1>5, <2>1
<1> HIDE DEF moved, new
<1>7. mem = [moved EXCEPT ![b] = CellsOf(new, list[a])]
  <2>1. mem = [moved EXCEPT ![b] = [i \in DOMAIN moved[b] |->
                 IF i \in 0 + 1 .. 0 + Len(list[a]) THEN list[a][i - 0] ELSE moved[b][i]]]
    <3>1. Content(a) = list[a]
      BY ContentIs
    <3>2. PICK z : z = [new EXCEPT !.size = 0]
      OBVIOUS
    <3>3. mem = Filled(moved, z, list[a]) /\ z.begin = b /\ z.size = 0
      BY <1>4, <3>1, <3>2 DEF mem
    <3>4. Filled(moved, z, list[a]) =
            [moved EXCEPT ![z.begin] = [i \in DOMAIN moved[z.begin] |->
               IF i \in z.size + 1 .. z.size + Len(list[a]) THEN list[a][i - z.size] ELSE moved[z.begin][i]]]
      BY <1>6, <3>3 DEF Filled
    <3> QED BY <3>3, <3>4
  <2>2. [i \in DOMAIN moved[b] |-> IF i \in 0 + 1 .. 0 + Len(list[a]) THEN list[a][i - 0] ELSE moved[b][i]]
          = CellsOf(new, list[a])
    BY <1>1, <1>3, <1>6 DEF CellsOf
  <2> QED BY <2>1, <2>2
<1>8. CellsOf(new, list[a]) \in Seq(Cells)
  <2>1. \A i \in 1 .. cap : (IF i <= old.size THEN list[a][i] ELSE Raw) \in Cells
    BY <1>1 DEF Cells
  <2>2. CellsOf(new, list[a]) \in [1 .. cap -> Cells]
    BY <1>3, <2>1 DEF CellsOf
  <2> QED BY <2>2
<1> HIDE DEF mem
<1>9. /\ mem \in [Blocks -> Seq(Cells)] /\ mem[b] = CellsOf(new, list[a])
      /\ \A x \in Blocks : x # b => mem[x] = Freed(memory, old)[x]
  BY <1>1, <1>6, <1>7, <1>8
<1>10. HoldsList(new, mem, list[a])
  BY <1>1, <1>3, <1>9 DEF HoldsList
<1>11. Frame(a, new, mem)
  BY <1>1, <1>2, <1>3, <1>5, <1>9 DEF Frame
<1> QED BY <1>3, <1>9, <1>10, <1>11 DEF Sound, State, mem, moved, new

\* reallocate_memory() leaves the array as it is or gives it the room.
LEMMA ReallocatedIs ==
  ASSUME ArrayI, NEW a \in Arrays, NEW cap \in Nat, NEW b \in FreeBlocks \cup {Null}
  PROVE  LET s == Reallocated(a, cap, b)
         IN  Sound(a, s) /\ (s.ok => s.arr.cap >= cap)
<1> DEFINE new == [array[a] EXCEPT !.begin = b, !.cap = cap]
           moved == [Freed(memory, array[a]) EXCEPT ![b] = [i \in 1 .. cap |-> Raw]]
           done == State(new, Filled(moved, [new EXCEPT !.size = 0], Content(a)), TRUE)
           s == Reallocated(a, cap, b)
<1>1. /\ array[a] \in [begin : Blocks \cup {Null}, size : Nat, cap : Nat]
      /\ array[a].size \in Nat /\ array[a].cap \in Nat /\ array[a].size <= array[a].cap
      /\ MaxMemory \in Nat
  BY ArrayIs, SizesAre
<1>2. CASE cap = array[a].size /\ cap # 0
  <2>1. s = State(array[a], memory, TRUE)
    BY <1>2 DEF Reallocated
  <2> QED BY <1>1, <1>2, <2>1, UnchangedIs
<1>3. CASE ~(cap = array[a].size /\ cap # 0) /\ (cap < array[a].size \/ cap = 0 \/ Got(b, cap) = Null)
  <2>1. s = State(array[a], memory, FALSE)
    BY <1>3 DEF Reallocated
  <2> QED BY <2>1, UnchangedIs
<1>4. CASE ~(cap = array[a].size /\ cap # 0) /\ ~(cap < array[a].size \/ cap = 0 \/ Got(b, cap) = Null)
  <2>1. cap > array[a].size
    BY <1>1, <1>4
  <2>2. b \in FreeBlocks /\ cap <= MaxMemory
    BY <1>1, <1>4 DEF Got
  <2>3. s = done
    BY <1>4 DEF Reallocated
  <2>4. Sound(a, done)
    BY <2>1, <2>2, MovedIs
  <2>5. done.arr.cap = cap
    BY <1>1 DEF State
  <2> HIDE DEF done, s
  <2> QED BY <2>3, <2>4, <2>5 DEF s
<1> QED BY <1>2, <1>3, <1>4

\* grow() leaves the array as it is or gives it more room than it had, and as
\* much as was asked for.
LEMMA GrownIs ==
  ASSUME ArrayI, NEW a \in Arrays, NEW minimum \in Nat, NEW b \in FreeBlocks \cup {Null}
  PROVE  LET s == Grown(a, minimum, b)
         IN  /\ Sound(a, s)
             /\ s.ok => s.arr.cap >= array[a].cap + minimum /\ s.arr.cap >= array[a].cap + 1
<1> DEFINE s == Grown(a, minimum, b)
           more == array[a].cap + Spare(array[a].cap)
           least == array[a].cap + minimum
           cap == Max({more, least})
<1>1. /\ array[a].cap \in Nat /\ array[a].cap <= MaxMemory
      /\ array[a] \in [begin : Blocks \cup {Null}, size : Nat, cap : Nat]
  BY ArrayIs
<1>2. Spare(array[a].cap) \in Nat /\ Spare(array[a].cap) >= 1
  BY <1>1, SpareIs
<1>3. more \in Nat /\ least \in Nat /\ more >= array[a].cap + 1
  BY <1>1, <1>2
<1>4. CASE MaxSize - array[a].cap < minimum
  <2>1. s = State(array[a], memory, FALSE)
    BY <1>4 DEF Grown
  <2> QED BY <2>1, UnchangedIs
<1>5. CASE ~(MaxSize - array[a].cap < minimum)
  <2>1. s = Reallocated(a, cap, b)
    BY <1>5 DEF Grown
  <2> HIDE DEF more, least, s
  <2>2. cap \in Nat /\ cap >= more /\ cap >= least
    BY <1>3, MaxIs
  <2> HIDE DEF cap
  <2>3. Sound(a, s) /\ (s.ok => s.arr.cap >= cap)
    BY <2>1, <2>2, ReallocatedIs
  <2>4. s.arr.cap \in Nat
    BY <2>3 DEF Sound, HoldsList
  <2>5. s.ok => s.arr.cap >= least /\ s.arr.cap >= array[a].cap + 1
    BY <1>1, <1>3, <2>2, <2>3, <2>4
  <2> QED BY <2>3, <2>5 DEF s, least
<1> QED BY <1>4, <1>5

\* Writing behind the last element, where there is room or where there is
\* nothing to write.
LEMMA ExtendedIs ==
  ASSUME ArrayI, NEW a \in Arrays, NEW s, Sound(a, s), NEW elements \in Seq(Values),
         s.ok => s.arr.size + Len(elements) <= s.arr.cap, Extended(a, s, elements)
  PROVE  ArrayI'
<1> DEFINE arr == IF s.ok THEN [s.arr EXCEPT !.size = @ + Len(elements)] ELSE s.arr
           mem == IF s.ok /\ elements # <<>> THEN Filled(s.mem, s.arr, elements) ELSE s.mem
           l   == IF s.ok THEN list[a] \o elements ELSE list[a]
<1>1. array' = [array EXCEPT ![a] = arr] /\ memory' = mem /\ list' = [list EXCEPT ![a] = l]
  BY DEF Extended
<1>2. /\ s.mem \in [Blocks -> Seq(Cells)] /\ HoldsList(s.arr, s.mem, list[a])
      /\ Frame(a, s.arr, s.mem)
  BY DEF Sound
<1>3. /\ s.arr \in [begin : Blocks \cup {Null}, size : Nat, cap : Nat]
      /\ s.arr.size \in Nat /\ s.arr.cap \in Nat /\ s.arr.cap <= MaxMemory
      /\ s.arr.size <= s.arr.cap
      /\ list[a] \in Seq(Values) /\ Len(list[a]) = s.arr.size
      /\ s.arr.begin = Null => s.arr.cap = 0
      /\ s.arr.begin # Null =>
           s.arr.cap # 0 /\ s.arr.begin \in Blocks /\ s.mem[s.arr.begin] = CellsOf(s.arr, list[a])
  BY <1>2 DEF HoldsList
<1>4. CASE ~s.ok
  <2>1. arr = s.arr /\ mem = s.mem /\ l = list[a]
    BY <1>4
  <2> HIDE DEF arr, mem, l
  <2> QED BY <1>1, <1>2, <2>1, ReplaceArrayI
<1>5. CASE s.ok
  <2> DEFINE n == Len(elements)
             k == s.arr.size
  <2>1. n \in Nat /\ k + n <= s.arr.cap
    BY <1>5
  <2>2. /\ arr \in [begin : Blocks \cup {Null}, size : Nat, cap : Nat]
        /\ arr.begin = s.arr.begin /\ arr.size = k + n /\ arr.cap = s.arr.cap
    BY <1>3, <1>5, <2>1
  <2>3. /\ l = list[a] \o elements /\ l \in Seq(Values) /\ Len(l) = k + n
        /\ \A i \in 1 .. k : l[i] = list[a][i]
        /\ \A i \in k + 1 .. k + n : l[i] = elements[i - k] /\ l[i] \in Values
        /\ \A i \in 1 .. k + n : l[i] \in Values
    <3>1. l = list[a] \o elements
      BY <1>5
    <3> HIDE DEF l
    <3>2. l \in Seq(Values) /\ Len(l) = k + n
      BY <1>3, <3>1
    <3>3. \A i \in 1 .. k + n : l[i] \in Values
      BY <3>2
    <3>4. \A i \in 1 .. k : l[i] = list[a][i]
      BY <1>3, <3>1
    <3>5. \A i \in k + 1 .. k + n : l[i] = elements[i - k]
      BY SMTT(30), <1>3, <3>1
    <3>6. \A i \in k + 1 .. k + n : i \in 1 .. k + n
      BY <1>3
    <3> QED BY <3>1, <3>2, <3>3, <3>4, <3>5, <3>6
  <2>4. CASE elements = <<>>
    <3>1. n = 0 /\ mem = s.mem
      BY <2>4
    <3>2. l = list[a]
      BY <1>3, <2>3, <2>4
    <3>3. arr.size = k
      BY <1>3, <2>2, <3>1
    <3> HIDE DEF arr, mem, l, n
    <3>4. arr = s.arr
      BY <1>3, <2>2, <3>3
    <3> QED BY <1>1, <1>2, <3>1, <3>2, <3>4, ReplaceArrayI
  <2>5. CASE elements # <<>>
    <3>1. n >= 1 /\ s.arr.cap >= 1 /\ s.arr.begin # Null
      <4>1. n >= 1
        BY <2>5
      <4> QED BY <1>3, <2>1, <4>1
    <3> DEFINE b == s.arr.begin
    <3>2. b \in Blocks /\ s.mem[b] = CellsOf(s.arr, list[a]) /\ DOMAIN s.mem[b] = 1 .. s.arr.cap
      BY <1>3, <3>1 DEF CellsOf
    <3>3. mem = [s.mem EXCEPT ![b] = [i \in DOMAIN s.mem[b] |->
                   IF i \in k + 1 .. k + n THEN elements[i - k] ELSE s.mem[b][i]]]
      BY <1>5, <2>5 DEF Filled
    <3>4. ASSUME NEW i \in 1 .. s.arr.cap
          PROVE  (IF i \in k + 1 .. k + n THEN elements[i - k] ELSE s.mem[b][i])
                   = IF i <= k + n THEN l[i] ELSE Raw
      <4>1. s.mem[b][i] = IF i <= k THEN list[a][i] ELSE Raw
        BY <3>2 DEF CellsOf
      <4> HIDE DEF l, n
      <4>2. CASE i <= k
        <5>1. i \notin k + 1 .. k + n /\ i <= k + n /\ i \in 1 .. k
          BY <1>3, <2>1, <4>2
        <5> QED BY <2>3, <4>1, <4>2, <5>1
      <4>3. CASE i > k /\ i <= k + n
        <5>1. i \in k + 1 .. k + n
          BY <1>3, <2>1, <4>3
        <5> QED BY <2>3, <4>3, <5>1
      <4>4. CASE i > k + n
        <5>1. i \notin k + 1 .. k + n /\ ~(i <= k) /\ ~(i <= k + n)
          BY <1>3, <2>1, <4>4
        <5> QED BY <4>1, <5>1
      <4> QED BY <1>3, <2>1, <4>2, <4>3, <4>4
    <3>5. [i \in DOMAIN s.mem[b] |-> IF i \in k + 1 .. k + n THEN elements[i - k] ELSE s.mem[b][i]]
            = CellsOf(arr, l)
      <4>1. arr.size = k + n /\ arr.cap = s.arr.cap
        BY <2>2
      <4>2. CellsOf(arr, l) = [i \in 1 .. arr.cap |-> IF i <= arr.size THEN l[i] ELSE Raw]
        BY DEF CellsOf
      <4> HIDE DEF arr, l, n
      <4>3. CellsOf(arr, l) = [i \in 1 .. s.arr.cap |-> IF i <= k + n THEN l[i] ELSE Raw]
        BY <4>1, <4>2
      <4>4. DOMAIN s.mem[b] = 1 .. s.arr.cap
        BY <3>2
      <4> QED BY <3>4, <4>3, <4>4
    <3>6. CellsOf(arr, l) \in Seq(Cells)
      <4>1. \A i \in 1 .. s.arr.cap : (IF i <= k + n THEN l[i] ELSE Raw) \in Cells
        <5> HIDE DEF l, n
        <5>1. \A i \in 1 .. s.arr.cap : i <= k + n => i \in 1 .. k + n
          BY <1>3, <2>1
        <5> QED BY <2>3, <5>1 DEF Cells
      <4>2. CellsOf(arr, l) \in [1 .. s.arr.cap -> Cells]
        <5> HIDE DEF arr, l
        <5> QED BY <2>2, <4>1 DEF CellsOf
      <4> HIDE DEF arr, l
      <4>3. PICK m \in Nat : m = s.arr.cap
        BY <1>3
      <4>4. CellsOf(arr, l) \in [1 .. m -> Cells]
        BY <4>2, <4>3
      <4> QED BY <4>4
    <3> HIDE DEF arr, l, mem, n, k
    <3>7. mem = [s.mem EXCEPT ![b] = CellsOf(arr, l)]
      BY <3>3, <3>5
    <3>8. /\ mem \in [Blocks -> Seq(Cells)] /\ mem[b] = CellsOf(arr, l)
          /\ \A x \in Blocks : x # b => mem[x] = s.mem[x]
      BY <1>2, <3>2, <3>6, <3>7
    <3>9. HoldsList(arr, mem, l)
      BY <1>3, <2>1, <2>2, <2>3, <3>1, <3>8 DEF HoldsList
    <3>10. Frame(a, arr, mem)
      BY <1>2, <2>2, <3>8, ArrayIs DEF Frame
    <3> QED BY <1>1, <3>8, <3>9, <3>10, ReplaceArrayI
  <2> QED BY <2>4, <2>5
<1> QED BY <1>4, <1>5, <1>2 DEF Sound

\* Cells in a row are a sequence.
LEMMA SomeCells == ASSUME NEW m \in Nat, NEW f \in [1 .. m -> Cells] PROVE f \in Seq(Cells)
OBVIOUS

LEMMA InitArrayI == ArrayInit => ArrayI
<1> SUFFICES ASSUME ArrayInit PROVE ArrayI
  OBVIOUS
<1>1. <<>> \in Seq(Cells) /\ <<>> \in Seq(Values) /\ Len(<<>>) = 0
  OBVIOUS
<1>2. Null \notin Blocks /\ MaxMemory \in Nat
  BY SizesAre
<1>3. \A a \in Arrays : array[a] = NoMemory /\ list[a] = <<>>
  BY DEF ArrayInit
<1>4. NoMemory \in [begin : Blocks \cup {Null}, size : Nat, cap : Nat]
      /\ NoMemory.begin = Null /\ NoMemory.size = 0 /\ NoMemory.cap = 0
  BY DEF NoMemory
<1>5. ArrayTypeI
  BY <1>1, <1>4 DEF ArrayTypeI, ArrayInit
<1>6. ListI
  <2>1. \A mem : HoldsList(NoMemory, mem, <<>>)
    BY <1>1, <1>2, <1>4 DEF HoldsList
  <2> QED BY <1>3, <2>1 DEF ListI
<1>7. AloneI
  BY <1>3, <1>4 DEF AloneI
<1>8. \A b \in Blocks : memory[b] = <<>>
  BY DEF ArrayInit
<1>9. InUseI
  BY <1>2, <1>3, <1>4, <1>8 DEF InUseI
<1> QED BY <1>5, <1>6, <1>7, <1>9 DEF ArrayI

\* Growing by what is missing, or not at all, and writing.
LEMMA GrowsAndWrites ==
  ASSUME ArrayI, NEW a \in Arrays, NEW b \in FreeBlocks \cup {Null}, NEW elements \in Seq(Values),
         NEW minimum \in Nat, NEW s,
         \/ /\ s = Grown(a, minimum, b)
            /\ \/ array[a].size + Len(elements) <= array[a].cap + minimum
               \/ array[a].size + Len(elements) <= array[a].cap + 1
         \/ s = Unchanged(a) /\ array[a].size + Len(elements) <= array[a].cap,
         Extended(a, s, elements)
  PROVE  ArrayI'
<1>1. array[a].size \in Nat /\ array[a].cap \in Nat /\ Len(elements) \in Nat
  BY ArrayIs
<1>2. Sound(a, s) /\ (s.ok => s.arr.size + Len(elements) <= s.arr.cap)
  <2>1. CASE s = Unchanged(a) /\ array[a].size + Len(elements) <= array[a].cap
    BY <2>1, UnchangedIs DEF Unchanged
  <2>2. CASE /\ s = Grown(a, minimum, b)
             /\ \/ array[a].size + Len(elements) <= array[a].cap + minimum
                \/ array[a].size + Len(elements) <= array[a].cap + 1
    <3>1. Sound(a, s) /\ (s.ok => s.arr.cap >= array[a].cap + minimum /\ s.arr.cap >= array[a].cap + 1)
      BY <2>2, GrownIs
    <3>2. s.arr.size = array[a].size /\ s.arr.cap \in Nat
      BY <3>1 DEF Sound, HoldsList
    <3>3. PICK n \in Nat : n = Len(elements)
      BY <1>1
    <3>4. s.ok => s.arr.size + n <= s.arr.cap
      BY SMTT(30), <1>1, <2>2, <3>1, <3>2, <3>3
    <3> QED BY <3>1, <3>3, <3>4
  <2> QED BY <2>1, <2>2
<1> QED BY <1>2, ExtendedIs

LEMMA NextTryPushBack ==
  ASSUME ArrayI, NEW a \in Arrays, NEW b \in FreeBlocks \cup {Null}, NEW e \in Elements,
         TryPushBack(a, e, b)
  PROVE  ArrayI'
<1> DEFINE s == IF array[a].size = array[a].cap THEN Grown(a, 0, b) ELSE Unchanged(a)
<1>1. <<e>> \in Seq(Values) /\ Len(<<e>>) = 1
  BY DEF Values
<1>2. array[a].size \in Nat /\ array[a].cap \in Nat /\ array[a].size <= array[a].cap
  BY ArrayIs
<1>3. Extended(a, s, <<e>>)
  BY DEF TryPushBack
<1>4. \/ s = Grown(a, 0, b) /\ array[a].size + Len(<<e>>) <= array[a].cap + 1
      \/ s = Unchanged(a) /\ array[a].size + Len(<<e>>) <= array[a].cap
  BY <1>1, <1>2
<1> HIDE DEF s
<1> QED BY <1>1, <1>3, <1>4, GrowsAndWrites

LEMMA NextWrite ==
  ASSUME ArrayI, NEW a \in Arrays, NEW b \in FreeBlocks \cup {Null}, NEW elements \in Seq(Values),
         Write(a, elements, b)
  PROVE  ArrayI'
<1> DEFINE free == array[a].cap - array[a].size
           n == Len(elements)
           s == IF free < n THEN Grown(a, n - free, b) ELSE Unchanged(a)
<1>1. Extended(a, s, elements)
  BY DEF Write
<1>2. /\ array[a].size \in Nat /\ array[a].cap \in Nat /\ array[a].size <= array[a].cap
      /\ n \in Nat
  BY ArrayIs
<1>3. CASE free < n
  <2>1. s = Grown(a, n - free, b)
    BY <1>3
  <2> HIDE DEF s, n
  <2>2. n - free \in Nat /\ array[a].size + n <= array[a].cap + (n - free)
    BY <1>2, <1>3
  <2> HIDE DEF free
  <2> QED BY <1>1, <2>1, <2>2, GrowsAndWrites DEF n
<1>4. CASE ~(free < n)
  <2>1. s = Unchanged(a) /\ array[a].size + n <= array[a].cap
    BY <1>2, <1>4
  <2> HIDE DEF s
  <2> QED BY <1>1, <2>1, GrowsAndWrites, 0 \in Nat
<1> QED BY <1>3, <1>4

LEMMA NextEnlarge ==
  ASSUME ArrayI, NEW a \in Arrays, NEW b \in FreeBlocks \cup {Null}, NEW elements \in Seq(Values),
         Enlarge(a, elements, b)
  PROVE  ArrayI'
<1> DEFINE inc == Len(elements)
           s == IF array[a].cap < array[a].size + inc THEN Grown(a, inc, b) ELSE Unchanged(a)
<1>1. Extended(a, s, elements)
  BY DEF Enlarge
<1>2. /\ array[a].size \in Nat /\ array[a].cap \in Nat /\ array[a].size <= array[a].cap
      /\ inc \in Nat
  BY ArrayIs
<1>3. \/ s = Grown(a, inc, b) /\ array[a].size + inc <= array[a].cap + inc
      \/ s = Unchanged(a) /\ array[a].size + inc <= array[a].cap
  BY <1>2
<1> HIDE DEF s
<1> QED BY <1>1, <1>2, <1>3, GrowsAndWrites

LEMMA NextGrow ==
  ASSUME ArrayI, NEW a \in Arrays, NEW b \in FreeBlocks \cup {Null}, NEW minimum \in Nat,
         Grow(a, minimum, b)
  PROVE  ArrayI'
<1>1. <<>> \in Seq(Values) /\ Len(<<>>) = 0
  OBVIOUS
<1>2. /\ array[a].size \in Nat /\ array[a].cap \in Nat /\ array[a].size <= array[a].cap
  BY ArrayIs
<1>3. array[a].size + Len(<<>>) <= array[a].cap + 1
  BY <1>1, <1>2
<1> DEFINE s == Grown(a, minimum, b)
<1>4. Extended(a, s, <<>>) /\ s = Grown(a, minimum, b)
  BY DEF Grow
<1> HIDE DEF s
<1> QED BY <1>1, <1>3, <1>4, GrowsAndWrites

LEMMA NextShrink ==
  ASSUME ArrayI, NEW a \in Arrays, NEW b \in FreeBlocks \cup {Null}, NEW minimum \in Nat,
         Shrink(a, minimum, b)
  PROVE  ArrayI'
<1> DEFINE room == array[a].size + Spare(array[a].size)
           cap == Max({room, minimum})
           s == IF array[a].cap <= cap THEN Unchanged(a) ELSE Reallocated(a, cap, b)
<1>1. Extended(a, s, <<>>)
  BY DEF Shrink
<1>2. <<>> \in Seq(Values) /\ Len(<<>>) = 0
  OBVIOUS
<1>3. /\ array[a].size \in Nat /\ array[a].cap \in Nat /\ array[a].size <= array[a].cap
      /\ array[a].cap <= MaxMemory /\ MaxMemory \in Nat
  BY ArrayIs, SizesAre
<1>4. Spare(array[a].size) \in Nat
  BY <1>3, SpareIs
<1>5. room \in Nat
  BY <1>3, <1>4
<1> HIDE DEF room
<1>6. cap \in Nat
  BY <1>5, MaxIs
<1> HIDE DEF cap
<1>7. Sound(a, s)
  BY <1>6, ReallocatedIs, UnchangedIs DEF Unchanged
<1> HIDE DEF s
<1>8. s.arr.size \in Nat /\ s.arr.cap \in Nat /\ s.arr.size <= s.arr.cap
  BY <1>7 DEF Sound, HoldsList
<1>9. s.arr.size + Len(<<>>) <= s.arr.cap
  BY <1>2, <1>8
<1> QED BY <1>1, <1>2, <1>7, <1>9, ExtendedIs

\* An array with its memory and another list in it.
LEMMA RewrittenI ==
  ASSUME ArrayI, NEW a \in Arrays, NEW n \in Nat, n <= array[a].cap, array[a].begin # Null,
         NEW l \in Seq(Values), Len(l) = n, NEW cells,
         cells = [i \in 1 .. array[a].cap |-> IF i <= n THEN l[i] ELSE Raw],
         array' = [array EXCEPT ![a].size = n],
         memory' = [memory EXCEPT ![array[a].begin] = cells],
         list' = [list EXCEPT ![a] = l]
  PROVE  ArrayI'
<1> DEFINE b == array[a].begin
           cap == array[a].cap
           arr == [array[a] EXCEPT !.size = n]
           mem == [memory EXCEPT ![b] = cells]
<1>1. /\ array[a] \in [begin : Blocks \cup {Null}, size : Nat, cap : Nat]
      /\ b \in Blocks /\ cap \in Nat /\ cap # 0 /\ cap <= MaxMemory
      /\ memory \in [Blocks -> Seq(Cells)]
      /\ array \in [Arrays -> [begin : Blocks \cup {Null}, size : Nat, cap : Nat]]
  BY ArrayIs DEF ArrayI, ArrayTypeI
<1>2. /\ arr \in [begin : Blocks \cup {Null}, size : Nat, cap : Nat]
      /\ arr.begin = b /\ arr.size = n /\ arr.cap = cap
  BY <1>1
<1>3. array' = [array EXCEPT ![a] = arr]
  BY <1>1
<1>4. cells \in Seq(Cells)
  <2>1. \A i \in 1 .. cap : i <= n => i \in 1 .. n
    BY <1>1
  <2>2. \A i \in 1 .. cap : (IF i <= n THEN l[i] ELSE Raw) \in Cells
    BY <2>1 DEF Cells
  <2>3. cells \in [1 .. cap -> Cells]
    BY <2>2
  <2> QED BY <1>1, <2>3, SomeCells
<1>5. cells = CellsOf(arr, l)
  BY <1>2 DEF CellsOf
<1> HIDE DEF arr
<1>6. /\ mem \in [Blocks -> Seq(Cells)] /\ mem[b] = cells
      /\ \A x \in Blocks : x # b => mem[x] = memory[x]
  BY <1>1, <1>4
<1> HIDE DEF mem
<1>7. HoldsList(arr, mem, l)
  BY <1>1, <1>2, <1>5, <1>6 DEF HoldsList
<1>8. Frame(a, arr, mem)
  BY <1>2, <1>6 DEF Frame
<1>9. memory' = mem
  BY DEF mem
<1> QED BY <1>3, <1>6, <1>7, <1>8, <1>9, ReplaceArrayI

\* What is in the block of an array.
LEMMA CellsAre ==
  ASSUME ArrayI, NEW a \in Arrays, array[a].size > 0
  PROVE  /\ array[a].begin # Null /\ array[a].begin \in Blocks
         /\ DOMAIN memory[array[a].begin] = 1 .. array[a].cap
         /\ \A i \in 1 .. array[a].cap :
              memory[array[a].begin][i] = IF i <= array[a].size THEN list[a][i] ELSE Raw
<1>1. array[a].begin # Null
  BY ArrayIs
<1>2. array[a].begin \in Blocks /\ memory[array[a].begin] = CellsOf(array[a], list[a])
  BY <1>1, ArrayIs
<1> QED BY <1>1, <1>2 DEF CellsOf

LEMMA NextShorten ==
  ASSUME ArrayI, NEW a \in Arrays, NEW n \in Nat, Shorten(a, n)
  PROVE  ArrayI'
<1> DEFINE b == array[a].begin
           k == array[a].size
           cap == array[a].cap
           l == SubSeq(list[a], 1, n)
           cells == [i \in 1 .. cap |-> IF i <= n THEN l[i] ELSE Raw]
<1>1. /\ k \in Nat /\ cap \in Nat /\ k <= cap /\ n < k
      /\ list[a] \in Seq(Values) /\ Len(list[a]) = k
      /\ list \in [Arrays -> Seq(Values)] /\ memory \in [Blocks -> Seq(Cells)]
  BY ArrayIs DEF Shorten, ArrayI, ArrayTypeI
<1>2. /\ b # Null /\ b \in Blocks /\ DOMAIN memory[b] = 1 .. cap
      /\ \A i \in 1 .. cap : memory[b][i] = IF i <= k THEN list[a][i] ELSE Raw
  BY <1>1, CellsAre
<1>3. l \in Seq(Values) /\ Len(l) = n /\ \A i \in 1 .. n : l[i] = list[a][i]
  BY <1>1
<1>4. [i \in DOMAIN memory[b] |-> IF i \in n + 1 .. k THEN Raw ELSE memory[b][i]] = cells
  <2>1. ASSUME NEW i \in 1 .. cap
        PROVE  (IF i \in n + 1 .. k THEN Raw ELSE memory[b][i]) = IF i <= n THEN l[i] ELSE Raw
    BY <1>1, <1>2, <1>3
  <2> QED BY <1>2, <2>1
<1>5. memory' = [memory EXCEPT ![b] = cells]
  BY <1>1, <1>2, <1>4 DEF Shorten, Destroyed
<1>6. array' = [array EXCEPT ![a].size = n] /\ list' = [list EXCEPT ![a] = l]
  BY <1>1 DEF Shorten
<1>7. n <= cap
  BY <1>1
<1> QED BY <1>2, <1>3, <1>5, <1>6, <1>7, RewrittenI

LEMMA NextRemoveAt ==
  ASSUME ArrayI, NEW a \in Arrays, NEW i \in Nat, RemoveAt(a, i)
  PROVE  ArrayI'
<1> DEFINE b == array[a].begin
           k == array[a].size
           cap == array[a].cap
           l == Without(list[a], i)
           n == k - 1
           cells == [j \in 1 .. cap |-> IF j <= n THEN l[j] ELSE Raw]
           swapped == [memory EXCEPT ![b][i] = memory[b][k], ![b][k] = memory[b][i]]
<1>1. /\ k \in Nat /\ cap \in Nat /\ k <= cap /\ i \in 1 .. k /\ n \in Nat /\ n <= cap /\ k = n + 1
      /\ list[a] \in Seq(Values) /\ Len(list[a]) = k
      /\ list \in [Arrays -> Seq(Values)] /\ memory \in [Blocks -> Seq(Cells)]
  BY ArrayIs DEF RemoveAt, ArrayI, ArrayTypeI
<1>2. /\ b # Null /\ b \in Blocks /\ DOMAIN memory[b] = 1 .. cap
      /\ \A j \in 1 .. cap : memory[b][j] = IF j <= k THEN list[a][j] ELSE Raw
  BY <1>1, CellsAre
<1>3. /\ l \in Seq(Values) /\ Len(l) = n
      /\ \A j \in 1 .. n : l[j] = IF j = i THEN list[a][k] ELSE list[a][j]
  <2> DEFINE put == [list[a] EXCEPT ![i] = list[a][k]]
  <2>1. /\ put \in Seq(Values) /\ Len(put) = k
        /\ \A j \in 1 .. k : put[j] = IF j = i THEN list[a][k] ELSE list[a][j]
    BY <1>1
  <2>2. l = SubSeq(put, 1, n)
    BY <1>1 DEF Without
  <2>3. \A j \in 1 .. n : j \in 1 .. k
    BY <1>1
  <2> HIDE DEF put, l, n
  <2>4. l \in Seq(Values) /\ Len(l) = n /\ \A j \in 1 .. n : l[j] = put[j]
    BY <1>1, <2>1, <2>2, <2>3
  <2> QED BY <2>1, <2>3, <2>4
<1> HIDE DEF l
<1>4. /\ swapped \in [Blocks -> Seq(Cells)] /\ DOMAIN swapped[b] = 1 .. cap
      /\ \A j \in 1 .. cap : swapped[b][j] = IF j = k THEN memory[b][i]
                                              ELSE IF j = i THEN memory[b][k] ELSE memory[b][j]
      /\ \A x \in Blocks : x # b => swapped[x] = memory[x]
  <2>1. k \in 1 .. cap /\ i \in 1 .. cap
    BY <1>1
  <2>2. PICK m : m = memory[b]
    OBVIOUS
  <2>3. m \in Seq(Cells) /\ DOMAIN m = 1 .. cap
    BY <1>1, <1>2, <2>2
  <2>4. PICK w : w = [[m EXCEPT ![i] = m[k]] EXCEPT ![k] = m[i]]
    OBVIOUS
  <2>5. w \in Seq(Cells)
    <3>1. \A j \in 1 .. cap : m[j] = IF j <= k THEN list[a][j] ELSE Raw
      BY <1>2, <2>2
    <3>2. \A j \in 1 .. cap : m[j] \in Cells
      <4>1. \A j \in 1 .. cap : j <= k => j \in 1 .. k
        BY <1>1
      <4> QED BY SMTT(30), <1>1, <3>1, <4>1 DEF Cells
    <3>3. DOMAIN w = 1 .. cap /\ w = [j \in 1 .. cap |-> w[j]]
      BY <2>3, <2>4
    <3>4. \A j \in 1 .. cap : w[j] \in Cells
      BY <2>1, <2>3, <2>4, <3>1, <3>2
    <3>5. w \in [1 .. cap -> Cells]
      BY <3>3, <3>4
    <3> QED BY <1>1, <3>5, SomeCells
  <2>6. DOMAIN w = 1 .. cap /\ \A j \in 1 .. cap : w[j] = IF j = k THEN m[i] ELSE IF j = i THEN m[k] ELSE m[j]
    BY <2>1, <2>3, <2>4
  <2>7. swapped = [memory EXCEPT ![b] = w]
    BY <1>1, <1>2, <2>2, <2>4
  <2> HIDE DEF swapped
  <2> QED BY <1>1, <1>2, <2>2, <2>5, <2>6, <2>7
<1> HIDE DEF swapped
<1>5. [j \in DOMAIN swapped[b] |-> IF j \in {k} THEN Raw ELSE swapped[b][j]] = cells
  <2>1. ASSUME NEW j \in 1 .. cap
        PROVE  (IF j \in {k} THEN Raw ELSE swapped[b][j]) = IF j <= n THEN l[j] ELSE Raw
    <3>1. CASE j = k
      BY <1>1, <3>1
    <3>2. CASE j > k
      BY <1>1, <1>2, <1>4, <3>2
    <3>3. CASE j < k
      <4>1. j \in 1 .. n /\ k \in 1 .. cap
        BY <1>1, <3>3
      <4>2. j # k /\ j <= n /\ j <= k /\ k <= k
        BY <1>1, <3>3
      <4>3. swapped[b][j] = IF j = i THEN memory[b][k] ELSE memory[b][j]
        BY <1>4, <4>2
      <4>4. memory[b][k] = list[a][k] /\ memory[b][j] = list[a][j]
        BY <1>2, <4>1, <4>2
      <4>5. l[j] = IF j = i THEN list[a][k] ELSE list[a][j]
        BY <1>3, <4>1
      <4> QED BY <4>2, <4>3, <4>4, <4>5
    <3> QED BY <1>1, <3>1, <3>2, <3>3
  <2> QED BY <1>4, <2>1
<1>6. memory' = [memory EXCEPT ![b] = cells]
  <2>1. memory' = [swapped EXCEPT ![b] = cells]
    BY <1>2, <1>4, <1>5 DEF RemoveAt, Destroyed, swapped
  <2> HIDE DEF cells
  <2> QED BY <1>1, <1>2, <1>4, <2>1
<1>7. array' = [array EXCEPT ![a].size = n] /\ list' = [list EXCEPT ![a] = l]
  BY <1>1 DEF RemoveAt, l
<1> QED BY <1>1, <1>2, <1>3, <1>6, <1>7, RewrittenI

LEMMA NextMove ==
  ASSUME ArrayI, NEW a \in Arrays, NEW c \in Arrays, Move(a, c)
  PROVE  ArrayI'
<1>t. ArrayTypeI /\ ListI /\ AloneI /\ InUseI /\ Null \notin Blocks /\ MaxMemory \in Nat
  BY SizesAre DEF ArrayI
<1>1. /\ a # c /\ memory' = Freed(memory, array[a])
      /\ array' = [array EXCEPT ![a] = array[c], ![c] = NoMemory]
      /\ list' = [list EXCEPT ![a] = list[c], ![c] = <<>>]
  BY DEF Move
<1>2. /\ array'[a] = array[c] /\ list'[a] = list[c]
      /\ array'[c] = NoMemory /\ list'[c] = <<>>
      /\ \A d \in Arrays : d # a /\ d # c => array'[d] = array[d] /\ list'[d] = list[d]
  BY <1>t, <1>1 DEF ArrayTypeI
<1>3. /\ memory' \in [Blocks -> Seq(Cells)]
      /\ \A x \in Blocks : memory'[x] = IF x = array[a].begin THEN <<>> ELSE memory[x]
  <2>1. <<>> \in Seq(Cells)
    OBVIOUS
  <2> QED BY <1>t, <1>1, <2>1 DEF Freed, ArrayTypeI
<1>4. <<>> \in Seq(Values) /\ Len(<<>>) = 0
  OBVIOUS
<1>5. NoMemory \in [begin : Blocks \cup {Null}, size : Nat, cap : Nat]
      /\ NoMemory.begin = Null /\ NoMemory.size = 0 /\ NoMemory.cap = 0
  BY DEF NoMemory
<1>6. ArrayTypeI'
  BY <1>t, <1>1, <1>3, <1>4, <1>5 DEF ArrayTypeI
<1>7. ASSUME NEW d \in Arrays, d # a
      PROVE  HoldsList(array[d], memory', list[d])
  <2>1. HoldsList(array[d], memory, list[d])
    BY <1>t DEF ListI
  <2>2. array[d].begin # Null => array[d].begin \in Blocks /\ array[d].begin # array[a].begin
    BY <1>t, <1>7, ArrayIs DEF AloneI
  <2> QED BY <1>3, <2>1, <2>2 DEF HoldsList
<1>8. ListI'
  <2> SUFFICES ASSUME NEW d \in Arrays PROVE HoldsList(array'[d], memory', list'[d])
    BY DEF ListI, HoldsList, CellsOf
  <2>1. CASE d = a
    BY <1>1, <1>2, <1>7, <2>1
  <2>2. CASE d = c
    <3>1. HoldsList(NoMemory, memory', <<>>)
      BY <1>t, <1>4, <1>5 DEF HoldsList
    <3> QED BY <1>2, <2>2, <3>1
  <2>3. CASE d # a /\ d # c
    BY <1>2, <1>7, <2>3
  <2> QED BY <2>1, <2>2, <2>3
<1>9. AloneI'
  <2> SUFFICES ASSUME NEW d \in Arrays, NEW e \in Arrays, array'[d].begin # Null,
                      array'[d].begin = array'[e].begin
               PROVE  d = e
    BY DEF AloneI
  <2>1. d # c /\ e # c
    BY <1>2, <1>5
  <2>2. CASE d = a /\ e # a
    <3>1. array[c].begin # Null /\ array[c].begin = array[e].begin
      BY <1>2, <2>1, <2>2
    <3> QED BY <1>t, <2>1, <3>1 DEF AloneI
  <2>3. CASE d # a /\ e = a
    <3>1. array[c].begin # Null /\ array[c].begin = array[d].begin
      BY <1>2, <2>1, <2>3
    <3> QED BY <1>t, <2>1, <3>1 DEF AloneI
  <2>4. CASE d # a /\ e # a
    <3>1. array[d].begin # Null /\ array[d].begin = array[e].begin
      BY <1>2, <2>1, <2>4
    <3> QED BY <1>t, <3>1 DEF AloneI
  <2> QED BY <2>2, <2>3, <2>4
<1>10. InUseI'
  <2> SUFFICES ASSUME NEW x \in Blocks
               PROVE  memory'[x] # <<>> <=> \E d \in Arrays : array'[d].begin = x
    BY DEF InUseI
  <2>1. CASE x = array[a].begin
    <3>1. \A d \in Arrays : d # a => array[d].begin # x
      BY <1>t, <2>1 DEF AloneI
    <3>2. \A d \in Arrays : array'[d].begin # x
      BY <1>t, <1>1, <1>2, <1>5, <3>1
    <3> QED BY <1>3, <2>1, <3>2
  <2>2. CASE x # array[a].begin
    <3>1. (\E d \in Arrays : array'[d].begin = x) <=> \E d \in Arrays : array[d].begin = x
      BY <1>t, <1>1, <1>2, <1>5, <2>2
    <3> QED BY <1>t, <1>3, <2>2, <3>1 DEF InUseI
  <2> QED BY <2>1, <2>2
<1> QED BY <1>6, <1>8, <1>9, <1>10 DEF ArrayI

LEMMA NextArrayI == ArrayI /\ [ArrayNext]_arrayVars => ArrayI'
<1> SUFFICES ASSUME ArrayI, [ArrayNext]_arrayVars PROVE ArrayI'
  OBVIOUS
<1>1. CASE UNCHANGED arrayVars
  BY <1>1 DEF arrayVars, ArrayI, ArrayTypeI, ListI, AloneI, InUseI, HoldsList, CellsOf
<1>2. ASSUME NEW a \in Arrays, NEW b \in FreeBlocks \cup {Null}, NEW e \in Elements, TryPushBack(a, e, b)
      PROVE  ArrayI'
  BY <1>2, NextTryPushBack
<1>3. ASSUME NEW a \in Arrays, NEW b \in FreeBlocks \cup {Null}, NEW elements \in Some, Write(a, elements, b)
      PROVE  ArrayI'
  <2>1. elements \in Seq(Values)
    <3>1. PICK n \in 1 .. AtOnce : elements \in [1 .. n -> Elements]
      BY DEF Some
    <3>m. PICK m \in Nat : m = n
      BY DEF AtOnce
    <3>2. elements \in [1 .. m -> Values]
      BY <3>1, <3>m DEF Values
    <3> QED BY <3>2
  <2> QED BY <1>3, <2>1, NextWrite
<1>4. ASSUME NEW a \in Arrays, NEW b \in FreeBlocks \cup {Null}, NEW n \in 1 .. AtOnce,
             Enlarge(a, [i \in 1 .. n |-> Default], b)
      PROVE  ArrayI'
  <2>1. PICK m \in Nat : m = n
    BY DEF AtOnce
  <2>2. [i \in 1 .. m |-> Default] \in Seq(Values)
    BY DEF Values
  <2> QED BY <1>4, <2>1, <2>2, NextEnlarge
<1>5. ASSUME NEW a \in Arrays, NEW b \in FreeBlocks \cup {Null}, NEW minimum \in {0, AtOnce, MaxSize},
             Grow(a, minimum, b) \/ Shrink(a, minimum, b)
      PROVE  ArrayI'
  <2>1. minimum \in Nat
    BY SizesAre DEF AtOnce
  <2> QED BY <1>5, <2>1, NextGrow, NextShrink
<1>6. ASSUME NEW a \in Arrays, NEW n \in 0 .. array[a].size, Shorten(a, n)
      PROVE  ArrayI'
  <2>1. n \in Nat
    BY ArrayIs
  <2> QED BY <1>6, <2>1, NextShorten
<1>7. ASSUME NEW a \in Arrays, NEW i \in 1 .. array[a].size, RemoveAt(a, i)
      PROVE  ArrayI'
  <2>1. i \in Nat
    BY ArrayIs
  <2> QED BY <1>7, <2>1, NextRemoveAt
<1>8. ASSUME NEW a \in Arrays, NEW c \in Arrays, Move(a, c)
      PROVE  ArrayI'
  BY <1>8, NextMove
<1> QED BY <1>1, <1>2, <1>3, <1>4, <1>5, <1>6, <1>7, <1>8 DEF ArrayNext

\* The invariant says that the arrays are intact.
LEMMA ArrayIImplies == ArrayI => ArrayIsIntact
<1> SUFFICES ASSUME ArrayI PROVE ArrayIsIntact
  OBVIOUS
<1>1. ArrayIsList
  BY ContentIs DEF ArrayIsList
<1>2. ASSUME NEW b \in Blocks, memory[b] # <<>>
      PROVE  Cardinality({a \in Arrays : array[a].begin = b}) = 1
  <2>1. PICK a \in Arrays : array[a].begin = b
    BY <1>2 DEF ArrayI, InUseI
  <2>2. b # Null
    BY SizesAre
  <2>3. {c \in Arrays : array[c].begin = b} = {a}
    BY <2>1, <2>2 DEF ArrayI, AloneI
  <2> QED BY <2>3, FS_Singleton
<1>3. ASSUME NEW a \in Arrays, array[a].begin # Null
      PROVE  LET cells == memory[array[a].begin] IN
             /\ Len(cells) = array[a].cap /\ array[a].size <= array[a].cap
             /\ \A i \in DOMAIN cells : cells[i] = Raw <=> i > array[a].size
  <2> DEFINE cells == memory[array[a].begin]
  <2>1. /\ array[a].size \in Nat /\ array[a].cap \in Nat /\ array[a].size <= array[a].cap
        /\ list[a] \in Seq(Values) /\ Len(list[a]) = array[a].size
        /\ cells = CellsOf(array[a], list[a]) /\ cells \in Seq(Cells) /\ Raw \notin Values
    BY <1>3, ArrayIs, SizesAre DEF ArrayI, ArrayTypeI
  <2>2. /\ DOMAIN cells = 1 .. array[a].cap
        /\ \A i \in 1 .. array[a].cap : cells[i] = IF i <= array[a].size THEN list[a][i] ELSE Raw
    BY <2>1 DEF CellsOf
  <2> HIDE DEF cells
  <2>3. Len(cells) = array[a].cap
    BY <2>1, <2>2
  <2>4. ASSUME NEW i \in 1 .. array[a].cap PROVE cells[i] = Raw <=> i > array[a].size
    BY <2>1, <2>2
  <2> QED BY <2>1, <2>2, <2>3, <2>4 DEF cells
<1>4. \A a \in Arrays : array[a].begin = Null => array[a] = NoMemory
  BY ArrayIs
<1>5. MemoryIsOwned
  BY <1>2, <1>3, <1>4 DEF MemoryIsOwned
<1> QED BY <1>1, <1>5 DEF ArrayIsIntact

\* Every array keeps the elements it was given, in memory of its own, through
\* growing, shrinking, moves and allocations that fail; no block is lost, none
\* is shared, and no element is destroyed twice or left behind.
THEOREM ArraysAreIntact == ArrayInit /\ [][ArrayNext]_arrayVars => []ArrayIsIntact
BY InitArrayI, NextArrayI, ArrayIImplies, PTL
=============================================================================
