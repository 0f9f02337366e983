----------------------------- MODULE Lifecycle -----------------------------
(***************************************************************************)
(* Who owns what, and for how long: cores with their ids and their places  *)
(* in the thread local arrays, the log buffers shared by a thread and the  *)
(* core that reads them, and the sinks a core uses alone.                  *)
(*                                                                         *)
(* A thread finds its buffer for a core in tls_buffers_ at the place of    *)
(* the core; places are used again by later cores, ids never.  A buffer    *)
(* is kept alive by references and leaves the store of its core in a pass  *)
(* of read_buffers, when nobody else refers to it and it has been read.    *)
(* The core goes away with the last handle to it, in the thread that drops *)
(* it.  What a buffer holds is a number of messages; LogBuffer and         *)
(* FlushProtocol have the detail.  Cores run from init to destruction.     *)
(***************************************************************************)
EXTENDS Integers, FiniteSets, FiniteSetsExt

CONSTANTS
  Threads, Cores, Buffers, Sinks,  \* objects of the program
  Slots,       \* indexes of tls_buffers_: core_instance_limit of them
  MaxId,       \* numeric_limits<uintmax_t>::max(), where init fails
  MaxUnread,   \* bound: unread messages in a buffer
  MaxPasses    \* bound: cores in a pass at the same time

ASSUME ObjectsAssumption ==
  /\ IsFiniteSet(Threads) /\ IsFiniteSet(Cores) /\ IsFiniteSet(Buffers)
  /\ IsFiniteSet(Sinks) /\ IsFiniteSet(Slots) /\ Slots \subseteq Nat
ASSUME BoundsAssumption == MaxId \in Nat \ {0} /\ MaxUnread \in Nat /\ MaxPasses \in Nat

None   == "none"   \* nullptr
NoSlot == -1       \* of a core that has no place

ASSUME NoneAssumption == None \notin Cores \cup Buffers \cup Sinks

VARIABLES
  nextId, slotUsed,        \* next_id_, tls_buffer_index_used_
  \* each core
  coreState, id, slot,     \* where it is in its life, id_, tls_buffer_index_
  handles,                 \* reference_counter_
  store,                   \* bufferstore_
  sinkStore,               \* sinkstore_
  \* its pass of read_buffers
  pass, todo, cur,         \* where it is, buffers to visit, the one at hand
  unused, flushAll,        \* buffer_unused, flush_all
  \* each buffer
  refs,                    \* reference_counter_, 0: there is no such buffer
  owner,                   \* the id of the core it was made for
  unread, snap,            \* messages in it, and before the snapshot
  \* each sink
  inUse,                   \* in_use_
  \* each thread
  holds,                   \* cores it has a handle to
  tls,                     \* tls_buffers_
  tpc, on,                 \* where it is in a call, and the core of the call
  flushing                 \* the sink it releases

idVars   == <<nextId, slotUsed>>
coreVars == <<coreState, id, slot, handles>>
passVars == <<pass, todo, cur, unused, flushAll>>
bufVars  == <<refs, owner, unread, snap>>
sinkVars == <<sinkStore, inUse>>
callVars == <<tpc, on, flushing>>
vars == <<idVars, coreVars, store, passVars, bufVars, sinkVars, holds, tls, callVars>>

NoEntry == [id |-> 0, buf |-> None]

Init ==
  /\ nextId = 1 /\ slotUsed = [i \in Slots |-> FALSE]
  /\ coreState = [c \in Cores |-> "none"] /\ id = [c \in Cores |-> 0]
  /\ slot = [c \in Cores |-> NoSlot] /\ handles = [c \in Cores |-> 0]
  /\ store = [c \in Cores |-> {}] /\ sinkStore = [c \in Cores |-> {}]
  /\ pass = [c \in Cores |-> "idle"] /\ todo = [c \in Cores |-> {}]
  /\ cur = [c \in Cores |-> None] /\ unused = [c \in Cores |-> FALSE]
  /\ flushAll = [c \in Cores |-> FALSE]
  /\ refs = [b \in Buffers |-> 0] /\ owner = [b \in Buffers |-> 0]
  /\ unread = [b \in Buffers |-> 0] /\ snap = [b \in Buffers |-> 0]
  /\ inUse = [s \in Sinks |-> FALSE]
  /\ holds = [t \in Threads |-> {}]
  /\ tls = [t \in Threads |-> [i \in Slots |-> NoEntry]]
  /\ tpc = [t \in Threads |-> "idle"] /\ on = [t \in Threads |-> None]
  /\ flushing = [t \in Threads |-> None]

\* One reference to each of them is dropped (None is no buffer); a buffer goes
\* with the last one, and with it what it holds.
DropOne(bufs) ==
  LET gone == {b \in bufs \ {None} : refs[b] = 1}
      without(f) == [b \in Buffers |-> IF b \in gone THEN 0 ELSE f[b]]
  IN  /\ refs' = [b \in Buffers |-> IF b \in bufs THEN refs[b] - 1 ELSE refs[b]]
      /\ owner' = without(owner) /\ unread' = without(unread) /\ snap' = without(snap)

-----------------------------------------------------------------------------
(***************************************************************************)
(* A core comes and goes.                                                  *)
(***************************************************************************)

\* core_impl::init() under init_mutex_: the first free place and an id.
\* Without a free place, or with the last id gone, init() changes nothing.
InitSlot(t, c) ==
  /\ tpc[t] = "idle" /\ coreState[c] = "none"
  /\ nextId < MaxId
  /\ \E i \in Slots :
       /\ ~slotUsed[i] /\ \A j \in Slots : slotUsed[j] \/ i <= j
       /\ slotUsed' = [slotUsed EXCEPT ![i] = TRUE]
       /\ slot' = [slot EXCEPT ![c] = i]
  /\ id' = [id EXCEPT ![c] = nextId] /\ nextId' = nextId + 1
  /\ coreState' = [coreState EXCEPT ![c] = "init"]
  /\ tpc' = [tpc EXCEPT ![t] = "init"] /\ on' = [on EXCEPT ![t] = c]
  /\ UNCHANGED <<handles, store, passVars, bufVars, sinkVars, holds, tls, flushing>>

\* The rest of init() went well: the first handle.
InitDone(t) ==
  LET c == on[t]
  IN  /\ tpc[t] = "init"
      /\ coreState' = [coreState EXCEPT ![c] = "live"]
      /\ handles' = [handles EXCEPT ![c] = 1]
      /\ holds' = [holds EXCEPT ![t] = @ \cup {c}]
      /\ tpc' = [tpc EXCEPT ![t] = "idle"] /\ on' = [on EXCEPT ![t] = None]
      /\ UNCHANGED <<idVars, id, slot, store, passVars, bufVars, sinkVars, tls, flushing>>

\* It did not, for want of memory or of a thread: destroyed at once.
InitFails(t) ==
  /\ tpc[t] = "init"
  /\ coreState' = [coreState EXCEPT ![on[t]] = "stopped"]
  /\ tpc' = [tpc EXCEPT ![t] = "destroy"]
  /\ UNCHANGED <<idVars, id, slot, handles, store, passVars, bufVars, sinkVars, holds, tls,
                 on, flushing>>

\* A copy of a handle, for another thread.
ShareCore(t, u, c) ==
  /\ tpc[t] = "idle" /\ c \in holds[t] /\ c \notin holds[u]
  /\ handles' = [handles EXCEPT ![c] = @ + 1]
  /\ holds' = [holds EXCEPT ![u] = @ \cup {c}]
  /\ UNCHANGED <<idVars, coreState, id, slot, store, passVars, bufVars, sinkVars, tls, callVars>>

\* ~core(): the last handle destroys the core, beginning with stop().
DropCore(t, c) ==
  /\ tpc[t] = "idle" /\ c \in holds[t]
  /\ handles' = [handles EXCEPT ![c] = @ - 1]
  /\ holds' = [holds EXCEPT ![t] = @ \ {c}]
  /\ IF handles[c] = 1
     THEN /\ coreState' = [coreState EXCEPT ![c] = "stopping"]
          /\ tpc' = [tpc EXCEPT ![t] = "destroy"] /\ on' = [on EXCEPT ![t] = c]
     ELSE UNCHANGED <<coreState, tpc, on>>
  /\ UNCHANGED <<idVars, id, slot, store, passVars, bufVars, sinkVars, tls, flushing>>

\* ~core_impl() after stop(): release() of every sink, under sinkstore_mutex_.
DestroySinks(t) ==
  LET c == on[t]
  IN  /\ tpc[t] = "destroy" /\ coreState[c] = "stopped"
      /\ inUse' = [s \in Sinks |-> inUse[s] /\ s \notin sinkStore[c]]
      /\ coreState' = [coreState EXCEPT ![c] = "released"]
      /\ UNCHANGED <<idVars, id, slot, handles, store, passVars, bufVars, sinkStore, holds, tls,
                     callVars>>

\* The place is free again, under init_mutex_.
DestroySlot(t) ==
  LET c == on[t]
  IN  /\ tpc[t] = "destroy" /\ coreState[c] = "released"
      /\ slotUsed' = [slotUsed EXCEPT ![slot[c]] = FALSE]
      /\ slot' = [slot EXCEPT ![c] = NoSlot] /\ id' = [id EXCEPT ![c] = 0]
      /\ coreState' = [coreState EXCEPT ![c] = "members"]
      /\ UNCHANGED <<nextId, handles, store, passVars, bufVars, sinkVars, holds, tls, callVars>>

\* The destructors of bufferstore_ and sinkstore_.
DestroyMembers(t) ==
  LET c == on[t]
  IN  /\ tpc[t] = "destroy" /\ coreState[c] = "members"
      /\ DropOne(store[c])
      /\ store' = [store EXCEPT ![c] = {}] /\ sinkStore' = [sinkStore EXCEPT ![c] = {}]
      /\ coreState' = [coreState EXCEPT ![c] = "none"]
      /\ tpc' = [tpc EXCEPT ![t] = "idle"] /\ on' = [on EXCEPT ![t] = None]
      /\ UNCHANGED <<idVars, id, slot, handles, passVars, inUse, holds, tls, flushing>>

-----------------------------------------------------------------------------
(***************************************************************************)
(* A thread and its buffers.                                               *)
(***************************************************************************)

\* What a thread has at the place of a core.
Entry(t, c) == tls[t][slot[c]]
SetEntry(t, c, b) == tls' = [tls EXCEPT ![t][slot[c]] = [id |-> id[c], buf |-> b]]

\* A bug: the buffer of the last core at this place is taken.
TlsBufferOfAnyCore(t, c) ==
  SetEntry(t, c, Entry(t, c).buf) /\ UNCHANGED bufVars

\* tls_buffer(): a buffer another core left at this place is let go of.
TlsBuffer(t, c) ==
  LET mine == Entry(t, c).id = id[c]
  IN  /\ SetEntry(t, c, IF mine THEN Entry(t, c).buf ELSE None)
      /\ DropOne(IF mine THEN {} ELSE {Entry(t, c).buf})

\* log(), or new_buffer(), on a core the thread has a handle to: the buffer
\* of the thread is looked up; without one, or for a new one, get_buffer()
\* follows.  What the thread does alone is one step with what comes next.
Call(t, c, new) ==
  /\ tpc[t] = "idle" /\ c \in holds[t]
  /\ TlsBuffer(t, c)
  /\ tpc' = [tpc EXCEPT ![t] = IF new THEN "getnew"
                               ELSE IF tls'[t][slot[c]].buf = None THEN "get" ELSE "write"]
  /\ on' = [on EXCEPT ![t] = c]
  /\ UNCHANGED <<idVars, coreVars, store, passVars, sinkVars, holds, flushing>>

\* A bug: the store and the thread count as one.
ReplaceUncounted(t, c, b) ==
  LET old == Entry(t, c).buf
  IN  /\ refs' = [x \in Buffers |-> IF x = b THEN 1 ELSE IF x = old THEN refs[x] - 1 ELSE refs[x]]
      /\ SetEntry(t, c, b)

\* The new buffer is referred to twice, by the store and by the thread, which
\* lets go of the one it had; that one is still in the store.
ReplaceBuffer(t, c, b) ==
  LET old == Entry(t, c).buf
  IN  /\ refs' = [x \in Buffers |-> IF x = b THEN 2 ELSE IF x = old THEN refs[x] - 1 ELSE refs[x]]
      /\ SetEntry(t, c, b)

\* get_buffer() and set_buffer(): a new buffer enters the store, under
\* bufferstore_mutex_, and takes the place of the one the thread had.
GetBuffer(t) ==
  LET c == on[t]
  IN  /\ tpc[t] \in {"get", "getnew"} /\ pass[c] = "idle"
      /\ \E b \in Buffers :
           /\ refs[b] = 0
           /\ ReplaceBuffer(t, c, b)
           /\ owner' = [owner EXCEPT ![b] = id[c]]
           /\ store' = [store EXCEPT ![c] = @ \cup {b}]
      /\ tpc' = [tpc EXCEPT ![t] = IF @ = "get" THEN "write" ELSE "idle"]
      /\ on' = [on EXCEPT ![t] = IF tpc[t] = "get" THEN c ELSE None]
      /\ UNCHANGED <<idVars, coreVars, passVars, unread, snap, sinkVars, holds, flushing>>

\* No memory for the buffer or for its place in the store: the thread has no
\* buffer, not even the one it had, and a message is not logged.
GetBufferFails(t) ==
  LET c == on[t]
  IN  /\ tpc[t] \in {"get", "getnew"}
      /\ DropOne({Entry(t, c).buf}) /\ SetEntry(t, c, None)
      /\ tpc' = [tpc EXCEPT ![t] = "idle"] /\ on' = [on EXCEPT ![t] = None]
      /\ UNCHANGED <<idVars, coreVars, store, passVars, sinkVars, holds, flushing>>

\* The message is written to the buffer found or made.
WriteMessage(t) ==
  LET b == Entry(t, on[t]).buf
  IN  /\ tpc[t] = "write" /\ unread[b] < MaxUnread
      /\ unread' = [unread EXCEPT ![b] = @ + 1]
      /\ tpc' = [tpc EXCEPT ![t] = "idle"] /\ on' = [on EXCEPT ![t] = None]
      /\ UNCHANGED <<idVars, coreVars, store, passVars, refs, owner, snap, sinkVars, holds, tls,
                     flushing>>

\* release_buffer()
ReleaseBuffer(t, c) ==
  /\ tpc[t] = "idle" /\ c \in holds[t]
  /\ DropOne({Entry(t, c).buf}) /\ SetEntry(t, c, None)
  /\ UNCHANGED <<idVars, coreVars, store, passVars, sinkVars, holds, callVars>>

\* A thread ends, and with it what is local to it; another begins.
ThreadExit(t) ==
  /\ tpc[t] = "idle" /\ tls[t] # [i \in Slots |-> NoEntry]
  /\ DropOne({tls[t][i].buf : i \in Slots})
  /\ tls' = [tls EXCEPT ![t] = [i \in Slots |-> NoEntry]]
  /\ UNCHANGED <<idVars, coreVars, store, passVars, sinkVars, holds, callVars>>

-----------------------------------------------------------------------------
(***************************************************************************)
(* The pass of read_buffers, under bufferstore_mutex_, by the background   *)
(* thread or by core::flush; the one the background thread makes when it   *)
(* is stopped flushes all.  Another that flushes all from the start is one *)
(* in which no buffer is passed over and no sink makes it start over.  A   *)
(* snapshot is of use in its pass only, and is 0 between two passes.       *)
(***************************************************************************)
BeginPass(c) ==
  /\ pass[c] = "idle" /\ coreState[c] \in {"live", "stopping"}
  /\ Cardinality({d \in Cores : pass[d] # "idle"}) < MaxPasses
  /\ pass' = [pass EXCEPT ![c] = IF coreState[c] = "stopping" THEN "last" ELSE "next"]
  /\ flushAll' = [flushAll EXCEPT ![c] = coreState[c] = "stopping"]
  /\ todo' = [todo EXCEPT ![c] = store[c]]
  /\ snap' = [b \in Buffers |-> IF b \in store[c] THEN unread[b] ELSE snap[b]]
  /\ UNCHANGED <<idVars, coreVars, store, cur, unused, refs, owner, unread, sinkVars, holds, tls,
                 callVars>>

\* use_count() == 1
VisitBuffer(c, b) ==
  /\ pass[c] \in {"next", "last"} /\ cur[c] = None /\ b \in todo[c]
  /\ todo' = [todo EXCEPT ![c] = @ \ {b}]
  /\ unused' = [unused EXCEPT ![c] = refs[b] = 1]
  /\ cur' = [cur EXCEPT ![c] = b]
  /\ UNCHANGED <<idVars, coreVars, store, pass, flushAll, bufVars, sinkVars, holds, tls, callVars>>

\* A buffer that need not be flushed.
SkipBuffer(c) ==
  /\ cur[c] # None /\ ~flushAll[c] /\ ~unused[c] /\ pass[c] = "next"
  /\ cur' = [cur EXCEPT ![c] = None]
  /\ UNCHANGED <<idVars, coreVars, store, pass, todo, unused, flushAll, bufVars, sinkVars, holds,
                 tls, callVars>>

\* read_buffer(), then the removal of a buffer that nobody else refers to
\* (as was found before the reading) and that is empty (as is found after).
\* A message written in between would as well be written before, as only
\* what the snapshot has seen is read.  A full sink makes the pass start over.
Removed(c, gone) ==
  LET b == cur[c]
  IN  /\ refs' = [refs EXCEPT ![b] = IF gone THEN @ - 1 ELSE @]
      /\ owner' = [owner EXCEPT ![b] = IF gone /\ refs[b] = 1 THEN 0 ELSE @]
      /\ unread' = [unread EXCEPT ![b] = IF gone /\ refs[b] = 1 THEN 0 ELSE @ - snap[b]]
      /\ snap' = [snap EXCEPT ![b] = 0]
      /\ store' = [store EXCEPT ![c] = IF gone THEN @ \ {b} ELSE @]

\* A bug: a buffer nobody else refers to is removed whatever it holds.
RemoveUnchecked(c) == Removed(c, unused[c])

\* A bug: a buffer that has been read is removed though it is in use.
RemoveAnyEmpty(c) == Removed(c, unread[cur[c]] = snap[cur[c]])

Remove(c) == Removed(c, unused[c] /\ unread[cur[c]] = snap[cur[c]])

ReadBuffer(c) ==
  /\ cur[c] # None
  /\ Remove(c)
  /\ \E restart \in BOOLEAN :
       /\ restart => ~flushAll[c]
       /\ todo' = [todo EXCEPT ![c] = IF restart THEN store'[c] ELSE @]
       /\ flushAll' = [flushAll EXCEPT ![c] = @ \/ restart]
  /\ cur' = [cur EXCEPT ![c] = None] /\ unused' = [unused EXCEPT ![c] = FALSE]
  /\ UNCHANGED <<idVars, coreVars, pass, sinkVars, holds, tls, callVars>>

\* The pass is over; after the last one the background thread is joined.
EndPass(c) ==
  /\ pass[c] \in {"next", "last"} /\ cur[c] = None /\ todo[c] = {}
  /\ pass' = [pass EXCEPT ![c] = "idle"] /\ flushAll' = [flushAll EXCEPT ![c] = FALSE]
  /\ coreState' = [coreState EXCEPT ![c] = IF pass[c] = "last" THEN "stopped" ELSE @]
  /\ snap' = [b \in Buffers |-> IF b \in store[c] THEN 0 ELSE snap[b]]
  /\ UNCHANGED <<idVars, id, slot, handles, store, todo, cur, unused, refs, owner, unread,
                 sinkVars, holds, tls, callVars>>

-----------------------------------------------------------------------------
(***************************************************************************)
(* Sinks.                                                                  *)
(***************************************************************************)

\* add_sink() under sinkstore_mutex_; use() lets one core in.
AddSink(t, c, s) ==
  /\ tpc[t] = "idle" /\ c \in holds[t] /\ s \notin sinkStore[c] /\ ~inUse[s]
  /\ inUse' = [inUse EXCEPT ![s] = TRUE]
  /\ sinkStore' = [sinkStore EXCEPT ![c] = @ \cup {s}]
  /\ UNCHANGED <<idVars, coreVars, store, passVars, bufVars, holds, tls, callVars>>

\* A bug: other cores may use the sink while it is flushed.
ReleaseSinkEarly(t, c, s) ==
  /\ tpc[t] = "idle" /\ c \in holds[t] /\ s \in sinkStore[c]
  /\ sinkStore' = [sinkStore EXCEPT ![c] = @ \ {s}]
  /\ inUse' = [inUse EXCEPT ![s] = FALSE]
  /\ flushing' = [flushing EXCEPT ![t] = s]
  /\ tpc' = [tpc EXCEPT ![t] = "flushsink"]
  /\ UNCHANGED <<idVars, coreVars, store, passVars, bufVars, holds, tls, on>>

\* release_sink(): out of the store under the mutex, ...
ReleaseSink(t, c, s) ==
  /\ tpc[t] = "idle" /\ c \in holds[t] /\ s \in sinkStore[c]
  /\ sinkStore' = [sinkStore EXCEPT ![c] = @ \ {s}]
  /\ flushing' = [flushing EXCEPT ![t] = s]
  /\ tpc' = [tpc EXCEPT ![t] = "flushsink"]
  /\ UNCHANGED <<idVars, coreVars, store, passVars, bufVars, inUse, holds, tls, on>>

\* ... flushed by this thread, then release().
FreeSink(t) ==
  /\ tpc[t] = "flushsink"
  /\ inUse' = [inUse EXCEPT ![flushing[t]] = FALSE]
  /\ flushing' = [flushing EXCEPT ![t] = None]
  /\ tpc' = [tpc EXCEPT ![t] = "idle"]
  /\ UNCHANGED <<idVars, coreVars, store, passVars, bufVars, sinkStore, holds, tls, on>>

ThreadStep(t) ==
  \/ \E c \in Cores : \/ InitSlot(t, c) \/ DropCore(t, c) \/ ReleaseBuffer(t, c)
                      \/ \E new \in BOOLEAN : Call(t, c, new)
                      \/ \E u \in Threads : ShareCore(t, u, c)
                      \/ \E s \in Sinks : AddSink(t, c, s) \/ ReleaseSink(t, c, s)
  \/ InitDone(t) \/ InitFails(t) \/ DestroySinks(t) \/ DestroySlot(t) \/ DestroyMembers(t)
  \/ GetBuffer(t) \/ GetBufferFails(t)
  \/ WriteMessage(t) \/ ThreadExit(t) \/ FreeSink(t)

CoreStep(c) ==
  \/ BeginPass(c) \/ SkipBuffer(c) \/ ReadBuffer(c) \/ EndPass(c)
  \/ \E b \in Buffers : VisitBuffer(c, b)

Next == (\E t \in Threads : ThreadStep(t)) \/ (\E c \in Cores : CoreStep(c))

Spec == Init /\ [][Next]_vars

-----------------------------------------------------------------------------
(***************************************************************************)
(* Properties.                                                             *)
(***************************************************************************)

\* Every variable has a value of its kind, handles and references are
\* counted, and the places that are marked are those of the cores.
TypeOK ==
  /\ nextId \in 1..MaxId /\ id \in [Cores -> 0..MaxId]
  /\ slotUsed = [i \in Slots |-> \E c \in Cores : slot[c] = i]
  /\ slot \in [Cores -> Slots \cup {NoSlot}]
  /\ coreState \in [Cores -> {"none", "init", "live", "stopping", "stopped", "released", "members"}]
  /\ handles = [c \in Cores |-> Cardinality({t \in Threads : c \in holds[t]})]
  /\ store \in [Cores -> SUBSET Buffers] /\ sinkStore \in [Cores -> SUBSET Sinks]
  /\ pass \in [Cores -> {"idle", "next", "last"}]
  /\ \A c \in Cores : todo[c] \subseteq store[c] /\ cur[c] \in store[c] \cup {None}
  /\ unused \in [Cores -> BOOLEAN] /\ flushAll \in [Cores -> BOOLEAN]
  /\ \A b \in Buffers : refs[b] \in Nat /\ unread[b] \in 0..MaxUnread /\ snap[b] \in 0..unread[b]
  /\ owner \in [Buffers -> 0..MaxId] /\ inUse \in [Sinks -> BOOLEAN]
  /\ holds \in [Threads -> SUBSET Cores]
  /\ tls \in [Threads -> [Slots -> [id : 0..MaxId, buf : Buffers \cup {None}]]]
  /\ tpc \in [Threads -> {"idle", "init", "destroy", "get", "getnew", "write", "flushsink"}]
  /\ on \in [Threads -> Cores \cup {None}]
  /\ flushing \in [Threads -> Sinks \cup {None}]

\* The count of references of a buffer (log_buffer, reference_counter_mixin)
\* is the number of places that refer to it: the threads' and the store of
\* its core.  One less and a place refers to a
\* buffer that is gone, one more and the buffer is never removed.
CountIsHolders ==
  \A b \in Buffers :
    refs[b] = Cardinality({x \in Threads \X Slots : tls[x[1]][x[2]].buf = b})
              + Cardinality({c \in Cores : b \in store[c]})

\* A thread writes only to a buffer that was made for the core of its call
\* and that this core still reads, although another core may have had the
\* same place before and the buffer may have been unused before.
OwnBuffer ==
  \A t \in Threads : tpc[t] = "write" =>
    LET b == Entry(t, on[t]).buf
    IN  b # None /\ owner[b] = id[on[t]] /\ b \in store[on[t]]

\* No message is out of the reach of the core it was logged to, whichever
\* thread has ended or let go of its buffer.
NothingStranded ==
  \A b \in Buffers : unread[b] > 0 =>
    \E c \in Cores : /\ b \in store[c] /\ id[c] = owner[b]
                     /\ coreState[c] \in {"live", "stopping"}

\* Messages leave a buffer only when it is read, and then only those the pass
\* has seen in its snapshot: no removal of an unused buffer, end of a thread,
\* new buffer or destruction of the core takes any with it.
MessagesLeaveByReading ==
  [][\A b \in Buffers : unread'[b] < unread[b] =>
       \E c \in Cores : cur[c] = b /\ cur'[c] = None /\ unread'[b] = unread[b] - snap[b]]_vars

Running == {"live", "stopping", "stopped"}

\* Who may write to a sink now: the cores that have it and still run, and a
\* thread that flushes what it has released.
Writers(s) ==
  ({"core"} \X {c \in Cores : s \in sinkStore[c] /\ coreState[c] \in Running})
    \cup ({"thread"} \X {t \in Threads : flushing[t] = s})

\* One writer at a time, and a sink without one can be used again
\* (exclusive_use_mixin; add_sink, release_sink and ~core_impl).
SinkExclusive ==
  \A s \in Sinks : Cardinality(Writers(s)) = IF inUse[s] THEN 1 ELSE 0
=============================================================================
