--------------------------- MODULE OutputsProofs ---------------------------
(***************************************************************************)
(* Formatters and outputs live while something refers to them, are used by *)
(* one sink at a time, and streams are entered by one actor at a time: for *)
(* any number of sinks, formatters, outputs and streams.  Files are what   *)
(* was written to them, whatever the system refuses, filters let pass what *)
(* they were told, and a console loses nothing to its colours.             *)
(***************************************************************************)
EXTENDS Outputs, OutFile, Filter, Console, FiniteSetTheorems, WellFoundedInduction, TLAPS

(***************************************************************************)
(* LivesWhileHeld counts references, so the invariant says which members a *)
(* sink has at which step (StepI).  UsedByOne needs the count: what is     *)
(* made again has no user left.  StreamsApart needs both, and that a       *)
(* stream has in it the sinks at work, the destructors and the program     *)
(* (AtI), and that a sink at work with a shared output has the mutex       *)
(* (HolderI).                                                              *)
(***************************************************************************)
Steps == {"none", "new", "formatted", "ready", "writing", "flushing", "destroyed", "formatter_released",
          "output_left", "last_flush", "flushed", "output_released", "returning"}

TypeI ==
  /\ life \in [Things -> {"none", "live", "dying", "flushing"}] /\ refs \in [Things -> Int]
  /\ inUse \in [Things -> BOOLEAN] /\ held \in SUBSET Things
  /\ step \in [Sinks -> Steps] /\ param \in [Sinks -> SUBSET Things]
  /\ fmt \in [Sinks -> Formatters \cup {None}] /\ out \in [Sinks -> Outputs \cup {None}]
  /\ at \in [Streams -> SUBSET (Sinks \cup Outputs \cup {User})]
  /\ holder \in [Streams -> Sinks \cup {User, None}]

StepI == \A s \in Sinks :
  /\ step[s] \in {"none", "new", "returning"} => fmt[s] = None /\ out[s] = None
  /\ step[s] = "none" => param[s] = {}
  /\ step[s] = "formatted" => out[s] = None
  /\ step[s] \in {"ready", "writing", "flushing"} => out[s] # None
  /\ step[s] \in {"output_left", "last_flush", "flushed", "output_released"} => fmt[s] = None /\ out[s] # None

One(b)      == IF b THEN 1 ELSE 0
ParamOf(t)  == {s \in Sinks : t \in param[s]}
MemberOf(t) == {s \in Sinks : HasMember(s, t)}

CountedI ==
  \A t \in Things : refs[t] = Cardinality(ParamOf(t)) + Cardinality(MemberOf(t)) + One(t \in held)
LiveI == \A t \in Things : refs[t] > 0 <=> life[t] = "live"

Inside(s) == step[s] \in {"writing", "flushing", "last_flush"}
AtI == \A x \in Streams :
  at[x] = {s \in Sinks : Inside(s) /\ StreamOf[out[s]] = x}
          \cup {o \in Outputs : life[o] = "flushing" /\ StreamOf[o] = x}
          \cup {u \in {User} : holder[x] = u}
HolderI ==
  /\ \A s \in Sinks : Inside(s) /\ out[s] \in Shared => holder[StreamOf[out[s]]] = s
  /\ \A x \in Streams : holder[x] # None => \E o \in Shared : StreamOf[o] = x

RefsI == TypeI /\ StepI /\ CountedI /\ LiveI
IInv == RefsI /\ UsedByOne /\ AtI /\ HolderI

-----------------------------------------------------------------------------
\* A set of sinks that changes in one of them.
LEMMA CountStep ==
  ASSUME NEW A \in SUBSET Sinks, NEW B \in SUBSET Sinks, NEW s \in Sinks, A \ {s} = B \ {s}
  PROVE  Cardinality(A) \in Nat /\ Cardinality(B) = Cardinality(A) - One(s \in A) + One(s \in B)
<1>1. IsFiniteSet(A) /\ IsFiniteSet(B)
  BY OutputsAssumption, FS_Subset
<1>2. Cardinality(A) \in Nat /\ Cardinality(B) \in Nat
  BY <1>1, FS_CardinalityType
<1>3. Cardinality(A \ {s}) = IF s \in A THEN Cardinality(A) - 1 ELSE Cardinality(A)
  BY <1>1, FS_RemoveElement
<1>4. Cardinality(B \ {s}) = IF s \in B THEN Cardinality(B) - 1 ELSE Cardinality(B)
  BY <1>1, FS_RemoveElement
<1> QED  BY <1>2, <1>3, <1>4 DEF One

\* A step of one sink keeps the count if refs changes by what it gives up and gets.
LEMMA CountsOfStep ==
  ASSUME TypeI, TypeI', CountedI, NEW s \in Sinks,
         \A r \in Sinks \ {s} : param'[r] = param[r] /\ fmt'[r] = fmt[r] /\ out'[r] = out[r],
         \A t \in Things : refs'[t] = refs[t] - One(t \in param[s]) + One(t \in param'[s])
                                      - One(HasMember(s, t)) + One(HasMember(s, t)')
                                      - One(t \in held) + One(t \in held')
  PROVE  CountedI'
<1> SUFFICES ASSUME NEW t \in Things
             PROVE  refs'[t] = Cardinality(ParamOf(t)') + Cardinality(MemberOf(t)') + One(t \in held')
  BY DEF CountedI
<1>1. Cardinality(ParamOf(t)) \in Nat
      /\ Cardinality(ParamOf(t)') = Cardinality(ParamOf(t)) - One(t \in param[s]) + One(t \in param'[s])
  <2>1. ParamOf(t) \in SUBSET Sinks /\ ParamOf(t)' \in SUBSET Sinks /\ ParamOf(t) \ {s} = ParamOf(t)' \ {s}
    BY DEF ParamOf
  <2>2. (s \in ParamOf(t) <=> t \in param[s]) /\ (s \in ParamOf(t)' <=> t \in param'[s])
    BY DEF ParamOf
  <2> QED  BY <2>1, <2>2, CountStep DEF One
<1>2. Cardinality(MemberOf(t)) \in Nat
      /\ Cardinality(MemberOf(t)') = Cardinality(MemberOf(t)) - One(HasMember(s, t)) + One(HasMember(s, t)')
  <2>1. MemberOf(t) \in SUBSET Sinks /\ MemberOf(t)' \in SUBSET Sinks /\ MemberOf(t) \ {s} = MemberOf(t)' \ {s}
    BY DEF MemberOf, HasMember
  <2>2. (s \in MemberOf(t) <=> HasMember(s, t)) /\ (s \in MemberOf(t)' <=> HasMember(s, t)')
    BY DEF MemberOf
  <2> QED  BY <2>1, <2>2, CountStep DEF One
<1>3. refs[t] = Cardinality(ParamOf(t)) + Cardinality(MemberOf(t)) + One(t \in held)
  BY DEF CountedI
<1> QED  BY <1>1, <1>2, <1>3 DEF One

\* What is referred to has been counted and lives.
LEMMA Counted ==
  ASSUME RefsI, NEW t \in Things,
         t \in held \/ \E s \in Sinks : t \in param[s] \/ HasMember(s, t)
  PROVE  refs[t] >= 1 /\ life[t] = "live"
<1>1. IsFiniteSet(ParamOf(t)) /\ IsFiniteSet(MemberOf(t))
  BY OutputsAssumption, FS_Subset DEF ParamOf, MemberOf
<1>2. Cardinality(ParamOf(t)) \in Nat /\ Cardinality(MemberOf(t)) \in Nat
  BY <1>1, FS_CardinalityType
<1>3. ParamOf(t) # {} \/ MemberOf(t) # {} \/ t \in held
  BY DEF ParamOf, MemberOf
<1>4. Cardinality(ParamOf(t)) > 0 \/ Cardinality(MemberOf(t)) > 0 \/ t \in held
  BY <1>1, <1>2, <1>3, FS_EmptySet
<1>5. refs[t] = Cardinality(ParamOf(t)) + Cardinality(MemberOf(t)) + One(t \in held)
  BY DEF RefsI, CountedI
<1>6. refs[t] >= 1
  BY <1>2, <1>4, <1>5 DEF One
<1> QED  BY <1>6 DEF RefsI, LiveI, TypeI

\* What nothing refers to is not live.
LEMMA DropKeepsLive ==
  ASSUME TypeI, LiveI, NEW D, Drop(D), \A t \in Things : t \in D => refs[t] >= 1
  PROVE  LiveI' /\ life' \in [Things -> {"none", "live", "dying", "flushing"}] /\ refs' \in [Things -> Int]
         /\ \A t \in Things : (life'[t] = "flushing" <=> life[t] = "flushing") /\ (t \notin D => refs'[t] = refs[t])
BY DEF TypeI, LiveI, Drop


LEMMA NotLive ==
  ASSUME RefsI, NEW t \in Things, life[t] # "live"
  PROVE  refs[t] = 0 /\ t \notin held /\ \A s \in Sinks : t \notin param[s] /\ ~HasMember(s, t)
<1>1. refs[t] <= 0
  BY DEF RefsI, LiveI, TypeI
<1>2. t \notin held /\ \A s \in Sinks : t \notin param[s] /\ ~HasMember(s, t)
  BY <1>1, Counted
<1>3. IsFiniteSet(ParamOf(t)) /\ IsFiniteSet(MemberOf(t))
  BY OutputsAssumption, FS_Subset DEF ParamOf, MemberOf
<1>4. Cardinality(ParamOf(t)) \in Nat /\ Cardinality(MemberOf(t)) \in Nat
  BY <1>3, FS_CardinalityType
<1>5. refs[t] = Cardinality(ParamOf(t)) + Cardinality(MemberOf(t)) + One(t \in held)
  BY DEF RefsI, CountedI
<1> QED  BY <1>1, <1>2, <1>4, <1>5 DEF One

\* References are where they were: what they count is.
LEMMA SameCount ==
  ASSUME CountedI, UNCHANGED <<param, fmt, out>>,
         \A t \in Things : refs'[t] = refs[t] - One(t \in held) + One(t \in held')
  PROVE  CountedI'
<1> SUFFICES ASSUME NEW t \in Things
             PROVE  refs'[t] = Cardinality(ParamOf(t)') + Cardinality(MemberOf(t)') + One(t \in held')
  BY DEF CountedI
<1>1. ParamOf(t)' = ParamOf(t) /\ MemberOf(t)' = MemberOf(t)
  BY DEF ParamOf, MemberOf, HasMember
<1>2. refs[t] = Cardinality(ParamOf(t)) + Cardinality(MemberOf(t)) + One(t \in held)
  BY DEF CountedI
<1>3. IsFiniteSet(ParamOf(t)) /\ IsFiniteSet(MemberOf(t))
  BY OutputsAssumption, FS_Subset DEF ParamOf, MemberOf
<1>4. Cardinality(ParamOf(t)) \in Nat /\ Cardinality(MemberOf(t)) \in Nat
  BY <1>3, FS_CardinalityType
<1> QED  BY <1>1, <1>2, <1>4 DEF One

-----------------------------------------------------------------------------
\* The invariant on references, action by action.
LEMMA HandlesRefs ==
  ASSUME RefsI, NEW t \in Things, Make(t) \/ DropHandle(t)
  PROVE  RefsI'
<1> USE DEF RefsI
<1>1. CASE Make(t)
  <2>1. refs[t] = 0 /\ t \notin held
    BY <1>1, NotLive DEF Make
  <2>2. TypeI' /\ StepI'
    BY <1>1 DEF Make, TypeI, StepI, memberVars, streamVars
  <2>3. CountedI'
    <3>1. \A u \in Things : refs'[u] = refs[u] - One(u \in held) + One(u \in held')
      BY <1>1, <2>1 DEF Make, One, TypeI
    <3> QED  BY <1>1, <3>1, SameCount DEF Make, memberVars
  <2>4. LiveI'
    BY <1>1, <2>1 DEF Make, LiveI, TypeI
  <2> QED  BY <2>2, <2>3, <2>4
<1>2. CASE DropHandle(t)
  <2>1. refs[t] >= 1
    BY <1>2, Counted DEF DropHandle
  <2>2. Drop({t}) /\ \A u \in Things : u \in {t} => refs[u] >= 1
    BY <1>2, <2>1 DEF DropHandle
  <2>3. LiveI' /\ life' \in [Things -> {"none", "live", "dying", "flushing"}] /\ refs' \in [Things -> Int]
    BY <2>2, DropKeepsLive
  <2>4. TypeI' /\ StepI'
    BY <1>2, <2>3 DEF DropHandle, TypeI, StepI, memberVars, streamVars
  <2>5. CountedI'
    <3>1. \A u \in Things : refs'[u] = refs[u] - One(u \in held) + One(u \in held')
      BY <1>2 DEF DropHandle, Drop, One, TypeI
    <3> QED  BY <1>2, <3>1, SameCount DEF DropHandle, memberVars
  <2> QED  BY <2>3, <2>4, <2>5
<1> QED  BY <1>1, <1>2

\* Steps that touch no reference.
LEMMA OtherRefs ==
  ASSUME RefsI, TypeI', StepI', UNCHANGED <<refs, held, param, fmt, out>>,
         \A t \in Things : life'[t] = "live" <=> life[t] = "live"
  PROVE  RefsI'
<1> USE DEF RefsI
<1>1. CountedI'
  <2>1. \A t \in Things : refs'[t] = refs[t] - One(t \in held) + One(t \in held')
    BY DEF TypeI, One
  <2> QED  BY <2>1, SameCount
<1>2. LiveI'
  BY DEF LiveI
<1> QED  BY <1>1, <1>2

LEMMA DeathRefs ==
  ASSUME RefsI, NEW t \in Things, Die(t) \/ (t \in Outputs /\ (DieFlushBegin(t) \/ DieFlushEnd(t)))
  PROVE  RefsI'
<1>1. TypeI'
  BY OutputsAssumption DEF RefsI, TypeI, Things, Die, DieFlushBegin, DieFlushEnd, memberVars, streamVars
<1>2. StepI'
  BY DEF RefsI, StepI, Die, DieFlushBegin, DieFlushEnd, memberVars
<1>3. \A u \in Things : life'[u] = "live" <=> life[u] = "live"
  BY DEF RefsI, TypeI, Die, DieFlushBegin, DieFlushEnd
<1>4. UNCHANGED <<refs, held, param, fmt, out>>
  BY DEF Die, DieFlushBegin, DieFlushEnd, memberVars
<1> QED  BY <1>1, <1>2, <1>3, <1>4, OtherRefs

LEMMA WorkRefs ==
  ASSUME RefsI, NEW s \in Sinks,
         Work(s) \/ AllocFails(s) \/ LastHandle(s) \/ ReleaseFormatter(s) \/ LastFlushBegin(s)
                 \/ LastFlushEnd(s) \/ ReleaseOutput(s)
  PROVE  RefsI'
<1>1. UNCHANGED <<life, refs, held, param, fmt, out>>
  BY DEF Work, WriteBegin, WriteEnd, FlushBegin, FlushEnd, Enter, Leave, AllocFails, LastHandle,
         ReleaseFormatter, LastFlushBegin, LastFlushEnd, ReleaseOutput, handleVars, memberVars
<1>2. TypeI' /\ StepI'
  <2>1. CASE Work(s) \/ LastFlushBegin(s) \/ LastFlushEnd(s)
    <3>1. out[s] \in Outputs /\ StreamOf[out[s]] \in Streams
      BY <2>1, OutputsAssumption DEF RefsI, TypeI, StepI, Work, WriteBegin, WriteEnd, FlushBegin, FlushEnd,
                                     LastFlushBegin, LastFlushEnd
    <3>2. UNCHANGED inUse /\ \E n \in {"ready", "writing", "flushing", "last_flush", "flushed"} :
             Enter(s, n) \/ Leave(s, n)
      BY <2>1 DEF Work, WriteBegin, WriteEnd, FlushBegin, FlushEnd, LastFlushBegin, LastFlushEnd
    <3>3. TypeI'
      BY <1>1, <3>1, <3>2 DEF RefsI, TypeI, Steps, Enter, Leave
    <3>4. StepI'
      BY ZenonT(30), <1>1, <2>1 DEF RefsI, StepI, TypeI, Work, WriteBegin, WriteEnd, FlushBegin, FlushEnd, LastFlushBegin,
                        LastFlushEnd, Enter, Leave
    <3> QED  BY <3>3, <3>4
  <2>2. CASE AllocFails(s) \/ LastHandle(s) \/ ReleaseFormatter(s) \/ ReleaseOutput(s)
    <3>1. step' \in [Sinks -> Steps] /\ UNCHANGED <<at, holder>>
      BY <2>2 DEF RefsI, TypeI, Steps, AllocFails, LastHandle, ReleaseFormatter, ReleaseOutput, streamVars
    <3>2. inUse' \in [Things -> BOOLEAN]
      BY <2>2 DEF RefsI, TypeI, Release, AllocFails, LastHandle, ReleaseFormatter, ReleaseOutput
    <3>3. TypeI'
      BY <1>1, <3>1, <3>2 DEF RefsI, TypeI
    <3>4. StepI'
      BY <1>1, <2>2 DEF RefsI, StepI, TypeI, AllocFails, LastHandle, ReleaseFormatter, ReleaseOutput
    <3> QED  BY <3>3, <3>4
  <2> QED  BY <2>1, <2>2
<1> QED  BY <1>1, <1>2, OtherRefs

LEMMA UserRefs ==
  ASSUME RefsI, NEW x \in Streams, UserBegin(x) \/ UserEnd(x)
  PROVE  RefsI'
<1>1. UNCHANGED <<life, refs, inUse, held, step, param, fmt, out>>
  BY DEF UserBegin, UserEnd, handleVars, memberVars
<1>2. TypeI'
  BY <1>1 DEF RefsI, TypeI, UserBegin, UserEnd
<1>3. StepI'
  BY <1>1 DEF RefsI, StepI
<1> QED  BY <1>1, <1>2, <1>3, OtherRefs


\* The steps of a sink that drop, get or give references.
LEMMA CallRefs ==
  ASSUME RefsI, NEW s \in Sinks, NEW f \in Formatters, NEW o \in Outputs, SinkCall(s, f, o)
  PROVE  RefsI'
<1> USE DEF RefsI
<1>1. PICK moved \in SUBSET {f, o} : held' = held \ moved /\ Copy({f, o} \ moved)
  BY DEF SinkCall
<1>2. f \in Things /\ o \in Things /\ f \in held /\ o \in held /\ step[s] = "none"
  BY DEF SinkCall, Things
<1>3. param[s] = {} /\ fmt[s] = None /\ out[s] = None
  BY <1>2 DEF StepI
<1>4. TypeI'
  <2>1. refs' \in [Things -> Int] /\ UNCHANGED <<life, inUse, fmt, out, at, holder>>
    BY <1>1 DEF SinkCall, Copy, TypeI, streamVars
  <2>2. param' \in [Sinks -> SUBSET Things] /\ step' \in [Sinks -> Steps]
    BY <1>2 DEF SinkCall, TypeI, Steps
  <2> QED  BY <1>1, <2>1, <2>2 DEF TypeI
<1>5. StepI'
  BY <1>3 DEF SinkCall, StepI, TypeI
<1>6. \A t \in Things : refs'[t] = IF t \in {f, o} \ moved THEN refs[t] + 1 ELSE refs[t]
  BY <1>1 DEF Copy
<1>7. CountedI'
  <2>1. \A r \in Sinks \ {s} : param'[r] = param[r] /\ fmt'[r] = fmt[r] /\ out'[r] = out[r]
    BY DEF SinkCall, TypeI
  <2>2. param'[s] = {f, o} /\ \A t \in Things : HasMember(s, t) <=> HasMember(s, t)'
    BY DEF SinkCall, TypeI, HasMember
  <2>3. \A t \in Things : refs'[t] = refs[t] - One(t \in param[s]) + One(t \in param'[s])
                                      - One(HasMember(s, t)) + One(HasMember(s, t)')
                                      - One(t \in held) + One(t \in held')
    <3> SUFFICES ASSUME NEW t \in Things
                 PROVE  refs'[t] = refs[t] - One(t \in param[s]) + One(t \in param'[s])
                                   - One(HasMember(s, t)) + One(HasMember(s, t)')
                                   - One(t \in held) + One(t \in held')
      OBVIOUS
    <3>1. One(HasMember(s, t)) = One(HasMember(s, t)') /\ One(HasMember(s, t)) \in Int
      BY <2>2 DEF One
    <3>2. One(t \in param[s]) = 0 /\ One(t \in param'[s]) = One(t \in {f, o})
      BY <1>3, <2>2 DEF One
    <3>3. refs'[t] = refs[t] + One(t \in {f, o}) - One(t \in held) + One(t \in held')
      <4>1. refs[t] \in Int /\ (t \in {f, o} => t \in held)
        BY <1>2 DEF TypeI
      <4>2. t \in held' <=> t \in held /\ t \notin moved
        BY <1>1
      <4>3. CASE t \in moved
        <5>1. refs'[t] = refs[t] /\ One(t \in {f, o}) = 1 /\ One(t \in held) = 1 /\ One(t \in held') = 0
          BY <1>6, <4>1, <4>2, <4>3 DEF One
        <5> QED  BY <4>1, <5>1
      <4>4. CASE t \in {f, o} \ moved
        <5>1. refs'[t] = refs[t] + 1 /\ One(t \in {f, o}) = 1 /\ One(t \in held) = One(t \in held')
          BY <1>6, <4>1, <4>2, <4>4 DEF One
        <5>2. One(t \in held) \in Int
          BY DEF One
        <5> QED  BY <4>1, <5>1, <5>2
      <4>5. CASE t \notin {f, o}
        <5>1. refs'[t] = refs[t] /\ One(t \in {f, o}) = 0 /\ One(t \in held) = One(t \in held')
          BY <1>6, <4>2, <4>5 DEF One
        <5>2. One(t \in held) \in Int
          BY DEF One
        <5> QED  BY <4>1, <5>1, <5>2
      <4> QED  BY <4>3, <4>4, <4>5
    <3>4. One(t \in {f, o}) \in Int /\ One(t \in held) \in Int /\ One(t \in held') \in Int
      BY DEF One
    <3> QED  BY <3>1, <3>2, <3>3, <3>4 DEF TypeI
  <2> QED  BY <1>4, <2>1, <2>3, CountsOfStep
<1>8. LiveI'
  <2>1. refs[f] >= 1 /\ refs[o] >= 1
    BY <1>2, Counted
  <2>2. life' = life
    BY <1>1 DEF Copy
  <2> QED  BY <1>6, <2>1, <2>2 DEF LiveI, TypeI
<1> QED  BY <1>4, <1>5, <1>7, <1>8

\* A member or a parameter is what one reference becomes, or is dropped.
LEMMA MemberRefs ==
  ASSUME RefsI, TypeI', StepI', NEW s \in Sinks, NEW D \in SUBSET Things, UNCHANGED held,
         (D = {} /\ UNCHANGED <<life, refs>>) \/ Drop(D),
         \A t \in D : t \in param[s] \/ HasMember(s, t),
         \A r \in Sinks \ {s} : param'[r] = param[r] /\ fmt'[r] = fmt[r] /\ out'[r] = out[r],
         \A t \in Things : One(t \in param'[s]) + One(HasMember(s, t)') =
                             One(t \in param[s]) + One(HasMember(s, t)) - One(t \in D)
  PROVE  RefsI'
<1> USE DEF RefsI
<1>1. \A t \in Things : refs'[t] = refs[t] - One(t \in D)
  BY DEF Drop, One, TypeI
<1>2. CountedI'
  <2>1. \A t \in Things : refs'[t] = refs[t] - One(t \in param[s]) + One(t \in param'[s])
                                      - One(HasMember(s, t)) + One(HasMember(s, t)')
                                      - One(t \in held) + One(t \in held')
    <3> SUFFICES ASSUME NEW t \in Things
                 PROVE  refs'[t] = refs[t] - One(t \in param[s]) + One(t \in param'[s])
                                   - One(HasMember(s, t)) + One(HasMember(s, t)')
                                   - One(t \in held) + One(t \in held')
      OBVIOUS
    <3>1. /\ One(t \in param'[s]) + One(HasMember(s, t)') =
                One(t \in param[s]) + One(HasMember(s, t)) - One(t \in D)
          /\ refs'[t] = refs[t] - One(t \in D) /\ refs[t] \in Int
      BY <1>1 DEF TypeI
    <3>2. /\ One(t \in param[s]) \in Int /\ One(t \in param'[s]) \in Int /\ One(t \in D) \in Int
          /\ One(HasMember(s, t)) \in Int /\ One(HasMember(s, t)') \in Int
          /\ One(t \in held) \in Int /\ One(t \in held') = One(t \in held)
      BY DEF One
    <3> QED  BY <3>1, <3>2
  <2> QED  BY <2>1, CountsOfStep
<1>3. LiveI'
  <2>1. \A t \in Things : t \in D => refs[t] >= 1
    BY Counted
  <2>2. CASE Drop(D)
    BY <2>1, <2>2, DropKeepsLive
  <2>3. CASE D = {} /\ UNCHANGED <<life, refs>>
    BY <2>3 DEF LiveI
  <2> QED  BY <2>2, <2>3
<1> QED  BY <1>2, <1>3

LEMMA BuildRefs ==
  ASSUME RefsI, NEW s \in Sinks, SetFormatter(s) \/ SetOutput(s)
  PROVE  RefsI'
<1> USE DEF RefsI
<1>1. CASE SetFormatter(s)
  <2>1. PICK f \in param[s] \cap Formatters :
          /\ param' = [param EXCEPT ![s] = @ \ {f}]
          /\ \/ /\ Usable(f) /\ Use(f)
                /\ fmt' = [fmt EXCEPT ![s] = f] /\ step' = [step EXCEPT ![s] = "formatted"]
                /\ UNCHANGED handleVars
             \/ /\ ~Usable(f) /\ Drop({f})
                /\ step' = [step EXCEPT ![s] = "destroyed"]
                /\ UNCHANGED <<inUse, fmt>>
    BY <1>1 DEF SetFormatter
  <2>2. step[s] = "new" /\ UNCHANGED <<held, out, at, holder>>
    BY <1>1 DEF SetFormatter, streamVars
  <2>3. f \in Things /\ f # None /\ f \notin Outputs /\ fmt[s] = None /\ out[s] = None /\ f \in param[s]
    BY <2>1, <2>2, OutputsAssumption DEF Things, StepI
  <2>4. param'[s] = param[s] \ {f} /\ \A r \in Sinks \ {s} : param'[r] = param[r] /\ fmt'[r] = fmt[r] /\ out'[r] = out[r]
    BY <2>1, <2>2 DEF TypeI
  <2>5. \A t \in Things : ~HasMember(s, t)
    BY <2>3, OutputsAssumption DEF HasMember, Things
  <2>6. refs[f] >= 1
    BY <2>3, Counted
  <2>7. CASE Use(f) /\ fmt' = [fmt EXCEPT ![s] = f] /\ step' = [step EXCEPT ![s] = "formatted"] /\ UNCHANGED handleVars
    <3>1. TypeI' /\ StepI'
      BY <2>1, <2>2, <2>3, <2>7 DEF TypeI, StepI, Steps, Use, handleVars
    <3>2. \A t \in Things : HasMember(s, t)' <=> t = f
      BY <2>2, <2>3, <2>7, OutputsAssumption DEF HasMember, Things, TypeI
    <3>3. \A t \in Things : One(t \in param'[s]) + One(HasMember(s, t)') =
                              One(t \in param[s]) + One(HasMember(s, t)) - One(t \in {})
      BY <2>3, <2>4, <2>5, <3>2 DEF One
    <3>4. {} \in SUBSET Things /\ UNCHANGED <<life, refs>>
      BY <2>7 DEF handleVars
    <3> QED  BY <2>2, <2>4, <3>1, <3>3, <3>4, MemberRefs
  <2>8. CASE Drop({f}) /\ step' = [step EXCEPT ![s] = "destroyed"] /\ UNCHANGED <<inUse, fmt>>
    <3>1. life' \in [Things -> {"none", "live", "dying", "flushing"}] /\ refs' \in [Things -> Int]
      BY <2>6, <2>8, DropKeepsLive
    <3>2. TypeI' /\ StepI'
      BY <2>1, <2>2, <2>3, <2>8, <3>1 DEF TypeI, StepI, Steps
    <3>3. \A t \in Things : HasMember(s, t)' <=> HasMember(s, t)
      BY <2>2, <2>8 DEF HasMember
    <3>4. \A t \in Things : One(t \in param'[s]) + One(HasMember(s, t)') =
                              One(t \in param[s]) + One(HasMember(s, t)) - One(t \in {f})
      BY <2>3, <2>4, <2>5, <3>3 DEF One
    <3> QED  BY <2>2, <2>3, <2>4, <2>8, <3>2, <3>4, MemberRefs
  <2> QED  BY <2>1, <2>7, <2>8
<1>2. CASE SetOutput(s)
  <2>1. PICK o \in param[s] \cap Outputs :
          /\ param' = [param EXCEPT ![s] = @ \ {o}]
          /\ \/ /\ Usable(o) /\ Use(o)
                /\ out' = [out EXCEPT ![s] = o] /\ step' = [step EXCEPT ![s] = "ready"]
                /\ UNCHANGED handleVars
             \/ /\ ~Usable(o) /\ Drop({o})
                /\ step' = [step EXCEPT ![s] = "destroyed"]
                /\ UNCHANGED <<inUse, out>>
    BY <1>2 DEF SetOutput
  <2>2. step[s] = "formatted" /\ UNCHANGED <<held, fmt, at, holder>>
    BY <1>2 DEF SetOutput, streamVars
  <2>3. o \in Things /\ o # None /\ o \notin Formatters /\ out[s] = None /\ o \in param[s] /\ fmt[s] # o
    BY <2>1, <2>2, OutputsAssumption DEF Things, StepI, TypeI
  <2>4. param'[s] = param[s] \ {o} /\ \A r \in Sinks \ {s} : param'[r] = param[r] /\ fmt'[r] = fmt[r] /\ out'[r] = out[r]
    BY <2>1, <2>2 DEF TypeI
  <2>5. \A t \in Things : HasMember(s, t) <=> fmt[s] = t
    BY <2>3, OutputsAssumption DEF HasMember, Things
  <2>6. refs[o] >= 1
    BY <2>3, Counted
  <2>7. CASE Use(o) /\ out' = [out EXCEPT ![s] = o] /\ step' = [step EXCEPT ![s] = "ready"] /\ UNCHANGED handleVars
    <3>1. TypeI' /\ StepI'
      BY <2>1, <2>2, <2>3, <2>7 DEF TypeI, StepI, Steps, Use, handleVars
    <3>2. \A t \in Things : HasMember(s, t)' <=> fmt[s] = t \/ t = o
      BY <2>2, <2>7 DEF HasMember, TypeI
    <3>3. \A t \in Things : One(t \in param'[s]) + One(HasMember(s, t)') =
                              One(t \in param[s]) + One(HasMember(s, t)) - One(t \in {})
      BY <2>3, <2>4, <2>5, <3>2 DEF One
    <3>4. {} \in SUBSET Things /\ UNCHANGED <<life, refs>>
      BY <2>7 DEF handleVars
    <3> QED  BY <2>2, <2>4, <3>1, <3>3, <3>4, MemberRefs
  <2>8. CASE Drop({o}) /\ step' = [step EXCEPT ![s] = "destroyed"] /\ UNCHANGED <<inUse, out>>
    <3>1. life' \in [Things -> {"none", "live", "dying", "flushing"}] /\ refs' \in [Things -> Int]
      BY <2>6, <2>8, DropKeepsLive
    <3>2. TypeI' /\ StepI'
      BY <2>1, <2>2, <2>3, <2>8, <3>1 DEF TypeI, StepI, Steps
    <3>3. \A t \in Things : HasMember(s, t)' <=> HasMember(s, t)
      BY <2>2, <2>8 DEF HasMember
    <3>4. \A t \in Things : One(t \in param'[s]) + One(HasMember(s, t)') =
                              One(t \in param[s]) + One(HasMember(s, t)) - One(t \in {o})
      BY <2>3, <2>4, <3>3 DEF One
    <3> QED  BY <2>2, <2>3, <2>4, <2>8, <3>2, <3>4, MemberRefs
  <2> QED  BY <2>1, <2>7, <2>8
<1> QED  BY <1>1, <1>2

LEMMA EndRefs ==
  ASSUME RefsI, NEW s \in Sinks, DropFormatter(s) \/ DropOutput(s) \/ ReturnSink(s)
  PROVE  RefsI'
<1> USE DEF RefsI
<1> DEFINE D == IF step[s] = "formatter_released" THEN {fmt[s]} \cap Formatters
                ELSE IF step[s] = "output_released" THEN {out[s]} ELSE param[s]
<1>1. UNCHANGED <<inUse, held, at, holder>> /\ Drop(D)
  BY DEF DropFormatter, DropOutput, ReturnSink, streamVars
<1>2. D \in SUBSET Things /\ \A t \in D : t \in param[s] \/ HasMember(s, t)
  BY DEF DropFormatter, DropOutput, ReturnSink, TypeI, StepI, Things, HasMember
<1>3. \A t \in Things : t \in D => refs[t] >= 1
  BY <1>2, Counted
<1>4. life' \in [Things -> {"none", "live", "dying", "flushing"}] /\ refs' \in [Things -> Int]
  BY <1>1, <1>3, DropKeepsLive
<1>5. \A r \in Sinks \ {s} : param'[r] = param[r] /\ fmt'[r] = fmt[r] /\ out'[r] = out[r]
  BY DEF DropFormatter, DropOutput, ReturnSink, TypeI
<1>6. TypeI' /\ StepI'
  <2>1. CASE DropFormatter(s)
    BY <1>1, <1>4, <2>1 DEF DropFormatter, TypeI, StepI, Steps
  <2>2. CASE DropOutput(s)
    BY <1>1, <1>4, <2>2 DEF DropOutput, TypeI, StepI, Steps
  <2>3. CASE ReturnSink(s)
    BY <1>1, <1>4, <2>3 DEF ReturnSink, TypeI, StepI, Steps
  <2> QED  BY <2>1, <2>2, <2>3
<1>7. \A t \in Things : One(t \in param'[s]) + One(HasMember(s, t)') =
                          One(t \in param[s]) + One(HasMember(s, t)) - One(t \in D)
  <2> SUFFICES ASSUME NEW t \in Things
               PROVE  One(t \in param'[s]) + One(HasMember(s, t)') =
                        One(t \in param[s]) + One(HasMember(s, t)) - One(t \in D)
    OBVIOUS
  <2>1. CASE DropFormatter(s)
    <3>1. param'[s] = param[s] /\ out'[s] = out[s] /\ fmt'[s] = None /\ D = {fmt[s]} \cap Formatters
      BY <2>1 DEF DropFormatter, TypeI
    <3>2. t # None /\ (out[s] = t => fmt[s] # t) /\ (fmt[s] = t => t \in Formatters)
      BY OutputsAssumption DEF Things, TypeI
    <3>3. (HasMember(s, t)' <=> out[s] = t) /\ (t \in D <=> fmt[s] = t)
      BY <3>1, <3>2 DEF HasMember
    <3> QED  BY <3>1, <3>2, <3>3 DEF One, HasMember
  <2>2. CASE DropOutput(s)
    <3>1. param'[s] = param[s] /\ fmt'[s] = None /\ fmt[s] = None /\ out'[s] = None /\ D = {out[s]} /\ t # None
      BY <2>2, OutputsAssumption DEF DropOutput, TypeI, StepI, Things
    <3> QED  BY <3>1 DEF One, HasMember
  <2>3. CASE ReturnSink(s)
    <3>1. param'[s] = {} /\ fmt'[s] = fmt[s] /\ out'[s] = out[s] /\ D = param[s]
      BY <2>3 DEF ReturnSink, TypeI
    <3> QED  BY <3>1 DEF One, HasMember
  <2> QED  BY <2>1, <2>2, <2>3
<1> HIDE DEF D
<1> QED  BY <1>1, <1>2, <1>5, <1>6, <1>7, MemberRefs

LEMMA RefsNext ==
  ASSUME RefsI, OutNext
  PROVE  RefsI'
<1>1. ASSUME NEW t \in Things, Make(t) \/ DropHandle(t) PROVE RefsI'
  BY <1>1, HandlesRefs
<1>2. ASSUME NEW f \in Formatters, Die(f) PROVE RefsI'
  <2>1. f \in Things
    BY DEF Things
  <2> QED  BY <1>2, <2>1, DeathRefs
<1>3. ASSUME NEW o \in Outputs, DieFlushBegin(o) \/ DieFlushEnd(o) PROVE RefsI'
  <2>1. o \in Things
    BY DEF Things
  <2>2. o \in Outputs /\ (DieFlushBegin(o) \/ DieFlushEnd(o))
    BY <1>3
  <2> QED  BY <2>1, <2>2, DeathRefs
<1>4. ASSUME NEW x \in Streams, UserBegin(x) \/ UserEnd(x) PROVE RefsI'
  BY <1>4, UserRefs
<1>5. ASSUME NEW s \in Sinks, Build(s) PROVE RefsI'
  <2>1. ASSUME NEW f \in Formatters, NEW o \in Outputs, SinkCall(s, f, o) PROVE RefsI'
    BY <2>1, CallRefs
  <2>2. CASE AllocFails(s)
    BY <2>2, WorkRefs
  <2>3. CASE SetFormatter(s) \/ SetOutput(s)
    BY <2>3, BuildRefs
  <2> QED  BY <1>5, <2>1, <2>2, <2>3 DEF Build
<1>6. ASSUME NEW s \in Sinks, Work(s) \/ End(s) PROVE RefsI'
  BY <1>6, WorkRefs, EndRefs DEF End
<1> QED  BY <1>1, <1>2, <1>3, <1>4, <1>5, <1>6 DEF OutNext

-----------------------------------------------------------------------------
\* Users are where they were.
LEMMA SameUsers ==
  ASSUME UsedByOne, UNCHANGED <<fmt, out>>, \A t \in Things \ Shared : inUse'[t] = inUse[t],
         \A s \in Sinks : /\ step'[s] = "formatter_released" <=> step[s] = "formatter_released"
                          /\ step'[s] = "output_released" <=> step[s] = "output_released"
  PROVE  UsedByOne'
<1>1. \A t \in Things : Users(t)' = Users(t)
  BY DEF Users
<1> QED  BY <1>1 DEF UsedByOne

\* A sink comes to use what nobody did.
LEMMA UseIsAlone ==
  ASSUME UsedByOne, TypeI, NEW s \in Sinks, NEW t \in Things, Usable(t), Use(t),
         \A u \in Things \ {t} : Users(u)' = Users(u), Users(t)' = Users(t) \cup {s}
  PROVE  UsedByOne'
<1> SUFFICES ASSUME NEW u \in Things \ Shared
             PROVE  (\A r, q \in Users(u)' : r = q) /\ (inUse'[u] <=> Users(u)' # {})
  BY DEF UsedByOne
<1>1. CASE u = t
  <2>1. Users(t) = {} /\ inUse'[t]
    BY <1>1 DEF UsedByOne, Usable, Use, TypeI
  <2> QED  BY <1>1, <2>1
<1>2. CASE u # t
  BY <1>2 DEF UsedByOne, Use, TypeI
<1> QED  BY <1>1, <1>2

\* The only user releases.
LEMMA ReleaseLeavesNone ==
  ASSUME UsedByOne, TypeI, NEW s \in Sinks, NEW t \in Things, s \in Users(t), Release(t),
         \A u \in Things \ {t} : Users(u)' = Users(u), Users(t)' = Users(t) \ {s}
  PROVE  UsedByOne'
<1> SUFFICES ASSUME NEW u \in Things \ Shared
             PROVE  (\A r, q \in Users(u)' : r = q) /\ (inUse'[u] <=> Users(u)' # {})
  BY DEF UsedByOne
<1>1. CASE u = t
  <2>1. Users(t)' = {} /\ ~inUse'[t]
    BY <1>1 DEF UsedByOne, Release, TypeI
  <2> QED  BY <1>1, <2>1
<1>2. CASE u # t
  BY <1>2 DEF UsedByOne, Release, TypeI
<1> QED  BY <1>1, <1>2

LEMMA HandlesUsed ==
  ASSUME IInv, NEW t \in Things, Make(t) \/ DropHandle(t)
  PROVE  UsedByOne'
<1>1. CASE Make(t)
  <2>1. Users(t) = {}
    BY <1>1, NotLive DEF IInv, Make, Users, HasMember
  <2>2. \A u \in Things : Users(u)' = Users(u)
    BY <1>1 DEF Make, Users, memberVars
  <2>3. inUse' = [inUse EXCEPT ![t] = FALSE]
    BY <1>1 DEF Make
  <2> QED  BY <2>1, <2>2, <2>3 DEF IInv, RefsI, TypeI, UsedByOne
<1>2. CASE DropHandle(t)
  BY <1>2, SameUsers DEF IInv, DropHandle, memberVars
<1> QED  BY <1>1, <1>2

LEMMA QuietUsed ==
  ASSUME IInv, NEW s \in Sinks,
         \/ Work(s) \/ AllocFails(s) \/ LastHandle(s) \/ LastFlushBegin(s) \/ LastFlushEnd(s) \/ ReturnSink(s)
         \/ \E f \in Formatters, o \in Outputs : SinkCall(s, f, o)
  PROVE  UsedByOne'
<1>1. UNCHANGED <<fmt, out, inUse>>
  BY DEF Work, WriteBegin, WriteEnd, FlushBegin, FlushEnd, Enter, Leave, AllocFails, LastHandle, LastFlushBegin,
         LastFlushEnd, ReturnSink, SinkCall, memberVars
<1>2. /\ step[s] \notin {"formatter_released", "output_released"}
      /\ \E n \in Steps \ {"formatter_released", "output_released"} : step' = [step EXCEPT ![s] = n]
  BY DEF Work, WriteBegin, WriteEnd, FlushBegin, FlushEnd, Enter, Leave, AllocFails, LastHandle, LastFlushBegin,
         LastFlushEnd, ReturnSink, SinkCall, Steps
<1>3. \A r \in Sinks : /\ step'[r] = "formatter_released" <=> step[r] = "formatter_released"
                       /\ step'[r] = "output_released" <=> step[r] = "output_released"
  BY <1>2 DEF IInv, RefsI, TypeI
<1> QED  BY <1>1, <1>3, SameUsers DEF IInv

LEMMA BuildUsed ==
  ASSUME IInv, NEW s \in Sinks, SetFormatter(s) \/ SetOutput(s)
  PROVE  UsedByOne'
<1> USE DEF IInv, RefsI
<1>1. CASE SetFormatter(s)
  <2>1. PICK f \in param[s] \cap Formatters :
             \/ /\ Usable(f) /\ Use(f)
                /\ fmt' = [fmt EXCEPT ![s] = f] /\ step' = [step EXCEPT ![s] = "formatted"]
             \/ step' = [step EXCEPT ![s] = "destroyed"] /\ UNCHANGED <<inUse, fmt>>
    BY <1>1 DEF SetFormatter
  <2>2. step[s] = "new" /\ out' = out /\ fmt[s] = None /\ out[s] = None /\ f \in Things
    BY <1>1 DEF SetFormatter, StepI, Things
  <2>3. CASE Usable(f) /\ Use(f) /\ fmt' = [fmt EXCEPT ![s] = f] /\ step' = [step EXCEPT ![s] = "formatted"]
    <3>1. \A u \in Things \ {f} : Users(u)' = Users(u)
      BY <2>2, <2>3, OutputsAssumption DEF Users, TypeI, Things
    <3>2. Users(f)' = Users(f) \cup {s}
      BY <2>2, <2>3 DEF Users, TypeI
    <3> QED  BY <2>2, <2>3, <3>1, <3>2, UseIsAlone
  <2>4. CASE step' = [step EXCEPT ![s] = "destroyed"] /\ UNCHANGED <<inUse, fmt>>
    BY <2>2, <2>4, SameUsers DEF TypeI
  <2> QED  BY <2>1, <2>3, <2>4
<1>2. CASE SetOutput(s)
  <2>1. PICK o \in param[s] \cap Outputs :
             \/ /\ Usable(o) /\ Use(o)
                /\ out' = [out EXCEPT ![s] = o] /\ step' = [step EXCEPT ![s] = "ready"]
             \/ step' = [step EXCEPT ![s] = "destroyed"] /\ UNCHANGED <<inUse, out>>
    BY <1>2 DEF SetOutput
  <2>2. step[s] = "formatted" /\ fmt' = fmt /\ out[s] = None /\ o \in Things
    BY <1>2 DEF SetOutput, StepI, Things
  <2>3. CASE Usable(o) /\ Use(o) /\ out' = [out EXCEPT ![s] = o] /\ step' = [step EXCEPT ![s] = "ready"]
    <3>1. \A u \in Things \ {o} : Users(u)' = Users(u)
      BY <2>2, <2>3, OutputsAssumption DEF Users, TypeI, Things
    <3>2. Users(o)' = Users(o) \cup {s}
      BY <2>2, <2>3 DEF Users, TypeI
    <3> QED  BY <2>2, <2>3, <3>1, <3>2, UseIsAlone
  <2>4. CASE step' = [step EXCEPT ![s] = "destroyed"] /\ UNCHANGED <<inUse, out>>
    BY <2>2, <2>4, SameUsers DEF TypeI
  <2> QED  BY <2>1, <2>3, <2>4
<1> QED  BY <1>1, <1>2

LEMMA EndUsed ==
  ASSUME IInv, NEW s \in Sinks,
         ReleaseFormatter(s) \/ DropFormatter(s) \/ ReleaseOutput(s) \/ DropOutput(s)
  PROVE  UsedByOne'
<1> USE DEF IInv, RefsI
<1>1. CASE ReleaseFormatter(s)
  <2>1. step[s] = "destroyed" /\ step' = [step EXCEPT ![s] = "formatter_released"] /\ UNCHANGED <<fmt, out>>
    BY <1>1 DEF ReleaseFormatter, memberVars
  <2>2. CASE fmt[s] = None
    <3>1. \A u \in Things : Users(u)' = Users(u)
      BY <2>1, <2>2, OutputsAssumption DEF Users, TypeI, Things
    <3> QED  BY <1>1, <2>2, <3>1 DEF ReleaseFormatter, UsedByOne
  <2>3. CASE fmt[s] # None
    <3>1. PICK f \in Things : f = fmt[s] /\ out[s] # f /\ Release(f)
      BY <1>1, <2>3, OutputsAssumption DEF ReleaseFormatter, TypeI, Things
    <3>2. s \in Users(f) /\ Users(f)' = Users(f) \ {s}
      BY <2>1, <3>1 DEF Users, TypeI
    <3>3. \A u \in Things \ {f} : Users(u)' = Users(u)
      BY <2>1, <3>1 DEF Users, TypeI
    <3> QED  BY <3>1, <3>2, <3>3, ReleaseLeavesNone
  <2> QED  BY <2>2, <2>3
<1>2. CASE DropFormatter(s)
  <2>1. /\ step[s] = "formatter_released" /\ fmt' = [fmt EXCEPT ![s] = None] /\ UNCHANGED <<out, inUse>>
        /\ step' = [step EXCEPT ![s] = IF out[s] = None THEN "returning" ELSE "output_left"]
    BY <1>2 DEF DropFormatter
  <2>2. \A u \in Things : Users(u)' = Users(u)
    BY <2>1, OutputsAssumption DEF Users, TypeI, Things
  <2> QED  BY <2>1, <2>2 DEF UsedByOne
<1>3. CASE ReleaseOutput(s)
  <2>1. step[s] = "flushed" /\ step' = [step EXCEPT ![s] = "output_released"] /\ UNCHANGED <<fmt, out>>
    BY <1>3 DEF ReleaseOutput, memberVars
  <2>2. PICK o \in Things : o = out[s] /\ o # None /\ fmt[s] = None /\ Release(o)
    BY <1>3, <2>1 DEF ReleaseOutput, TypeI, StepI, Things
  <2>3. s \in Users(o) /\ Users(o)' = Users(o) \ {s}
    BY <2>1, <2>2 DEF Users, TypeI
  <2>4. \A u \in Things \ {o} : Users(u)' = Users(u)
    BY <2>1, <2>2 DEF Users, TypeI
  <2> QED  BY <2>2, <2>3, <2>4, ReleaseLeavesNone
<1>4. CASE DropOutput(s)
  <2>1. /\ step[s] = "output_released" /\ out' = [out EXCEPT ![s] = None] /\ UNCHANGED <<fmt, inUse>>
        /\ step' = [step EXCEPT ![s] = "returning"] /\ fmt[s] = None
    BY <1>4 DEF DropOutput, StepI
  <2>2. \A u \in Things : Users(u)' = Users(u)
    BY <2>1, OutputsAssumption DEF Users, TypeI, Things
  <2> QED  BY <2>1, <2>2 DEF UsedByOne
<1> QED  BY <1>1, <1>2, <1>3, <1>4

LEMMA UsedNext ==
  ASSUME IInv, OutNext
  PROVE  UsedByOne'
<1>1. ASSUME NEW t \in Things, Make(t) \/ DropHandle(t) PROVE UsedByOne'
  BY <1>1, HandlesUsed
<1>2. ASSUME UNCHANGED <<inUse, step, memberVars>> PROVE UsedByOne'
  BY <1>2, SameUsers DEF IInv, memberVars
<1>3. ASSUME NEW t \in Things, Die(t) \/ DieFlushBegin(t) \/ DieFlushEnd(t) PROVE UsedByOne'
  BY <1>2, <1>3 DEF Die, DieFlushBegin, DieFlushEnd
<1>4. ASSUME NEW x \in Streams, UserBegin(x) \/ UserEnd(x) PROVE UsedByOne'
  BY <1>2, <1>4 DEF UserBegin, UserEnd
<1>5. ASSUME NEW s \in Sinks, Build(s) \/ Work(s) PROVE UsedByOne'
  BY <1>5, QuietUsed, BuildUsed DEF Build
<1>6. ASSUME NEW s \in Sinks, End(s) PROVE UsedByOne'
  BY <1>6, QuietUsed, EndUsed DEF End
<1> QED  BY <1>1, <1>3, <1>4, <1>5, <1>6 DEF OutNext, Things

-----------------------------------------------------------------------------
\* Who is in which stream is what it was.
LEMMA FrameAt ==
  ASSUME AtI, HolderI, UNCHANGED <<at, holder>>,
         \A s \in Sinks : (Inside(s)' <=> Inside(s)) /\ (Inside(s) => out'[s] = out[s]),
         \A o \in Outputs : life'[o] = "flushing" <=> life[o] = "flushing"
  PROVE  AtI' /\ HolderI'
<1>1. AtI'
  <2> SUFFICES ASSUME NEW x \in Streams
               PROVE  at'[x] = {s \in Sinks : Inside(s)' /\ StreamOf[out'[s]] = x}
                               \cup {o \in Outputs : life'[o] = "flushing" /\ StreamOf[o] = x}
                               \cup {u \in {User} : holder'[x] = u}
    BY DEF AtI
  <2>1. {s \in Sinks : Inside(s)' /\ StreamOf[out'[s]] = x} = {s \in Sinks : Inside(s) /\ StreamOf[out[s]] = x}
    OBVIOUS
  <2>2. {o \in Outputs : life'[o] = "flushing" /\ StreamOf[o] = x}
          = {o \in Outputs : life[o] = "flushing" /\ StreamOf[o] = x}
    OBVIOUS
  <2> QED  BY <2>1, <2>2 DEF AtI
<1>2. HolderI'
  BY DEF HolderI
<1> QED  BY <1>1, <1>2

\* What is dropped was live, and does not flush.
LEMMA DropFlushesNothing ==
  ASSUME TypeI, LiveI, NEW D, Drop(D) \/ UNCHANGED life
  PROVE  \A o \in Outputs : life'[o] = "flushing" <=> life[o] = "flushing"
BY DEF TypeI, LiveI, Drop, Things

LEMMA QuietAt ==
  ASSUME IInv, NEW s \in Sinks,
         \/ Build(s) \/ LastHandle(s) \/ ReleaseFormatter(s) \/ DropFormatter(s) \/ ReleaseOutput(s)
         \/ DropOutput(s) \/ ReturnSink(s)
  PROVE  AtI' /\ HolderI'
<1> USE DEF IInv, RefsI
<1>1. UNCHANGED <<at, holder>>
  BY DEF Build, SinkCall, AllocFails, SetFormatter, SetOutput, LastHandle, ReleaseFormatter, DropFormatter,
         ReleaseOutput, DropOutput, ReturnSink, streamVars
<1>2. ~Inside(s) /\ \E n \in Steps \ {"writing", "flushing", "last_flush"} : step' = [step EXCEPT ![s] = n]
  BY DEF Build, SinkCall, AllocFails, SetFormatter, SetOutput, LastHandle, ReleaseFormatter, DropFormatter,
         ReleaseOutput, DropOutput, ReturnSink, Inside, Steps
<1>3. \A r \in Sinks : r # s => out'[r] = out[r]
  BY DEF Build, SinkCall, AllocFails, SetFormatter, SetOutput, LastHandle, ReleaseFormatter, DropFormatter,
         ReleaseOutput, DropOutput, ReturnSink, memberVars, TypeI
<1>4. \A r \in Sinks : (Inside(r)' <=> Inside(r)) /\ (Inside(r) => out'[r] = out[r])
  BY <1>2, <1>3 DEF Inside, TypeI
<1>5. UNCHANGED life \/ \E D : Drop(D)
  BY DEF Build, SinkCall, Copy, AllocFails, SetFormatter, SetOutput, LastHandle, ReleaseFormatter, DropFormatter,
         ReleaseOutput, DropOutput, ReturnSink, handleVars
<1>6. \A o \in Outputs : life'[o] = "flushing" <=> life[o] = "flushing"
  BY <1>5, DropFlushesNothing
<1> QED  BY <1>1, <1>4, <1>6, FrameAt

LEMMA EnterAt ==
  ASSUME IInv, NEW s \in Sinks, NEW n \in {"writing", "flushing", "last_flush"}, Enter(s, n),
         ~Inside(s), out[s] \in Outputs
  PROVE  AtI' /\ HolderI'
<1> USE DEF IInv, RefsI
<1>1. PICK x \in Streams : x = StreamOf[out[s]]
  BY OutputsAssumption
<1>2. /\ at' = [at EXCEPT ![x] = @ \cup {s}] /\ UNCHANGED <<life, out>>
      /\ \/ out[s] \in Shared /\ holder[x] = None /\ holder' = [holder EXCEPT ![x] = s]
         \/ out[s] \notin Shared /\ UNCHANGED holder
  BY <1>1 DEF Enter, handleVars, memberVars
<1>3. Inside(s)' /\ \A r \in Sinks \ {s} : Inside(r)' <=> Inside(r)
  BY DEF Enter, Inside, TypeI, Steps
<1>4. User # None /\ s # User /\ s # None
  BY OutputsAssumption
<1>5. AtI'
  <2> SUFFICES ASSUME NEW y \in Streams
               PROVE  at'[y] = {r \in Sinks : Inside(r)' /\ StreamOf[out'[r]] = y}
                               \cup {o \in Outputs : life'[o] = "flushing" /\ StreamOf[o] = y}
                               \cup {u \in {User} : holder'[y] = u}
    BY DEF AtI
  <2>1. {r \in Sinks : Inside(r)' /\ StreamOf[out'[r]] = y}
          = {r \in Sinks : Inside(r) /\ StreamOf[out[r]] = y} \cup {r \in {s} : x = y}
    BY <1>1, <1>2, <1>3
  <2>2. {u \in {User} : holder'[y] = u} = {u \in {User} : holder[y] = u}
    BY <1>2, <1>4 DEF TypeI
  <2>3. at'[y] = at[y] \cup {r \in {s} : x = y}
    BY <1>2 DEF TypeI
  <2>4. at[y] = {r \in Sinks : Inside(r) /\ StreamOf[out[r]] = y}
                \cup {o \in Outputs : life[o] = "flushing" /\ StreamOf[o] = y}
                \cup {u \in {User} : holder[y] = u}
    BY DEF AtI
  <2>5. {o \in Outputs : life'[o] = "flushing" /\ StreamOf[o] = y}
          = {o \in Outputs : life[o] = "flushing" /\ StreamOf[o] = y}
    BY <1>2
  <2> QED  BY <2>1, <2>2, <2>3, <2>4, <2>5
<1>6. HolderI'
  <2>1. ASSUME NEW r \in Sinks, Inside(r)', out'[r] \in Shared PROVE holder'[StreamOf[out'[r]]] = r
    <3>1. CASE r = s
      BY <1>1, <1>2, <2>1, <3>1 DEF TypeI
    <3>2. CASE r # s
      <4>1. out'[r] = out[r] /\ out[r] \in Shared /\ holder[StreamOf[out[r]]] = r /\ r # None
        BY <1>2, <1>3, <2>1, <3>2, OutputsAssumption DEF HolderI
      <4>2. PICK y \in Streams : y = StreamOf[out[r]]
        BY <4>1, OutputsAssumption
      <4>3. holder'[y] = r
        BY <1>2, <4>1, <4>2 DEF TypeI
      <4> QED  BY <4>1, <4>2, <4>3
    <3> QED  BY <3>1, <3>2
  <2>2. ASSUME NEW y \in Streams, holder'[y] # None PROVE \E o \in Shared : StreamOf[o] = y
    BY <1>1, <1>2, <2>2 DEF HolderI, TypeI
  <2> QED  BY <2>1, <2>2 DEF HolderI
<1> QED  BY <1>5, <1>6

LEMMA LeaveAt ==
  ASSUME IInv, NEW s \in Sinks, NEW n \in {"ready", "flushed"}, Leave(s, n), Inside(s), out[s] \in Outputs
  PROVE  AtI' /\ HolderI'
<1> USE DEF IInv, RefsI
<1>1. PICK x \in Streams : x = StreamOf[out[s]]
  BY OutputsAssumption
<1>2. /\ at' = [at EXCEPT ![x] = @ \ {s}] /\ UNCHANGED <<life, out>>
      /\ \/ out[s] \in Shared /\ holder[x] = s /\ holder' = [holder EXCEPT ![x] = None]
         \/ out[s] \notin Shared /\ UNCHANGED holder
  BY <1>1 DEF Leave, handleVars, memberVars, HolderI
<1>3. ~Inside(s)' /\ \A r \in Sinks \ {s} : Inside(r)' <=> Inside(r)
  BY DEF Leave, Inside, TypeI, Steps
<1>4. User # None /\ s # User /\ s # None /\ s \notin Outputs
  BY OutputsAssumption
<1>5. AtI'
  <2> SUFFICES ASSUME NEW y \in Streams
               PROVE  at'[y] = {r \in Sinks : Inside(r)' /\ StreamOf[out'[r]] = y}
                               \cup {o \in Outputs : life'[o] = "flushing" /\ StreamOf[o] = y}
                               \cup {u \in {User} : holder'[y] = u}
    BY DEF AtI
  <2>1. {r \in Sinks : Inside(r)' /\ StreamOf[out'[r]] = y}
          = {r \in Sinks : Inside(r) /\ StreamOf[out[r]] = y} \ {r \in {s} : x = y}
    BY <1>1, <1>2, <1>3
  <2>2. {u \in {User} : holder'[y] = u} = {u \in {User} : holder[y] = u}
    BY <1>2, <1>4 DEF TypeI
  <2>3. at'[y] = at[y] \ {r \in {s} : x = y}
    BY <1>2 DEF TypeI
  <2>4. at[y] = {r \in Sinks : Inside(r) /\ StreamOf[out[r]] = y}
                \cup {o \in Outputs : life[o] = "flushing" /\ StreamOf[o] = y}
                \cup {u \in {User} : holder[y] = u}
    BY DEF AtI
  <2>5. {o \in Outputs : life'[o] = "flushing" /\ StreamOf[o] = y}
          = {o \in Outputs : life[o] = "flushing" /\ StreamOf[o] = y}
    BY <1>2
  <2> QED  BY <1>4, <2>1, <2>2, <2>3, <2>4, <2>5
<1>6. HolderI'
  <2>1. ASSUME NEW r \in Sinks, Inside(r)', out'[r] \in Shared PROVE holder'[StreamOf[out'[r]]] = r
    <3>1. r # s
      BY <1>3, <2>1
    <3>2. out'[r] = out[r] /\ out[r] \in Shared /\ holder[StreamOf[out[r]]] = r
      BY <1>2, <1>3, <2>1, <3>1 DEF HolderI
    <3>3. PICK y \in Streams : y = StreamOf[out[r]]
      BY <3>2, OutputsAssumption
    <3>4. holder'[y] = r
      BY <1>2, <3>1, <3>2, <3>3 DEF TypeI
    <3> QED  BY <3>2, <3>3, <3>4
  <2>2. ASSUME NEW y \in Streams, holder'[y] # None PROVE \E o \in Shared : StreamOf[o] = y
    BY <1>1, <1>2, <2>2 DEF HolderI, TypeI
  <2> QED  BY <2>1, <2>2 DEF HolderI
<1> QED  BY <1>5, <1>6

LEMMA UserAt ==
  ASSUME IInv, NEW x \in Streams, UserBegin(x) \/ UserEnd(x)
  PROVE  AtI' /\ HolderI'
<1> USE DEF IInv, RefsI
<1>1. UNCHANGED <<life, step, out>>
  BY DEF UserBegin, UserEnd, handleVars, memberVars
<1>2. \A r \in Sinks : Inside(r)' <=> Inside(r)
  BY <1>1 DEF Inside
<1>3. User # None /\ User \notin Sinks \cup Outputs /\ None \notin Sinks
  BY OutputsAssumption
<1>4. holder[x] = None \/ holder[x] = User
  BY <1>3 DEF UserBegin, UserEnd, AtI
<1>5. \/ /\ at' = [at EXCEPT ![x] = @ \cup {User}] /\ holder' = [holder EXCEPT ![x] = User]
         /\ \E o \in Shared : StreamOf[o] = x
      \/ at' = [at EXCEPT ![x] = @ \ {User}] /\ holder' = [holder EXCEPT ![x] = None]
  BY DEF UserBegin, UserEnd
<1>6. AtI'
  <2> SUFFICES ASSUME NEW y \in Streams
               PROVE  at'[y] = {r \in Sinks : Inside(r)' /\ StreamOf[out'[r]] = y}
                               \cup {o \in Outputs : life'[o] = "flushing" /\ StreamOf[o] = y}
                               \cup {u \in {User} : holder'[y] = u}
    BY DEF AtI
  <2> DEFINE S == {r \in Sinks : Inside(r) /\ StreamOf[out[r]] = y}
             O == {o \in Outputs : life[o] = "flushing" /\ StreamOf[o] = y}
  <2>1. {r \in Sinks : Inside(r)' /\ StreamOf[out'[r]] = y} = S
    BY <1>1, <1>2
  <2>2. {o \in Outputs : life'[o] = "flushing" /\ StreamOf[o] = y} = O
    BY <1>1
  <2>3. at[y] = S \cup O \cup {u \in {User} : holder[y] = u} /\ User \notin S \cup O
    BY <1>3 DEF AtI
  <2> HIDE DEF S, O
  <2>4. at'[y] = S \cup O \cup {u \in {User} : holder'[y] = u}
    BY <1>3, <1>5, <2>3 DEF TypeI
  <2> QED  BY <2>1, <2>2, <2>4
<1>7. HolderI'
  <2>1. ASSUME NEW r \in Sinks, Inside(r)', out'[r] \in Shared PROVE holder'[StreamOf[out'[r]]] = r
    <3>1. out'[r] = out[r] /\ out[r] \in Shared /\ holder[StreamOf[out[r]]] = r /\ r # None /\ r # User
      BY <1>1, <1>2, <1>3, <2>1 DEF HolderI
    <3>2. PICK y \in Streams : y = StreamOf[out[r]]
      BY <3>1, OutputsAssumption
    <3>3. holder'[y] = r
      BY <1>4, <1>5, <3>1, <3>2 DEF TypeI
    <3> QED  BY <3>1, <3>2, <3>3
  <2>2. ASSUME NEW y \in Streams, holder'[y] # None PROVE \E o \in Shared : StreamOf[o] = y
    BY <1>5, <2>2 DEF HolderI, TypeI
  <2> QED  BY <2>1, <2>2 DEF HolderI
<1> QED  BY <1>6, <1>7

LEMMA DeathAt ==
  ASSUME IInv, NEW o \in Outputs, DieFlushBegin(o) \/ DieFlushEnd(o)
  PROVE  AtI' /\ HolderI'
<1> USE DEF IInv, RefsI
<1>1. UNCHANGED <<step, out, holder>>
  BY DEF DieFlushBegin, DieFlushEnd, memberVars
<1>2. \A r \in Sinks : Inside(r)' <=> Inside(r)
  BY <1>1 DEF Inside
<1>3. PICK x \in Streams : x = StreamOf[o]
  BY OutputsAssumption
<1>4. o \in Things /\ o \notin Sinks /\ o # User
  BY OutputsAssumption DEF Things
<1>5. \/ life' = [life EXCEPT ![o] = "flushing"] /\ at' = [at EXCEPT ![x] = @ \cup {o}]
      \/ life' = [life EXCEPT ![o] = "none"] /\ at' = [at EXCEPT ![x] = @ \ {o}]
  BY <1>3 DEF DieFlushBegin, DieFlushEnd
<1>6. AtI'
  <2> SUFFICES ASSUME NEW y \in Streams
               PROVE  at'[y] = {r \in Sinks : Inside(r)' /\ StreamOf[out'[r]] = y}
                               \cup {p \in Outputs : life'[p] = "flushing" /\ StreamOf[p] = y}
                               \cup {u \in {User} : holder'[y] = u}
    BY DEF AtI
  <2> DEFINE S == {r \in Sinks : Inside(r) /\ StreamOf[out[r]] = y}
             O == {p \in Outputs : life[p] = "flushing" /\ StreamOf[p] = y}
             U == {u \in {User} : holder[y] = u}
  <2>1. {r \in Sinks : Inside(r)' /\ StreamOf[out'[r]] = y} = S /\ {u \in {User} : holder'[y] = u} = U
    BY <1>1, <1>2
  <2>2. at[y] = S \cup O \cup U /\ o \notin S \cup U
    BY <1>4 DEF AtI
  <2>3. CASE life' = [life EXCEPT ![o] = "flushing"] /\ at' = [at EXCEPT ![x] = @ \cup {o}]
    <3>1. {p \in Outputs : life'[p] = "flushing" /\ StreamOf[p] = y} = O \cup {p \in {o} : x = y}
      BY <1>3, <1>4, <2>3 DEF TypeI, Things
    <3>2. at'[y] = at[y] \cup {p \in {o} : x = y}
      BY <2>3 DEF TypeI
    <3> HIDE DEF S, O, U
    <3> QED  BY <2>1, <2>2, <3>1, <3>2
  <2>4. CASE life' = [life EXCEPT ![o] = "none"] /\ at' = [at EXCEPT ![x] = @ \ {o}]
    <3>1. {p \in Outputs : life'[p] = "flushing" /\ StreamOf[p] = y} = O \ {p \in {o} : x = y}
      BY <1>3, <1>4, <2>4 DEF TypeI, Things
    <3>2. at'[y] = at[y] \ {p \in {o} : x = y}
      BY <2>4 DEF TypeI
    <3> HIDE DEF S, O, U
    <3> QED  BY <2>1, <2>2, <3>1, <3>2
  <2> QED  BY <1>5, <2>3, <2>4
<1>7. HolderI'
  BY <1>1, <1>2 DEF HolderI
<1> QED  BY <1>6, <1>7

LEMMA HandlesAt ==
  ASSUME IInv, NEW t \in Things, Make(t) \/ DropHandle(t) \/ (t \in Formatters /\ Die(t))
  PROVE  AtI' /\ HolderI'
<1> USE DEF IInv, RefsI
<1>1. UNCHANGED <<at, holder, step, out>>
  BY DEF Make, DropHandle, Die, memberVars, streamVars
<1>2. \A r \in Sinks : (Inside(r)' <=> Inside(r)) /\ (Inside(r) => out'[r] = out[r])
  BY <1>1 DEF Inside
<1>3. \A o \in Outputs : life'[o] = "flushing" <=> life[o] = "flushing"
  <2>1. CASE Make(t) \/ (t \in Formatters /\ Die(t))
    BY <2>1 DEF Make, Die, TypeI, Things
  <2>2. CASE DropHandle(t)
    BY <2>2, DropFlushesNothing DEF DropHandle
  <2> QED  BY <2>1, <2>2
<1> QED  BY <1>1, <1>2, <1>3, FrameAt

LEMMA AtNext ==
  ASSUME IInv, OutNext
  PROVE  AtI' /\ HolderI'
<1>1. ASSUME NEW t \in Things, Make(t) \/ DropHandle(t) PROVE AtI' /\ HolderI'
  BY <1>1, HandlesAt
<1>2. ASSUME NEW f \in Formatters, Die(f) PROVE AtI' /\ HolderI'
  <2>1. f \in Things
    BY DEF Things
  <2> QED  BY <1>2, <2>1, HandlesAt
<1>3. ASSUME NEW o \in Outputs, DieFlushBegin(o) \/ DieFlushEnd(o) PROVE AtI' /\ HolderI'
  BY <1>3, DeathAt
<1>4. ASSUME NEW x \in Streams, UserBegin(x) \/ UserEnd(x) PROVE AtI' /\ HolderI'
  BY <1>4, UserAt
<1>5. ASSUME NEW s \in Sinks, Work(s) \/ LastFlushBegin(s) \/ LastFlushEnd(s) PROVE AtI' /\ HolderI'
  <2>1. out[s] \in Outputs
    BY <1>5 DEF IInv, RefsI, TypeI, StepI, Work, WriteBegin, WriteEnd, FlushBegin, FlushEnd, LastFlushBegin,
                LastFlushEnd
  <2>2. CASE WriteBegin(s) \/ FlushBegin(s) \/ LastFlushBegin(s)
    <3>1. ~Inside(s) /\ \E n \in {"writing", "flushing", "last_flush"} : Enter(s, n)
      BY <2>2 DEF WriteBegin, FlushBegin, LastFlushBegin, Inside
    <3> QED  BY <2>1, <3>1, EnterAt
  <2>3. CASE WriteEnd(s) \/ FlushEnd(s) \/ LastFlushEnd(s)
    <3>1. Inside(s) /\ \E n \in {"ready", "flushed"} : Leave(s, n)
      BY <2>3 DEF WriteEnd, FlushEnd, LastFlushEnd, Inside
    <3> QED  BY <2>1, <3>1, LeaveAt
  <2> QED  BY <1>5, <2>2, <2>3 DEF Work
<1>6. ASSUME NEW s \in Sinks,
             \/ Build(s) \/ LastHandle(s) \/ ReleaseFormatter(s) \/ DropFormatter(s) \/ ReleaseOutput(s)
             \/ DropOutput(s) \/ ReturnSink(s)
      PROVE  AtI' /\ HolderI'
  BY <1>6, QuietAt
<1>7. ASSUME NEW s \in Sinks, Build(s) \/ Work(s) \/ End(s) PROVE AtI' /\ HolderI'
  BY <1>5, <1>6, <1>7 DEF End
<1> QED  BY <1>1, <1>2, <1>3, <1>4, <1>7 DEF OutNext

-----------------------------------------------------------------------------
LEMMA InitIInv ==
  ASSUME OutInit
  PROVE  IInv
<1>1. TypeI /\ StepI
  BY OutputsAssumption DEF OutInit, TypeI, StepI, Steps
<1>2. CountedI
  <2> SUFFICES ASSUME NEW t \in Things
               PROVE  refs[t] = Cardinality(ParamOf(t)) + Cardinality(MemberOf(t)) + One(t \in held)
    BY DEF CountedI
  <2>1. t # None
    BY OutputsAssumption DEF Things
  <2>2. ParamOf(t) = {} /\ MemberOf(t) = {}
    BY <2>1 DEF OutInit, ParamOf, MemberOf, HasMember
  <2>3. refs[t] = 0 /\ One(t \in held) = 0
    BY DEF OutInit, One
  <2> QED  BY <2>2, <2>3, FS_EmptySet
<1>3. LiveI
  BY DEF OutInit, LiveI
<1>4. UsedByOne
  BY OutputsAssumption DEF OutInit, UsedByOne, Users, Things
<1>5. AtI
  BY OutputsAssumption DEF OutInit, AtI, Inside, Things
<1>6. HolderI
  BY DEF OutInit, HolderI, Inside
<1> QED  BY <1>1, <1>2, <1>3, <1>4, <1>5, <1>6 DEF IInv, RefsI

LEMMA NextIInv ==
  ASSUME IInv, [OutNext]_outVars
  PROVE  IInv'
<1>1. CASE OutNext
  BY <1>1, RefsNext, UsedNext, AtNext DEF IInv
<1>2. CASE UNCHANGED outVars
  BY <1>2 DEF outVars, IInv, RefsI, TypeI, StepI, CountedI, LiveI, UsedByOne, AtI, HolderI, Inside, Users,
              ParamOf, MemberOf, HasMember
<1> QED  BY <1>1, <1>2

LEMMA OneAtMost ==
  ASSUME NEW S, \A a, b \in S : a = b
  PROVE  Cardinality(S) <= 1
<1>1. CASE S = {}
  BY <1>1, FS_EmptySet
<1>2. CASE S # {}
  <2>1. PICK e \in S : S = {e}
    BY <1>2
  <2> QED  BY <2>1, FS_Singleton
<1> QED  BY <1>1, <1>2

\* Two actors in one stream: the mutex or the use of the one output is theirs.
LEMMA ApartInIInv ==
  ASSUME IInv
  PROVE  StreamsApart
<1> USE DEF IInv, RefsI
<1> SUFFICES ASSUME NEW x \in Streams
             PROVE  /\ Cardinality(at[x] \ Shared) <= 1
                    /\ (\A o \in Shared : StreamOf[o] # x) => Cardinality(at[x]) <= 1
  BY DEF StreamsApart
<1>1. \A a \in at[x] : \/ a \in Sinks /\ Inside(a) /\ out[a] \in Outputs /\ StreamOf[out[a]] = x
                       \/ a \in Outputs /\ life[a] = "flushing" /\ StreamOf[a] = x
                       \/ a = User /\ holder[x] = User
  <2>1. \A s \in Sinks : Inside(s) => out[s] \in Outputs
    BY DEF Inside, StepI, TypeI
  <2> QED  BY <2>1 DEF AtI
<1>2. CASE \E o \in Shared : StreamOf[o] = x
  <2>1. \A p \in Outputs : StreamOf[p] = x => p \in Shared
    BY <1>2, OutputsAssumption
  <2>2. \A a \in at[x] \ Shared : holder[x] = a
    BY <1>1, <2>1 DEF HolderI
  <2>3. \A a, b \in at[x] \ Shared : a = b
    BY <2>2
  <2> QED  BY <1>2, <2>3, OneAtMost
<1>3. CASE \A o \in Shared : StreamOf[o] # x
  <2>1. holder[x] = None
    BY <1>3 DEF HolderI
  <2>2. \A p, q \in Outputs : StreamOf[p] = x /\ StreamOf[q] = x => p = q /\ p \notin Shared
    BY <1>3, OutputsAssumption
  <2>3. \A a \in at[x] : a # User
    BY <1>1, <2>1, OutputsAssumption
  <2>4. \A s \in Sinks, o \in Outputs : Inside(s) /\ out[s] = o => life[o] # "flushing"
    BY NotLive DEF HasMember, Things
  <2>5. \A s, r \in Sinks, o \in Outputs \ Shared : Inside(s) /\ Inside(r) /\ out[s] = o /\ out[r] = o => s = r
    BY DEF UsedByOne, Users, Inside, Things
  <2>6. \A a, b \in at[x] : a = b
    <3> SUFFICES ASSUME NEW a \in at[x], NEW b \in at[x] PROVE a = b
      OBVIOUS
    <3>1. PICK o \in Outputs : StreamOf[o] = x /\ o \notin Shared /\ ((a \in Sinks /\ Inside(a) /\ out[a] = o) \/ (a = o /\ life[o] = "flushing"))
      BY <1>1, <2>2, <2>3
    <3>2. (b \in Sinks /\ Inside(b) /\ out[b] = o) \/ (b = o /\ life[o] = "flushing")
      BY <1>1, <2>2, <2>3, <3>1
    <3> QED  BY <2>4, <2>5, <3>1, <3>2
  <2>7. \A a, b \in at[x] \ Shared : a = b
    BY <2>6
  <2> QED  BY <2>6, <2>7, OneAtMost
<1> QED  BY <1>2, <1>3

LEMMA LivesInIInv ==
  ASSUME IInv
  PROVE  LivesWhileHeld
BY DEF IInv, RefsI, CountedI, LiveI, LivesWhileHeld, ParamOf, MemberOf, One

-----------------------------------------------------------------------------
\* Whatever is made, copied, moved, refused and destroyed, a formatter or an
\* output lives exactly as long as a sink, a factory or the program refers to
\* it (reference_counter_mixin.hpp, sink_formatter_mixin.hpp,
\* sink_output_mixin.hpp).
THEOREM CountsAreHolders == OutSpec => []LivesWhileHeld
<1>1. OutInit => IInv
  BY InitIInv
<1>2. IInv /\ [OutNext]_outVars => IInv'
  BY NextIInv
<1>3. IInv => LivesWhileHeld
  BY LivesInIInv
<1> QED  BY <1>1, <1>2, <1>3, PTL DEF OutSpec

\* One sink at a time uses what is not shared, and what nobody uses can be used
\* (output_interface.hpp, formatter_interface.hpp: use() and release()).
THEOREM UsersAreOne == OutSpec => []UsedByOne
<1>1. OutInit => IInv
  BY InitIInv
<1>2. IInv /\ [OutNext]_outVars => IInv'
  BY NextIInv
<1>3. IInv => UsedByOne
  BY DEF IInv
<1> QED  BY <1>1, <1>2, <1>3, PTL DEF OutSpec

\* Sinks, the program and the destructors of outputs that share no stream are
\* never in a stream at once (output_stream.cpp, output_stream_mt.cpp).
THEOREM StreamsAreApart == OutSpec => []StreamsApart
<1>1. OutInit => IInv
  BY InitIInv
<1>2. IInv /\ [OutNext]_outVars => IInv'
  BY NextIInv
<1>3. IInv => StreamsApart
  BY ApartInIInv
<1> QED  BY <1>1, <1>2, <1>3, PTL DEF OutSpec

-----------------------------------------------------------------------------
(***************************************************************************)
(* The files behind some outputs.  FileIsIntact says what is on the disk,  *)
(* so the invariant says whose every FILE and buffer is (HandlesOpen,      *)
(* BuffersOwned), that there is one FILE at most, and what the two hold    *)
(* together (Kept).                                                        *)
(***************************************************************************)

\* What kinds of values there are.
FileTypes ==
  /\ object \in [Objects -> [handle : FileHandles \cup {Null}, buffer : Buffers \cup {Null},
                             size : Nat, resource : BOOLEAN]]
  /\ streams \in [FileHandles -> [open : BOOLEAN, buffer : Buffers \cup {Null}, pending : Seq(Nat)]]
  /\ memory \in [Buffers -> Nat]
  /\ disk \in Seq(Nat) /\ wrote \in Seq(Nat)

\* One object has a FILE: open() is not called while there is one.
OneHandle ==
  \A f, g \in Objects : object[f].handle # Null /\ object[g].handle # Null => f = g

\* The FILE of an object is open, and writes into the buffer of the object if
\* into any; a FILE that no object has is closed.
HandlesOpen ==
  /\ \A f \in Objects : object[f].handle # Null =>
       /\ streams[object[f].handle].open
       /\ streams[object[f].handle].buffer \in {Null, object[f].buffer}
  /\ \A h \in FileHandles :
       /\ streams[h].open => \E f \in Objects : object[f].handle = h
       /\ ~streams[h].open => streams[h] = Closed
       /\ streams[h].buffer = Null => streams[h].pending = <<>>

\* The buffer of an object is allocated with the size it knows, and is its own.
BuffersOwned ==
  /\ \A f \in Objects :
       IF object[f].buffer = Null THEN object[f].size = 0
       ELSE object[f].size # 0 /\ memory[object[f].buffer] = object[f].size
  /\ \A f, g \in Objects : object[f].buffer # Null /\ object[f].buffer = object[g].buffer => f = g
  /\ \A b \in Buffers : memory[b] # 0 => \E f \in Objects : object[f].buffer = b

\* What the file and the buffer of the FILE hold is what was written.
Kept ==
  /\ \A f \in Objects : object[f].handle # Null =>
       disk \o streams[object[f].handle].pending = wrote
  /\ (\A f \in Objects : object[f].handle = Null) => disk = wrote

FileI == FileTypes /\ OneHandle /\ HandlesOpen /\ BuffersOwned /\ Kept

LEMMA InitFileI == FileInit => FileI
<1> SUFFICES ASSUME FileInit PROVE FileI
  OBVIOUS
<1> QED BY OutFileAssumption DEF FileInit, FileI, FileTypes, OneHandle, HandlesOpen, BuffersOwned, Kept, NoFile, Closed

\* What an object has, and what its FILE holds.
LEMMA ObjectIs ==
  ASSUME FileI, NEW f \in Objects
  PROVE  /\ object[f].handle \in FileHandles \cup {Null} /\ object[f].buffer \in Buffers \cup {Null}
         /\ object[f].size \in Nat /\ object[f].resource \in BOOLEAN
         /\ object[f] = [handle |-> object[f].handle, buffer |-> object[f].buffer,
                         size |-> object[f].size, resource |-> object[f].resource]
         /\ object[f].handle # Null =>
              /\ object[f].handle \in FileHandles
              /\ streams[object[f].handle].pending \in Seq(Nat)
              /\ Flushed(object[f].handle) = streams[object[f].handle].pending
              /\ disk \o streams[object[f].handle].pending = wrote
<1>1. object[f] \in [handle : FileHandles \cup {Null}, buffer : Buffers \cup {Null},
                     size : Nat, resource : BOOLEAN]
  BY DEF FileI, FileTypes
<1>2. ASSUME object[f].handle # Null
      PROVE  /\ object[f].handle \in FileHandles
             /\ streams[object[f].handle].pending \in Seq(Nat)
             /\ Flushed(object[f].handle) = streams[object[f].handle].pending
             /\ disk \o streams[object[f].handle].pending = wrote
  <2>1. object[f].handle \in FileHandles
    BY <1>1, <1>2
  <2>2. PICK h \in FileHandles : h = object[f].handle
    BY <2>1
  <2>3. streams[h] \in [open : BOOLEAN, buffer : Buffers \cup {Null}, pending : Seq(Nat)]
    BY DEF FileI, FileTypes
  <2>4. streams[h].buffer # Null => memory[streams[h].buffer] # 0
    BY <1>2, <2>2 DEF FileI, HandlesOpen, BuffersOwned
  <2>5. Flushed(h) = streams[h].pending
    BY <2>4 DEF Flushed
  <2>6. disk \o streams[h].pending = wrote
    BY <1>2, <2>2 DEF FileI, Kept
  <2> QED BY <2>2, <2>3, <2>5, <2>6
<1> QED BY <1>1, <1>2

\* An object whose FILE or buffer is replaced.
ObjectRecords == [handle : FileHandles \cup {Null}, buffer : Buffers \cup {Null}, size : Nat, resource : BOOLEAN]

LEMMA UnbufferedIs ==
  ASSUME NEW o \in ObjectRecords
  PROVE  /\ Unbuffered(o) \in ObjectRecords
         /\ Unbuffered(o) = [handle |-> o.handle, buffer |-> Null, size |-> 0, resource |-> o.resource]
<1>1. PICK p : p = [o EXCEPT !.buffer = Null]
  OBVIOUS
<1>2. /\ p \in ObjectRecords /\ p.buffer = Null /\ p.handle = o.handle /\ p.resource = o.resource
  BY <1>1 DEF ObjectRecords
<1>3. [p EXCEPT !.size = 0] = [handle |-> p.handle, buffer |-> p.buffer, size |-> 0, resource |-> p.resource]
  BY <1>2 DEF ObjectRecords
<1>4. Unbuffered(o) = [p EXCEPT !.size = 0]
  BY <1>1 DEF Unbuffered
<1>5. Unbuffered(o) = [handle |-> o.handle, buffer |-> Null, size |-> 0, resource |-> o.resource]
  BY <1>2, <1>3, <1>4
<1> QED BY <1>2, <1>5 DEF ObjectRecords

LEMMA WithHandle ==
  ASSUME NEW o \in ObjectRecords, NEW h \in FileHandles
  PROVE  [o EXCEPT !.handle = h] = [handle |-> h, buffer |-> o.buffer, size |-> o.size, resource |-> o.resource]
BY DEF ObjectRecords

\* The memory without the buffer of an object.
LEMMA FreedIs ==
  ASSUME FileI, NEW f \in Objects
  PROVE  /\ Freed(memory, object[f]) \in [Buffers -> Nat]
         /\ \A b \in Buffers : Freed(memory, object[f])[b] = IF b = object[f].buffer THEN 0 ELSE memory[b]
<1>1. memory \in [Buffers -> Nat] /\ Null \notin Buffers
  BY OutFileAssumption DEF FileI, FileTypes
<1>2. PICK q \in Buffers \cup {Null} : q = object[f].buffer
  BY ObjectIs
<1> QED BY <1>1, <1>2 DEF Freed

\* After close() the FILE of the object is closed, and if there was one no
\* other is open and the file has what was written.
LEMMA CloseIs ==
  ASSUME FileI, NEW f \in Objects, CloseOf(f)
  PROVE  /\ streams' \in [FileHandles -> [open : BOOLEAN, buffer : Buffers \cup {Null}, pending : Seq(Nat)]]
         /\ disk' \in Seq(Nat)
         /\ \A h \in FileHandles : streams'[h] = IF h = object[f].handle THEN Closed ELSE streams[h]
         /\ object[f].handle # Null => /\ disk' = wrote
                                       /\ \A h \in FileHandles : streams'[h] = Closed
         /\ object[f].handle = Null => disk' = disk /\ streams' = streams
<1>1. /\ streams \in [FileHandles -> [open : BOOLEAN, buffer : Buffers \cup {Null}, pending : Seq(Nat)]]
      /\ disk \in Seq(Nat) /\ wrote \in Seq(Nat) /\ Null \notin FileHandles
  BY OutFileAssumption DEF FileI, FileTypes
<1>2. CASE object[f].handle = Null
  BY <1>1, <1>2 DEF CloseOf
<1>3. CASE object[f].handle # Null
  <2>1. PICK q \in FileHandles : q = object[f].handle
    BY <1>3, ObjectIs
  <2>2. disk' = wrote /\ streams' = [streams EXCEPT ![q] = Closed]
    BY <1>3, <2>1, ObjectIs DEF CloseOf
  <2>3. \A h \in FileHandles : h # q => streams[h] = Closed
    <3> SUFFICES ASSUME NEW h \in FileHandles, h # q, streams[h].open PROVE FALSE
      BY DEF FileI, HandlesOpen
    <3>1. PICK g \in Objects : object[g].handle = h
      BY DEF FileI, HandlesOpen
    <3>2. g = f
      BY <1>1, <1>3, <3>1 DEF FileI, OneHandle
    <3> QED BY <2>1, <3>1, <3>2
  <2>4. Closed \in [open : BOOLEAN, buffer : Buffers \cup {Null}, pending : Seq(Nat)]
    BY DEF Closed
  <2> QED BY <1>1, <1>3, <2>1, <2>2, <2>3, <2>4
<1> QED BY <1>2, <1>3

\* close()
LEMMA CloseFileI ==
  ASSUME FileI, NEW f \in Objects, Close(f)
  PROVE  FileI'
<1> DEFINE obj == object[f]
<1>1. /\ obj.handle \in FileHandles \cup {Null} /\ obj.buffer \in Buffers \cup {Null}
      /\ obj.size \in Nat /\ obj.resource \in BOOLEAN /\ Null \notin FileHandles /\ Null \notin Buffers
  BY ObjectIs, OutFileAssumption
<1>2. CloseOf(f) /\ object' = [object EXCEPT ![f].handle = Null] /\ memory' = memory /\ wrote' = wrote
  BY DEF Close
<1>3. object \in [Objects -> [handle : FileHandles \cup {Null}, buffer : Buffers \cup {Null},
                              size : Nat, resource : BOOLEAN]]
  BY DEF FileI, FileTypes
<1>4. /\ object' \in [Objects -> [handle : FileHandles \cup {Null}, buffer : Buffers \cup {Null},
                                  size : Nat, resource : BOOLEAN]]
      /\ \A g \in Objects : /\ object'[g].handle = IF g = f THEN Null ELSE object[g].handle
                            /\ object'[g].buffer = object[g].buffer /\ object'[g].size = object[g].size
  BY <1>2, <1>3
<1>5. FileTypes'
  BY <1>2, <1>4, CloseIs DEF FileI, FileTypes
<1>6. OneHandle'
  BY <1>4 DEF FileI, OneHandle
<1>7. HandlesOpen'
  <2>1. CASE object[f].handle = Null
    <3>1. \A g \in Objects : object'[g].handle = object[g].handle
      BY <1>4, <2>1
    <3>2. streams' = streams
      BY <1>2, <2>1, CloseIs
    <3> QED BY <1>4, <3>1, <3>2 DEF FileI, HandlesOpen
  <2>2. CASE object[f].handle # Null
    <3>1. \A g \in Objects : object'[g].handle = Null
      BY <1>4, <2>2 DEF FileI, OneHandle
    <3>2. \A h \in FileHandles : streams'[h] = Closed
      BY <1>2, <2>2, CloseIs
    <3>3. \A h \in FileHandles : ~streams'[h].open /\ streams'[h].pending = <<>>
      BY <3>2 DEF Closed
    <3>4. Closed' = Closed
      BY DEF Closed
    <3> QED BY <3>1, <3>2, <3>3, <3>4 DEF HandlesOpen
  <2> QED BY <2>1, <2>2
<1>8. BuffersOwned'
  BY <1>2, <1>4 DEF FileI, BuffersOwned
<1>9. Kept'
  <2>1. CASE object[f].handle = Null
    <3>1. \A g \in Objects : object'[g].handle = object[g].handle
      BY <1>4, <2>1
    <3>2. streams' = streams /\ disk' = disk
      BY <1>2, <2>1, CloseIs
    <3> QED BY <1>2, <3>1, <3>2 DEF FileI, Kept
  <2>2. CASE object[f].handle # Null
    <3>1. \A g \in Objects : object'[g].handle = Null
      BY <1>4, <2>2 DEF FileI, OneHandle
    <3> QED BY <1>2, <2>2, <3>1, CloseIs DEF Kept
  <2> QED BY <2>1, <2>2
<1> QED BY <1>5, <1>6, <1>7, <1>8, <1>9 DEF FileI

\* fflush(): what the FILE held is on the disk.
LEMMA FlushFileI ==
  ASSUME FileI, NEW f \in Objects, FlushFile(f)
  PROVE  FileI'
<1>1. PICK q \in FileHandles : q = object[f].handle
  BY ObjectIs DEF FlushFile
<1>2. object[f].handle # Null /\ disk \o streams[q].pending = wrote
  BY <1>1, ObjectIs DEF FlushFile
<1>3. disk' = wrote /\ streams' = [streams EXCEPT ![q].pending = <<>>] /\ object' = object
      /\ memory' = memory /\ wrote' = wrote
  BY <1>1, <1>2, ObjectIs DEF FlushFile
<1>4. /\ streams \in [FileHandles -> [open : BOOLEAN, buffer : Buffers \cup {Null}, pending : Seq(Nat)]]
      /\ disk \in Seq(Nat) /\ wrote \in Seq(Nat)
  BY DEF FileI, FileTypes
<1>5. /\ streams' \in [FileHandles -> [open : BOOLEAN, buffer : Buffers \cup {Null}, pending : Seq(Nat)]]
      /\ \A h \in FileHandles : /\ streams'[h].open = streams[h].open /\ streams'[h].buffer = streams[h].buffer
                                /\ streams'[h].pending = IF h = q THEN <<>> ELSE streams[h].pending
                                /\ h # q => streams'[h] = streams[h]
  <2>1. <<>> \in Seq(Nat)
    OBVIOUS
  <2>2. PICK p \in Seq(Nat) : p = <<>>
    BY <2>1
  <2>3. streams' = [streams EXCEPT ![q].pending = p]
    BY <1>3, <2>2
  <2> QED BY <1>4, <2>2, <2>3
<1>6. FileTypes'
  BY <1>3, <1>4, <1>5 DEF FileI, FileTypes
<1>7. OneHandle' /\ BuffersOwned'
  BY <1>3 DEF FileI, OneHandle, BuffersOwned
<1>8. HandlesOpen'
  <2>1. \A g \in Objects : object'[g].handle # Null => object'[g].handle \in FileHandles
    BY <1>3, ObjectIs
  <2>2. streams[q].open
    BY <1>1, <1>2 DEF FileI, HandlesOpen
  <2>3. \A g \in Objects : object'[g].handle # Null =>
          /\ streams'[object'[g].handle].open
          /\ streams'[object'[g].handle].buffer \in {Null, object'[g].buffer}
    BY <1>3, <1>5, <2>1 DEF FileI, HandlesOpen
  <2>4. \A h \in FileHandles :
          /\ streams'[h].open => \E g \in Objects : object'[g].handle = h
          /\ ~streams'[h].open => streams'[h] = Closed
          /\ streams'[h].buffer = Null => streams'[h].pending = <<>>
    BY <1>3, <1>5, <2>2 DEF FileI, HandlesOpen
  <2> QED BY <2>3, <2>4 DEF HandlesOpen
<1>9. Kept'
  <2>1. \A g \in Objects : object'[g].handle # Null => object'[g].handle = q
    BY <1>1, <1>2, <1>3 DEF FileI, OneHandle
  <2>2. disk' \o streams'[q].pending = wrote'
    BY <1>3, <1>4, <1>5
  <2> QED BY <1>2, <1>3, <2>1, <2>2 DEF Kept
<1> QED BY <1>6, <1>7, <1>8, <1>9 DEF FileI

\* An element behind a sequence in two parts is behind the second.
LEMMA AppendBehind ==
  ASSUME NEW s \in Seq(Nat), NEW t \in Seq(Nat), NEW m \in Nat
  PROVE  /\ s \o Append(t, m) = Append(s \o t, m)
         /\ Append(t, m) \in Seq(Nat) /\ s \o t \in Seq(Nat)
<1>1. s \o t \in Seq(Nat) /\ Append(t, m) \in Seq(Nat)
  OBVIOUS
<1> DEFINE lhs == s \o Append(t, m)
           rhs == Append(s \o t, m)
<1>2. lhs \in Seq(Nat) /\ rhs \in Seq(Nat)
  BY <1>1
<1>3. Len(lhs) = Len(rhs)
  BY <1>1
<1>4. \A i \in 1 .. Len(lhs) : lhs[i] = rhs[i]
  BY <1>1
<1>5. lhs = rhs
  BY <1>2, <1>3, <1>4
<1> QED BY <1>1, <1>5

\* write()
LEMMA WriteFileI ==
  ASSUME FileI, NEW f \in Objects, Write(f)
  PROVE  FileI'
<1>1. PICK q \in FileHandles : q = object[f].handle
  BY ObjectIs DEF Write
<1>2. object[f].handle # Null /\ disk \o streams[q].pending = wrote
  BY <1>1, ObjectIs DEF Write
<1>3. /\ streams \in [FileHandles -> [open : BOOLEAN, buffer : Buffers \cup {Null}, pending : Seq(Nat)]]
      /\ disk \in Seq(Nat) /\ wrote \in Seq(Nat)
  BY DEF FileI, FileTypes
<1>4. PICK m \in Nat : m = Len(wrote) + 1
  BY <1>3
<1>5. wrote' = Append(wrote, m) /\ object' = object /\ memory' = memory
  BY <1>4 DEF Write
<1>6. PICK p \in Seq(Nat), d \in Seq(Nat) :
        /\ streams' = [streams EXCEPT ![q].pending = p] /\ disk' = d
        /\ d \o p = wrote' /\ (streams[q].buffer = Null => p = <<>>)
  <2>1. CASE streams[q].buffer # Null /\ disk' = disk
             /\ streams' = [streams EXCEPT ![q].pending = Append(@, m)]
    <3>1. streams[q].pending \in Seq(Nat)
      BY <1>3
    <3>2. disk \o Append(streams[q].pending, m) = Append(wrote, m)
      BY <1>2, <1>3, <3>1, AppendBehind
    <3>3. Append(streams[q].pending, m) \in Seq(Nat)
      BY <3>1
    <3>4. streams' = [streams EXCEPT ![q].pending = Append(streams[q].pending, m)]
      BY <1>3, <2>1
    <3> QED BY <1>3, <1>5, <2>1, <3>2, <3>3, <3>4
  <2>2. CASE /\ disk' = Append(disk \o Flushed(q), m)
             /\ streams' = [streams EXCEPT ![q].pending = <<>>]
    <3>1. disk' = Append(wrote, m)
      BY <1>1, <1>2, <2>2, ObjectIs
    <3>2. <<>> \in Seq(Nat) /\ Append(wrote, m) \in Seq(Nat) /\ Append(wrote, m) \o <<>> = Append(wrote, m)
      BY <1>3
    <3> QED BY <1>5, <2>2, <3>1, <3>2
  <2> QED BY <1>1, <1>4, <2>1, <2>2 DEF Write
<1>7. /\ streams' \in [FileHandles -> [open : BOOLEAN, buffer : Buffers \cup {Null}, pending : Seq(Nat)]]
      /\ \A h \in FileHandles : /\ streams'[h].open = streams[h].open /\ streams'[h].buffer = streams[h].buffer
                                /\ streams'[h].pending = IF h = q THEN p ELSE streams[h].pending
                                /\ h # q => streams'[h] = streams[h]
  BY <1>3, <1>6
<1>8. FileTypes'
  <2>1. wrote' \in Seq(Nat)
    BY <1>3, <1>5
  <2> QED BY <1>5, <1>6, <1>7, <2>1 DEF FileI, FileTypes
<1>9. OneHandle' /\ BuffersOwned'
  BY <1>5 DEF FileI, OneHandle, BuffersOwned
<1>10. HandlesOpen'
  <2>1. \A g \in Objects : object'[g].handle # Null => object'[g].handle \in FileHandles
    BY <1>5, ObjectIs
  <2>2. streams[q].open
    BY <1>1, <1>2 DEF FileI, HandlesOpen
  <2>3. \A g \in Objects : object'[g].handle # Null =>
          /\ streams'[object'[g].handle].open
          /\ streams'[object'[g].handle].buffer \in {Null, object'[g].buffer}
    BY <1>5, <1>7, <2>1 DEF FileI, HandlesOpen
  <2>4. \A h \in FileHandles :
          /\ streams'[h].open => \E g \in Objects : object'[g].handle = h
          /\ ~streams'[h].open => streams'[h] = Closed
          /\ streams'[h].buffer = Null => streams'[h].pending = <<>>
    BY SMTT(30), <1>5, <1>6, <1>7, <2>2 DEF FileI, HandlesOpen
  <2> QED BY <2>3, <2>4 DEF HandlesOpen
<1>11. Kept'
  <2>1. \A g \in Objects : object'[g].handle # Null => object'[g].handle = q
    BY <1>1, <1>2, <1>5 DEF FileI, OneHandle
  <2> QED BY <1>2, <1>5, <1>6, <1>7, <2>1 DEF Kept
<1> QED BY <1>8, <1>9, <1>10, <1>11 DEF FileI

\* TryReopen(): the new FILE takes the place of the old one.
LEMMA TryReopenFileI ==
  ASSUME FileI, NEW f \in Objects, TryReopen(f)
  PROVE  FileI'
<1>1. PICK q \in FileHandles : q = object[f].handle
  BY ObjectIs DEF TryReopen
<1>2. PICK h \in FileHandles :
        /\ ~streams[h].open /\ disk' = disk \o Flushed(q)
        /\ \/ /\ streams' = [streams EXCEPT ![h] = Opened(object[f].buffer), ![q] = Closed]
              /\ object' = [object EXCEPT ![f].handle = h] /\ UNCHANGED memory
           \/ /\ streams' = [streams EXCEPT ![h] = Opened(Null), ![q] = Closed]
              /\ object' = [object EXCEPT ![f] = [Unbuffered(@) EXCEPT !.handle = h]]
              /\ memory' = Freed(memory, object[f])
  BY <1>1 DEF TryReopen
<1>3. /\ object[f].handle # Null /\ wrote' = wrote /\ disk' = wrote
      /\ object[f].buffer \in Buffers \cup {Null} /\ object[f].size \in Nat /\ object[f].resource \in BOOLEAN
      /\ object[f] = [handle |-> object[f].handle, buffer |-> object[f].buffer,
                      size |-> object[f].size, resource |-> object[f].resource]
      /\ Null \notin FileHandles /\ Null \notin Buffers
  BY <1>1, <1>2, ObjectIs, OutFileAssumption DEF TryReopen
<1>4. /\ object \in [Objects -> [handle : FileHandles \cup {Null}, buffer : Buffers \cup {Null},
                                 size : Nat, resource : BOOLEAN]]
      /\ streams \in [FileHandles -> [open : BOOLEAN, buffer : Buffers \cup {Null}, pending : Seq(Nat)]]
      /\ memory \in [Buffers -> Nat] /\ wrote \in Seq(Nat)
  BY DEF FileI, FileTypes
<1>5. streams[q].open /\ h # q
  BY <1>1, <1>2, <1>3 DEF FileI, HandlesOpen
<1>6. \A g \in Objects : g # f => object[g].handle = Null
  BY <1>3 DEF FileI, OneHandle
<1>7. \A k \in FileHandles : k # q => streams[k] = Closed
  <2> SUFFICES ASSUME NEW k \in FileHandles, k # q, streams[k].open PROVE FALSE
    BY DEF FileI, HandlesOpen
  <2>1. PICK g \in Objects : object[g].handle = k
    BY DEF FileI, HandlesOpen
  <2> QED BY <1>1, <1>3, <1>6, <2>1
<1>8. PICK b \in Buffers \cup {Null} :
        /\ b \in {Null, object[f].buffer}
        /\ streams' = [streams EXCEPT ![h] = Opened(b), ![q] = Closed]
        /\ object' = [object EXCEPT ![f] = [handle |-> h, buffer |-> b, size |-> IF b = Null THEN 0 ELSE object[f].size,
                                            resource |-> object[f].resource]]
        /\ memory' \in [Buffers -> Nat]
        /\ \A c \in Buffers : memory'[c] = IF c = object[f].buffer /\ b = Null THEN 0 ELSE memory[c]
  <2>1. CASE /\ streams' = [streams EXCEPT ![h] = Opened(object[f].buffer), ![q] = Closed]
             /\ object' = [object EXCEPT ![f].handle = h] /\ UNCHANGED memory
    <3>1. object[f].buffer = Null => object[f].size = 0
      BY DEF FileI, BuffersOwned
    <3>2. object' = [object EXCEPT ![f] = [handle |-> h, buffer |-> object[f].buffer,
                       size |-> IF object[f].buffer = Null THEN 0 ELSE object[f].size,
                       resource |-> object[f].resource]]
      <4>1. object' = [object EXCEPT ![f] = [object[f] EXCEPT !.handle = h]]
        BY <1>4, <2>1
      <4>2. object[f] \in ObjectRecords
        BY <1>4 DEF ObjectRecords
      <4> QED BY <3>1, <4>1, <4>2, WithHandle
    <3>3. \A c \in Buffers : memory'[c] = IF c = object[f].buffer /\ object[f].buffer = Null THEN 0 ELSE memory[c]
      BY <1>3, <2>1
    <3> QED BY <1>3, <1>4, <2>1, <3>2, <3>3
  <2>2. CASE /\ streams' = [streams EXCEPT ![h] = Opened(Null), ![q] = Closed]
             /\ object' = [object EXCEPT ![f] = [Unbuffered(@) EXCEPT !.handle = h]]
             /\ memory' = Freed(memory, object[f])
    <3>1. object' = [object EXCEPT ![f] = [handle |-> h, buffer |-> Null, size |-> 0,
                                           resource |-> object[f].resource]]
      <4>1. object' = [object EXCEPT ![f] = [Unbuffered(object[f]) EXCEPT !.handle = h]]
        BY <1>4, <2>2
      <4>2. object[f] \in ObjectRecords
        BY <1>4 DEF ObjectRecords
      <4>3. PICK u : u = Unbuffered(object[f])
        OBVIOUS
      <4>4. u \in ObjectRecords /\ u.buffer = Null /\ u.size = 0 /\ u.resource = object[f].resource
        BY <4>2, <4>3, UnbufferedIs
      <4>5. [u EXCEPT !.handle = h] = [handle |-> h, buffer |-> Null, size |-> 0, resource |-> object[f].resource]
        BY <4>4, WithHandle
      <4> QED BY <4>1, <4>3, <4>5
    <3> QED BY <2>2, <3>1, FreedIs
  <2> QED BY <1>2, <2>1, <2>2
<1>9. /\ object' \in [Objects -> [handle : FileHandles \cup {Null}, buffer : Buffers \cup {Null},
                                  size : Nat, resource : BOOLEAN]]
      /\ \A g \in Objects : g # f => object'[g] = object[g]
      /\ object'[f].handle = h /\ object'[f].buffer = b
      /\ object'[f].size = IF b = Null THEN 0 ELSE object[f].size
  BY <1>3, <1>4, <1>8
<1>10. /\ streams' \in [FileHandles -> [open : BOOLEAN, buffer : Buffers \cup {Null}, pending : Seq(Nat)]]
       /\ \A k \in FileHandles : streams'[k] = IF k = h THEN Opened(b) ELSE Closed
  <2>1. /\ Opened(b) \in [open : BOOLEAN, buffer : Buffers \cup {Null}, pending : Seq(Nat)]
        /\ Closed \in [open : BOOLEAN, buffer : Buffers \cup {Null}, pending : Seq(Nat)]
    BY DEF Opened, Closed
  <2> QED BY <1>4, <1>5, <1>7, <1>8, <2>1
<1>11. FileTypes'
  BY <1>3, <1>4, <1>8, <1>9, <1>10 DEF FileTypes
<1>12. OneHandle'
  BY <1>6, <1>9 DEF OneHandle
<1>13. HandlesOpen'
  <2>1. /\ Opened(b).open /\ Opened(b).buffer = b /\ Opened(b).pending = <<>>
        /\ ~Closed.open /\ Closed.pending = <<>> /\ Closed' = Closed
    BY DEF Opened, Closed
  <2>2. \A g \in Objects : object'[g].handle # Null => g = f
    BY <1>6, <1>9
  <2>3. streams'[h] = Opened(b)
    BY <1>10
  <2>4. \A g \in Objects : object'[g].handle # Null =>
          /\ streams'[object'[g].handle].open
          /\ streams'[object'[g].handle].buffer \in {Null, object'[g].buffer}
    BY <1>9, <2>1, <2>2, <2>3
  <2>5. \A k \in FileHandles :
          /\ streams'[k].open => \E g \in Objects : object'[g].handle = k
          /\ ~streams'[k].open => streams'[k] = Closed
          /\ streams'[k].buffer = Null => streams'[k].pending = <<>>
    BY <1>9, <1>10, <2>1
  <2> QED BY <2>1, <2>4, <2>5 DEF HandlesOpen
<1>14. BuffersOwned'
  <2>1. \A g \in Objects : /\ object'[g].buffer = IF g = f THEN b ELSE object[g].buffer
                           /\ object'[g].size = IF g = f THEN (IF b = Null THEN 0 ELSE object[f].size)
                                                ELSE object[g].size
                           /\ object[g].buffer \in Buffers \cup {Null}
    BY <1>9, ObjectIs
  <2>2. \A g, k \in Objects : object[g].buffer # Null /\ object[g].buffer = object[k].buffer => g = k
    BY DEF FileI, BuffersOwned
  <2>3. \A g \in Objects :
          IF object'[g].buffer = Null THEN object'[g].size = 0
          ELSE object'[g].size # 0 /\ memory'[object'[g].buffer] = object'[g].size
    <3> SUFFICES ASSUME NEW g \in Objects
                 PROVE  IF object'[g].buffer = Null THEN object'[g].size = 0
                        ELSE object'[g].size # 0 /\ memory'[object'[g].buffer] = object'[g].size
      OBVIOUS
    <3>1. IF object[g].buffer = Null THEN object[g].size = 0
          ELSE object[g].size # 0 /\ memory[object[g].buffer] = object[g].size
      BY DEF FileI, BuffersOwned
    <3>2. CASE g = f
      BY <1>8, <2>1, <3>1, <3>2
    <3>3. CASE g # f
      <4>1. object[g].buffer # Null => object[g].buffer # object[f].buffer
        BY <2>2, <3>3
      <4> QED BY <1>8, <2>1, <3>1, <3>3, <4>1
    <3> QED BY <3>2, <3>3
  <2>4. \A g, k \in Objects : object'[g].buffer # Null /\ object'[g].buffer = object'[k].buffer => g = k
    BY <1>8, <2>1, <2>2
  <2>5. \A c \in Buffers : memory'[c] # 0 => \E g \in Objects : object'[g].buffer = c
    <3> SUFFICES ASSUME NEW c \in Buffers, memory'[c] # 0 PROVE \E g \in Objects : object'[g].buffer = c
      OBVIOUS
    <3>1. memory[c] # 0
      BY <1>8
    <3>2. PICK g \in Objects : object[g].buffer = c
      BY <3>1 DEF FileI, BuffersOwned
    <3> QED BY <1>3, <1>8, <2>1, <3>2
  <2> QED BY <2>3, <2>4, <2>5 DEF BuffersOwned
<1>15. Kept'
  <2>1. streams'[h].pending = <<>> /\ wrote \o <<>> = wrote
    BY <1>4, <1>10 DEF Opened
  <2>2. \A g \in Objects : object'[g].handle # Null => object'[g].handle = h
    BY <1>6, <1>9
  <2> QED BY <1>3, <1>9, <2>1, <2>2 DEF Kept
<1> QED BY <1>11, <1>12, <1>13, <1>14, <1>15 DEF FileI

\* An object whose buffer is freed and which is given up is replaced: by one
\* without anything, or by another object, whose place is then empty.
Replaced(f) ==
  /\ CloseOf(f) /\ memory' = Freed(memory, object[f]) /\ wrote' = wrote
  /\ \/ object' = [object EXCEPT ![f] = NoFile(TRUE)]
     \/ \E g \in Objects : f # g /\ object' = [object EXCEPT ![f] = object[g], ![g] = NoFile(FALSE)]

\* The move assignment and the destructor
LEMMA ReplacedFileI ==
  ASSUME FileI, NEW f \in Objects, Replaced(f)
  PROVE  FileI'
<1>1. /\ object \in [Objects -> [handle : FileHandles \cup {Null}, buffer : Buffers \cup {Null},
                                 size : Nat, resource : BOOLEAN]]
      /\ streams \in [FileHandles -> [open : BOOLEAN, buffer : Buffers \cup {Null}, pending : Seq(Nat)]]
      /\ memory \in [Buffers -> Nat] /\ wrote \in Seq(Nat) /\ disk \in Seq(Nat)
      /\ Null \notin FileHandles /\ Null \notin Buffers
  BY OutFileAssumption DEF FileI, FileTypes
<1>2. CloseOf(f) /\ wrote' = wrote
      /\ memory' \in [Buffers -> Nat]
      /\ \A c \in Buffers : memory'[c] = IF c = object[f].buffer THEN 0 ELSE memory[c]
  BY FreedIs DEF Replaced
\* Where what an object has now came from: to is one to one, and misses f alone.
<1>3. /\ object' \in [Objects -> [handle : FileHandles \cup {Null}, buffer : Buffers \cup {Null},
                                  size : Nat, resource : BOOLEAN]]
      /\ \E e, w \in Objects :
           /\ object'[e].handle = Null /\ object'[e].buffer = Null /\ object'[e].size = 0
           /\ \A k \in Objects : k # e /\ k # w => object'[k] = object[k] /\ k # f
           /\ w # e => w = f /\ object'[w] = object[e]
           /\ w = e => e = f
  <2>1. CASE object' = [object EXCEPT ![f] = NoFile(TRUE)]
    <3>1. NoFile(TRUE) \in [handle : FileHandles \cup {Null}, buffer : Buffers \cup {Null}, size : Nat, resource : BOOLEAN]
          /\ NoFile(TRUE).handle = Null /\ NoFile(TRUE).buffer = Null /\ NoFile(TRUE).size = 0
      BY DEF NoFile
    <3>2. object' \in [Objects -> [handle : FileHandles \cup {Null}, buffer : Buffers \cup {Null},
                                   size : Nat, resource : BOOLEAN]]
          /\ object'[f] = NoFile(TRUE) /\ \A k \in Objects : k # f => object'[k] = object[k]
      BY <1>1, <2>1, <3>1
    <3> QED BY <3>1, <3>2
  <2>2. ASSUME NEW g \in Objects, f # g, object' = [object EXCEPT ![f] = object[g], ![g] = NoFile(FALSE)]
        PROVE  <1>3!1 /\ <1>3!2
    <3>1. NoFile(FALSE) \in [handle : FileHandles \cup {Null}, buffer : Buffers \cup {Null}, size : Nat, resource : BOOLEAN]
          /\ NoFile(FALSE).handle = Null /\ NoFile(FALSE).buffer = Null /\ NoFile(FALSE).size = 0
      BY DEF NoFile
    <3>2. /\ object' \in [Objects -> [handle : FileHandles \cup {Null}, buffer : Buffers \cup {Null},
                                   size : Nat, resource : BOOLEAN]]
          /\ object'[g] = NoFile(FALSE) /\ object'[f] = object[g]
          /\ \A k \in Objects : k # f /\ k # g => object'[k] = object[k]
      BY <1>1, <2>2, <3>1
    <3>3. \E e, w \in Objects :
           /\ object'[e].handle = Null /\ object'[e].buffer = Null /\ object'[e].size = 0
           /\ \A k \in Objects : k # e /\ k # w => object'[k] = object[k] /\ k # f
           /\ w # e => w = f /\ object'[w] = object[e]
           /\ w = e => e = f
      BY <2>2, <3>1, <3>2
    <3> QED BY <3>2, <3>3
  <2> QED BY <2>1, <2>2 DEF Replaced
<1>4. PICK e \in Objects, w \in Objects :
           /\ object'[e].handle = Null /\ object'[e].buffer = Null /\ object'[e].size = 0
           /\ \A k \in Objects : k # e /\ k # w => object'[k] = object[k] /\ k # f
           /\ w # e => w = f /\ object'[w] = object[e]
           /\ w = e => e = f
  BY <1>3
\* The object whose members k has now, unless it has none
<1> DEFINE from(k) == IF k = w THEN e ELSE k
<1>5. /\ \A k \in Objects : from(k) \in Objects
      /\ \A k \in Objects : k # e => object'[k] = object[from(k)] /\ from(k) # f
      /\ \A k, l \in Objects : k # e /\ l # e /\ from(k) = from(l) => k = l
      /\ \A k \in Objects : k # f => \E l \in Objects : l # e /\ from(l) = k
  BY <1>4
<1> HIDE DEF from
<1>6. FileTypes'
  BY <1>1, <1>2, <1>3, CloseIs DEF FileTypes
<1>7. OneHandle'
  BY <1>4, <1>5 DEF FileI, OneHandle
<1>8. BuffersOwned'
  <2>1. \A g \in Objects :
          IF object'[g].buffer = Null THEN object'[g].size = 0
          ELSE object'[g].size # 0 /\ memory'[object'[g].buffer] = object'[g].size
    <3> SUFFICES ASSUME NEW g \in Objects, g # e
                 PROVE  IF object'[g].buffer = Null THEN object'[g].size = 0
                        ELSE object'[g].size # 0 /\ memory'[object'[g].buffer] = object'[g].size
      BY <1>4
    <3>1. PICK k \in Objects : k = from(g)
      BY <1>5
    <3>2. k # f /\ object'[g] = object[k] /\ object[k].buffer \in Buffers \cup {Null}
      BY <1>5, <3>1, ObjectIs
    <3>3. object[k].buffer # Null => object[k].buffer # object[f].buffer
      BY <3>2 DEF FileI, BuffersOwned
    <3>4. IF object[k].buffer = Null THEN object[k].size = 0
          ELSE object[k].size # 0 /\ memory[object[k].buffer] = object[k].size
      BY DEF FileI, BuffersOwned
    <3> QED BY <1>2, <3>2, <3>3, <3>4
  <2>2. ASSUME NEW g \in Objects, NEW k \in Objects, object'[g].buffer # Null, object'[g].buffer = object'[k].buffer
        PROVE  g = k
    <3>1. g # e /\ k # e
      BY <1>4, <2>2
    <3>2. object'[g] = object[from(g)] /\ object'[k] = object[from(k)] /\ from(g) \in Objects /\ from(k) \in Objects
      BY <1>5, <3>1
    <3>3. from(g) = from(k)
      BY <2>2, <3>2 DEF FileI, BuffersOwned
    <3> QED BY <1>5, <3>1, <3>3
  <2>3. \A c \in Buffers : memory'[c] # 0 => \E g \in Objects : object'[g].buffer = c
    <3> SUFFICES ASSUME NEW c \in Buffers, memory'[c] # 0 PROVE \E g \in Objects : object'[g].buffer = c
      OBVIOUS
    <3>1. memory[c] # 0 /\ c # object[f].buffer
      BY <1>2
    <3>2. PICK k \in Objects : object[k].buffer = c
      BY <3>1 DEF FileI, BuffersOwned
    <3>3. k # f
      BY <3>1, <3>2
    <3>4. PICK l \in Objects : l # e /\ from(l) = k
      BY <1>5, <3>3
    <3> QED BY <1>5, <3>2, <3>4
  <2> QED BY <2>1, <2>2, <2>3 DEF BuffersOwned
<1>9. CASE object[f].handle = Null
  <2>1. streams' = streams /\ disk' = disk
    BY <1>2, <1>9, CloseIs
  <2>2. HandlesOpen'
    <3>1. \A g \in Objects : object'[g].handle # Null =>
            /\ streams'[object'[g].handle].open
            /\ streams'[object'[g].handle].buffer \in {Null, object'[g].buffer}
      BY <1>4, <1>5, <2>1 DEF FileI, HandlesOpen
    <3>2. ASSUME NEW h \in FileHandles, streams'[h].open PROVE \E g \in Objects : object'[g].handle = h
      <4>1. PICK k \in Objects : object[k].handle = h
        BY <2>1, <3>2 DEF FileI, HandlesOpen
      <4>2. k # f
        BY <1>1, <1>9, <4>1
      <4>3. PICK l \in Objects : l # e /\ from(l) = k
        BY <1>5, <4>2
      <4> QED BY <1>5, <4>1, <4>3
    <3>3. \A h \in FileHandles :
            /\ ~streams'[h].open => streams'[h] = Closed
            /\ streams'[h].buffer = Null => streams'[h].pending = <<>>
      BY <2>1 DEF FileI, HandlesOpen
    <3>4. Closed' = Closed
      BY DEF Closed
    <3> QED BY <3>1, <3>2, <3>3, <3>4 DEF HandlesOpen
  <2>3. Kept'
    <3>1. ASSUME NEW g \in Objects, object'[g].handle # Null
          PROVE  disk' \o streams'[object'[g].handle].pending = wrote'
      <4>1. PICK k \in Objects : k = from(g) /\ object'[g] = object[k]
        BY <1>4, <1>5, <3>1
      <4>2. object[k].handle # Null
        BY <3>1, <4>1
      <4>3. PICK h \in FileHandles : h = object[k].handle
        BY <4>2, ObjectIs
      <4>4. disk \o streams[h].pending = wrote
        BY <4>2, <4>3, ObjectIs
      <4> QED BY <1>2, <2>1, <4>1, <4>3, <4>4
    <3>2. ASSUME \A g \in Objects : object'[g].handle = Null PROVE disk' = wrote'
      <4>1. \A k \in Objects : object[k].handle = Null
        BY <1>5, <1>9, <3>2
      <4> QED BY <1>2, <2>1, <4>1 DEF FileI, Kept
    <3> QED BY <3>1, <3>2 DEF Kept
  <2> QED BY <1>6, <1>7, <1>8, <2>2, <2>3 DEF FileI
<1>10. CASE object[f].handle # Null
  <2>1. disk' = wrote' /\ \A h \in FileHandles : streams'[h] = Closed
    BY <1>2, <1>10, CloseIs
  <2>2. \A g \in Objects : object'[g].handle = Null
    BY <1>4, <1>5, <1>10 DEF FileI, OneHandle
  <2>3. HandlesOpen'
    <3>1. \A h \in FileHandles : ~streams'[h].open /\ streams'[h].pending = <<>>
      BY <2>1 DEF Closed
    <3>2. Closed' = Closed
      BY DEF Closed
    <3> QED BY <2>1, <2>2, <3>1, <3>2 DEF HandlesOpen
  <2>4. Kept'
    BY <2>1, <2>2 DEF Kept
  <2> QED BY <1>6, <1>7, <1>8, <2>3, <2>4 DEF FileI
<1> QED BY <1>9, <1>10

\* The buffers that allocating one may give: a block that is free, or none.
Fresh(f) == {Null} \cup (IF object[f].resource THEN {c \in Buffers : Freed(memory, object[f])[c] = 0} ELSE {})

\* The buffer of an object without a FILE is kept, given up or replaced.
LEMMA WithBufferIs ==
  ASSUME FileI, NEW f \in Objects, object[f].handle = Null, NEW size \in Nat,
         NEW result \in WithBuffer(object[f], memory, size)
  PROVE  \E b \in Buffers \cup {Null}, n \in Nat :
           /\ result[1] = [handle |-> Null, buffer |-> b, size |-> n, resource |-> object[f].resource]
           /\ result[2] \in [Buffers -> Nat]
           /\ b = Null <=> n = 0
           /\ \A c \in Buffers : result[2][c] = IF c = b THEN n ELSE IF c = object[f].buffer THEN 0 ELSE memory[c]
           /\ b # Null /\ b # object[f].buffer => memory[b] = 0
<1> DEFINE o == object[f]
<1>1. /\ o \in ObjectRecords /\ memory \in [Buffers -> Nat] /\ Null \notin Buffers
      /\ o = [handle |-> Null, buffer |-> o.buffer, size |-> o.size, resource |-> o.resource]
      /\ o.buffer \in Buffers \cup {Null} /\ o.size \in Nat /\ o.resource \in BOOLEAN
  BY ObjectIs, OutFileAssumption DEF FileI, FileTypes, ObjectRecords
<1>2. IF o.buffer = Null THEN o.size = 0 ELSE o.size # 0 /\ memory[o.buffer] = o.size
  BY DEF FileI, BuffersOwned
<1>3. /\ Freed(memory, o) \in [Buffers -> Nat]
      /\ \A b \in Buffers : Freed(memory, o)[b] = IF b = o.buffer THEN 0 ELSE memory[b]
  BY FreedIs
<1> HIDE DEF o
<1>4. Unbuffered(o) = [handle |-> Null, buffer |-> Null, size |-> 0, resource |-> o.resource]
      /\ Unbuffered(o) \in ObjectRecords
  BY <1>1, UnbufferedIs
<1>5. CASE result = <<o, memory>>
  BY <1>1, <1>2, <1>5 DEF o
<1>6. CASE result = <<Unbuffered(o), Freed(memory, o)>>
  BY <1>1, <1>3, <1>4, <1>6 DEF o
<1>7. CASE size # 0 /\ result \in FreshBuffer(o, memory, size)
  <2>1. PICK b \in Fresh(f) :
          result = <<IF b = Null THEN Unbuffered(o) ELSE [Unbuffered(o) EXCEPT !.buffer = b, !.size = size],
                     IF b = Null THEN Freed(memory, o) ELSE [Freed(memory, o) EXCEPT ![b] = size]>>
    BY <1>7 DEF FreshBuffer, Fresh, o
  <2>2. CASE b = Null
    BY <1>6, <2>1, <2>2
  <2>3. CASE b # Null
    <3>1. b \in Buffers /\ Freed(memory, o)[b] = 0
      BY <2>1, <2>3 DEF Fresh, o
    <3>2. /\ result[1] = [handle |-> Null, buffer |-> b, size |-> size, resource |-> o.resource]
          /\ result[2] = [Freed(memory, o) EXCEPT ![b] = size]
      <4>1. PICK p : p = [Unbuffered(o) EXCEPT !.buffer = b]
        OBVIOUS
      <4>2. p \in ObjectRecords /\ p.buffer = b /\ p.handle = Null /\ p.resource = o.resource
        BY <1>4, <3>1, <4>1 DEF ObjectRecords
      <4>3. [p EXCEPT !.size = size] = [handle |-> Null, buffer |-> b, size |-> size, resource |-> o.resource]
        BY <4>2 DEF ObjectRecords
      <4>4. [Unbuffered(o) EXCEPT !.buffer = b, !.size = size] = [p EXCEPT !.size = size]
        BY <4>1
      <4> QED BY <2>1, <2>3, <4>3, <4>4
    <3>3. /\ result[2] \in [Buffers -> Nat]
          /\ \A c \in Buffers : result[2][c] = IF c = b THEN size ELSE IF c = o.buffer THEN 0 ELSE memory[c]
      BY <1>3, <3>1, <3>2
    <3>4. b # o.buffer => memory[b] = 0
      BY <1>3, <3>1
    <3> QED BY <1>1, <1>7, <2>3, <3>1, <3>2, <3>3, <3>4 DEF o
  <2> QED BY <2>2, <2>3
<1> QED BY <1>5, <1>6, <1>7 DEF WithBuffer, o

\* open()
LEMMA OpenFileI ==
  ASSUME FileI, NEW f \in Objects, NEW truncate \in BOOLEAN, NEW size \in BufferSizes, Open(f, truncate, size)
  PROVE  FileI'
<1>1. /\ object \in [Objects -> [handle : FileHandles \cup {Null}, buffer : Buffers \cup {Null},
                                 size : Nat, resource : BOOLEAN]]
      /\ streams \in [FileHandles -> [open : BOOLEAN, buffer : Buffers \cup {Null}, pending : Seq(Nat)]]
      /\ memory \in [Buffers -> Nat] /\ wrote \in Seq(Nat) /\ disk \in Seq(Nat)
      /\ Null \notin FileHandles /\ Null \notin Buffers
  BY OutFileAssumption DEF FileI, FileTypes
<1>2. Clamp(size) \in Nat
  BY OutFileAssumption DEF Clamp, MinBuffer
<1>3. \A g \in Objects : object[g].handle = Null
  BY DEF Open
<1>4. disk = wrote /\ \A h \in FileHandles : streams[h] = Closed
  BY <1>1, <1>3 DEF FileI, Kept, HandlesOpen
<1>5. PICK result \in WithBuffer(object[f], memory, Clamp(size)) :
       LET o == result[1] IN
       /\ memory' = result[2]
       /\ \/ object' = [object EXCEPT ![f] = o] /\ UNCHANGED <<streams, disk, wrote>>
          \/ /\ o.size = Clamp(size)
             /\ disk' = IF truncate THEN <<>> ELSE disk
             /\ wrote' = IF truncate THEN <<>> ELSE wrote
             /\ \/ object' = [object EXCEPT ![f] = o] /\ UNCHANGED streams
                \/ \E h \in FileHandles :
                     /\ ~streams[h].open /\ streams' = [streams EXCEPT ![h] = Opened(o.buffer)]
                     /\ object' = [object EXCEPT ![f] = [o EXCEPT !.handle = h]]
  BY DEF Open
<1>6. PICK b \in Buffers \cup {Null}, n \in Nat :
           /\ result[1] = [handle |-> Null, buffer |-> b, size |-> n, resource |-> object[f].resource]
           /\ result[2] \in [Buffers -> Nat]
           /\ b = Null <=> n = 0
           /\ \A c \in Buffers : result[2][c] = IF c = b THEN n ELSE IF c = object[f].buffer THEN 0 ELSE memory[c]
           /\ b # Null /\ b # object[f].buffer => memory[b] = 0
  BY <1>2, <1>3, WithBufferIs
<1>7. /\ object[f].resource \in BOOLEAN /\ object[f].buffer \in Buffers \cup {Null}
      /\ \A c \in Buffers : memory'[c] = IF c = b THEN n ELSE IF c = object[f].buffer THEN 0 ELSE memory[c]
      /\ memory' \in [Buffers -> Nat]
  BY <1>5, <1>6, ObjectIs
<1>8. disk' = wrote' /\ wrote' \in Seq(Nat)
  <2>1. \/ disk' = disk /\ wrote' = wrote
        \/ disk' = <<>> /\ wrote' = <<>>
    BY <1>5
  <2>2. <<>> \in Seq(Nat)
    OBVIOUS
  <2> QED BY <1>1, <1>4, <2>1, <2>2
\* The FILE the object has then, or none
<1> DEFINE Has(h) ==
        /\ object' = [object EXCEPT ![f] = [handle |-> h, buffer |-> b, size |-> n, resource |-> object[f].resource]]
        /\ streams' = IF h = Null THEN streams ELSE [streams EXCEPT ![h] = Opened(b)]
<1>9. PICK h \in FileHandles \cup {Null} : Has(h)
  <2>1. ASSUME object' = [object EXCEPT ![f] = result[1]], streams' = streams
        PROVE  Has(Null)
    BY <1>6, <2>1
  <2>2. ASSUME NEW h \in FileHandles, streams' = [streams EXCEPT ![h] = Opened(result[1].buffer)],
               object' = [object EXCEPT ![f] = [result[1] EXCEPT !.handle = h]]
        PROVE  Has(h)
    <3>1. PICK r : r = result[1]
      OBVIOUS
    <3>2. r \in ObjectRecords /\ r.buffer = b /\ r.size = n /\ r.resource = object[f].resource
      BY <1>6, <1>7, <3>1 DEF ObjectRecords
    <3>3. [r EXCEPT !.handle = h] = [handle |-> h, buffer |-> b, size |-> n, resource |-> object[f].resource]
      BY <3>2, WithHandle
    <3> QED BY <1>1, <2>2, <3>1, <3>2, <3>3
  <2> HIDE DEF Has
  <2> QED BY <1>5, <2>1, <2>2
<1>10. /\ object' \in [Objects -> [handle : FileHandles \cup {Null}, buffer : Buffers \cup {Null},
                                  size : Nat, resource : BOOLEAN]]
       /\ \A g \in Objects : g # f => object'[g] = object[g]
       /\ object'[f].handle = h /\ object'[f].buffer = b /\ object'[f].size = n
  BY <1>1, <1>7, <1>9
<1>11. /\ streams' \in [FileHandles -> [open : BOOLEAN, buffer : Buffers \cup {Null}, pending : Seq(Nat)]]
       /\ \A k \in FileHandles : streams'[k] = IF k = h THEN Opened(b) ELSE Closed
  <2>1. /\ Opened(b) \in [open : BOOLEAN, buffer : Buffers \cup {Null}, pending : Seq(Nat)]
        /\ Closed \in [open : BOOLEAN, buffer : Buffers \cup {Null}, pending : Seq(Nat)]
    BY DEF Opened, Closed
  <2> QED BY <1>1, <1>4, <1>9, <2>1
<1>12. FileTypes'
  BY <1>7, <1>8, <1>10, <1>11 DEF FileTypes
<1>13. OneHandle'
  BY <1>3, <1>10 DEF OneHandle
<1>14. HandlesOpen'
  <2>1. /\ Opened(b).open /\ Opened(b).buffer = b /\ Opened(b).pending = <<>>
        /\ ~Closed.open /\ Closed.pending = <<>> /\ Closed' = Closed
    BY DEF Opened, Closed
  <2>2. \A g \in Objects : object'[g].handle # Null => g = f
    BY <1>3, <1>10
  <2>3. h # Null => streams'[h] = Opened(b)
    BY <1>11
  <2>4. \A g \in Objects : object'[g].handle # Null =>
          /\ streams'[object'[g].handle].open
          /\ streams'[object'[g].handle].buffer \in {Null, object'[g].buffer}
    BY <1>10, <2>1, <2>2, <2>3
  <2>5. \A k \in FileHandles :
          /\ streams'[k].open => \E g \in Objects : object'[g].handle = k
          /\ ~streams'[k].open => streams'[k] = Closed
          /\ streams'[k].buffer = Null => streams'[k].pending = <<>>
    BY <1>10, <1>11, <2>1
  <2> QED BY <2>1, <2>4, <2>5 DEF HandlesOpen
<1>15. BuffersOwned'
  <2>1. \A g \in Objects : /\ object'[g].buffer = IF g = f THEN b ELSE object[g].buffer
                           /\ object'[g].size = IF g = f THEN n ELSE object[g].size
                           /\ object[g].buffer \in Buffers \cup {Null}
    BY <1>10, ObjectIs
  <2>2. \A g, k \in Objects : object[g].buffer # Null /\ object[g].buffer = object[k].buffer => g = k
    BY DEF FileI, BuffersOwned
  \* No other object has the buffer.
  <2>3. \A g \in Objects : g # f /\ object[g].buffer # Null => object[g].buffer # b /\ object[g].buffer # object[f].buffer
    <3>1. \A g \in Objects : object[g].buffer # Null => memory[object[g].buffer] # 0
      BY DEF FileI, BuffersOwned
    <3> QED BY <1>6, <2>2, <3>1
  <2>4. \A g \in Objects :
          IF object'[g].buffer = Null THEN object'[g].size = 0
          ELSE object'[g].size # 0 /\ memory'[object'[g].buffer] = object'[g].size
    <3> SUFFICES ASSUME NEW g \in Objects
                 PROVE  IF object'[g].buffer = Null THEN object'[g].size = 0
                        ELSE object'[g].size # 0 /\ memory'[object'[g].buffer] = object'[g].size
      OBVIOUS
    <3>1. IF object[g].buffer = Null THEN object[g].size = 0
          ELSE object[g].size # 0 /\ memory[object[g].buffer] = object[g].size
      BY DEF FileI, BuffersOwned
    <3>2. CASE g = f
      BY <1>6, <1>7, <2>1, <3>2
    <3>3. CASE g # f
      BY <1>7, <2>1, <2>3, <3>1, <3>3
    <3> QED BY <3>2, <3>3
  <2>5. \A g, k \in Objects : object'[g].buffer # Null /\ object'[g].buffer = object'[k].buffer => g = k
    BY <2>1, <2>2, <2>3
  <2>6. \A c \in Buffers : memory'[c] # 0 => \E g \in Objects : object'[g].buffer = c
    <3> SUFFICES ASSUME NEW c \in Buffers, memory'[c] # 0 PROVE \E g \in Objects : object'[g].buffer = c
      OBVIOUS
    <3>1. CASE c = b
      BY <2>1, <3>1
    <3>2. CASE c # b
      <4>1. c # object[f].buffer /\ memory[c] # 0
        BY <1>7, <3>2
      <4>2. PICK g \in Objects : object[g].buffer = c
        BY <4>1 DEF FileI, BuffersOwned
      <4> QED BY <2>1, <4>1, <4>2
    <3> QED BY <3>1, <3>2
  <2> QED BY <2>4, <2>5, <2>6 DEF BuffersOwned
<1>16. Kept'
  <2>1. \A g \in Objects : object'[g].handle # Null => object'[g].handle = h /\ h \in FileHandles
    BY <1>3, <1>10
  <2>2. h \in FileHandles => streams'[h].pending = <<>>
    BY <1>11 DEF Opened
  <2>3. wrote' \o <<>> = wrote'
    BY <1>8
  <2> QED BY <1>8, <2>1, <2>2, <2>3 DEF Kept
<1> QED BY <1>12, <1>13, <1>14, <1>15, <1>16 DEF FileI

\* Every operation of an object preserves the invariant.
LEMMA NextFileI ==
  ASSUME FileI, [FileNext]_fileVars
  PROVE  FileI'
<1>1. CASE FileNext
  <2>1. PICK f \in Objects :
          \/ \E truncate \in BOOLEAN, size \in BufferSizes : Open(f, truncate, size)
          \/ TryReopen(f) \/ Close(f) \/ FlushFile(f) \/ Write(f) \/ DestroyFile(f)
          \/ \E g \in Objects : Move(f, g)
    BY <1>1 DEF FileNext
  <2>2. CASE \E truncate \in BOOLEAN, size \in BufferSizes : Open(f, truncate, size)
    BY <2>2, OpenFileI
  <2>3. CASE DestroyFile(f) \/ \E g \in Objects : Move(f, g)
    <3>1. Replaced(f)
      BY <2>3 DEF Replaced, DestroyFile, Move
    <3> QED BY <3>1, ReplacedFileI
  <2> QED BY <2>1, <2>2, <2>3, TryReopenFileI, CloseFileI, FlushFileI, WriteFileI
<1>2. CASE UNCHANGED fileVars
  BY <1>2 DEF fileVars, FileI, FileTypes, OneHandle, HandlesOpen, BuffersOwned, Kept, Closed
<1> QED BY <1>1, <1>2

\* What the invariant says of the files.
LEMMA FileIImplies == FileI => FileIsIntact
<1> SUFFICES ASSUME FileI PROVE FileIsIntact
  OBVIOUS
<1>1. Null \notin FileHandles /\ Null \notin Buffers
  BY OutFileAssumption
<1>2. FilesOwned
  <2>1. \A h \in FileHandles : streams[h].open <=> \E f \in Objects : object[f].handle = h
    BY <1>1 DEF FileI, HandlesOpen
  <2>2. ASSUME NEW b \in Buffers, memory[b] = 0, NEW f \in Objects PROVE object[f].buffer # b
    BY <1>1, <2>2 DEF FileI, BuffersOwned
  <2>3. ASSUME NEW b \in Buffers, memory[b] # 0
        PROVE  Cardinality({f \in Objects : object[f].buffer = b /\ object[f].size = memory[b]}) = 1
    <3>1. PICK f \in Objects : object[f].buffer = b
      BY <2>3 DEF FileI, BuffersOwned
    <3>2. object[f].size = memory[b]
      BY <1>1, <3>1 DEF FileI, BuffersOwned
    <3>3. \A g \in Objects : object[g].buffer = b => g = f
      BY <1>1, <3>1 DEF FileI, BuffersOwned
    <3>4. {g \in Objects : object[g].buffer = b /\ object[g].size = memory[b]} = {f}
      BY <3>1, <3>2, <3>3
    <3> QED BY <3>4, FS_Singleton
  <2>4. ASSUME NEW h \in FileHandles, streams[h].buffer # Null PROVE memory[streams[h].buffer] # 0
    <3>1. streams[h].open
      BY <2>4 DEF FileI, HandlesOpen, Closed
    <3>2. PICK f \in Objects : object[f].handle = h
      BY <3>1 DEF FileI, HandlesOpen
    <3>3. streams[h].buffer = object[f].buffer
      BY <1>1, <2>4, <3>2 DEF FileI, HandlesOpen
    <3> QED BY <2>4, <3>3 DEF FileI, BuffersOwned
  <2>5. \A f \in Objects : object[f].size = 0 <=> object[f].buffer = Null
    BY DEF FileI, BuffersOwned
  <2> QED BY <2>1, <2>2, <2>3, <2>4, <2>5 DEF FilesOwned
<1>3. WritesKept
  <2> DEFINE pending == {h \in FileHandles : streams[h].pending # <<>>}
  <2>1. ASSUME NEW h \in FileHandles, streams[h].pending # <<>>
        PROVE  \E f \in Objects : object[f].handle = h /\ object[f].handle # Null
    <3>1. streams[h].open
      BY <2>1 DEF FileI, HandlesOpen, Closed
    <3> QED BY <1>1, <3>1 DEF FileI, HandlesOpen
  <2>2. CASE pending = {}
    <3>1. CASE \A f \in Objects : object[f].handle = Null
      BY <2>2, <3>1 DEF FileI, Kept, WritesKept
    <3>2. CASE \E f \in Objects : object[f].handle # Null
      <4>1. PICK f \in Objects : object[f].handle # Null
        BY <3>2
      <4>2. PICK h \in FileHandles : h = object[f].handle
        BY <4>1, ObjectIs
      <4>3. disk \o streams[h].pending = wrote /\ streams[h].pending = <<>> /\ disk \in Seq(Nat)
        BY <2>2, <4>1, <4>2, ObjectIs DEF FileI, FileTypes
      <4>4. disk \o <<>> = disk
        BY <4>3
      <4> QED BY <2>2, <4>3, <4>4 DEF WritesKept
    <3> QED BY <3>1, <3>2
  <2>3. CASE pending # {}
    <3>1. PICK h \in FileHandles : streams[h].pending # <<>>
      BY <2>3
    <3>2. PICK f \in Objects : object[f].handle = h /\ object[f].handle # Null
      BY <2>1, <3>1
    <3>3. disk \o streams[h].pending = wrote
      BY <3>2, ObjectIs
    <3>4. pending = {h}
      BY <2>1, <3>1, <3>2 DEF FileI, OneHandle
    <3> QED BY <2>3, <3>3, <3>4 DEF WritesKept
  <2> QED BY <2>2, <2>3
<1> QED BY <1>2, <1>3 DEF FileIsIntact

\* Whatever the system refuses, in any order of the operations: every FILE and
\* every buffer has one owner, and the file is what was written to it.
THEOREM FilesAreIntact == FileInit /\ [][FileNext]_fileVars => []FileIsIntact
<1> QED BY InitFileI, NextFileI, FileIImplies, PTL

-----------------------------------------------------------------------------
(***************************************************************************)
(* Filters.  A handle has memory for itself (AloneI), memory that is in    *)
(* use has a handle (AllottedI), and the bits in it are what the handle    *)
(* was told (TellsI).  That takes what the loop over a range of channels   *)
(* comes to: TurnIs, for each of its turns.                                *)
(***************************************************************************)

\* A set of naturals that is not empty has a least element.
LEMMA LeastOf ==
  ASSUME NEW T \in SUBSET Nat, T # {}
  PROVE  \E n \in T : \A m \in T : n <= m
<1> DEFINE R == OpToRel(<, Nat)
<1>1. IsWellFoundedOn(R, Nat)
  BY NatLessThanWellFounded
<1>2. \A m, n \in Nat : m < n => <<m, n>> \in R
  BY DEF OpToRel
<1> HIDE DEF R
<1>3. PICK n \in T : \A m \in T : ~(<<m, n>> \in R)
  BY <1>1, WFMin
<1>4. \A m \in T : m \in Nat /\ n \in Nat /\ ~(m < n)
  BY <1>2, <1>3
<1>5. \A m \in T : n <= m
  BY <1>4
<1> QED  BY <1>5

\* Every channel has a bit ...
LEMMA BitOf ==
  ASSUME NEW c \in Channels
  PROVE  c \div WordBits \in 0 .. Words - 1 /\ c % WordBits \in 0 .. WordBits - 1
<1>1. /\ Words \in Nat /\ Words >= 1 /\ WordBits \in Nat /\ WordBits >= 1
      /\ c \in Nat /\ c < Words * WordBits
  <2>1. Words \in Nat /\ Words >= 1 /\ WordBits \in Nat /\ WordBits >= 1
    BY FilterAssumption DEF FilterAssumption
  <2>2. Words * WordBits \in Nat
    BY <2>1
  <2> QED BY <2>1, <2>2 DEF Channels
<1>2. PICK w \in Nat : w = c \div WordBits
  BY <1>1
<1>3. PICK b \in Nat : b = c % WordBits
  BY <1>1
<1>4. c = WordBits * w + b /\ b < WordBits
  BY <1>1, <1>2, <1>3
<1>5. w < Words
  BY <1>1, <1>4, SMTT(30)
<1> QED BY <1>1, <1>2, <1>3, <1>4, <1>5

\* ... of its own.
LEMMA BitsApart ==
  ASSUME NEW c \in Channels, NEW e \in Channels,
         c \div WordBits = e \div WordBits, c % WordBits = e % WordBits
  PROVE  c = e
<1>1. WordBits \in Nat /\ WordBits >= 1 /\ c \in Int /\ e \in Int
  BY FilterAssumption DEF FilterAssumption, Channels
<1>2. /\ c = WordBits * (c \div WordBits) + (c % WordBits)
      /\ e = WordBits * (e \div WordBits) + (e % WordBits)
  BY <1>1
<1> QED BY <1>2

\* The bit of a channel is set.
HasBit(d, c) == c % WordBits \in d.channels[c \div WordBits]

\* The data with the bits of some channels added.
WithBits(d, S) ==
  [levels |-> d.levels,
   channels |-> [w \in 0 .. Words - 1 |->
                   d.channels[w] \cup {c % WordBits : c \in {e \in S : e \div WordBits = w}}]]

\* Adding channels sets their bits and no other.
LEMMA WithBitsIs ==
  ASSUME NEW d \in FilterData, NEW S \in SUBSET Channels
  PROVE  /\ WithBits(d, S) \in FilterData /\ WithBits(d, S).levels = d.levels
         /\ \A e \in Channels : HasBit(WithBits(d, S), e) <=> HasBit(d, e) \/ e \in S
<1>1. ASSUME NEW e \in Channels PROVE HasBit(WithBits(d, S), e) <=> HasBit(d, e) \/ e \in S
  <2>1. e \div WordBits \in 0 .. Words - 1
    BY BitOf
  <2>2. WithBits(d, S).channels[e \div WordBits] =
          d.channels[e \div WordBits] \cup
            {c % WordBits : c \in {x \in S : x \div WordBits = e \div WordBits}}
    BY <2>1 DEF WithBits
  <2>3. \A x \in S : x \div WordBits = e \div WordBits /\ x % WordBits = e % WordBits => x = e
    BY BitsApart
  <2> QED BY <2>2, <2>3 DEF HasBit
<1>2. \A w \in 0 .. Words - 1 :
        d.channels[w] \cup {c % WordBits : c \in {e \in S : e \div WordBits = w}}
          \in SUBSET (0 .. WordBits - 1)
  <2>1. \A w \in 0 .. Words - 1 : d.channels[w] \in SUBSET (0 .. WordBits - 1)
    BY DEF FilterData
  <2>2. \A e \in S : e % WordBits \in 0 .. WordBits - 1
    BY BitOf
  <2> QED BY <2>1, <2>2
<1>3. WithBits(d, S).levels = d.levels /\ d.levels \in SUBSET (0 .. 7)
  BY DEF WithBits, FilterData
<1> QED BY <1>1, <1>2, <1>3 DEF WithBits, FilterData

\* One channel more.
LEMMA OneMoreBit ==
  ASSUME NEW d \in FilterData, NEW S \in SUBSET Channels, NEW c \in Channels
  PROVE  AddOneChannel(WithBits(d, S), c) = WithBits(d, S \cup {c})
<1> DEFINE w == c \div WordBits
           b == c % WordBits
           old(x) == d.channels[x] \cup {e % WordBits : e \in {y \in S : y \div WordBits = x}}
           new(x) == d.channels[x] \cup {e % WordBits : e \in {y \in S \cup {c} : y \div WordBits = x}}
<1>1. w \in 0 .. Words - 1
  BY BitOf
<1>2. \A x : new(x) = IF x = w THEN old(x) \cup {b} ELSE old(x)
  OBVIOUS
<1>3. WithBits(d, S) = [levels |-> d.levels, channels |-> [x \in 0 .. Words - 1 |-> old(x)]]
  BY DEF WithBits
<1>4. WithBits(d, S \cup {c}) = [levels |-> d.levels, channels |-> [x \in 0 .. Words - 1 |-> new(x)]]
  BY DEF WithBits
<1>5. AddOneChannel(WithBits(d, S), c) = [WithBits(d, S) EXCEPT !.channels[w] = @ \cup {b}]
  BY DEF AddOneChannel
<1> HIDE DEF w, b, old, new
<1>6. AddOneChannel(WithBits(d, S), c) =
        [levels |-> d.levels,
         channels |-> [[x \in 0 .. Words - 1 |-> old(x)] EXCEPT ![w] = @ \cup {b}]]
  <2>1. PICK f : f = [x \in 0 .. Words - 1 |-> old(x)]
    OBVIOUS
  <2>2. [[levels |-> d.levels, channels |-> f] EXCEPT !.channels[w] = @ \cup {b}] =
          [levels |-> d.levels, channels |-> [f EXCEPT ![w] = @ \cup {b}]]
    OBVIOUS
  <2> QED BY <1>3, <1>5, <2>1, <2>2, Zenon
<1>7. [[x \in 0 .. Words - 1 |-> old(x)] EXCEPT ![w] = @ \cup {b}] = [x \in 0 .. Words - 1 |-> new(x)]
  BY <1>1, <1>2
<1> QED BY <1>4, <1>6, <1>7

\* No channel more.
LEMMA NoMoreBit ==
  ASSUME NEW d \in FilterData
  PROVE  WithBits(d, {}) = d
BY DEF WithBits, FilterData

\* The turns of the loop, as AddChannelsTo defines them.
IsTurns(t, d, first) ==
  t = [n \in Channels |-> IF n = 0 THEN AddOneChannel(d, first)
                          ELSE AddOneChannel(t[n - 1], (first + n) % (Words * WordBits))]

\* The channels the loop has reached.
Reached(first, n) == {(first + i) % (Words * WordBits) : i \in 0 .. n}

\* What channels are.
LEMMA ChannelsAre ==
  /\ Words * WordBits \in Nat /\ Words * WordBits >= 1
  /\ \A n \in Nat : n % (Words * WordBits) \in Channels
  /\ \A n \in Channels : n \in Nat /\ n % (Words * WordBits) = n
<1>1. PICK m \in Nat : m = Words * WordBits /\ m >= 1
  <2>1. Words \in Nat /\ Words >= 1 /\ WordBits \in Nat /\ WordBits >= 1
    BY FilterAssumption DEF FilterAssumption
  <2>2. Words * WordBits \in Nat /\ Words * WordBits >= 1
    BY <2>1, SMTT(30)
  <2> QED BY <2>2
<1>2. Channels = 0 .. m - 1
  BY <1>1 DEF Channels
<1>3. \A n \in Nat : n % m \in 0 .. m - 1
  BY <1>1
<1>4. \A n \in 0 .. m - 1 : n \in Nat /\ n % m = n
  BY <1>1
<1> QED BY <1>1, <1>2, <1>3, <1>4

\* What one turn does.
LEMMA TurnStep ==
  ASSUME NEW d \in FilterData, NEW first \in Channels, NEW n \in Channels
  PROVE  WithBits(d, Reached(first, n)) =
           IF n = 0 THEN AddOneChannel(d, first)
           ELSE AddOneChannel(WithBits(d, Reached(first, n - 1)), (first + n) % (Words * WordBits))
<1>0. PICK m \in Nat : m = Words * WordBits /\ m >= 1
  BY ChannelsAre
<1>1. n \in Nat /\ first \in Nat
  BY ChannelsAre
<1>2. CASE n = 0
  <2>1. Reached(first, n) = {first}
    <3>1. 0 .. 0 = {0}
      OBVIOUS
    <3>2. (first + 0) % m = first
      BY <1>0, <1>1, ChannelsAre
    <3> QED BY <1>0, <1>2, <3>1, <3>2 DEF Reached
  <2>2. AddOneChannel(WithBits(d, {}), first) = WithBits(d, {} \cup {first})
    BY OneMoreBit
  <2>3. {} \cup {first} = {first}
    OBVIOUS
  <2> QED BY <1>2, <2>1, <2>2, <2>3, NoMoreBit
<1>3. CASE n # 0
  <2>1. PICK k \in Nat : n = k + 1
    <3>1. n - 1 \in Nat /\ n = (n - 1) + 1
      BY <1>1, <1>3
    <3> QED BY <3>1
  <2>2. n - 1 = k
    BY <2>1
  <2>3. /\ (first + n) % m \in Channels /\ Reached(first, k) \in SUBSET Channels
        /\ Reached(first, n) = Reached(first, k) \cup {(first + n) % m}
    <3>1. \A i \in 0 .. n : first + i \in Nat
      BY <1>1
    <3>2. \A i \in 0 .. n : (first + i) % m \in Channels
      BY <1>0, <3>1, ChannelsAre
    <3>3. 0 .. n = (0 .. k) \cup {n}
      BY <1>1, <2>1
    <3> QED BY <1>0, <3>2, <3>3 DEF Reached
  <2>4. AddOneChannel(WithBits(d, Reached(first, k)), (first + n) % m) = WithBits(d, Reached(first, n))
    BY <2>3, OneMoreBit
  <2> QED BY <1>0, <1>3, <2>2, <2>4, Zenon
<1> QED BY <1>2, <1>3

\* The loop has turns.
LEMMA TurnsExist ==
  ASSUME NEW d \in FilterData, NEW first \in Channels
  PROVE  \E t : IsTurns(t, d, first)
<1> DEFINE st == [n \in Channels |-> WithBits(d, Reached(first, n))]
<1>1. ASSUME NEW n \in Channels
      PROVE  st[n] = IF n = 0 THEN AddOneChannel(d, first)
                     ELSE AddOneChannel(st[n - 1], (first + n) % (Words * WordBits))
  <2>1. n # 0 => n - 1 \in Channels
    <3>1. PICK m \in Nat : m = Words * WordBits
      BY ChannelsAre
    <3> QED BY <3>1 DEF Channels
  <2>2. st[n] = WithBits(d, Reached(first, n))
    OBVIOUS
  <2>3. n # 0 => st[n - 1] = WithBits(d, Reached(first, n - 1))
    BY <2>1
  <2> HIDE DEF st
  <2> QED BY <2>2, <2>3, TurnStep
<1>2. DOMAIN st = Channels /\ st = [n \in Channels |-> st[n]]
  OBVIOUS
<1> HIDE DEF st
<1>3. IsTurns(st, d, first)
  BY <1>1, <1>2 DEF IsTurns
<1> QED BY <1>3

\* What each turn has done.
LEMMA TurnIs ==
  ASSUME NEW d \in FilterData, NEW first \in Channels, NEW t, IsTurns(t, d, first)
  PROVE  \A n \in Channels : t[n] = WithBits(d, Reached(first, n))
<1> DEFINE T == {n \in Channels : t[n] # WithBits(d, Reached(first, n))}
<1> SUFFICES ASSUME T # {} PROVE FALSE
  OBVIOUS
<1>1. T \in SUBSET Nat
  BY ChannelsAre
<1> HIDE DEF T
<1>2. PICK n \in T : \A k \in T : n <= k
  BY <1>1, LeastOf
<1>3. n \in Channels /\ n \in Nat /\ t[n] # WithBits(d, Reached(first, n))
  BY <1>2, ChannelsAre DEF T
<1>4. t[n] = IF n = 0 THEN AddOneChannel(d, first)
             ELSE AddOneChannel(t[n - 1], (first + n) % (Words * WordBits))
  BY <1>3 DEF IsTurns
<1>5. n # 0 => t[n - 1] = WithBits(d, Reached(first, n - 1))
  <2> SUFFICES ASSUME n # 0 PROVE t[n - 1] = WithBits(d, Reached(first, n - 1))
    OBVIOUS
  <2>1. n - 1 \in Channels
    <3>1. PICK m \in Nat : m = Words * WordBits
      BY ChannelsAre
    <3> QED BY <1>3, <3>1 DEF Channels
  <2>2. ~(n <= n - 1)
    BY <1>3
  <2> QED BY <1>2, <2>1, <2>2 DEF T
<1> QED BY <1>3, <1>4, <1>5, TurnStep

\* The ends of a range, whichever is the lower one.
LEMMA EndsAre ==
  ASSUME NEW S \in SUBSET Nat, NEW a \in S, NEW b \in S
  PROVE  /\ Lower(a, b) \in S /\ Higher(a, b) \in S /\ Lower(a, b) <= Higher(a, b)
BY DEF Lower, Higher

\* Adding a range of channels sets the bits of the channels between its ends.
LEMMA AddChannelsIs ==
  ASSUME NEW d \in FilterData, NEW first \in Channels, NEW last \in Channels
  PROVE  AddChannels(d, first, last) = WithBits(d, Lower(first, last) .. Higher(first, last))
<1>0. PICK m \in Nat : m = Words * WordBits /\ m >= 1
  BY ChannelsAre
<1>1. PICK a \in Channels : a = Lower(first, last)
  BY ChannelsAre, EndsAre
<1>2. PICK b \in Channels : b = Higher(first, last)
  BY ChannelsAre, EndsAre
<1>3. a \in Nat /\ b \in Nat /\ a <= b /\ b < m
  <2>1. Lower(first, last) <= Higher(first, last)
    BY ChannelsAre, EndsAre
  <2> QED BY <1>0, <1>1, <1>2, <2>1, ChannelsAre DEF Channels
<1>4. PICK n \in Nat : n = b - a
  <2>1. b - a \in Nat
    BY <1>3
  <2> QED BY <2>1
<1>5. n \in Channels /\ n % m = n
  <2>1. n \in Channels
    BY <1>0, <1>3, <1>4 DEF Channels
  <2> QED BY <1>0, <2>1, ChannelsAre
<1>6. PICK t : IsTurns(t, d, a) /\ AddChannelsTo(d, a, b) = t[n % m]
  <2>1. IsTurns(CHOOSE t : IsTurns(t, d, a), d, a)
    BY TurnsExist
  <2>2. AddChannelsTo(d, a, b) = (CHOOSE t : IsTurns(t, d, a))[(b - a) % (Words * WordBits)]
    BY DEF AddChannelsTo, IsTurns
  <2> QED BY <1>0, <1>4, <2>1, <2>2
<1>7. t[n] = WithBits(d, Reached(a, n))
  BY <1>5, <1>6, TurnIs
<1>8. Reached(a, n) = a .. b
  <2>1. \A i \in 0 .. n : a + i \in a .. b /\ a + i \in Channels
    BY <1>0, <1>3, <1>4 DEF Channels
  <2>2. \A i \in 0 .. n : (a + i) % m = a + i
    BY <1>0, <2>1, ChannelsAre
  <2>3. \A x \in a .. b : x - a \in 0 .. n /\ a + (x - a) = x
    BY <1>3, <1>4
  <2>4. \A x \in a .. b : \E i \in 0 .. n : x = (a + i) % m
    BY <2>2, <2>3
  <2> QED BY <1>0, <2>1, <2>2, <2>4 DEF Reached
<1> QED BY <1>1, <1>2, <1>5, <1>6, <1>7, <1>8 DEF AddChannels

-----------------------------------------------------------------------------
\* The filters: what kinds of values there are.
FilterTypeI ==
  /\ block \in [Blocks -> FilterData \cup {NoBlock}]
  /\ pimpl \in [Handles -> Blocks \cup {NoBlock}]
  /\ wanted \in [Handles -> [levels : SUBSET (0 .. 7), channels : SUBSET Channels]]

\* No two handles share memory.
AloneI == \A h, k \in Handles : pimpl[h] # NoBlock /\ pimpl[h] = pimpl[k] => h = k

\* Memory is allocated exactly when a handle has it.
AllottedI == \A b \in Blocks : block[b] # NoBlock <=> \E h \in Handles : pimpl[h] = b

\* The bits of d are what was asked.
Tells(d, asked) ==
  /\ d.levels = asked.levels
  /\ \A c \in Channels : HasBit(d, c) <=> c \in asked.channels
TellsI == \A h \in Handles : pimpl[h] # NoBlock => Tells(block[pimpl[h]], wanted[h])

\* The invariant of the filters.
FilterI == FilterTypeI /\ AloneI /\ AllottedI /\ TellsI

\* Initially there are no filters.
LEMMA InitFilterI == FilterInit => FilterI
<1> SUFFICES ASSUME FilterInit PROVE FilterI
  OBVIOUS
<1>1. NoBlock \notin Blocks
  BY FilterAssumption DEF FilterAssumption
<1> QED BY <1>1 DEF FilterInit, FilterI, FilterTypeI, AloneI, AllottedI, TellsI, Nothing, Asked

\* A range of channels is added to the data and to what is asked.
LEMMA ChannelsTell ==
  ASSUME NEW d \in FilterData, NEW asked, Tells(d, asked),
         NEW first \in Channels, NEW last \in Channels
  PROVE  LET R == Lower(first, last) .. Higher(first, last)
             g == AddChannels(d, first, last)
         IN  /\ R \in SUBSET Channels
             /\ g \in FilterData /\ g.levels = d.levels
             /\ \A c \in Channels : HasBit(g, c) <=> c \in asked.channels \cup R
<1>1. PICK m \in Nat : m = Words * WordBits /\ m >= 1
  BY ChannelsAre
<1>2. Lower(first, last) \in Channels /\ Higher(first, last) \in Channels
  BY ChannelsAre, EndsAre
<1>3. PICK R \in SUBSET Channels : R = Lower(first, last) .. Higher(first, last)
  <2>1. Lower(first, last) .. Higher(first, last) \in SUBSET Channels
    BY <1>1, <1>2 DEF Channels
  <2> QED BY <2>1
<1>4. AddChannels(d, first, last) = WithBits(d, R)
  BY <1>3, AddChannelsIs
<1>5. /\ WithBits(d, R) \in FilterData /\ WithBits(d, R).levels = d.levels
      /\ \A e \in Channels : HasBit(WithBits(d, R), e) <=> HasBit(d, e) \/ e \in R
  BY WithBitsIs
<1> QED BY <1>3, <1>4, <1>5 DEF Tells

\* A range of levels too.
LEMMA LevelsTell ==
  ASSUME NEW d \in FilterData, NEW first \in 0 .. 7, NEW last \in 0 .. 7
  PROVE  LET R == Lower(first, last) .. Higher(first, last)
             g == AddLevels(d, first, last)
         IN  /\ R \in SUBSET (0 .. 7)
             /\ g \in FilterData /\ g.levels = d.levels \cup R /\ g.channels = d.channels
<1>1. Lower(first, last) .. Higher(first, last) \in SUBSET (0 .. 7)
  BY DEF Lower, Higher
<1> QED BY <1>1 DEF AddLevels, FilterData

\* The data a constructor sets up.
LEMMA MadeIs ==
  ASSUME NEW level \in Levels
  PROVE  /\ InitLevels(Empty, level) \in FilterData
         /\ InitLevels(Empty, level).levels = LevelsUpTo(level)
         /\ LevelsUpTo(level) \in SUBSET (0 .. 7)
         /\ \A c \in Channels : ~HasBit(InitLevels(Empty, level), c)
         /\ Empty \in FilterData /\ Empty.levels = {} /\ \A c \in Channels : ~HasBit(Empty, c)
<1>1. Empty \in FilterData /\ Empty.levels = {}
  BY DEF Empty, FilterData
<1>2. \A c \in Channels : ~HasBit(Empty, c)
  BY BitOf DEF Empty, HasBit
<1>3. level \in 0 .. 7
  BY FilterAssumption DEF FilterAssumption
<1>4. CASE level = 0
  <2>1. InitLevels(Empty, level) = Empty
    BY <1>4 DEF InitLevels, NoLevel
  <2>2. LevelsUpTo(level) = {}
    BY <1>4 DEF LevelsUpTo, AllLevels
  <2> QED BY <1>1, <1>2, <2>1, <2>2
<1>5. CASE level # 0
  <2> DEFINE top == IF level = 7 THEN 6 ELSE level
  <2>1. top \in 1 .. 6 /\ 1 \in 0 .. 7 /\ top \in 0 .. 7
    BY <1>3, <1>5
  <2>2. InitLevels(Empty, level) = AddLevels(Empty, 1, top)
    BY <1>5 DEF InitLevels, NoLevel, AllLevels, Fatal, Trace
  <2>3. LevelsUpTo(level) = 1 .. top
    BY DEF LevelsUpTo, AllLevels
  <2> HIDE DEF top
  <2>4. Lower(1, top) = 1 /\ Higher(1, top) = top
    BY <2>1 DEF Lower, Higher
  <2>5. /\ AddLevels(Empty, 1, top) \in FilterData
        /\ AddLevels(Empty, 1, top).levels = {} \cup (1 .. top)
        /\ AddLevels(Empty, 1, top).channels = Empty.channels
    BY ZenonT(30), <1>1, <2>1, <2>4, LevelsTell
  <2>6. 1 .. top \in SUBSET (0 .. 7)
    BY <2>1
  <2> QED BY <1>1, <1>2, <2>2, <2>3, <2>5, <2>6 DEF HasBit
<1> QED BY <1>4, <1>5

\* A new filter, in memory nobody has.
LEMMA NewFilterI ==
  ASSUME FilterI, NEW h \in Handles, NEW b, Unused(h), Got(b), NEW d \in FilterData,
         NEW asked \in [levels : SUBSET (0 .. 7), channels : SUBSET Channels], Tells(d, asked),
         NEW none \in [levels : SUBSET (0 .. 7), channels : SUBSET Channels],
         pimpl' = [pimpl EXCEPT ![h] = b],
         block' = IF b = NoBlock THEN block ELSE [block EXCEPT ![b] = d],
         wanted' = [wanted EXCEPT ![h] = IF b = NoBlock THEN none ELSE asked]
  PROVE  FilterI'
<1>t. /\ FilterTypeI /\ AloneI /\ AllottedI /\ TellsI
      /\ NoBlock \notin Blocks /\ NoBlock \notin FilterData
      /\ b \in Blocks \cup {NoBlock} /\ pimpl[h] = NoBlock
  BY FilterAssumption DEF FilterI, FilterAssumption, Got, Unused
<1>1. FilterTypeI'
  BY <1>t DEF FilterTypeI
<1>2. /\ pimpl'[h] = b /\ (b = NoBlock => block' = block)
      /\ b # NoBlock => /\ block[b] = NoBlock /\ block'[b] = d /\ wanted'[h] = asked
                        /\ \A k \in Handles : pimpl[k] # b
      /\ \A x \in Blocks : x # b => block'[x] = block[x]
      /\ \A k \in Handles : k # h => pimpl'[k] = pimpl[k] /\ wanted'[k] = wanted[k]
  BY <1>t DEF FilterTypeI, Got, AllottedI
<1>3. AloneI'
  BY <1>t, <1>2 DEF AloneI
<1>4. AllottedI'
  BY <1>t, <1>2 DEF AllottedI
<1>5. TellsI'
  <2> SUFFICES ASSUME NEW k \in Handles, pimpl'[k] # NoBlock
               PROVE  Tells(block'[pimpl'[k]], wanted'[k])
    BY DEF TellsI, Tells, HasBit
  <2>1. CASE k = h
    BY <1>2, <2>1
  <2>2. CASE k # h
    <3>1. pimpl[k] \in Blocks /\ pimpl[k] # b
      BY <1>t, <1>2, <2>2 DEF FilterTypeI
    <3> QED BY <1>t, <1>2, <2>2, <3>1 DEF TellsI
  <2> QED BY <2>1, <2>2
<1> QED BY <1>1, <1>3, <1>4, <1>5 DEF FilterI

\* Bits are added to a filter, or copied over it.
LEMMA SetFilterI ==
  ASSUME FilterI, NEW h \in Handles, ~Unused(h), NEW d \in FilterData,
         NEW asked \in [levels : SUBSET (0 .. 7), channels : SUBSET Channels], Tells(d, asked),
         block' = [block EXCEPT ![pimpl[h]] = d],
         wanted' = [wanted EXCEPT ![h] = asked],
         UNCHANGED pimpl
  PROVE  FilterI'
<1>t. /\ FilterTypeI /\ AloneI /\ AllottedI /\ TellsI
      /\ NoBlock \notin FilterData
      /\ pimpl[h] \in Blocks /\ pimpl[h] # NoBlock
  BY FilterAssumption DEF FilterI, FilterAssumption, Unused, FilterTypeI
<1>1. FilterTypeI'
  BY <1>t DEF FilterTypeI
<1>2. /\ block'[pimpl[h]] = d /\ wanted'[h] = asked
      /\ \A x \in Blocks : x # pimpl[h] => block'[x] = block[x]
      /\ \A k \in Handles : k # h => wanted'[k] = wanted[k]
  BY <1>t DEF FilterTypeI
<1>3. AloneI'
  BY <1>t DEF AloneI
<1>4. AllottedI'
  BY <1>t, <1>2 DEF AllottedI
<1>5. TellsI'
  <2> SUFFICES ASSUME NEW k \in Handles, pimpl[k] # NoBlock
               PROVE  Tells(block'[pimpl[k]], wanted'[k])
    BY DEF TellsI, Tells, HasBit
  <2>1. CASE k = h
    BY <1>2, <2>1
  <2>2. CASE k # h
    <3>1. pimpl[k] \in Blocks /\ pimpl[k] # pimpl[h]
      BY <1>t, <2>2 DEF FilterTypeI, AloneI
    <3> QED BY <1>t, <1>2, <2>2, <3>1 DEF TellsI
  <2> QED BY <2>1, <2>2
<1> QED BY <1>1, <1>3, <1>4, <1>5 DEF FilterI

\* A handle gives its memory back and takes that of another one over, or none.
LEMMA MoveFilterI ==
  ASSUME FilterI, NEW h \in Handles, NEW other \in Handles, MoveAssign(h, other)
  PROVE  FilterI'
<1>t. /\ FilterTypeI /\ AloneI /\ AllottedI /\ TellsI
      /\ NoBlock \notin Blocks /\ h # other
  BY FilterAssumption DEF FilterI, FilterAssumption, MoveAssign
<1>0. /\ block' = [b \in Blocks |-> IF b = pimpl[h] THEN NoBlock ELSE block[b]]
      /\ pimpl' = [pimpl EXCEPT ![h] = pimpl[other], ![other] = NoBlock]
      /\ wanted' = [wanted EXCEPT ![h] = wanted[other], ![other] = Nothing]
  BY DEF MoveAssign
<1>1. FilterTypeI'
  <2>1. Nothing \in [levels : SUBSET (0 .. 7), channels : SUBSET Channels]
    BY DEF Nothing, Asked
  <2> QED BY <1>t, <1>0, <2>1 DEF FilterTypeI
<1>2. /\ pimpl'[h] = pimpl[other] /\ pimpl'[other] = NoBlock /\ wanted'[h] = wanted[other]
      /\ \A k \in Handles : k # h /\ k # other => pimpl'[k] = pimpl[k] /\ wanted'[k] = wanted[k]
      /\ \A x \in Blocks : block'[x] = IF x = pimpl[h] THEN NoBlock ELSE block[x]
  BY <1>t, <1>0 DEF FilterTypeI
<1>3. AloneI'
  BY <1>t, <1>2 DEF AloneI
<1>4. AllottedI'
  BY <1>t, <1>2 DEF AllottedI, AloneI
<1>5. TellsI'
  <2> SUFFICES ASSUME NEW k \in Handles, pimpl'[k] # NoBlock
               PROVE  Tells(block'[pimpl'[k]], wanted'[k])
    BY DEF TellsI, Tells, HasBit
  <2>1. CASE k = h
    <3>1. pimpl[other] \in Blocks /\ pimpl[other] # pimpl[h]
      BY <1>t, <1>2, <2>1 DEF FilterTypeI, AloneI
    <3> QED BY <1>t, <1>2, <2>1, <3>1 DEF TellsI
  <2>2. CASE k # h
    <3>1. k # other /\ pimpl[k] \in Blocks /\ pimpl[k] # pimpl[h]
      BY <1>t, <1>2, <2>2 DEF FilterTypeI, AloneI
    <3> QED BY <1>t, <1>2, <2>2, <3>1 DEF TellsI
  <2> QED BY <2>1, <2>2
<1> QED BY <1>1, <1>3, <1>4, <1>5 DEF FilterI

\* A handle gives its memory back.
LEMMA DestroyFilterI ==
  ASSUME FilterI, NEW h \in Handles, DestroyFilter(h)
  PROVE  FilterI'
<1>t. /\ FilterTypeI /\ AloneI /\ AllottedI /\ TellsI
      /\ NoBlock \notin Blocks /\ pimpl[h] \in Blocks
  BY FilterAssumption DEF FilterI, FilterAssumption, DestroyFilter, Unused, FilterTypeI
<1>0. /\ block' = [block EXCEPT ![pimpl[h]] = NoBlock]
      /\ pimpl' = [pimpl EXCEPT ![h] = NoBlock]
      /\ wanted' = [wanted EXCEPT ![h] = Nothing]
  BY DEF DestroyFilter
<1>1. FilterTypeI'
  <2>1. Nothing \in [levels : SUBSET (0 .. 7), channels : SUBSET Channels]
    BY DEF Nothing, Asked
  <2> QED BY <1>t, <1>0, <2>1 DEF FilterTypeI
<1>2. /\ pimpl'[h] = NoBlock /\ block'[pimpl[h]] = NoBlock
      /\ \A k \in Handles : k # h => pimpl'[k] = pimpl[k] /\ wanted'[k] = wanted[k]
      /\ \A x \in Blocks : x # pimpl[h] => block'[x] = block[x]
  BY <1>t, <1>0 DEF FilterTypeI
<1>3. AloneI'
  BY <1>t, <1>2 DEF AloneI
<1>4. AllottedI'
  BY <1>t, <1>2 DEF AllottedI, AloneI
<1>5. TellsI'
  <2> SUFFICES ASSUME NEW k \in Handles, pimpl'[k] # NoBlock
               PROVE  Tells(block'[pimpl'[k]], wanted'[k])
    BY DEF TellsI, Tells, HasBit
  <2>1. k # h /\ pimpl[k] \in Blocks /\ pimpl[k] # pimpl[h]
    BY <1>t, <1>2 DEF FilterTypeI, AloneI
  <2> QED BY <1>t, <1>2, <2>1 DEF TellsI
<1> QED BY <1>1, <1>3, <1>4, <1>5 DEF FilterI

\* Every step preserves the invariant.
LEMMA NextFilterI == FilterI /\ [FilterNext]_filterVars => FilterI'
<1> SUFFICES ASSUME FilterI, [FilterNext]_filterVars PROVE FilterI'
  OBVIOUS
<1> DEFINE Wants == [levels : SUBSET (0 .. 7), channels : SUBSET Channels]
<1>t. /\ FilterTypeI /\ AllottedI /\ TellsI /\ NoBlock \notin Blocks /\ Levels \subseteq 0 .. 7
  BY FilterAssumption DEF FilterI, FilterAssumption
<1>n. Nothing \in Wants /\ Nothing = [levels |-> {}, channels |-> {}]
  BY DEF Nothing, Asked
\* What a handle that is used has, and was told.
<1>u. ASSUME NEW h \in Handles, ~Unused(h)
      PROVE  /\ pimpl[h] \in Blocks /\ block[pimpl[h]] \in FilterData
             /\ wanted[h] \in Wants /\ Tells(block[pimpl[h]], wanted[h])
  <2>1. pimpl[h] \in Blocks /\ pimpl[h] # NoBlock
    BY <1>t, <1>u DEF Unused, FilterTypeI
  <2>2. block[pimpl[h]] # NoBlock
    BY <1>t, <2>1 DEF AllottedI
  <2> QED BY <1>t, <2>1, <2>2 DEF FilterTypeI, TellsI
<1>1. ASSUME NEW h \in Handles, NEW b \in Blocks \cup {NoBlock}, ConstructEmpty(h, b) PROVE FilterI'
  <2>1. Empty \in FilterData /\ Tells(Empty, Nothing)
    BY <1>n, MadeIs, BitOf DEF Tells, Empty, FilterData, HasBit
  <2> QED BY <1>1, <1>n, <2>1, NewFilterI DEF ConstructEmpty
<1>2. ASSUME NEW h \in Handles, NEW b \in Blocks \cup {NoBlock},
             NEW level \in Levels, NEW first \in Channels, NEW last \in Channels,
             Construct(h, b, level, first, last)
      PROVE  FilterI'
  <2> DEFINE d == AddChannels(InitLevels(Empty, level), first, last)
             R == Lower(first, last) .. Higher(first, last)
             asked == Asked(LevelsUpTo(level), R)
  <2>0. PICK e \in FilterData : e = InitLevels(Empty, level)
    BY MadeIs
  <2>1. Tells(e, Asked(LevelsUpTo(level), {}))
    BY <2>0, MadeIs DEF Tells, Asked
  <2>2. /\ R \in SUBSET Channels /\ d \in FilterData /\ d.levels = LevelsUpTo(level)
        /\ \A c \in Channels : HasBit(d, c) <=> c \in R
    <3>1. /\ R \in SUBSET Channels /\ d \in FilterData /\ d.levels = e.levels
          /\ \A c \in Channels : HasBit(d, c) <=> c \in Asked(LevelsUpTo(level), {}).channels \cup R
      BY <2>0, <2>1, ChannelsTell
    <3>2. e.levels = LevelsUpTo(level) /\ Asked(LevelsUpTo(level), {}).channels = {}
      BY <2>0, MadeIs DEF Asked
    <3> QED BY <3>1, <3>2
  <2>3. asked \in Wants /\ Tells(d, asked)
    BY <2>2, MadeIs DEF Tells, Asked
  <2>4. /\ Unused(h) /\ Got(b)
        /\ pimpl' = [pimpl EXCEPT ![h] = b]
        /\ block' = IF b = NoBlock THEN block ELSE [block EXCEPT ![b] = d]
        /\ wanted' = [wanted EXCEPT ![h] = IF b = NoBlock THEN Nothing ELSE asked]
    BY <1>2 DEF Construct
  <2> HIDE DEF d, asked
  <2> QED BY <1>n, <2>2, <2>3, <2>4, NewFilterI
<1>3. ASSUME NEW h \in Handles, NEW b \in Blocks \cup {NoBlock}, NEW other \in Handles,
             CopyConstruct(h, other, b)
      PROVE  FilterI'
  <2>1. /\ Unused(h) /\ Got(b) /\ (pimpl[other] = NoBlock => b = NoBlock)
        /\ pimpl' = [pimpl EXCEPT ![h] = b]
        /\ block' = IF b = NoBlock THEN block ELSE [block EXCEPT ![b] = block[pimpl[other]]]
        /\ wanted' = IF b = NoBlock THEN wanted ELSE [wanted EXCEPT ![h] = wanted[other]]
    BY <1>3 DEF CopyConstruct
  <2>2. wanted = [wanted EXCEPT ![h] = wanted[h]] /\ wanted[h] \in Wants
    BY <1>t DEF FilterTypeI
  <2>3. CASE b = NoBlock
    <3>1. Empty \in FilterData /\ Tells(Empty, Nothing)
      BY <1>n, MadeIs, BitOf DEF Tells, Empty, FilterData, HasBit
    <3>2. wanted' = [wanted EXCEPT ![h] = IF b = NoBlock THEN wanted[h] ELSE Nothing]
      BY <2>1, <2>2, <2>3
    <3>3. block' = IF b = NoBlock THEN block ELSE [block EXCEPT ![b] = Empty]
      BY <2>1, <2>3
    <3> QED BY ZenonT(30), <1>n, <2>1, <2>2, <3>1, <3>2, <3>3, NewFilterI
  <2>4. CASE b # NoBlock
    <3>1. ~Unused(other)
      BY <2>1, <2>4 DEF Unused
    <3>2. /\ block[pimpl[other]] \in FilterData /\ wanted[other] \in Wants
          /\ Tells(block[pimpl[other]], wanted[other])
      BY <1>u, <3>1
    <3>3. wanted' = [wanted EXCEPT ![h] = IF b = NoBlock THEN Nothing ELSE wanted[other]]
      BY <2>1, <2>4
    <3> QED BY <1>n, <2>1, <3>2, <3>3, NewFilterI
  <2> QED BY <2>3, <2>4
<1>4. ASSUME NEW h \in Handles, NEW other \in Handles, CopyAssign(h, other) PROVE FilterI'
  <2>1. ~Unused(h) /\ ~Unused(other)
    BY <1>4 DEF CopyAssign
  <2>2. /\ block[pimpl[other]] \in FilterData /\ wanted[other] \in Wants
        /\ Tells(block[pimpl[other]], wanted[other])
    BY <1>u, <2>1
  <2> QED BY <1>4, <2>1, <2>2, SetFilterI DEF CopyAssign
<1>5. ASSUME NEW h \in Handles, NEW first \in Levels, NEW last \in Levels, AddLevelRange(h, first, last)
      PROVE  FilterI'
  <2> DEFINE d == block[pimpl[h]]
             g == AddLevels(d, first, last)
             R == Lower(first, last) .. Higher(first, last)
             asked == [levels |-> wanted[h].levels \cup R, channels |-> wanted[h].channels]
  <2>1. ~Unused(h) /\ first \in 0 .. 7 /\ last \in 0 .. 7
    BY <1>5, <1>t DEF AddLevelRange
  <2>2. pimpl[h] \in Blocks /\ d \in FilterData /\ wanted[h] \in Wants /\ Tells(d, wanted[h])
    BY <1>u, <2>1
  <2>3. /\ R \in SUBSET (0 .. 7) /\ g \in FilterData
        /\ g.levels = d.levels \cup R /\ g.channels = d.channels
    BY ZenonT(30), <2>1, <2>2, LevelsTell
  <2>4. asked \in Wants /\ Tells(g, asked)
    BY <2>2, <2>3 DEF Tells, HasBit
  <2>5. /\ block' = [block EXCEPT ![pimpl[h]] = g] /\ UNCHANGED pimpl
        /\ wanted' = [wanted EXCEPT ![h].levels = @ \cup R]
    BY <1>5, <1>t, <2>2 DEF AddLevelRange, FilterTypeI
  <2>6. wanted' = [wanted EXCEPT ![h] = asked]
    <3>1. [wanted[h] EXCEPT !.levels = @ \cup R] = asked
      BY <2>2
    <3>2. wanted' = [wanted EXCEPT ![h] = [wanted[h] EXCEPT !.levels = @ \cup R]]
      BY <2>5
    <3> QED BY <3>1, <3>2
  <2> HIDE DEF g, asked
  <2> QED BY <2>1, <2>3, <2>4, <2>5, <2>6, SetFilterI
<1>6. ASSUME NEW h \in Handles, NEW first \in Channels, NEW last \in Channels,
             AddChannelRange(h, first, last)
      PROVE  FilterI'
  <2> DEFINE d == block[pimpl[h]]
             g == AddChannels(d, first, last)
             R == Lower(first, last) .. Higher(first, last)
             asked == [levels |-> wanted[h].levels, channels |-> wanted[h].channels \cup R]
  <2>1. ~Unused(h)
    BY <1>6 DEF AddChannelRange
  <2>2. pimpl[h] \in Blocks /\ d \in FilterData /\ wanted[h] \in Wants /\ Tells(d, wanted[h])
    BY <1>u, <2>1
  <2>3. /\ R \in SUBSET Channels /\ g \in FilterData /\ g.levels = d.levels
        /\ \A c \in Channels : HasBit(g, c) <=> c \in wanted[h].channels \cup R
    BY <2>2, ChannelsTell
  <2>4. asked \in Wants /\ Tells(g, asked)
    BY <2>2, <2>3 DEF Tells
  <2>5. /\ block' = [block EXCEPT ![pimpl[h]] = g] /\ UNCHANGED pimpl
        /\ wanted' = [wanted EXCEPT ![h].channels = @ \cup R]
    BY <1>6, <1>t, <2>2 DEF AddChannelRange, FilterTypeI
  <2>6. wanted' = [wanted EXCEPT ![h] = asked]
    <3>1. [wanted[h] EXCEPT !.channels = @ \cup R] = asked
      BY <2>2
    <3>2. wanted' = [wanted EXCEPT ![h] = [wanted[h] EXCEPT !.channels = @ \cup R]]
      BY <2>5
    <3> QED BY <3>1, <3>2
  <2> HIDE DEF g, asked
  <2> QED BY <2>1, <2>3, <2>4, <2>5, <2>6, SetFilterI
<1>7. CASE UNCHANGED filterVars
  BY <1>7 DEF filterVars, FilterI, FilterTypeI, AloneI, AllottedI, TellsI, Tells, HasBit
<1> QED
  BY <1>1, <1>2, <1>3, <1>4, <1>5, <1>6, <1>7, MoveFilterI, DestroyFilterI DEF FilterNext

\* A filter lets pass what it was told and nothing else, in memory that is its
\* own and goes back with it, for any numbers of words, bits, handles and
\* blocks.
THEOREM FiltersAreAsked == FilterInit /\ [][FilterNext]_filterVars => []FilterIsAsked
<1>1. FilterI => PassesAsked
  <2> SUFFICES ASSUME FilterI, NEW h \in Handles, ~Unused(h), NEW level \in Levels, NEW c \in Channels
               PROVE  FilterMsg(block[pimpl[h]], level, c) <=>
                        level \in wanted[h].levels /\ c \in wanted[h].channels
    BY DEF PassesAsked
  <2>1. Tells(block[pimpl[h]], wanted[h])
    BY DEF FilterI, TellsI, Unused
  <2> QED BY <2>1 DEF Tells, HasBit, FilterMsg
<1>2. FilterI => FiltersOwnMemory
  <2> SUFFICES ASSUME FilterI, NEW b \in Blocks
               PROVE  Cardinality({h \in Handles : pimpl[h] = b}) = IF block[b] = NoBlock THEN 0 ELSE 1
    BY DEF FiltersOwnMemory
  <2>t. AloneI /\ AllottedI /\ b # NoBlock
    BY FilterAssumption DEF FilterI, FilterAssumption
  <2>1. CASE block[b] = NoBlock
    <3>1. {h \in Handles : pimpl[h] = b} = {}
      BY <2>t, <2>1 DEF AllottedI
    <3> QED BY <2>1, <3>1, FS_EmptySet
  <2>2. CASE block[b] # NoBlock
    <3>1. PICK h \in Handles : pimpl[h] = b
      BY <2>t, <2>2 DEF AllottedI
    <3>2. {k \in Handles : pimpl[k] = b} = {h}
      BY <2>t, <3>1 DEF AloneI
    <3> QED BY <2>2, <3>2, FS_Singleton
  <2> QED BY <2>1, <2>2
<1>3. FilterI => FilterIsAsked
  BY <1>1, <1>2 DEF FilterIsAsked
<1> QED BY <1>3, InitFilterI, NextFilterI, PTL

-----------------------------------------------------------------------------
(***************************************************************************)
(* Colours.  What flattening sequences comes to, one more at a time; what  *)
(* is left of a line without its colours; and what the loop over a line    *)
(* knows after each of its turns (ReadTo): without colours it has written  *)
(* what it has read, a name that follows no other is being matched with as *)
(* many characters as have been there (Matching), and no name stands in    *)
(* what it has written (NoneLeft).                                         *)
(***************************************************************************)
IsFlat(ss, f, n) == \A i \in 1 .. n : f[i] = IF i = 1 THEN ss[i] ELSE f[i - 1] \o ss[i]

\* Sequences joined are a sequence.
LEMMA ConcatIn == ASSUME NEW S, NEW s \in Seq(S), NEW t \in Seq(S) PROVE s \o t \in Seq(S)
OBVIOUS

\* An element behind a sequence, place by place.
LEMMA AppendIs ==
  ASSUME NEW S, NEW s \in Seq(S), NEW x \in S
  PROVE  /\ Append(s, x) \in Seq(S) /\ Append(s, x) # <<>> /\ Len(Append(s, x)) = Len(s) + 1
         /\ \A i \in 1 .. Len(s) : Append(s, x)[i] = s[i]
         /\ Append(s, x)[Len(s) + 1] = x
OBVIOUS

\* An element behind two sequences is behind the second.
LEMMA AppendAfter ==
  ASSUME NEW S, NEW s \in Seq(S), NEW t \in Seq(S), NEW x \in S
  PROVE  s \o Append(t, x) = Append(s \o t, x)
<1>1. s \o t \in Seq(S) /\ Append(t, x) \in Seq(S)
  OBVIOUS
<1> QED BY <1>1

\* A sequence is the function of its places.
LEMMA SeqIsFunction ==
  ASSUME NEW S, NEW s \in Seq(S), NEW k \in Nat, DOMAIN s = 1 .. k
  PROVE  s = [n \in 1 .. k |-> s[n]]
OBVIOUS

\* There is a function that joins one sequence after the other, and one only.
LEMMA FlatExists ==
  ASSUME NEW S, NEW ss \in Seq(Seq(S)), NEW n \in 0 .. Len(ss)
  PROVE  \E f \in [1 .. n -> Seq(S)] : IsFlat(ss, f, n)
<1> DEFINE P(k) == \E f \in [1 .. k -> Seq(S)] : IsFlat(ss, f, k)
           T == {k \in 0 .. Len(ss) : ~P(k)}
<1>1. SUFFICES ASSUME T # {} PROVE FALSE
  OBVIOUS
<1>2. Len(ss) \in Nat /\ T \in SUBSET Nat
  OBVIOUS
<1>3. PICK k \in T : \A m \in T : k <= m
  BY <1>1, <1>2, LeastOf
<1>4. k \in Nat /\ k <= Len(ss) /\ ~P(k)
  BY <1>2, <1>3
<1>5. CASE k = 0
  <2>1. <<>> \in [1 .. 0 -> Seq(S)] /\ IsFlat(ss, <<>>, 0)
    BY DEF IsFlat
  <2> QED BY <1>4, <1>5, <2>1
<1>6. CASE k # 0
  <2>1. k - 1 \in 0 .. Len(ss) /\ ~(k <= k - 1)
    BY <1>2, <1>4, <1>6
  <2>2. P(k - 1)
    BY <1>3, <2>1
  <2>3. PICK f \in [1 .. k - 1 -> Seq(S)] : IsFlat(ss, f, k - 1)
    BY <2>2
  <2>4. ss[k] \in Seq(S)
    BY <1>4, <1>6
  <2> DEFINE g == [i \in 1 .. k |-> IF i = k THEN IF k = 1 THEN ss[k] ELSE f[k - 1] \o ss[k] ELSE f[i]]
  <2>5. ASSUME NEW i \in 1 .. k
        PROVE  g[i] \in Seq(S) /\ g[i] = IF i = 1 THEN ss[i] ELSE g[i - 1] \o ss[i]
    <3>1. CASE i = k /\ k = 1
      BY <2>4, <3>1
    <3>2. CASE i = k /\ k # 1
      <4>1. k - 1 \in 1 .. k - 1 /\ k - 1 \in 1 .. k /\ k - 1 # k
        BY <1>4, <1>6, <3>2
      <4>2. f[k - 1] \in Seq(S)
        BY <2>3, <4>1
      <4>3. g[i] = f[k - 1] \o ss[k] /\ g[i - 1] = f[k - 1]
        BY <3>2, <4>1
      <4> HIDE DEF g
      <4>4. f[k - 1] \o ss[k] \in Seq(S)
        BY <2>4, <4>2, ConcatIn
      <4>5. g[i] \in Seq(S)
        BY <4>3, <4>4
      <4>6. i # 1 /\ ss[i] = ss[k]
        BY <3>2
      <4>7. g[i] = g[i - 1] \o ss[i]
        BY <4>3, <4>6
      <4> QED BY <4>5, <4>6, <4>7
    <3>3. CASE i # k
      <4>1. i \in 1 .. k - 1 /\ (i # 1 => i - 1 \in 1 .. k - 1 /\ i - 1 \in 1 .. k /\ i - 1 # k)
        BY <1>4, <1>6, <3>3
      <4>2. g[i] = f[i] /\ f[i] \in Seq(S) /\ (i # 1 => g[i - 1] = f[i - 1])
        BY <2>3, <3>3, <4>1
      <4>3. f[i] = IF i = 1 THEN ss[i] ELSE f[i - 1] \o ss[i]
        BY <2>3, <4>1 DEF IsFlat
      <4> HIDE DEF g
      <4> QED BY <4>2, <4>3
    <3> QED BY <3>1, <3>2, <3>3
  <2>6. g \in [1 .. k -> Seq(S)]
    BY <2>5
  <2>7. IsFlat(ss, g, k)
    BY <2>5 DEF IsFlat
  <2> HIDE DEF g
  <2> QED BY <1>4, <2>6, <2>7
<1> QED BY <1>5, <1>6

LEMMA FlatUnique ==
  ASSUME NEW ss, NEW tt, NEW f, NEW g, NEW n \in Nat, IsFlat(ss, f, n), IsFlat(tt, g, n),
         \A i \in 1 .. n : ss[i] = tt[i]
  PROVE  \A i \in 1 .. n : f[i] = g[i]
<1> DEFINE T == {i \in 1 .. n : f[i] # g[i]}
<1>1. SUFFICES ASSUME T # {} PROVE FALSE
  OBVIOUS
<1>2. T \in SUBSET Nat
  OBVIOUS
<1>3. PICK k \in T : \A m \in T : k <= m
  BY <1>1, <1>2, LeastOf
<1>4. k \in 1 .. n /\ f[k] # g[k] /\ k \in Nat
  BY <1>3
<1>5. CASE k = 1
  BY <1>4, <1>5 DEF IsFlat
<1>6. CASE k # 1
  <2>1. k - 1 \in 1 .. n /\ ~(k <= k - 1)
    BY <1>4, <1>6
  <2>2. f[k - 1] = g[k - 1]
    BY <1>3, <2>1
  <2> QED BY <1>4, <1>6, <2>2 DEF IsFlat
<1> QED BY <1>5, <1>6

\* Flattening is what a function that joins one sequence after the other ends with.
LEMMA FlattenIs ==
  ASSUME NEW S, NEW ss \in Seq(Seq(S)), ss # <<>>
  PROVE  \E f \in [1 .. Len(ss) -> Seq(S)] : IsFlat(ss, f, Len(ss)) /\ FlattenSeq(ss) = f[Len(ss)]
<1> DEFINE F(f) == f = [i \in 1 .. Len(ss) |-> IF i = 1 THEN ss[i] ELSE f[i - 1] \o ss[i]]
           h == CHOOSE f : F(f)
<1>1. Len(ss) \in Nat /\ Len(ss) # 0 /\ Len(ss) \in 0 .. Len(ss)
  OBVIOUS
<1>2. PICK f \in [1 .. Len(ss) -> Seq(S)] : IsFlat(ss, f, Len(ss))
  BY <1>1, FlatExists
<1>3. F(f)
  BY <1>2 DEF IsFlat
<1>4. F(h)
  BY <1>3
<1>5. FlattenSeq(ss) = h[Len(ss)]
  BY <1>1 DEF FlattenSeq
<1> HIDE DEF h
<1>6. IsFlat(ss, h, Len(ss))
  BY <1>4 DEF IsFlat
<1>7. \A i \in 1 .. Len(ss) : h[i] = f[i]
  BY <1>1, <1>2, <1>6, FlatUnique
<1>8. Len(ss) \in 1 .. Len(ss)
  BY <1>1
<1> QED BY <1>2, <1>5, <1>7, <1>8

\* Flattening one sequence more.
LEMMA FlattenAppend ==
  ASSUME NEW S, NEW ss \in Seq(Seq(S)), NEW x \in Seq(S)
  PROVE  FlattenSeq(ss) \in Seq(S) /\ FlattenSeq(Append(ss, x)) = FlattenSeq(ss) \o x
<1> DEFINE tt == Append(ss, x)
<1>1. /\ tt \in Seq(Seq(S)) /\ tt # <<>> /\ Len(ss) \in Nat /\ Len(tt) = Len(ss) + 1
      /\ \A i \in 1 .. Len(ss) : tt[i] = ss[i]
      /\ tt[Len(ss) + 1] = x
  <2>1. PICK R : R = Seq(S)
    OBVIOUS
  <2>2. ss \in Seq(R) /\ x \in R
    BY <2>1
  <2>3. Len(ss) \in Nat
    BY <2>2
  <2> QED BY <2>1, <2>2, <2>3, AppendIs
<1> HIDE DEF tt
<1>2. PICK g \in [1 .. Len(tt) -> Seq(S)] : IsFlat(tt, g, Len(tt)) /\ FlattenSeq(tt) = g[Len(tt)]
  BY <1>1, FlattenIs
<1>3. CASE ss = <<>>
  <2>1. FlattenSeq(ss) = <<>>
    BY <1>3 DEF FlattenSeq
  <2>2. Len(tt) = 1 /\ 1 \in 1 .. Len(tt) /\ tt[1] = x
    BY <1>1, <1>3
  <2>3. g[1] = x
    BY <1>2, <2>2 DEF IsFlat
  <2> QED BY <1>2, <2>1, <2>2, <2>3 DEF tt
<1>4. CASE ss # <<>>
  <2>1. PICK f \in [1 .. Len(ss) -> Seq(S)] : IsFlat(ss, f, Len(ss)) /\ FlattenSeq(ss) = f[Len(ss)]
    BY <1>4, FlattenIs
  <2>2. Len(ss) # 0
    BY <1>4
  <2>3. PICK n \in Nat : n = Len(ss)
    BY <1>1
  <2>4. n # 0 /\ Len(tt) = n + 1 /\ n \in 1 .. n /\ n + 1 \in 1 .. Len(tt) /\ n + 1 # 1 /\ (n + 1) - 1 = n
    BY <1>1, <2>2, <2>3
  <2>5. IsFlat(tt, g, n) /\ IsFlat(ss, f, n)
    <3>1. \A i \in 1 .. n : i \in 1 .. Len(tt)
      BY <2>4
    <3> QED BY <1>2, <2>1, <2>3, <3>1 DEF IsFlat
  <2>6. f[n] = g[n]
    <3>1. \A i \in 1 .. n : ss[i] = tt[i]
      BY <1>1, <2>3
    <3>2. \A i \in 1 .. n : f[i] = g[i]
      BY <2>5, <3>1, FlatUnique
    <3> QED BY <2>4, <3>2
  <2>7. g[n + 1] = g[n] \o x
    BY <1>1, <1>2, <2>3, <2>4 DEF IsFlat
  <2> QED BY <1>2, <2>1, <2>3, <2>4, <2>6, <2>7 DEF tt
<1> QED BY <1>3, <1>4

Shades == ToSet(ColouredNames)
Shown  == Characters \cup Shades

\* What the names are.
LEMMA NamesAre ==
  /\ Shades \cap Characters = {}
  /\ DOMAIN ColouredNames = DOMAIN LevelNames
  /\ \A i \in DOMAIN LevelNames :
       /\ LevelNames[i] \in Seq(Characters) /\ Len(LevelNames[i]) \in Nat /\ Len(LevelNames[i]) >= 1
       /\ ColouredNames[i] \in Shades /\ IsColoured(ColouredNames[i])
       /\ NameOf(ColouredNames[i]) = LevelNames[i]
       /\ \A j \in 1 .. Len(LevelNames[i]) : LevelNames[i][j] \in Characters /\ InNames(LevelNames[i][j])
<1>1. /\ Shades \cap Characters = {} /\ DOMAIN ColouredNames = DOMAIN LevelNames
      /\ LevelNames \in Seq(Seq(Characters) \ {<<>>})
      /\ \A i, k \in DOMAIN ColouredNames : ColouredNames[i] = ColouredNames[k] => i = k
  BY ConsoleAssumption DEF ConsoleAssumption, Shades
<1>2. ASSUME NEW i \in DOMAIN LevelNames
      PROVE  /\ LevelNames[i] \in Seq(Characters) /\ Len(LevelNames[i]) \in Nat /\ Len(LevelNames[i]) >= 1
             /\ ColouredNames[i] \in Shades /\ IsColoured(ColouredNames[i])
             /\ NameOf(ColouredNames[i]) = LevelNames[i]
             /\ \A j \in 1 .. Len(LevelNames[i]) : LevelNames[i][j] \in Characters /\ InNames(LevelNames[i][j])
  <2>1. LevelNames[i] \in Seq(Characters) /\ LevelNames[i] # <<>>
    BY <1>1
  <2>2. ColouredNames[i] \in Shades
    BY <1>1 DEF Shades, ToSet
  <2>3. NameOf(ColouredNames[i]) = LevelNames[i]
    BY <1>1 DEF NameOf
  <2>4. \A j \in 1 .. Len(LevelNames[i]) : LevelNames[i][j] \in Characters /\ LevelNames[i][j] \in ToSet(LevelNames[i])
    BY <2>1 DEF ToSet
  <2> QED BY <2>1, <2>2, <2>3, <2>4 DEF IsColoured, Shades, InNames
<1> QED BY <1>1, <1>2

\* What a character, or a coloured name, is without its colour.
BareOf(c) == IF IsColoured(c) THEN NameOf(c) ELSE <<c>>

LEMMA BareAppend ==
  ASSUME NEW s \in Seq(Shown), NEW c \in Shown
  PROVE  /\ Bare(s) \in Seq(Characters) /\ BareOf(c) \in Seq(Characters)
         /\ Bare(Append(s, c)) = Bare(s) \o BareOf(c)
<1>1. ASSUME NEW x \in Shown PROVE BareOf(x) \in Seq(Characters)
  <2>1. CASE x \in Shades
    <3>1. PICK i \in DOMAIN LevelNames : x = ColouredNames[i]
      BY <2>1, NamesAre DEF Shades, ToSet
    <3> QED BY <3>1, NamesAre DEF BareOf
  <2>2. CASE x \notin Shades
    <3>1. x \in Characters
      BY <2>2 DEF Shown
    <3>2. <<x>> \in Seq(Characters)
      BY <3>1
    <3> QED BY <2>2, <3>2 DEF BareOf, IsColoured, Shades
  <2> QED BY <2>1, <2>2
<1> DEFINE parts == [n \in DOMAIN s |-> BareOf(s[n])]
           more  == [n \in DOMAIN Append(s, c) |-> BareOf(Append(s, c)[n])]
<1>2. PICK k \in Nat : k = Len(s)
  OBVIOUS
<1>3. DOMAIN s = 1 .. k /\ DOMAIN Append(s, c) = 1 .. k + 1
      /\ Append(s, c)[k + 1] = c /\ \A n \in 1 .. k : Append(s, c)[n] = s[n] /\ s[n] \in Shown
  BY <1>2
<1>4. parts \in [1 .. k -> Seq(Characters)]
  BY <1>1, <1>3
<1>5. parts \in Seq(Seq(Characters)) /\ Len(parts) = k
  BY <1>4
<1>6. more = Append(parts, BareOf(c))
  <2>1. DOMAIN Append(parts, BareOf(c)) = 1 .. k + 1
    BY <1>5
  <2>2. ASSUME NEW n \in 1 .. k + 1 PROVE more[n] = Append(parts, BareOf(c))[n]
    <3>1. more[n] = BareOf(Append(s, c)[n])
      BY <1>3
    <3>2. CASE n = k + 1
      BY <1>3, <1>5, <3>1, <3>2
    <3>3. CASE n # k + 1
      <4>1. n \in 1 .. k
        BY <3>3
      <4>2. Append(parts, BareOf(c))[n] = parts[n]
        BY <1>5, <4>1
      <4> QED BY <1>3, <3>1, <4>1, <4>2
    <3> QED BY <3>2, <3>3
  <2>3. more = [n \in 1 .. k + 1 |-> more[n]]
    BY <1>3
  <2> HIDE DEF more, parts
  <2>4. Append(parts, BareOf(c)) = [n \in 1 .. k + 1 |-> Append(parts, BareOf(c))[n]]
    <3>1. PICK R : R = Seq(Characters)
      OBVIOUS
    <3>2. PICK x : x = BareOf(c)
      OBVIOUS
    <3>3. Append(parts, x) \in Seq(R)
      BY <1>1, <1>5, <3>1, <3>2, AppendIs
    <3>4. DOMAIN Append(parts, x) = 1 .. k + 1
      BY <2>1, <3>2
    <3>5. PICK z : z = Append(parts, x)
      OBVIOUS
    <3>6. z = [n \in 1 .. k + 1 |-> z[n]]
      BY <3>3, <3>4, <3>5, k + 1 \in Nat, SeqIsFunction, Zenon
    <3> QED BY <3>2, <3>5, <3>6
  <2> QED BY <2>2, <2>3, <2>4
<1>7. Bare(s) = FlattenSeq(parts) /\ Bare(Append(s, c)) = FlattenSeq(more)
  BY DEF Bare, BareOf
<1> HIDE DEF parts, more
<1> QED BY <1>1, <1>5, <1>6, <1>7, FlattenAppend

LEMMA BareEmpty == Bare(<<>>) = <<>>
BY DEF Bare, FlattenSeq

LEMMA AppendOne ==
  ASSUME NEW s \in Seq(Characters), NEW t \in Seq(Characters), NEW c \in Characters
  PROVE  (s \o t) \o <<c>> = s \o Append(t, c)
<1>1. s \o t \in Seq(Characters)
  OBVIOUS
<1>2. (s \o t) \o <<c>> = Append(s \o t, c)
  BY <1>1
<1>3. s \o Append(t, c) = Append(s \o t, c)
  BY AppendAfter
<1> QED BY <1>2, <1>3

\* Characters have no colour to lose.
LEMMA BareOfText ==
  ASSUME NEW s \in Seq(Shown), NEW t \in Seq(Characters)
  PROVE  Bare(s \o t) = Bare(s) \o t
<1> DEFINE P(n) == Bare(s \o SubSeq(t, 1, n)) = Bare(s) \o SubSeq(t, 1, n)
           T == {n \in 0 .. Len(t) : ~P(n)}
<1>1. Len(t) \in Nat /\ T \in SUBSET Nat
  OBVIOUS
<1>2. Bare(s) \in Seq(Characters)
  <2>1. CASE s = <<>>
    <3>1. <<>> \in Seq(Characters)
      OBVIOUS
    <3> QED BY <2>1, <3>1, BareEmpty
  <2>2. CASE s # <<>>
    <3>1. PICK c : c \in Shown
      BY <2>2
    <3> QED BY <3>1, BareAppend
  <2> QED BY <2>1, <2>2
<1>3. T = {}
  <2>1. SUFFICES ASSUME T # {} PROVE FALSE
    OBVIOUS
  <2>2. PICK k \in T : \A m \in T : k <= m
    BY <1>1, <2>1, LeastOf
  <2>3. k \in Nat /\ k <= Len(t) /\ ~P(k)
    BY <1>1, <2>2
  <2>4. CASE k = 0
    <3>1. SubSeq(t, 1, 0) = <<>>
      OBVIOUS
    <3>2. s \o <<>> = s /\ Bare(s) \o <<>> = Bare(s)
      BY <1>2
    <3> QED BY <2>3, <2>4, <3>1, <3>2
  <2>5. CASE k # 0
    <3>1. k - 1 \in 0 .. Len(t) /\ ~(k <= k - 1)
      BY <1>1, <2>3, <2>5
    <3>2. P(k - 1)
      BY <2>2, <3>1
    <3> DEFINE a == SubSeq(t, 1, k - 1)
    <3>3. t[k] \in Characters /\ t[k] \in Shown /\ BareOf(t[k]) = <<t[k]>>
      <4>1. t[k] \in Characters
        BY <2>3, <2>5
      <4> QED BY <4>1, NamesAre DEF Shown, Shades, BareOf, IsColoured
    <3>4. a \in Seq(Characters) /\ SubSeq(t, 1, k) = Append(a, t[k])
      BY <2>3, <2>5
    <3> HIDE DEF a
    <3>5. a \in Seq(Shown)
      BY <3>4 DEF Shown
    <3>6. s \o Append(a, t[k]) = Append(s \o a, t[k]) /\ s \o a \in Seq(Shown)
      <4>1. PICK c : c = t[k]
        OBVIOUS
      <4>2. s \o Append(a, c) = Append(s \o a, c)
        <5>1. PICK b : b = a
          OBVIOUS
        <5>2. c \in Shown /\ b \in Seq(Shown) /\ s \in Seq(Shown)
          BY <3>3, <3>5, <4>1, <5>1
        <5>3. s \o Append(b, c) = Append(s \o b, c)
          BY <5>2, AppendAfter
        <5> QED BY <5>1, <5>3
      <4> QED BY <3>5, <4>1, <4>2, ConcatIn
    <3>7. Bare(s \o SubSeq(t, 1, k)) = Bare(s \o a) \o <<t[k]>>
      BY <3>3, <3>4, <3>6, BareAppend
    <3>8. Bare(s \o a) = Bare(s) \o a
      BY <3>2 DEF a
    <3>9. (Bare(s) \o a) \o <<t[k]>> = Bare(s) \o Append(a, t[k])
      <4>1. PICK u : u = Bare(s)
        OBVIOUS
      <4>2. PICK c : c = t[k]
        OBVIOUS
      <4>3. u \in Seq(Characters) /\ c \in Characters /\ a \in Seq(Characters)
        BY <1>2, <3>3, <3>4, <4>1, <4>2
      <4>4. (u \o a) \o <<c>> = u \o Append(a, c)
        BY <4>3, AppendOne
      <4> QED BY <4>1, <4>2, <4>4
    <3> QED BY <2>3, <3>4, <3>7, <3>8, <3>9
  <2> QED BY <2>4, <2>5
<1>4. P(Len(t)) /\ SubSeq(t, 1, Len(t)) = t
  BY <1>1, <1>3
<1> QED BY <1>4

\* A sequence cut in two.
LEMMA SplitAt ==
  ASSUME NEW text \in Seq(Characters), NEW b \in 0 .. Len(text), NEW a \in 0 .. b
  PROVE  SubSeq(text, 1, a) \o SubSeq(text, a + 1, b) = SubSeq(text, 1, b)
OBVIOUS

\* A piece of a line, place by place, and what makes two sequences one.
LEMMA PieceIs ==
  ASSUME NEW text \in Seq(Characters), NEW b \in Nat, NEW a \in Nat, a <= b, b <= Len(text)
  PROVE  LET w == SubSeq(text, a + 1, b)
         IN  w \in Seq(Characters) /\ Len(w) = b - a /\ \A j \in 1 .. b - a : w[j] = text[a + j]
OBVIOUS

LEMMA SameSequence ==
  ASSUME NEW v \in Seq(Characters), NEW w \in Seq(Characters), NEW z \in Nat, Len(v) = z, Len(w) = z,
         \A j \in 1 .. z : v[j] = w[j]
  PROVE  v = w
OBVIOUS

\* What is shown of the first n characters of the line: coloured names and
\* what has not been copied yet.
ShownBy(s, n) == s.out \o SubSeq(s.text, s.copied + 1, n)

\* A name at place m of what is shown follows no character of another, and the
\* first r characters of a name are there.
StartsAt(sh, m) == m = 1 \/ ~InNames(sh[m - 1])
HasAt(sh, m, name, r) == \A j \in 1 .. r : sh[m + j - 1] = name[j]

Matching(matched, sh) ==
  \A m \in 1 .. Len(sh) + 1, i \in DOMAIN LevelNames :
    /\ StartsAt(sh, m) /\ Len(sh) + 1 - m <= Len(LevelNames[i])
    /\ HasAt(sh, m, LevelNames[i], Len(sh) + 1 - m)
    => matched[i] = Len(sh) + 1 - m
NoneLeft(sh) ==
  \A m \in 1 .. Len(sh), i \in DOMAIN LevelNames :
    StartsAt(sh, m) /\ m + Len(LevelNames[i]) - 1 <= Len(sh) => ~HasAt(sh, m, LevelNames[i], Len(LevelNames[i]))
\* The searches have found what is there, and no more than has not been copied.
FoundIn(text, matched, copied, n) ==
  \A i \in DOMAIN LevelNames :
    /\ matched[i] < Len(LevelNames[i]) /\ copied + matched[i] <= n
    /\ \A j \in 1 .. matched[i] : text[n - matched[i] + j] = LevelNames[i][j]

\* What the searches have after one character more, where they may be complete.
HaveRead(text, s, new, n) ==
  /\ new \in [DOMAIN LevelNames -> Nat]
  /\ \A i \in DOMAIN LevelNames :
       /\ new[i] = IF LevelNames[i][s.matched[i] + 1] = text[n] THEN s.matched[i] + 1 ELSE 0
       /\ new[i] <= Len(LevelNames[i]) /\ s.copied + new[i] <= n
       /\ \A j \in 1 .. new[i] : text[n - new[i] + j] = LevelNames[i][j]

\* What the loop knows when it has read n characters.
ReadTo(text, s, n) ==
  /\ s \in [text : {text}, matched : [DOMAIN LevelNames -> Nat], out : Seq(Shown), copied : 0 .. n]
  /\ Bare(s.out) = SubSeq(text, 1, s.copied)
  /\ FoundIn(text, s.matched, s.copied, n)
  /\ Matching(s.matched, ShownBy(s, n)) /\ NoneLeft(ShownBy(s, n))

\* What is shown, place by place.
Follows(text, n, got, c, sh) ==
  /\ SubSeq(text, c + 1, n) \in Seq(Characters)
  /\ sh \in Seq(Shown) /\ Len(sh) = Len(got) + (n - c)
  /\ \A j \in 1 .. Len(got) : sh[j] = got[j]
  /\ \A j \in 1 .. n - c : sh[Len(got) + j] = text[c + j]

\* What is shown is what has been written and what has not been copied.
LEMMA ShownIs ==
  ASSUME NEW text \in Seq(Characters), NEW n \in 0 .. Len(text), NEW got \in Seq(Shown), NEW c \in 0 .. n,
         NEW sh, sh = got \o SubSeq(text, c + 1, n)
  PROVE  Follows(text, n, got, c, sh)
<1>1. Len(text) \in Nat /\ n \in Nat /\ c \in Nat /\ c <= n /\ n <= Len(text)
  OBVIOUS
<1> DEFINE rest == SubSeq(text, c + 1, n)
<1>2. /\ rest \in Seq(Characters) /\ Len(rest) = n - c
      /\ \A j \in 1 .. n - c : rest[j] = text[c + j]
  BY <1>1
<1> HIDE DEF rest
<1>3. rest \in Seq(Shown)
  BY <1>2 DEF Shown
<1>4. /\ got \o rest \in Seq(Shown) /\ Len(got \o rest) = Len(got) + Len(rest)
      /\ \A j \in 1 .. Len(got) : (got \o rest)[j] = got[j]
      /\ \A j \in 1 .. Len(rest) : (got \o rest)[Len(got) + j] = rest[j]
  BY <1>3
<1> QED BY <1>2, <1>4 DEF rest, Follows

\* Before the first turn.
LEMMA SearchReads ==
  ASSUME NEW text \in Seq(Characters)
  PROVE  ReadTo(text, Search(text), 0)
<1> DEFINE s == Search(text)
           sh == ShownBy(s, 0)
<1>1. <<>> \in Seq(Shown) /\ SubSeq(text, 1, 0) = <<>> /\ Len(<<>>) = 0
  OBVIOUS
<1>2. /\ s \in [text : {text}, matched : [DOMAIN LevelNames -> Nat], out : Seq(Shown), copied : 0 .. 0]
      /\ s.out = <<>> /\ s.copied = 0 /\ s.text = text /\ \A i \in DOMAIN LevelNames : s.matched[i] = 0
  BY <1>1 DEF Search
<1>3. sh = <<>>
  BY <1>1, <1>2 DEF ShownBy
<1>4. Bare(s.out) = SubSeq(text, 1, s.copied)
  BY <1>1, <1>2, BareEmpty
<1>5. FoundIn(text, s.matched, s.copied, 0)
  BY <1>2, NamesAre DEF FoundIn
<1> HIDE DEF s, sh
<1>6. Matching(s.matched, sh)
  BY <1>1, <1>2, <1>3 DEF Matching
<1>7. NoneLeft(sh)
  BY <1>1, <1>3 DEF NoneLeft
<1> QED BY <1>2, <1>4, <1>5, <1>6, <1>7 DEF ReadTo, s, sh

\* What the searches have after one character more.
LEMMA MatchedIs ==
  ASSUME NEW text \in Seq(Characters), NEW n \in 1 .. Len(text), NEW p, p = n - 1, NEW s, ReadTo(text, s, p),
         NEW new, new = Matched(s, text[n])
  PROVE  HaveRead(text, s, new, n)
<1>1. /\ s.matched \in [DOMAIN LevelNames -> Nat] /\ s.copied \in 0 .. p /\ n \in Nat /\ p \in Nat /\ n = p + 1
      /\ FoundIn(text, s.matched, s.copied, p)
  BY DEF ReadTo
<1>2. new \in [DOMAIN LevelNames -> Nat]
      /\ \A i \in DOMAIN LevelNames :
           new[i] = IF LevelNames[i][s.matched[i] + 1] = text[n] THEN s.matched[i] + 1 ELSE 0
  BY <1>1 DEF Matched
<1>3. ASSUME NEW i \in DOMAIN LevelNames
      PROVE  /\ new[i] <= Len(LevelNames[i]) /\ s.copied + new[i] <= n
             /\ \A j \in 1 .. new[i] : text[n - new[i] + j] = LevelNames[i][j]
  <2>1. PICK k \in Nat : k = s.matched[i]
    BY <1>1
  <2>2. PICK name : name = LevelNames[i]
    OBVIOUS
  <2>3. /\ Len(name) \in Nat /\ Len(name) >= 1 /\ k < Len(name) /\ s.copied + k <= p
        /\ \A j \in 1 .. k : text[p - k + j] = name[j]
    <3>1. /\ s.matched[i] < Len(LevelNames[i]) /\ s.copied + s.matched[i] <= p
          /\ \A j \in 1 .. s.matched[i] : text[p - s.matched[i] + j] = LevelNames[i][j]
      BY <1>1 DEF FoundIn
    <3> QED BY <2>1, <2>2, <3>1, NamesAre
  <2>4. CASE name[k + 1] = text[n]
    <3>1. new[i] = k + 1
      BY <1>2, <2>1, <2>2, <2>4
    <3>2. ASSUME NEW j \in 1 .. k + 1 PROVE text[n - (k + 1) + j] = name[j]
      <4>1. CASE j = k + 1
        <5>1. n - (k + 1) + j = n
          BY <1>1, <4>1
        <5> QED BY <2>4, <4>1, <5>1
      <4>2. CASE j # k + 1
        <5>1. j \in 1 .. k /\ n - (k + 1) + j = p - k + j
          BY <1>1, <4>2
        <5> QED BY <2>3, <5>1
      <4> QED BY <4>1, <4>2
    <3>3. k + 1 <= Len(name) /\ s.copied + (k + 1) <= n
      BY <1>1, <2>3
    <3> QED BY <2>2, <3>1, <3>2, <3>3
  <2>5. CASE name[k + 1] # text[n]
    <3>1. new[i] = 0
      BY <1>2, <2>1, <2>2, <2>5
    <3>2. 0 <= Len(name) /\ s.copied + 0 <= n
      BY <1>1, <2>3
    <3> QED BY <2>2, <3>1, <3>2
  <2> QED BY <2>4, <2>5
<1> QED BY <1>2, <1>3 DEF HaveRead

\* A turn that finds no name.
LEMMA ReadsOn ==
  ASSUME NEW text \in Seq(Characters), NEW n \in 1 .. Len(text), NEW p, p = n - 1, NEW s, ReadTo(text, s, p),
         NEW new, new = Matched(s, text[n]), \A i \in DOMAIN LevelNames : new[i] # Len(LevelNames[i])
  PROVE  ReadTo(text, [s EXCEPT !.matched = new], n)
<1>t. PICK t : t = [s EXCEPT !.matched = new]
  OBVIOUS
<1>1. /\ s \in [text : {text}, matched : [DOMAIN LevelNames -> Nat], out : Seq(Shown), copied : 0 .. p]
      /\ s.text = text /\ s.out \in Seq(Shown) /\ s.copied \in 0 .. p /\ n \in Nat /\ p \in Nat /\ n = p + 1
      /\ n <= Len(text) /\ Len(text) \in Nat /\ s.matched \in [DOMAIN LevelNames -> Nat]
      /\ Bare(s.out) = SubSeq(text, 1, s.copied)
      /\ Matching(s.matched, ShownBy(s, p)) /\ NoneLeft(ShownBy(s, p))
  BY DEF ReadTo
<1>2. /\ new \in [DOMAIN LevelNames -> Nat]
      /\ \A i \in DOMAIN LevelNames :
           /\ new[i] = IF LevelNames[i][s.matched[i] + 1] = text[n] THEN s.matched[i] + 1 ELSE 0
           /\ new[i] < Len(LevelNames[i]) /\ s.copied + new[i] <= n
           /\ \A j \in 1 .. new[i] : text[n - new[i] + j] = LevelNames[i][j]
  <2>1. HaveRead(text, s, new, n)
    BY MatchedIs
  <2>2. \A i \in DOMAIN LevelNames : new[i] < Len(LevelNames[i])
    BY <2>1, NamesAre DEF HaveRead
  <2> QED BY <2>1, <2>2 DEF HaveRead
<1>3. t.text = text /\ t.out = s.out /\ t.copied = s.copied /\ t.matched = new
      /\ t \in [text : {text}, matched : [DOMAIN LevelNames -> Nat], out : Seq(Shown), copied : 0 .. n]
  <2>1. t = [text |-> text, matched |-> new, out |-> s.out, copied |-> s.copied]
    BY <1>t, <1>1
  <2>2. s.copied \in 0 .. n
    BY <1>1
  <2> QED BY <1>1, <1>2, <2>1, <2>2
<1>4. FoundIn(text, t.matched, t.copied, n)
  BY <1>2, <1>3 DEF FoundIn
<1>5. PICK sh : sh = ShownBy(s, p)
  OBVIOUS
<1>6. PICK tsh : tsh = ShownBy(t, n)
  OBVIOUS
<1>7. PICK len \in Nat : len = Len(sh)
  <2>1. SubSeq(text, s.copied + 1, p) \in Seq(Characters)
    BY <1>1
  <2>2. SubSeq(text, s.copied + 1, p) \in Seq(Shown)
    BY <2>1 DEF Shown
  <2>3. sh \in Seq(Shown)
    BY <1>1, <1>5, <2>2, ConcatIn DEF ShownBy
  <2> QED BY <2>3
<1>8. /\ Len(tsh) = len + 1 /\ tsh[len + 1] = text[n]
      /\ \A j \in 1 .. len : tsh[j] = sh[j]
  <2>1. PICK c \in Nat : c = s.copied
    BY <1>1
  <2>2. PICK l \in Nat : l = Len(s.out)
    BY <1>1
  <2>3. c <= p /\ p \in 0 .. Len(text) /\ c \in 0 .. p /\ n \in 0 .. Len(text) /\ c \in 0 .. n
    BY <1>1, <2>1
  <2>a. sh = s.out \o SubSeq(text, c + 1, p) /\ tsh = s.out \o SubSeq(text, c + 1, n)
    BY <1>1, <1>3, <1>5, <1>6, <2>1 DEF ShownBy
  <2>b. PICK got : got = s.out
    OBVIOUS
  <2>4. /\ len = l + (p - c)
        /\ \A j \in 1 .. l : sh[j] = got[j]
        /\ \A j \in 1 .. p - c : sh[l + j] = text[c + j]
    <3>1. Follows(text, p, got, c, sh)
      BY <1>1, <2>a, <2>b, <2>3, ShownIs
    <3> QED BY <1>7, <2>2, <2>b, <3>1 DEF Follows
  <2>5. /\ Len(tsh) = l + (n - c)
        /\ \A j \in 1 .. l : tsh[j] = got[j]
        /\ \A j \in 1 .. n - c : tsh[l + j] = text[c + j]
    <3>1. Follows(text, n, got, c, tsh)
      BY <1>1, <2>a, <2>b, <2>3, ShownIs
    <3> QED BY <2>2, <2>b, <3>1 DEF Follows
  <2>6. Len(tsh) = len + 1
    <3>1. len = l + (p - c) /\ Len(tsh) = l + (n - c)
      BY <2>4, <2>5
    <3> QED BY <1>1, <3>1
  <2>7. n - c \in 1 .. n - c /\ l + (n - c) = len + 1 /\ c + (n - c) = n
    <3>1. len = l + (p - c)
      BY <2>4
    <3>2. n - c = (p - c) + 1 /\ p - c \in Nat
      BY <1>1, <2>3
    <3>3. PICK d \in Nat : d = p - c
      BY <3>2
    <3> QED BY <1>1, <3>1, <3>2, <3>3
  <2>8. tsh[len + 1] = text[n]
    BY <2>5, <2>7
  <2>9. ASSUME NEW j \in 1 .. len PROVE tsh[j] = sh[j]
    <3>1. CASE j <= l
      BY <2>4, <2>5, <3>1
    <3>2. CASE j > l
      <4>1. PICK d : d = j - l
        OBVIOUS
      <4>2. len = l + (p - c) /\ p \in Nat /\ n = p + 1
        BY <1>1, <2>4
      <4>3. d \in 1 .. p - c /\ d \in 1 .. n - c /\ j = l + d
        <5>1. PICK e : e = p - c
          OBVIOUS
        <5>2. e \in Int /\ len = l + e /\ n - c = e + 1
          BY <2>3, <4>2, <5>1
        <5>3. d \in 1 .. e /\ d \in 1 .. e + 1 /\ j = l + d
          BY <3>2, <4>1, <5>2
        <5> QED BY <5>1, <5>2, <5>3
      <4> QED BY <2>4, <2>5, <4>3
    <3> QED BY <3>1, <3>2
  <2> QED BY <2>6, <2>8, <2>9
<1>9. ASSUME NEW m \in 1 .. len + 2, NEW i \in DOMAIN LevelNames, StartsAt(tsh, m),
             len + 2 - m <= Len(LevelNames[i]), HasAt(tsh, m, LevelNames[i], len + 2 - m)
      PROVE  new[i] = len + 2 - m
  <2>1. PICK k \in Nat : k = s.matched[i]
    BY <1>1
  <2>2. PICK name : name = LevelNames[i]
    OBVIOUS
  <2>3. /\ Len(name) \in Nat /\ k < Len(name)
        /\ \A j \in 1 .. Len(name) : InNames(name[j])
        /\ new[i] = IF name[k + 1] = text[n] THEN k + 1 ELSE 0
    BY <1>2, <2>1, <2>2, NamesAre DEF ReadTo, FoundIn
  <2>4. CASE m = len + 2
    <3>1. m # 1 /\ m - 1 = len + 1 /\ k + 1 \in 1 .. Len(name)
      BY <2>3, <2>4
    <3>2. ~InNames(text[n])
      BY <1>8, <1>9, <3>1 DEF StartsAt
    <3> QED BY <2>3, <2>4, <3>1, <3>2
  <2>5. CASE m # len + 2
    <3>1. PICK r \in Nat : r = len + 1 - m
      BY <2>5
    <3>2. /\ m \in 1 .. len + 1 /\ len + 2 - m = r + 1 /\ r <= Len(name)
          /\ \A j \in 1 .. r : j \in 1 .. r + 1 /\ m + j - 1 \in 1 .. len
          /\ r + 1 \in 1 .. r + 1 /\ m + (r + 1) - 1 = len + 1 /\ (m # 1 => m - 1 \in 1 .. len)
      BY <1>9, <2>2, <2>3, <2>5, <3>1
    <3>3. \A j \in 1 .. r + 1 : tsh[m + j - 1] = name[j]
      BY <1>9, <2>2, <3>2 DEF HasAt
    <3>4. HasAt(sh, m, name, r)
      BY <1>8, <3>2, <3>3 DEF HasAt
    <3>5. StartsAt(sh, m)
      BY <1>8, <1>9, <3>2 DEF StartsAt
    <3>6. k = r
      BY <1>1, <1>5, <1>7, <2>1, <2>2, <3>1, <3>2, <3>4, <3>5 DEF Matching
    <3>7. text[n] = name[r + 1]
      BY <1>8, <3>2, <3>3
    <3> QED BY <2>3, <3>2, <3>6, <3>7
  <2> QED BY <2>4, <2>5
<1>10. Matching(new, tsh)
  <2> SUFFICES ASSUME NEW m \in 1 .. Len(tsh) + 1, NEW i \in DOMAIN LevelNames, StartsAt(tsh, m),
                      Len(tsh) + 1 - m <= Len(LevelNames[i]),
                      HasAt(tsh, m, LevelNames[i], Len(tsh) + 1 - m)
               PROVE  new[i] = Len(tsh) + 1 - m
    BY DEF Matching
  <2>1. Len(tsh) + 1 - m = len + 2 - m /\ m \in 1 .. len + 2
    BY <1>8
  <2>2. len + 2 - m <= Len(LevelNames[i]) /\ HasAt(tsh, m, LevelNames[i], len + 2 - m)
    BY <2>1
  <2> QED BY <1>9, <2>1, <2>2
<1>11. NoneLeft(tsh)
  <2> SUFFICES ASSUME NEW m \in 1 .. len + 1, NEW i \in DOMAIN LevelNames, StartsAt(tsh, m),
                      m + Len(LevelNames[i]) - 1 <= len + 1,
                      HasAt(tsh, m, LevelNames[i], Len(LevelNames[i]))
               PROVE  FALSE
    BY <1>8 DEF NoneLeft
  <2>1. PICK name : name = LevelNames[i]
    OBVIOUS
  <2>2. PICK r \in Nat : r = Len(name)
    BY <2>1, NamesAre
  <2>3. r >= 1 /\ m + r - 1 <= len + 1 /\ HasAt(tsh, m, name, r)
    BY <2>1, <2>2, NamesAre
  <2>4. CASE m + r - 1 = len + 1
    <3>1. r = len + 2 - m /\ m \in 1 .. len + 2
      BY <2>2, <2>4
    <3>2. len + 2 - m <= Len(LevelNames[i]) /\ HasAt(tsh, m, LevelNames[i], len + 2 - m)
      BY <2>1, <2>2, <2>3, <3>1
    <3>3. new[i] = len + 2 - m
      BY <1>9, <3>1, <3>2
    <3> QED BY <1>2, <2>1, <2>2, <3>1, <3>3
  <2>5. CASE m + r - 1 # len + 1
    <3>1. /\ m \in 1 .. len /\ m + r - 1 <= len /\ (m # 1 => m - 1 \in 1 .. len)
          /\ \A j \in 1 .. r : m + j - 1 \in 1 .. len
      <4>1. r >= 1 /\ m + r - 1 <= len /\ m \in Nat /\ m >= 1
        BY <2>3, <2>5
      <4>2. \A j \in 1 .. r : m + j - 1 \in 1 .. len
        BY <4>1
      <4> QED BY <4>1, <4>2
    <3>2. HasAt(sh, m, name, r)
      BY <1>8, <2>3, <3>1 DEF HasAt
    <3>3. StartsAt(sh, m)
      BY <1>8, <3>1 DEF StartsAt
    <3> QED BY <1>1, <1>5, <1>7, <2>1, <2>2, <3>1, <3>2, <3>3 DEF NoneLeft
  <2> QED BY <2>4, <2>5
<1> QED BY <1>t, <1>1, <1>3, <1>4, <1>6, <1>10, <1>11 DEF ReadTo

\* The first of the names that are found.
LEMMA FirstFound ==
  ASSUME NEW found \in SUBSET Nat, found # {}
  PROVE  (CHOOSE i \in found : \A k \in found : i <= k) \in found
BY LeastOf

\* A turn that finds the name k.
Coloured(s, n, k) ==
  [s EXCEPT !.matched = [i \in DOMAIN LevelNames |-> 0],
            !.out = s.out \o SubSeq(s.text, s.copied + 1, n - Len(LevelNames[k])) \o <<ColouredNames[k]>>,
            !.copied = n]
LEMMA ReadsName ==
  ASSUME NEW text \in Seq(Characters), NEW n \in 1 .. Len(text), NEW p, p = n - 1, NEW s, ReadTo(text, s, p),
         NEW new, new = Matched(s, text[n]), NEW k \in DOMAIN LevelNames, new[k] = Len(LevelNames[k]),
         NEW t, t = Coloured(s, n, k)
  PROVE  ReadTo(text, t, n)
<1>1. /\ s \in [text : {text}, matched : [DOMAIN LevelNames -> Nat], out : Seq(Shown), copied : 0 .. p]
      /\ s.text = text /\ s.out \in Seq(Shown) /\ s.copied \in 0 .. p /\ n \in Nat /\ p \in Nat /\ n = p + 1
      /\ n <= Len(text) /\ Len(text) \in Nat /\ s.matched \in [DOMAIN LevelNames -> Nat]
      /\ Bare(s.out) = SubSeq(text, 1, s.copied) /\ FoundIn(text, s.matched, s.copied, p)
      /\ NoneLeft(ShownBy(s, p))
  BY DEF ReadTo
<1>2. PICK name : name = LevelNames[k]
  OBVIOUS
<1>3. PICK colour : colour = ColouredNames[k]
  OBVIOUS
<1>4. /\ name \in Seq(Characters) /\ colour \in Shades /\ colour \notin Characters
      /\ InNames(colour) /\ BareOf(colour) = name
  BY <1>2, <1>3, NamesAre DEF InNames, BareOf
<1>5. PICK z \in Nat : z = Len(name)
  BY <1>4
<1>6. PICK c \in Nat : c = s.copied
  BY <1>1
<1>7. /\ z >= 1 /\ c + z <= n
      /\ \A j \in 1 .. z : text[n - z + j] = name[j]
  <2>1. HaveRead(text, s, new, n)
    BY MatchedIs
  <2>2. new[k] = z
    BY <1>2, <1>5
  <2>3. z >= 1
    BY <1>2, <1>5, NamesAre
  <2> QED BY <1>2, <1>6, <2>1, <2>2, <2>3 DEF HaveRead
<1>8. PICK e \in Nat : e = n - z
  BY <1>1, <1>7
<1>9. /\ e <= p /\ c <= e /\ e + z = n /\ e \in 0 .. Len(text) /\ p \in 0 .. Len(text)
      /\ c \in 0 .. e /\ c \in 0 .. p
  BY <1>1, <1>7, <1>8
<1>10. PICK front : front = s.out \o SubSeq(text, c + 1, e)
  OBVIOUS
<1>11. PICK sh : sh = ShownBy(s, p)
  OBVIOUS
<1>12. PICK got : got = s.out
  OBVIOUS
<1>13. Follows(text, e, got, c, front) /\ Follows(text, p, got, c, sh)
  <2>1. front = got \o SubSeq(text, c + 1, e) /\ sh = got \o SubSeq(text, c + 1, p) /\ got \in Seq(Shown)
    BY <1>1, <1>6, <1>10, <1>11, <1>12 DEF ShownBy
  <2> QED BY <1>9, <2>1, ShownIs
<1>14. PICK l \in Nat : l = Len(front)
  BY <1>13 DEF Follows
<1>15. l <= Len(sh) /\ Len(sh) \in Nat /\ \A j \in 1 .. l : front[j] = sh[j]
  <2>1. PICK o \in Nat : o = Len(got)
    BY <1>1, <1>12
  <2>2. /\ l = o + (e - c) /\ Len(sh) = o + (p - c)
        /\ \A j \in 1 .. o : front[j] = got[j] /\ sh[j] = got[j]
        /\ \A j \in 1 .. e - c : front[o + j] = text[c + j]
        /\ \A j \in 1 .. p - c : sh[o + j] = text[c + j]
    BY <1>13, <1>14, <2>1 DEF Follows
  <2>3. ASSUME NEW j \in 1 .. l PROVE front[j] = sh[j]
    <3>1. CASE j <= o
      BY <2>2, <3>1
    <3>2. CASE j > o
      <4>1. PICK d : d = j - o
        OBVIOUS
      <4>2. l = o + (e - c)
        BY <2>2
      <4>3. d \in 1 .. e - c /\ d \in 1 .. p - c /\ j = o + d
        BY <1>9, <3>2, <4>1, <4>2
      <4> QED BY <2>2, <4>3
    <3> QED BY <3>1, <3>2
  <2>4. l = o + (e - c) /\ Len(sh) = o + (p - c)
    BY <2>2
  <2> QED BY <1>9, <2>3, <2>4
<1>16. PICK tout : tout = Append(front, colour)
  OBVIOUS
<1>17. /\ tout \in Seq(Shown) /\ Len(tout) = l + 1 /\ tout[l + 1] = colour
       /\ \A j \in 1 .. l : tout[j] = front[j]
  <2>1. front \in Seq(Shown) /\ colour \in Shown
    BY <1>4, <1>13 DEF Follows, Shown
  <2> QED BY <1>14, <1>16, <2>1, AppendIs
<1>18. /\ t.text = text /\ t.out = tout /\ t.copied = n
       /\ \A i \in DOMAIN LevelNames : t.matched[i] = 0
       /\ t \in [text : {text}, matched : [DOMAIN LevelNames -> Nat], out : Seq(Shown), copied : 0 .. n]
  <2>1. front \o <<colour>> = tout
    <3>1. front \in Seq(Shown) /\ colour \in Shown
      BY <1>4, <1>13 DEF Follows, Shown
    <3> QED BY <1>16, <3>1
  <2>2. s.out \o SubSeq(s.text, s.copied + 1, n - Len(LevelNames[k])) \o <<ColouredNames[k]>> = tout
    BY <1>1, <1>2, <1>3, <1>5, <1>6, <1>8, <1>10, <2>1
  <2>3. t = [text |-> text, matched |-> [i \in DOMAIN LevelNames |-> 0], out |-> tout, copied |-> n]
    BY <1>1, <2>2 DEF Coloured
  <2>4. n \in 0 .. n
    BY <1>1
  <2> QED BY <1>17, <2>3, <2>4
<1>19. Bare(tout) = SubSeq(text, 1, n)
  <2>1. SubSeq(text, c + 1, e) \in Seq(Characters) /\ got \in Seq(Shown) /\ front \in Seq(Shown)
    BY <1>1, <1>12, <1>13 DEF Follows
  <2>2. Bare(front) = SubSeq(text, 1, c) \o SubSeq(text, c + 1, e)
    BY <1>1, <1>6, <1>10, <1>12, <2>1, BareOfText
  <2>3. Bare(front) = SubSeq(text, 1, e)
    BY <1>9, <2>2, SplitAt
  <2>4. SubSeq(text, e + 1, n) = name
    <3>1. PICK w : w = SubSeq(text, e + 1, n)
      OBVIOUS
    <3>2. Len(text) \in Nat /\ e \in Nat /\ n \in Nat /\ z \in Nat /\ n <= Len(text) /\ n - e = z /\ z >= 1
      BY <1>1, <1>7, <1>9
    <3>3. w \in Seq(Characters) /\ Len(w) = z /\ \A j \in 1 .. z : w[j] = text[e + j]
      BY <3>1, <3>2, PieceIs
    <3>4. \A j \in 1 .. z : w[j] = name[j]
      BY <1>7, <1>8, <3>3
    <3> QED BY <1>4, <1>5, <3>1, <3>3, <3>4, SameSequence
  <2>5. Bare(tout) = Bare(front) \o name
    <3>1. colour \in Shown
      BY <1>4 DEF Shown
    <3> QED BY <1>4, <1>16, <2>1, <3>1, BareAppend
  <2>6. SubSeq(text, 1, e) \o SubSeq(text, e + 1, n) = SubSeq(text, 1, n)
    <3>1. e \in 0 .. n /\ n \in 0 .. Len(text)
      BY <1>1, <1>9
    <3> QED BY <3>1, SplitAt
  <2> QED BY <2>3, <2>4, <2>5, <2>6
<1>20. FoundIn(text, t.matched, t.copied, n)
  <2>1. \A i \in DOMAIN LevelNames : 0 < Len(LevelNames[i])
    BY NamesAre
  <2>2. n + 0 <= n
    BY <1>1
  <2> QED BY <1>18, <2>1, <2>2 DEF FoundIn
<1>21. ShownBy(t, n) = tout
  <2>1. SubSeq(text, n + 1, n) = <<>>
    BY <1>1
  <2>2. tout \o <<>> = tout
    BY <1>17
  <2> QED BY <1>18, <2>1, <2>2 DEF ShownBy
<1>22. ASSUME NEW i \in DOMAIN LevelNames, NEW j \in 1 .. Len(LevelNames[i])
       PROVE  LevelNames[i][j] # colour
  BY <1>4, NamesAre
<1>m. ASSUME NEW m \in 1 .. l + 2, NEW i \in DOMAIN LevelNames, StartsAt(tout, m),
             l + 2 - m <= Len(LevelNames[i]), HasAt(tout, m, LevelNames[i], l + 2 - m)
      PROVE  FALSE
  <2>1. CASE m = l + 2
    <3>1. m # 1 /\ m - 1 = l + 1
      BY <2>1
    <3> QED BY <1>4, <1>17, <1>m, <3>1 DEF StartsAt
  <2>2. CASE m # l + 2
    <3>1. PICK d : d = l + 2 - m
      OBVIOUS
    <3>2. PICK r \in Nat : r = Len(LevelNames[i])
      BY NamesAre
    <3>3. d \in 1 .. d /\ m + d - 1 = l + 1 /\ d <= r
      BY <1>m, <2>2, <3>1, <3>2
    <3>4. d \in 1 .. Len(LevelNames[i])
      BY <3>2, <3>3
    <3>5. tout[m + d - 1] = LevelNames[i][d]
      BY <1>m, <3>1, <3>3 DEF HasAt
    <3> QED BY <1>17, <1>22, <3>3, <3>4, <3>5
  <2> QED BY <2>1, <2>2
<1>23. Matching(t.matched, tout)
  <2> SUFFICES ASSUME NEW m \in 1 .. Len(tout) + 1, NEW i \in DOMAIN LevelNames, StartsAt(tout, m),
                      Len(tout) + 1 - m <= Len(LevelNames[i]),
                      HasAt(tout, m, LevelNames[i], Len(tout) + 1 - m)
               PROVE  FALSE
    BY DEF Matching
  <2>1. Len(tout) + 1 - m = l + 2 - m /\ m \in 1 .. l + 2
    BY <1>17
  <2>2. l + 2 - m <= Len(LevelNames[i]) /\ HasAt(tout, m, LevelNames[i], l + 2 - m)
    BY <2>1
  <2> QED BY <1>m, <2>1, <2>2
<1>24. NoneLeft(tout)
  <2> SUFFICES ASSUME NEW m \in 1 .. l + 1, NEW i \in DOMAIN LevelNames, StartsAt(tout, m),
                      m + Len(LevelNames[i]) - 1 <= l + 1,
                      HasAt(tout, m, LevelNames[i], Len(LevelNames[i]))
               PROVE  FALSE
    BY <1>17 DEF NoneLeft
  <2>1. PICK r \in Nat : r = Len(LevelNames[i])
    BY NamesAre
  <2>2. r >= 1 /\ m + r - 1 <= l + 1 /\ r \in 1 .. Len(LevelNames[i])
    BY <2>1, NamesAre
  <2>3. \A j \in 1 .. r : tout[m + j - 1] = LevelNames[i][j]
    BY <2>1 DEF HasAt
  <2>4. CASE m + r - 1 = l + 1
    <3>1. tout[l + 1] = LevelNames[i][r]
      BY <2>2, <2>3, <2>4
    <3> QED BY <1>17, <1>22, <2>2, <3>1
  <2>5. CASE m + r - 1 # l + 1
    <3>1. m + r - 1 <= l /\ m \in Nat /\ m >= 1
      BY <2>2, <2>5, SMTT(30)
    <3>2. /\ m \in 1 .. Len(sh) /\ m + r - 1 <= Len(sh) /\ (m # 1 => m - 1 \in 1 .. l)
          /\ \A j \in 1 .. r : m + j - 1 \in 1 .. l
      <4>1. m \in 1 .. Len(sh) /\ m + r - 1 <= Len(sh) /\ (m # 1 => m - 1 \in 1 .. l)
        BY <1>15, <2>2, <3>1
      <4>2. \A j \in 1 .. r : m + j - 1 \in 1 .. l
        BY <3>1
      <4> QED BY <4>1, <4>2
    <3>3. HasAt(sh, m, LevelNames[i], Len(LevelNames[i]))
      BY <1>15, <1>17, <2>1, <2>3, <3>2 DEF HasAt
    <3>4. StartsAt(sh, m)
      BY <1>15, <1>17, <3>2 DEF StartsAt
    <3> QED BY <1>1, <1>11, <2>1, <3>2, <3>3, <3>4 DEF NoneLeft
  <2> QED BY <2>4, <2>5
<1> QED BY <1>18, <1>19, <1>20, <1>21, <1>23, <1>24 DEF ReadTo

\* A turn of the loop.
LEMMA TurnReads ==
  ASSUME NEW text \in Seq(Characters), NEW n \in 1 .. Len(text), NEW s, ReadTo(text, s, n - 1)
  PROVE  ReadTo(text, Advance(s, n), n)
<1>1. PICK p : p = n - 1
  OBVIOUS
<1>2. PICK new : new = Matched(s, text[n])
  OBVIOUS
<1>3. s.text = text /\ ReadTo(text, s, p)
  BY <1>1 DEF ReadTo
<1> DEFINE found == {i \in DOMAIN LevelNames : new[i] = Len(LevelNames[i])}
           first == CHOOSE i \in found : \A k \in found : i <= k
<1>4. CASE found = {}
  <2>1. Advance(s, n) = [s EXCEPT !.matched = new]
    BY <1>2, <1>3, <1>4 DEF Advance
  <2>2. \A i \in DOMAIN LevelNames : new[i] # Len(LevelNames[i])
    BY <1>4
  <2> QED BY <1>1, <1>2, <1>3, <2>1, <2>2, ReadsOn
<1>5. CASE found # {}
  <2>1. found \in SUBSET Nat
    <3>1. LevelNames \in Seq(Seq(Characters) \ {<<>>})
      BY ConsoleAssumption DEF ConsoleAssumption
    <3> QED BY <3>1
  <2>2. first \in found
    BY <1>5, <2>1, FirstFound
  <2>3. PICK t : t = Advance(s, n)
    OBVIOUS
  <2>4. t = Coloured(s, n, first)
    BY <1>2, <1>3, <1>5, <2>3 DEF Advance, Coloured
  <2> HIDE DEF first
  <2>5. ReadTo(text, t, n)
    BY <1>1, <1>2, <1>3, <2>2, <2>4, ReadsName
  <2> QED BY <2>3, <2>5
<1> QED BY <1>4, <1>5

\* The loop over the line, and what it knows after each turn.
IsRun(text, f, n) == f = [i \in 0 .. n |-> IF i = 0 THEN Search(text) ELSE Advance(f[i - 1], i)]

\* There is such a run for any number of turns.
LEMMA ColourTurns ==
  ASSUME NEW text, NEW n \in Nat
  PROVE  \E f : IsRun(text, f, n)
<1> DEFINE T == {k \in Nat : ~\E f : IsRun(text, f, k)}
<1>1. SUFFICES ASSUME T # {} PROVE FALSE
  OBVIOUS
<1>2. PICK k \in T : \A m \in T : k <= m
  <2>1. T \in SUBSET Nat
    OBVIOUS
  <2> QED BY <1>1, <2>1, LeastOf
<1>3. k \in Nat /\ ~\E f : IsRun(text, f, k)
  BY <1>2
<1>4. CASE k = 0
  <2> DEFINE g == [i \in 0 .. 0 |-> Search(text)]
  <2>1. g = [i \in 0 .. 0 |-> IF i = 0 THEN Search(text) ELSE Advance(g[i - 1], i)]
    OBVIOUS
  <2> QED BY <1>3, <1>4, <2>1 DEF IsRun
<1>5. CASE k # 0
  <2>1. k - 1 \in Nat /\ ~(k <= k - 1)
    BY <1>3, <1>5
  <2>2. PICK f : IsRun(text, f, k - 1)
    BY <1>2, <2>1
  <2> DEFINE g == [i \in 0 .. k |-> IF i = k THEN Advance(f[k - 1], k) ELSE f[i]]
  <2>3. \A i \in 0 .. k : g[i] = IF i = 0 THEN Search(text) ELSE Advance(g[i - 1], i)
    <3>1. SUFFICES ASSUME NEW i \in 0 .. k PROVE g[i] = IF i = 0 THEN Search(text) ELSE Advance(g[i - 1], i)
      OBVIOUS
    <3>2. CASE i = k
      <4>1. k - 1 \in 0 .. k /\ k - 1 # k
        BY <2>1
      <4>2. g[k] = Advance(f[k - 1], k) /\ g[k - 1] = f[k - 1]
        BY <1>3, <4>1
      <4> HIDE DEF g
      <4> QED BY <1>5, <3>2, <4>2
    <3>3. CASE i # k
      <4>1. i \in 0 .. k - 1 /\ (i # 0 => i - 1 \in 0 .. k /\ i - 1 # k)
        BY <1>3, <3>3
      <4>2. g[i] = f[i] /\ (i # 0 => g[i - 1] = f[i - 1])
        BY <3>3, <4>1
      <4>3. f[i] = IF i = 0 THEN Search(text) ELSE Advance(f[i - 1], i)
        BY <2>2, <4>1 DEF IsRun
      <4> HIDE DEF g
      <4> QED BY <4>2, <4>3
    <3> QED BY <3>2, <3>3
  <2>4. g = [i \in 0 .. k |-> g[i]]
    OBVIOUS
  <2> HIDE DEF g
  <2>5. IsRun(text, g, k)
    BY <2>3, <2>4 DEF IsRun
  <2> QED BY <1>3, <2>5
<1> QED BY <1>4, <1>5

\* A line that is written without its colours is the line, and no name is left
\* where one would have been found.
LEMMA ColouredIs ==
  ASSUME NEW text \in Seq(Characters)
  PROVE  \E s : ReadTo(text, s, Len(text)) /\ WriteColoured(text) = ShownBy(s, Len(text))
<1> DEFINE F(f) == f = [i \in 0 .. Len(text) |-> IF i = 0 THEN Search(text) ELSE Advance(f[i - 1], i)]
           turn == CHOOSE f : F(f)
<1>1. Len(text) \in Nat
  OBVIOUS
<1>2. \E f : F(f)
  BY <1>1, ColourTurns DEF IsRun
<1>3. F(turn)
  BY <1>2
<1>4. WriteColoured(text) = turn[Len(text)].out \o SubSeq(text, turn[Len(text)].copied + 1, Len(text))
  BY DEF WriteColoured
<1> HIDE DEF turn
<1> DEFINE T == {n \in 0 .. Len(text) : ~ReadTo(text, turn[n], n)}
<1>5. T = {}
  <2>1. SUFFICES ASSUME T # {} PROVE FALSE
    OBVIOUS
  <2>2. PICK n \in T : \A m \in T : n <= m
    <3>1. T \in SUBSET Nat
      BY <1>1
    <3> QED BY <2>1, <3>1, LeastOf
  <2>3. n \in 0 .. Len(text) /\ n \in Nat /\ ~ReadTo(text, turn[n], n)
    BY <1>1, <2>2
  <2>4. CASE n = 0
    <3>1. turn[n] = Search(text)
      BY <1>3, <2>3, <2>4
    <3> QED BY <2>3, <2>4, <3>1, SearchReads
  <2>5. CASE n # 0
    <3>1. n \in 1 .. Len(text) /\ n - 1 \in 0 .. Len(text) /\ ~(n <= n - 1)
      BY <1>1, <2>3, <2>5
    <3>2. ReadTo(text, turn[n - 1], n - 1)
      BY <2>2, <3>1
    <3>3. turn[n] = Advance(turn[n - 1], n)
      BY <1>3, <2>3, <2>5
    <3> QED BY <2>3, <3>1, <3>2, <3>3, TurnReads
  <2> QED BY <2>4, <2>5
<1>6. PICK s : s = turn[Len(text)]
  OBVIOUS
<1>7. ReadTo(text, s, Len(text))
  BY <1>1, <1>5, <1>6
<1>8. WriteColoured(text) = ShownBy(s, Len(text))
  <2>1. s.text = text
    BY <1>7 DEF ReadTo
  <2> QED BY <1>4, <1>6, <2>1 DEF ShownBy
<1> QED BY <1>7, <1>8

\* A name that is not left is no prefix of what follows.
LEMMA NoPrefixLeft ==
  ASSUME NEW sh \in Seq(Shown), NoneLeft(sh), NEW n \in 1 .. Len(sh), StartsAt(sh, n), NEW i \in DOMAIN LevelNames
  PROVE  ~IsPrefix(LevelNames[i], SubSeq(sh, n, Len(sh)))
<1>1. PICK len \in Nat : len = Len(sh)
  OBVIOUS
<1>2. PICK name : name = LevelNames[i]
  OBVIOUS
<1>3. PICK r \in Nat : r = Len(name)
  BY <1>2, NamesAre
<1>4. PICK rest : rest = SubSeq(sh, n, len)
  OBVIOUS
<1>5. /\ rest \in Seq(Shown) /\ Len(rest) = len - n + 1
      /\ \A j \in 1 .. len - n + 1 : rest[j] = sh[n + j - 1]
  BY <1>1, <1>4
<1>6. SUFFICES ASSUME IsPrefix(name, rest) PROVE FALSE
  BY <1>1, <1>2, <1>4
<1>7. r <= len - n + 1 /\ name = SubSeq(rest, 1, r)
  <2>1. name = SubSeq(name, 1, r)
    <3>1. name \in Seq(Characters)
      BY <1>2, NamesAre
    <3> QED BY <1>3, <3>1
  <2>2. r <= Len(rest) /\ SubSeq(name, 1, r) = SubSeq(rest, 1, r)
    BY <1>3, <1>6 DEF IsPrefix
  <2> QED BY <1>5, <2>1, <2>2
<1>8. \A j \in 1 .. r : name[j] = rest[j] /\ j \in 1 .. len - n + 1
  BY <1>5, <1>7
<1>9. n + r - 1 <= len
  BY <1>1, <1>7
<1>10. HasAt(sh, n, name, r)
  BY <1>5, <1>8 DEF HasAt
<1> QED BY <1>1, <1>2, <1>3, <1>9, <1>10 DEF NoneLeft

\* What a line is without colours, and what it is with them.
LEMMA LineIsShown ==
  ASSUME NEW text \in Lines
  PROVE  /\ Bare(text) = text /\ Bare(WriteColoured(text)) = text
         /\ WriteColoured(text) \in Seq(Shown) /\ NoneLeft(WriteColoured(text))
<1>1. text \in Seq(Characters) /\ Len(text) \in Nat
  BY ConsoleAssumption DEF ConsoleAssumption
<1>2. Bare(text) = text
  <2>1. <<>> \in Seq(Shown) /\ <<>> \o text = text
    BY <1>1
  <2>2. Bare(<<>> \o text) = Bare(<<>>) \o text
    BY <1>1, <2>1, BareOfText
  <2> QED BY <2>1, <2>2, BareEmpty
<1>3. PICK s : ReadTo(text, s, Len(text)) /\ WriteColoured(text) = ShownBy(s, Len(text))
  BY <1>1, ColouredIs
<1>4. PICK n \in Nat : n = Len(text)
  BY <1>1
<1>5. PICK c : c = s.copied
  OBVIOUS
<1>6. PICK got : got = s.out
  OBVIOUS
<1>7. /\ s.text = text /\ got \in Seq(Shown) /\ c \in 0 .. n
      /\ Bare(got) = SubSeq(text, 1, c) /\ NoneLeft(ShownBy(s, n))
  BY <1>3, <1>4, <1>5, <1>6 DEF ReadTo
<1>8. PICK sh : sh = ShownBy(s, n)
  OBVIOUS
<1>9. sh = got \o SubSeq(text, c + 1, n)
  BY <1>5, <1>6, <1>7, <1>8 DEF ShownBy
<1>10. sh \in Seq(Shown) /\ SubSeq(text, c + 1, n) \in Seq(Characters)
  <2>1. n \in 0 .. Len(text)
    BY <1>4
  <2>2. Follows(text, n, got, c, sh)
    BY <1>1, <1>7, <1>9, <2>1, ShownIs, Zenon
  <2> QED BY <2>2 DEF Follows
<1>11. Bare(sh) = SubSeq(text, 1, c) \o SubSeq(text, c + 1, n)
  BY <1>7, <1>9, <1>10, BareOfText
<1>12. SubSeq(text, 1, c) \o SubSeq(text, c + 1, n) = text
  <2>1. n \in 0 .. Len(text)
    BY <1>4
  <2>2. SubSeq(text, 1, c) \o SubSeq(text, c + 1, n) = SubSeq(text, 1, n)
    BY <1>1, <1>7, <2>1, SplitAt
  <2>3. SubSeq(text, 1, n) = text
    BY <1>1, <1>4
  <2> QED BY <2>2, <2>3
<1> QED BY <1>2, <1>3, <1>4, <1>7, <1>8, <1>10, <1>11, <1>12

(***************************************************************************)
(* Whatever the lines and the names of the levels, of which none is empty: *)
(* a line is written with no character changed, and with colours on every  *)
(* name at its start or behind a character of no name is coloured, even    *)
(* though a search that starts anew never looks back (write_message of the *)
(* console output).                                                        *)
(***************************************************************************)
THEOREM LevelsAreColoured == ConsoleInit /\ [][ConsoleNext]_consoleVars => []OnlyLevelsColoured
<1>1. ConsoleInit => OnlyLevelsColoured
  BY BareEmpty DEF ConsoleInit, OnlyLevelsColoured
<1>2. OnlyLevelsColoured /\ [ConsoleNext]_consoleVars => OnlyLevelsColoured'
  <2>1. CASE UNCHANGED consoleVars
    BY <2>1 DEF consoleVars, OnlyLevelsColoured, Bare, InNames
  <2>2. ASSUME NEW text \in Lines, WriteLine(text)
        PROVE  OnlyLevelsColoured'
    <3>1. line' = text /\ colored' = colored /\ shown' = IF colored THEN WriteColoured(text) ELSE text
      BY <2>2 DEF WriteLine
    <3>2. CASE ~colored
      BY <3>1, <3>2, LineIsShown DEF OnlyLevelsColoured
    <3>3. CASE colored
      <4>1. PICK sh : sh = WriteColoured(text)
        OBVIOUS
      <4>2. sh \in Seq(Shown) /\ NoneLeft(sh) /\ Bare(sh) = text /\ shown' = sh
        BY <3>1, <3>3, <4>1, LineIsShown
      <4>3. ASSUME NEW n \in DOMAIN sh, n = 1 \/ ~InNames(sh[n - 1]), NEW i \in DOMAIN LevelNames
            PROVE  ~IsPrefix(LevelNames[i], SubSeq(sh, n, Len(sh)))
        BY <4>2, <4>3, NoPrefixLeft DEF StartsAt
      <4> QED BY <3>1, <4>2, <4>3 DEF OnlyLevelsColoured
    <3> QED BY <3>2, <3>3
  <2> QED BY <2>1, <2>2 DEF ConsoleNext
<1> QED BY <1>1, <1>2, PTL
=============================================================================
