------------------------------- MODULE Filter -------------------------------
(***************************************************************************)
(* Filters: the levels and channels that pass, one bit each, in memory a   *)
(* handle owns alone.                                                      *)
(***************************************************************************)
EXTENDS Integers, FiniteSets

CONSTANTS
  Handles,   \* objects of class filter
  Blocks,    \* memory for filter_impl
  Words,     \* words of channel bits, 8 in the code
  WordBits,  \* bits of a word, 32 in the code
  Levels,    \* levels messages have, or filters are made with
  NoBlock       \* no memory, no handle

VARIABLES
  block,     \* what is in memory: a filter_internal, or NoBlock where none is allocated
  pimpl,     \* of each handle; NoBlock too where there is no object
  wanted     \* what each handle was told to let pass

filterVars == <<block, pimpl, wanted>>

\* The data of a filter: a bit for each level and each channel
FilterData ==
  [levels : SUBSET (0 .. 7), channels : [0 .. Words - 1 -> SUBSET (0 .. WordBits - 1)]]

FilterAssumption ==
  /\ Words \in Nat \ {0} /\ WordBits \in Nat \ {0} /\ Levels \subseteq 0 .. 7
  /\ NoBlock \notin Handles \cup Blocks \cup FilterData
ASSUME FilterAssumption

Channels    == 0 .. Words * WordBits - 1
NoLevel     == 0
Fatal       == 1
Trace       == 6
AllLevels   == 7

\* The data of a new filter
Empty       == [levels |-> {}, channels |-> [w \in 0 .. Words - 1 |-> {}]]

\* add_channel()
AddOneChannel(d, c) == [d EXCEPT !.channels[c \div WordBits] = @ \cup {c % WordBits}]

\* A bug: the last channel of a range is not added.
AddChannelsBelow(d, first, last) ==
  LET turn[n \in Channels] ==
        IF n = 0 THEN d
        ELSE AddOneChannel(turn[n - 1], (first + n - 1) % (Words * WordBits))
  IN  turn[(last - first) % (Words * WordBits)]

\* The loop of add_channel() for a range: what there is after each turn. The
\* counter wraps behind the last channel there is, and the turn in which it is
\* at the last one of the range is the last.
AddChannelsTo(d, first, last) ==
  LET turn[n \in Channels] ==
        IF n = 0 THEN AddOneChannel(d, first)
        ELSE AddOneChannel(turn[n - 1], (first + n) % (Words * WordBits))
  IN  turn[(last - first) % (Words * WordBits)]

Lower(a, b)  == IF a < b THEN a ELSE b
Higher(a, b) == IF b > a THEN b ELSE a

AddChannels(d, first, last) == AddChannelsTo(d, Lower(first, last), Higher(first, last))
AddLevels(d, first, last)   == [d EXCEPT !.levels = @ \cup (Lower(first, last) .. Higher(first, last))]

\* The levels of a constructor
InitLevels(d, level) ==
  IF level = NoLevel THEN d
  ELSE AddLevels(d, Fatal, IF level = AllLevels THEN Trace ELSE level)

\* filter_msg()
FilterMsg(d, level, c) == level \in d.levels /\ (c % WordBits) \in d.channels[c \div WordBits]

-----------------------------------------------------------------------------
\* What a reader of the interface would say passes.
Asked(levels, channels) == [levels |-> levels, channels |-> channels]
Nothing           == Asked({}, {})
LevelsUpTo(level) == IF level = AllLevels THEN 1 .. 6 ELSE 1 .. level

\* Memory for a filter: no block if there is none left.
Got(b) == b \in Blocks \cup {NoBlock} /\ (b # NoBlock => block[b] = NoBlock)

FilterInit ==
  /\ block = [b \in Blocks |-> NoBlock] /\ pimpl = [h \in Handles |-> NoBlock]
  /\ wanted = [h \in Handles |-> Nothing]

Unused(h) == pimpl[h] = NoBlock

\* The constructors, with init(): the memory, if there is any, with the bits set.
Construct(h, b, level, first, last) ==
  /\ Unused(h) /\ Got(b)
  /\ pimpl' = [pimpl EXCEPT ![h] = b]
  /\ block' = IF b = NoBlock THEN block
              ELSE [block EXCEPT ![b] = AddChannels(InitLevels(Empty, level), first, last)]
  /\ wanted' = [wanted EXCEPT ![h] = IF b = NoBlock THEN Nothing
                                     ELSE Asked(LevelsUpTo(level), Lower(first, last) .. Higher(first, last))]

ConstructEmpty(h, b) ==
  /\ Unused(h) /\ Got(b)
  /\ pimpl' = [pimpl EXCEPT ![h] = b]
  /\ block' = IF b = NoBlock THEN block ELSE [block EXCEPT ![b] = Empty]
  /\ wanted' = [wanted EXCEPT ![h] = Nothing]

\* init() of a copy
CopyConstruct(h, other, b) ==
  /\ Unused(h) /\ h # other /\ Got(b) /\ (pimpl[other] = NoBlock => b = NoBlock)
  /\ pimpl' = [pimpl EXCEPT ![h] = b]
  /\ block' = IF b = NoBlock THEN block ELSE [block EXCEPT ![b] = block[pimpl[other]]]
  /\ wanted' = IF b = NoBlock THEN wanted ELSE [wanted EXCEPT ![h] = wanted[other]]

\* operator=(const filter&), which asserts that neither is null
CopyAssign(h, other) ==
  /\ ~Unused(h) /\ ~Unused(other)
  /\ block' = [block EXCEPT ![pimpl[h]] = block[pimpl[other]]]
  /\ wanted' = [wanted EXCEPT ![h] = wanted[other]]
  /\ UNCHANGED pimpl

\* A bug: what the handle had is not released.
MoveAssignKeeps(h, other) ==
  /\ h # other
  /\ pimpl' = [pimpl EXCEPT ![h] = pimpl[other], ![other] = NoBlock]
  /\ wanted' = [wanted EXCEPT ![h] = wanted[other]]
  /\ UNCHANGED block

\* operator=(filter&&), and the move constructor where h has nothing.
MoveAssign(h, other) ==
  /\ h # other
  /\ block' = [b \in Blocks |-> IF b = pimpl[h] THEN NoBlock ELSE block[b]]
  /\ pimpl' = [pimpl EXCEPT ![h] = pimpl[other], ![other] = NoBlock]
  /\ wanted' = [wanted EXCEPT ![h] = wanted[other], ![other] = Nothing]

\* ~filter()
DestroyFilter(h) ==
  /\ ~Unused(h)
  /\ block' = [block EXCEPT ![pimpl[h]] = NoBlock]
  /\ pimpl' = [pimpl EXCEPT ![h] = NoBlock]
  /\ wanted' = [wanted EXCEPT ![h] = Nothing]

\* add_level() and add_channel(), of one and of a range
AddLevelRange(h, first, last) ==
  /\ ~Unused(h)
  /\ block' = [block EXCEPT ![pimpl[h]] = AddLevels(@, first, last)]
  /\ wanted' = [wanted EXCEPT ![h].levels = @ \cup (Lower(first, last) .. Higher(first, last))]
  /\ UNCHANGED pimpl

AddChannelRange(h, first, last) ==
  /\ ~Unused(h)
  /\ block' = [block EXCEPT ![pimpl[h]] = AddChannels(@, first, last)]
  /\ wanted' = [wanted EXCEPT ![h].channels = @ \cup (Lower(first, last) .. Higher(first, last))]
  /\ UNCHANGED pimpl

FilterNext ==
  \/ \E h \in Handles : Unused(h) /\ \E b \in Blocks \cup {NoBlock} :
       \/ ConstructEmpty(h, b)
       \/ \E level \in Levels, first, last \in Channels : Construct(h, b, level, first, last)
       \/ \E other \in Handles : CopyConstruct(h, other, b)
  \/ \E h, other \in Handles : CopyAssign(h, other) \/ MoveAssign(h, other)
  \/ \E h \in Handles : DestroyFilter(h)
  \/ \E h \in Handles, first, last \in Levels : AddLevelRange(h, first, last)
  \/ \E h \in Handles, first, last \in Channels : AddChannelRange(h, first, last)

-----------------------------------------------------------------------------
\* A filter lets pass what it was told and nothing else, whatever was copied,
\* moved or added to before, for every order of the ends of a range and up to
\* the last channel.
PassesAsked ==
  \A h \in Handles : ~Unused(h) =>
    \A level \in Levels, c \in Channels :
      FilterMsg(block[pimpl[h]], level, c) <=> level \in wanted[h].levels /\ c \in wanted[h].channels

\* Every block of memory belongs to one handle, and none is left behind.
FiltersOwnMemory ==
  \A b \in Blocks : Cardinality({h \in Handles : pimpl[h] = b}) = IF block[b] = NoBlock THEN 0 ELSE 1

\* A filter is what it was told, in memory of its own: the two above.
FilterIsAsked == PassesAsked /\ FiltersOwnMemory
=============================================================================
