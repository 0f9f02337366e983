---------------------------- MODULE InplaceMerge ----------------------------
(***************************************************************************)
(* inplace_merge of the sorting sink: two neighbouring sorted blocks of    *)
(* message_locators_ become one.  The smaller block is moved to            *)
(* merge_buffer_ and merged with the other where that lies, forwards if    *)
(* the left block was moved and backwards if the right one was.  If there  *)
(* is no memory for the buffer, qsort orders the two blocks.               *)
(*                                                                         *)
(* A locator is the place it had in the array at first; its timestamp is   *)
(* looked up there (stamp), and the place tells equal timestamps apart.    *)
(* Positions are size_t: they wrap at Wrap, which the backward merge uses  *)
(* for the position before the first one.                                  *)
(***************************************************************************)
EXTENDS Integers

CONSTANTS
  Length,   \* message_locators_.size()
  Stamps,   \* timestamps
  Wrap      \* size_t has the values 0 .. Wrap - 1

ASSUME LengthAssumption == Length \in Nat
ASSUME StampsAssumption == Stamps \subseteq Nat
ASSUME WrapAssumption   == Wrap \in Nat /\ Wrap > Length + 1

VARIABLES
  stamp,        \* the timestamp of every locator
  start, left, right,  \* start, block_l_size, block_r_size
  locs,         \* message_locators_
  temp,         \* merge_buffer_
  lPos, rPos, outPos,
  pc            \* "enter", "forward", "backward", "done"

vars == <<stamp, start, left, right, locs, temp, lPos, rPos, outPos, pc>>
callVars == <<stamp, start, left, right>>

Places == 0 .. Length - 1
total  == left + right
Block  == start .. start + total - 1

\* size_t arithmetic.
Inc(n) == (n + 1) % Wrap

Dec(n) == (n - 1) % Wrap

\* at is sorted from place i to place j.
SortedBetween(at, i, j) ==
  \A m \in i .. j : \A n \in i .. j : m <= n => stamp[at[m]] <= stamp[at[n]]

Init ==
  /\ stamp \in [Places -> Stamps]
  /\ start \in Places /\ left \in 1 .. Length /\ right \in 1 .. Length
  /\ start + left + right <= Length
  /\ locs = [i \in Places |-> i]
  /\ SortedBetween(locs, start, start + left - 1)
  /\ SortedBetween(locs, start + left, start + total - 1)
  /\ temp = <<>> /\ lPos = 0 /\ rPos = 0 /\ outPos = 0 /\ pc = "enter"

-----------------------------------------------------------------------------
MoveLeft == left <= right

\* "rotate blocks if first.timestamp >= last.timestamp"
Rotates == stamp[locs[start]] >= stamp[locs[start + total - 1]]

\* The orders of the two blocks: each of their places, once.
Orders ==
  {order \in [Block -> Block] : \A i \in Block : \E j \in Block : order[j] = i}

\* resize_uninitialized() fails: qsort, which may put equal ones in any order.
Qsort ==
  /\ pc = "enter"
  /\ \E order \in Orders :
       locs' = [i \in Places |-> IF i \in Block THEN locs[order[i]] ELSE locs[i]]
  /\ SortedBetween(locs', start, start + total - 1)
  /\ pc' = "done"
  /\ UNCHANGED <<callVars, temp, lPos, rPos, outPos>>

\* Every element of the right block comes before every one of the left.
Rotate ==
  /\ pc = "enter" /\ Rotates
  /\ locs' = [i \in Places |->
       IF i \in start .. start + right - 1 THEN locs[i + left]
       ELSE IF i \in Block THEN locs[i - right] ELSE locs[i]]
  /\ pc' = "done"
  /\ UNCHANGED <<callVars, temp, lPos, rPos, outPos>>

\* The left block goes to the buffer.
StartForward ==
  /\ pc = "enter" /\ MoveLeft /\ ~Rotates
  /\ temp' = [i \in 0 .. left - 1 |-> locs[start + i]]
  /\ lPos' = 0 /\ rPos' = start + left /\ outPos' = start
  /\ pc' = "forward"
  /\ UNCHANGED <<callVars, locs>>

\* The right block goes to the buffer.
StartBackward ==
  /\ pc = "enter" /\ ~MoveLeft /\ ~Rotates
  /\ temp' = [i \in 0 .. right - 1 |-> locs[start + left + i]]
  /\ lPos' = start + left - 1 /\ rPos' = right - 1 /\ outPos' = start + total - 1
  /\ pc' = "backward"
  /\ UNCHANGED <<callVars, locs>>

\* One turn of the forward loop that takes an element from one of the blocks.
ForwardStep ==
  /\ pc = "forward" /\ lPos # left /\ rPos # start + total
  /\ IF stamp[temp[lPos]] <= stamp[locs[rPos]]
     THEN locs' = [locs EXCEPT ![outPos] = temp[lPos]] /\ lPos' = Inc(lPos) /\ UNCHANGED rPos
     ELSE locs' = [locs EXCEPT ![outPos] = locs[rPos]] /\ rPos' = Inc(rPos) /\ UNCHANGED lPos
  /\ outPos' = Inc(outPos)
  /\ UNCHANGED <<callVars, temp, pc>>

\* A block is used up: the rest of the right one is in place, that of the
\* left one is copied.
ForwardEnd ==
  /\ pc = "forward" /\ (lPos = left \/ rPos = start + total)
  /\ locs' = [i \in Places |->
       IF i \in outPos .. outPos + (left - lPos) - 1 THEN temp[lPos + (i - outPos)] ELSE locs[i]]
  /\ pc' = "done"
  /\ UNCHANGED <<callVars, temp, lPos, rPos, outPos>>

\* A bug: equal timestamps change sides.
BackwardPrefersLeft ==
  /\ pc = "backward" /\ lPos # Dec(start) /\ rPos # Wrap - 1
  /\ IF stamp[locs[lPos]] >= stamp[temp[rPos]]
     THEN locs' = [locs EXCEPT ![outPos] = locs[lPos]] /\ lPos' = Dec(lPos) /\ UNCHANGED rPos
     ELSE locs' = [locs EXCEPT ![outPos] = temp[rPos]] /\ rPos' = Dec(rPos) /\ UNCHANGED lPos
  /\ outPos' = Dec(outPos)
  /\ UNCHANGED <<callVars, temp, pc>>

\* One turn of the backward loop, which takes from the right block when the
\* timestamps are equal.
BackwardStep ==
  /\ pc = "backward" /\ lPos # Dec(start) /\ rPos # Wrap - 1
  /\ IF stamp[locs[lPos]] > stamp[temp[rPos]]
     THEN locs' = [locs EXCEPT ![outPos] = locs[lPos]] /\ lPos' = Dec(lPos) /\ UNCHANGED rPos
     ELSE locs' = [locs EXCEPT ![outPos] = temp[rPos]] /\ rPos' = Dec(rPos) /\ UNCHANGED lPos
  /\ outPos' = Dec(outPos)
  /\ UNCHANGED <<callVars, temp, pc>>

\* A bug: what is left of the right block is forgotten.
BackwardEndNoCopy ==
  /\ pc = "backward" /\ (lPos = Dec(start) \/ rPos = Wrap - 1)
  /\ pc' = "done"
  /\ UNCHANGED <<callVars, locs, temp, lPos, rPos, outPos>>

\* A block is used up: the rest of the left one is in place, that of the
\* right one is copied to the front.
BackwardEnd ==
  /\ pc = "backward" /\ (lPos = Dec(start) \/ rPos = Wrap - 1)
  /\ locs' = IF lPos = Dec(start)
             THEN [i \in Places |-> IF i \in start .. start + Inc(rPos) - 1
                                    THEN temp[i - start] ELSE locs[i]]
             ELSE locs
  /\ pc' = "done"
  /\ UNCHANGED <<callVars, temp, lPos, rPos, outPos>>

Next ==
  \/ Qsort \/ Rotate \/ StartForward \/ StartBackward
  \/ ForwardStep \/ ForwardEnd \/ BackwardStep \/ BackwardEnd

Spec == Init /\ [][Next]_vars

-----------------------------------------------------------------------------
(***************************************************************************)
(* What the loops have yet to read is where it was: merging in place, the  *)
(* output never overtakes the input, and no position leaves its block (the *)
(* assertions of inplace_merge).                                           *)
(***************************************************************************)
InputIntact ==
  /\ pc = "forward" =>
       /\ lPos \in 0 .. left /\ rPos \in start + left .. start + total
       /\ outPos = lPos + rPos - left
       /\ \A i \in rPos .. start + total - 1 : locs[i] = i
  /\ pc = "backward" =>
       /\ lPos \in start .. start + left - 1 \/ lPos = Dec(start)
       /\ rPos \in 0 .. right - 1 \/ rPos = Wrap - 1
       /\ outPos = (lPos + rPos + 1) % Wrap
       /\ lPos # Dec(start) => \A i \in start .. lPos : locs[i] = i

\* The blocks come out as one sorted block, with nothing lost, doubled or
\* taken from elsewhere.
Merged ==
  pc = "done" =>
    /\ SortedBetween(locs, start, start + total - 1)
    /\ \A i \in Block : \E j \in Block : locs[j] = i
    /\ \A i \in Places \ Block : locs[i] = i

\* Unless it rotates the blocks or falls back on qsort, the merge leaves
\* equal timestamps in their order, forwards and backwards.
StableMerge ==
  pc = "done" /\ temp # <<>> =>
    \A i, j \in Block : i < j /\ stamp[locs[i]] = stamp[locs[j]] => locs[i] < locs[j]
=============================================================================
