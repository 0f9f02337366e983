--------------------------- MODULE SinkSortProofs ---------------------------
(***************************************************************************)
(* The sorting sink, for any number of messages with any timestamps, and   *)
(* the merge of two of its blocks in place, for blocks of every size at    *)
(* every place of the array:  the merge is right and stable (the first     *)
(* part), the rounds of merges leave one block with every locator in it,   *)
(* and what the sink writes is complete, in order and flushed (the second  *)
(* part).                                                                  *)
(***************************************************************************)
EXTENDS InplaceMerge, SinkSort, FiniteSetTheorems, WellFoundedInduction,
        SequenceTheorems, TLAPS

(***************************************************************************)
(* The merge of InplaceMerge.  The proof orders the locators by their      *)
(* timestamps and, among equals, by their places (Before).  That is a      *)
(* total order, and the merge, forwards and backwards, takes the first or  *)
(* the last of what remains in it: what has been put out is always the     *)
(* sorted run of what has been taken.                                      *)
(***************************************************************************)
Before(st, x, y) == st[x] < st[y] \/ (st[x] = st[y] /\ x < y)

\* at holds, from i to j, what is in taken, in order.
Run(st, at, i, j, taken) ==
  /\ \A m \in i .. j : at[m] \in taken
  /\ \A x \in taken : \E m \in i .. j : at[m] = x
  /\ \A m, n \in i .. j : m < n => Before(st, at[m], at[n])

\* What a position means that may have been counted down past the first.
Signed(p) == IF p = Wrap - 1 THEN -1 ELSE p

\* The input of a call: two sorted blocks side by side.
Params ==
  /\ stamp \in [Places -> Stamps] /\ start \in Places
  /\ left \in 1 .. Length /\ right \in 1 .. Length /\ start + total <= Length
  /\ \A m, n \in start .. start + left - 1 : m < n => Before(stamp, m, n)
  /\ \A m, n \in start + left .. start + total - 1 : m < n => Before(stamp, m, n)

\* The arrays the merge works on.
Arrays ==
  /\ locs \in [Places -> Places]
  /\ \A i \in Places \ Block : locs[i] = i
  /\ lPos \in 0 .. Wrap - 1 /\ rPos \in 0 .. Wrap - 1 /\ outPos \in 0 .. Wrap - 1
  /\ pc \in {"enter", "forward", "backward", "done"}

\* When the call begins.
Entering == temp = <<>> /\ locs = [i \in Places |-> i]

\* Between two steps of the forward merge.
Forward ==
  /\ temp = [i \in 0 .. left - 1 |-> start + i]
  /\ lPos \in 0 .. left /\ rPos \in start + left .. start + total
  /\ outPos = lPos + rPos - left
  /\ \A i \in rPos .. start + total - 1 : locs[i] = i
  /\ Run(stamp, locs, start, outPos - 1, (start .. start + lPos - 1) \cup (start + left .. rPos - 1))
  /\ lPos < left => \A x \in start + left .. rPos - 1 : Before(stamp, x, start + lPos)
  /\ rPos < start + total => \A x \in start .. start + lPos - 1 : Before(stamp, x, rPos)

\* The same backwards, for the signed positions l and r.
BackwardAt(l, r) ==
  /\ temp = [i \in 0 .. right - 1 |-> start + left + i]
  /\ l \in start - 1 .. start + left - 1 /\ r \in -1 .. right - 1
  /\ Signed(outPos) = l + r + 1
  /\ \A i \in start .. l : locs[i] = i
  /\ Run(stamp, locs, l + r + 2, start + total - 1,
         (l + 1 .. start + left - 1) \cup (start + left + r + 1 .. start + total - 1))
  /\ l >= start => \A x \in start + left + r + 1 .. start + total - 1 : Before(stamp, l, x)
  /\ r >= 0 => \A x \in l + 1 .. start + left - 1 : Before(stamp, start + left + r, x)

\* When the call is done.
Finished ==
  /\ Merged
  /\ temp = <<>> \/ Run(stamp, locs, start, start + total - 1, Block)

\* The inductive invariant of the merge.
IInv ==
  /\ Params /\ Arrays
  /\ pc = "enter" => Entering
  /\ pc = "forward" => Forward
  /\ pc = "backward" => BackwardAt(Signed(lPos), Signed(rPos))
  /\ pc = "done" => Finished

-----------------------------------------------------------------------------
\* size_t arithmetic at the ends of its range.
LEMMA IncDec ==
  /\ \A n \in 0 .. Length : Inc(n) = n + 1 /\ Signed(n) = n
  /\ Inc(Wrap - 1) = 0
  /\ \A n \in 0 .. Length : Dec(n) \in 0 .. Wrap - 1 /\ Signed(Dec(n)) = n - 1
BY LengthAssumption, WrapAssumption DEF Inc, Dec, Signed

\* Counting a position down, below the first one too.
LEMMA SignedDec ==
  /\ \A p \in 0 .. Wrap - 1 : Signed(p) \in -1 .. Wrap - 2 /\ (Signed(p) >= 0 => p = Signed(p))
  /\ \A p \in 0 .. Wrap - 1 : \A n \in 0 .. Length : p = Dec(n) <=> Signed(p) = n - 1
<1>1. \A p \in 0 .. Wrap - 1 : Signed(p) \in -1 .. Wrap - 2 /\ (Signed(p) >= 0 => p = Signed(p))
  BY WrapAssumption DEF Signed
<1>2. ASSUME NEW p \in 0 .. Wrap - 1, NEW n \in 0 .. Length, Signed(p) = n - 1
      PROVE  p = Dec(n)
  <2>1. Dec(n) \in 0 .. Wrap - 1 /\ Signed(Dec(n)) = n - 1
    BY IncDec
  <2> QED
    BY <1>2, <2>1, WrapAssumption, LengthAssumption DEF Signed
<1> QED
  BY <1>1, <1>2, IncDec

\* Before is a total order of the places.
LEMMA Order ==
  ASSUME Params
  PROVE  /\ \A x, y, z \in Places : Before(stamp, x, y) /\ Before(stamp, y, z) => Before(stamp, x, z)
         /\ \A x, y \in Places : x < y => (Before(stamp, x, y) <=> stamp[x] <= stamp[y])
         /\ \A x, y \in Places : x < y => (Before(stamp, y, x) <=> stamp[x] > stamp[y])
<1>0. stamp \in [Places -> Stamps]
  BY DEF Params
<1>1. \A x \in Places : stamp[x] \in Nat /\ x \in Int
  <2>1. \A x \in Places : x \in Int
    BY LengthAssumption DEF Places
  <2> QED
    BY <1>0, <2>1, StampsAssumption
<1>2. \A x, y, z \in Places : Before(stamp, x, y) /\ Before(stamp, y, z) => Before(stamp, x, z)
  BY <1>1 DEF Before
<1>3. \A x, y \in Places : x < y => (Before(stamp, x, y) <=> stamp[x] <= stamp[y])
  BY <1>1 DEF Before
<1>4. \A x, y \in Places : x < y => (Before(stamp, y, x) <=> stamp[x] > stamp[y])
  BY <1>1 DEF Before
<1> QED
  BY <1>2, <1>3, <1>4

\* The numbers of Params, without its order.
LEMMA Sizes ==
  ASSUME Params
  PROVE  /\ start \in Nat /\ left \in Nat \ {0} /\ right \in Nat \ {0}
         /\ total = left + right /\ total \in Nat /\ start + total <= Length
         /\ start + total = start + left + right
<1>1. /\ start \in Places /\ left \in 1 .. Length /\ right \in 1 .. Length
      /\ start + total <= Length
  BY DEF Params
<1> QED
  BY <1>1, LengthAssumption DEF total, Places

\* A run grows at its end by an element after all of it, ...
LEMMA AppendRun ==
  ASSUME NEW at \in [Places -> Places], NEW i \in Places, NEW k \in Places,
         NEW taken, NEW x \in Places,
         k >= i, Run(stamp, at, i, k - 1, taken),
         \A y \in taken : Before(stamp, y, x)
  PROVE  Run(stamp, [at EXCEPT ![k] = x], i, k, taken \cup {x})
<1> DEFINE new == [at EXCEPT ![k] = x]
<1>1. \A m \in i .. k - 1 : new[m] = at[m]
  BY LengthAssumption DEF Places
<1>2. new[k] = x
  OBVIOUS
<1>3. \A m \in i .. k : m \in i .. k - 1 \/ m = k
  BY LengthAssumption DEF Places
<1>4. i .. k - 1 \subseteq i .. k /\ k \in i .. k
  BY LengthAssumption DEF Places
<1> HIDE DEF new
<1>5. \A m \in i .. k : new[m] \in taken \cup {x}
  BY <1>1, <1>2, <1>3 DEF Run
<1>6. \A y \in taken \cup {x} : \E m \in i .. k : new[m] = y
  BY <1>1, <1>2, <1>4 DEF Run
<1>7. \A m, n \in i .. k : m < n => Before(stamp, new[m], new[n])
  <2> SUFFICES ASSUME NEW m \in i .. k, NEW n \in i .. k, m < n
               PROVE  Before(stamp, new[m], new[n])
    OBVIOUS
  <2>1. m \in i .. k - 1
    BY LengthAssumption DEF Places
  <2>2. CASE n \in i .. k - 1
    BY <2>1, <2>2, <1>1 DEF Run
  <2>3. CASE n = k
    BY <2>1, <2>3, <1>1, <1>2 DEF Run
  <2> QED
    BY <2>2, <2>3, <1>3
<1> QED
  BY <1>5, <1>6, <1>7 DEF Run, new

\* ... and at its front by one before all of it.
LEMMA PrependRun ==
  ASSUME NEW at \in [Places -> Places], NEW k \in Places, NEW j \in Places,
         NEW taken, NEW x \in Places,
         k <= j, Run(stamp, at, k + 1, j, taken),
         \A y \in taken : Before(stamp, x, y)
  PROVE  Run(stamp, [at EXCEPT ![k] = x], k, j, taken \cup {x})
<1> DEFINE new == [at EXCEPT ![k] = x]
<1>1. \A m \in k + 1 .. j : new[m] = at[m]
  BY LengthAssumption DEF Places
<1>2. new[k] = x
  OBVIOUS
<1>3. \A m \in k .. j : m \in k + 1 .. j \/ m = k
  BY LengthAssumption DEF Places
<1>4. k + 1 .. j \subseteq k .. j /\ k \in k .. j
  BY LengthAssumption DEF Places
<1> HIDE DEF new
<1>5. \A m \in k .. j : new[m] \in taken \cup {x}
  BY <1>1, <1>2, <1>3 DEF Run
<1>6. \A y \in taken \cup {x} : \E m \in k .. j : new[m] = y
  BY <1>1, <1>2, <1>4 DEF Run
<1>7. \A m, n \in k .. j : m < n => Before(stamp, new[m], new[n])
  <2> SUFFICES ASSUME NEW m \in k .. j, NEW n \in k .. j, m < n
               PROVE  Before(stamp, new[m], new[n])
    OBVIOUS
  <2>1. n \in k + 1 .. j
    BY LengthAssumption DEF Places
  <2>2. CASE m \in k + 1 .. j
    BY <2>1, <2>2, <1>1 DEF Run
  <2>3. CASE m = k
    BY <2>1, <2>3, <1>1, <1>2 DEF Run
  <2> QED
    BY <2>2, <2>3, <1>3
<1> QED
  BY <1>5, <1>6, <1>7 DEF Run, new

\* A run of a whole block is sorted by the timestamps and holds every place
\* of the block.
LEMMA RunMerges ==
  ASSUME Params, NEW at \in [Places -> Places], Run(stamp, at, start, start + total - 1, Block)
  PROVE  /\ \A m \in Block : \A n \in Block : m <= n => stamp[at[m]] <= stamp[at[n]]
         /\ \A x \in Block : \E m \in Block : at[m] = x
<1>1. Block \subseteq Places /\ start \in Int /\ total \in Int
  BY LengthAssumption DEF Params, Block, Places, total
<1>2. \A m \in Block : at[m] \in Places /\ stamp[at[m]] \in Nat
  BY <1>1, StampsAssumption DEF Params
<1>3. ASSUME NEW m \in Block, NEW n \in Block, m <= n
      PROVE  stamp[at[m]] <= stamp[at[n]]
  <2>1. CASE m = n
    BY <1>2, <2>1
  <2>2. CASE m < n
    <3>1. Before(stamp, at[m], at[n])
      BY <2>2 DEF Run, Block
    <3> QED
      BY <3>1, <1>2 DEF Before
  <2>3. m \in Int /\ n \in Int
    BY <1>1, LengthAssumption DEF Places
  <2> QED
    BY <1>3, <2>1, <2>2, <2>3
<1> QED
  BY <1>3 DEF Run, Block

\* The blocks of a call satisfy the invariant.
THEOREM InitIInv == Init => IInv
<1> SUFFICES ASSUME Init PROVE IInv
  OBVIOUS
<1>1. /\ stamp \in [Places -> Stamps] /\ start \in Places
      /\ left \in 1 .. Length /\ right \in 1 .. Length /\ start + total <= Length
  BY LengthAssumption DEF Init, total, Places
<1>2. \A i \in Places : locs[i] = i /\ stamp[i] \in Nat
  BY <1>1, StampsAssumption DEF Init
<1>3. /\ start .. start + left - 1 \subseteq Places
      /\ start + left .. start + total - 1 \subseteq Places
  BY <1>1, LengthAssumption DEF Places, total
<1> DEFINE Ordered(i, j) == SortedBetween(locs, i, j)
<1>4. ASSUME NEW i, NEW j, i .. j \subseteq Places, Ordered(i, j)
      PROVE  \A m, n \in i .. j : m < n => Before(stamp, m, n)
  <2> SUFFICES ASSUME NEW m \in i .. j, NEW n \in i .. j, m < n
               PROVE  Before(stamp, m, n)
    OBVIOUS
  <2>1. m \in Places /\ n \in Places
    BY <1>4
  <2>2. m <= n
    BY <2>1, LengthAssumption DEF Places
  <2>3. stamp[locs[m]] <= stamp[locs[n]]
    BY <1>4, <2>2 DEF SortedBetween
  <2> QED
    BY <2>1, <2>3, <1>2 DEF Before
<1>5. /\ \A m, n \in start .. start + left - 1 : m < n => Before(stamp, m, n)
      /\ \A m, n \in start + left .. start + total - 1 : m < n => Before(stamp, m, n)
  BY <1>3, <1>4 DEF Init
<1>6. Arrays
  BY LengthAssumption, WrapAssumption DEF Init, Arrays, Places
<1>7. Params
  BY <1>1, <1>5 DEF Params
<1>8. pc = "enter" /\ Entering
  BY DEF Init, Entering
<1> QED
  BY <1>6, <1>7, <1>8 DEF IInv

\* What follows when only the arrays and positions change.
LEMMA ParamsStay ==
  ASSUME Params, UNCHANGED callVars
  PROVE  Params'
BY DEF Params, callVars, total

\* A step of the forward merge keeps the invariant.
LEMMA ForwardStepIInv == IInv /\ ForwardStep => IInv'
<1> SUFFICES ASSUME IInv, ForwardStep PROVE IInv'
  OBVIOUS
<1> DEFINE end    == start + total
           takenL == start .. start + lPos - 1
           takenR == start + left .. rPos - 1
<1>1. Params /\ Arrays /\ Forward /\ UNCHANGED callVars
  BY DEF IInv, ForwardStep
<1>2. /\ start \in Nat /\ left \in Nat \ {0} /\ right \in Nat \ {0}
      /\ total = left + right /\ end = start + left + right /\ end <= Length
      /\ lPos \in 0 .. left - 1 /\ rPos \in start + left .. end - 1
      /\ outPos = lPos + rPos - left
  <2>1. /\ lPos \in 0 .. left /\ rPos \in start + left .. start + total
        /\ outPos = lPos + rPos - left /\ lPos # left /\ rPos # start + total
    BY <1>1 DEF Forward, ForwardStep
  <2> QED
    BY <1>1, <2>1, Sizes
<1> HIDE DEF end
<1>3. /\ start + lPos \in Places /\ rPos \in Places /\ outPos \in Places
      /\ start + lPos < rPos /\ outPos >= start /\ outPos < rPos
  BY <1>2, LengthAssumption DEF Places
<1>4. takenL \subseteq Places /\ takenR \subseteq Places
  BY <1>2, LengthAssumption DEF Places
<1>5. /\ temp[lPos] = start + lPos /\ locs[rPos] = rPos
      /\ Inc(lPos) = lPos + 1 /\ Inc(rPos) = rPos + 1 /\ outPos' = outPos + 1
  <2>1. temp = [i \in 0 .. left - 1 |-> start + i]
    BY <1>1 DEF Forward
  <2>4. \A i \in rPos .. start + total - 1 : locs[i] = i
    BY <1>1 DEF Forward
  <2>2. temp[lPos] = start + lPos /\ locs[rPos] = rPos
    BY <2>1, <2>4, <1>2 DEF end
  <2>3. lPos \in 0 .. Length /\ rPos \in 0 .. Length /\ outPos \in 0 .. Length
    BY <1>2, LengthAssumption
  <2> QED
    BY <2>2, <2>3, IncDec DEF ForwardStep
<1>6. locs \in [Places -> Places]
  BY <1>1 DEF Arrays
<1>7. Run(stamp, locs, start, outPos - 1, takenL \cup takenR)
  BY <1>1 DEF Forward
<1>8. \A x \in takenL : Before(stamp, x, start + lPos)
  BY <1>1, <1>2 DEF Params
<1>9. \A x \in takenR : Before(stamp, x, start + lPos)
  BY <1>1, <1>2 DEF Forward
<1>10. \A x \in takenR : Before(stamp, x, rPos)
  BY <1>1, <1>2 DEF Params, end
<1>11. \A x \in takenL : Before(stamp, x, rPos)
  BY <1>1, <1>2 DEF Forward, end
<1>12. Before(stamp, start + lPos, rPos) <=> stamp[temp[lPos]] <= stamp[locs[rPos]]
  BY <1>1, <1>3, <1>5, Order
<1>13. Before(stamp, rPos, start + lPos) <=> stamp[temp[lPos]] > stamp[locs[rPos]]
  BY <1>1, <1>3, <1>5, Order
<1>14. pc' = "forward" /\ temp' = temp /\ pc = "forward"
  BY DEF ForwardStep
<1>16. \A i \in rPos .. start + total - 1 : locs[i] = i /\ i \in Places /\ i # outPos
  <2>1. \A i \in rPos .. start + total - 1 : i \in Places /\ i # outPos
    BY <1>2, LengthAssumption DEF Places, end
  <2> QED
    BY <1>1, <2>1 DEF Forward
<1>17. outPos \in Block /\ Block' = Block
  BY <1>1, <1>2 DEF Block, callVars, total, end
<1>15. CASE stamp[temp[lPos]] <= stamp[locs[rPos]]
  <2>1. /\ locs' = [locs EXCEPT ![outPos] = start + lPos]
        /\ lPos' = lPos + 1 /\ rPos' = rPos
    BY <1>5, <1>15 DEF ForwardStep
  <2>2. Run(stamp, locs', start, outPos, takenL \cup takenR \cup {start + lPos})
    <3> HIDE DEF takenL, takenR
    <3>1. \A x \in takenL \cup takenR : Before(stamp, x, start + lPos)
      BY <1>8, <1>9
    <3>2. start \in Places
      BY <1>1 DEF Params
    <3> QED
      BY AppendRun, <2>1, <3>1, <3>2, <1>3, <1>6, <1>7
  <2>3. takenL \cup takenR \cup {start + lPos}
          = (start .. start + lPos' - 1) \cup (start + left .. rPos' - 1)
    BY <1>2, <2>1
  <2>4. \A x \in start .. start + lPos' - 1 : Before(stamp, x, rPos)
    BY <1>2, <1>11, <1>12, <1>15, <2>1
  <2>5. lPos' < left => \A x \in takenR : Before(stamp, x, start + lPos')
    <3> SUFFICES ASSUME lPos' < left, NEW x \in takenR PROVE Before(stamp, x, start + lPos')
      OBVIOUS
    <3>1. Before(stamp, start + lPos, start + lPos') /\ start + lPos' \in Places
      BY <1>1, <1>2, <2>1, LengthAssumption DEF Params, Places
    <3> QED
      BY <3>1, <1>1, <1>3, <1>4, <1>9, Order
  <2>6. \A i \in rPos' .. start + total - 1 : locs'[i] = i
    BY <1>6, <1>16, <2>1
  <2>7. Forward'
    <3>1. start' = start /\ left' = left /\ stamp' = stamp /\ total' = total
      BY <1>1 DEF callVars, total
    <3>2. outPos' - 1 = outPos /\ outPos' = lPos' + rPos' - left'
      BY <1>2, <1>5, <2>1, <3>1
    <3>3. lPos' \in 0 .. left /\ rPos' \in start + left .. start + total
      BY <1>2, <2>1 DEF end
    <3>4. temp' = [i \in 0 .. left' - 1 |-> start' + i]
      BY <1>1, <1>14, <3>1 DEF Forward
    <3> QED
      BY <1>14, <2>1, <2>2, <2>3, <2>4, <2>5, <2>6, <3>1, <3>2, <3>3, <3>4 DEF Forward
  <2>8. Arrays'
    <3>1. /\ lPos' \in 0 .. Wrap - 1 /\ rPos' \in 0 .. Wrap - 1
          /\ outPos' \in 0 .. Wrap - 1
      BY <1>2, <1>3, <1>5, <2>1, LengthAssumption, WrapAssumption DEF Places
    <3>2. \A i \in Places \ Block : locs'[i] = i
      BY <1>1, <1>17, <2>1 DEF Arrays
    <3> QED
      BY <1>3, <1>6, <1>14, <1>17, <2>1, <3>1, <3>2 DEF Arrays
  <2> QED
    BY <1>1, <1>14, <2>7, <2>8, ParamsStay DEF IInv
<1>18. CASE stamp[temp[lPos]] > stamp[locs[rPos]]
  <2>1. /\ locs' = [locs EXCEPT ![outPos] = rPos]
        /\ rPos' = rPos + 1 /\ lPos' = lPos
    <3>1. stamp[temp[lPos]] \in Nat /\ stamp[locs[rPos]] \in Nat
      BY <1>1, <1>3, <1>5, StampsAssumption DEF Params
    <3> QED
      BY <1>5, <1>18, <3>1 DEF ForwardStep
  <2>2. Run(stamp, locs', start, outPos, takenL \cup takenR \cup {rPos})
    <3> HIDE DEF takenL, takenR
    <3>1. \A x \in takenL \cup takenR : Before(stamp, x, rPos)
      BY <1>10, <1>11
    <3>2. start \in Places
      BY <1>1 DEF Params
    <3> QED
      BY AppendRun, <2>1, <3>1, <3>2, <1>3, <1>6, <1>7
  <2>3. takenL \cup takenR \cup {rPos}
          = (start .. start + lPos' - 1) \cup (start + left .. rPos' - 1)
    BY <1>2, <2>1
  <2>4. \A x \in start + left .. rPos' - 1 : Before(stamp, x, start + lPos)
    BY <1>2, <1>9, <1>13, <1>18, <2>1
  <2>5. rPos' < end => \A x \in takenL : Before(stamp, x, rPos')
    <3> SUFFICES ASSUME rPos' < end, NEW x \in takenL PROVE Before(stamp, x, rPos')
      OBVIOUS
    <3>1. Before(stamp, rPos, rPos') /\ rPos' \in Places
      BY <1>1, <1>2, <2>1, LengthAssumption DEF Params, Places, end
    <3> QED
      BY <3>1, <1>1, <1>3, <1>4, <1>11, Order
  <2>6. \A i \in rPos' .. start + total - 1 : locs'[i] = i
    <3>1. \A i \in rPos' .. start + total - 1 : i \in rPos .. start + total - 1
      BY <1>2, <2>1 DEF end
    <3> QED
      BY <1>6, <1>16, <2>1, <3>1
  <2>7. Forward'
    <3>1. start' = start /\ left' = left /\ stamp' = stamp /\ total' = total
      BY <1>1 DEF callVars, total
    <3>2. outPos' - 1 = outPos /\ outPos' = lPos' + rPos' - left'
      BY <1>2, <1>5, <2>1, <3>1
    <3>3. lPos' \in 0 .. left /\ rPos' \in start + left .. start + total
      BY <1>2, <2>1 DEF end
    <3>4. temp' = [i \in 0 .. left' - 1 |-> start' + i]
      BY <1>1, <1>14, <3>1 DEF Forward
    <3> QED
      BY <1>14, <2>1, <2>2, <2>3, <2>4, <2>5, <2>6, <3>1, <3>2, <3>3, <3>4 DEF Forward, end
  <2>8. Arrays'
    <3>1. /\ lPos' \in 0 .. Wrap - 1 /\ rPos' \in 0 .. Wrap - 1
          /\ outPos' \in 0 .. Wrap - 1
      BY <1>2, <1>3, <1>5, <2>1, LengthAssumption, WrapAssumption DEF Places
    <3>2. \A i \in Places \ Block : locs'[i] = i
      BY <1>1, <1>17, <2>1 DEF Arrays
    <3> QED
      BY <1>3, <1>6, <1>14, <1>17, <2>1, <3>1, <3>2 DEF Arrays
  <2> QED
    BY <1>1, <1>14, <2>7, <2>8, ParamsStay DEF IInv
<1>19. stamp[temp[lPos]] \in Nat /\ stamp[locs[rPos]] \in Nat
  BY <1>1, <1>3, <1>5, StampsAssumption DEF Params
<1> QED
  BY <1>15, <1>18, <1>19

\* Moving the left block out keeps the invariant.
LEMMA StartForwardIInv == IInv /\ StartForward => IInv'
<1> SUFFICES ASSUME IInv, StartForward PROVE IInv'
  OBVIOUS
<1>1. Params /\ Arrays /\ Entering /\ UNCHANGED <<callVars, locs>> /\ pc' = "forward"
  BY DEF IInv, StartForward
<1>2. /\ start \in Nat /\ left \in Nat \ {0} /\ right \in Nat \ {0}
      /\ total = left + right /\ start + total = start + left + right /\ start + total <= Length
  BY <1>1, Sizes
<1>3. lPos' = 0 /\ rPos' = start + left /\ outPos' = start
  BY DEF StartForward
<1>4. \A i \in Places : locs[i] = i
  BY <1>1 DEF Entering
<1>5. temp' = [i \in 0 .. left - 1 |-> start + i]
  <2>1. \A i \in 0 .. left - 1 : start + i \in Places
    BY <1>2, LengthAssumption DEF Places
  <2>2. \A i \in 0 .. left - 1 : locs[start + i] = start + i
    BY <2>1, <1>4
  <2> QED
    BY <2>2 DEF StartForward
<1>6. \A i \in rPos' .. start + total - 1 : locs[i] = i
  BY <1>2, <1>3, <1>4, LengthAssumption DEF Places
<1>7. (start .. start + 0 - 1) \cup (start + left .. (start + left) - 1) = {}
  BY <1>2
<1>8. Run(stamp, locs, start, start - 1, {})
  BY <1>2 DEF Run
<1>9. Forward'
  <2>1. /\ start' = start /\ left' = left /\ stamp' = stamp /\ total' = total
        /\ locs' = locs
    BY <1>1 DEF callVars, total
  <2>2. /\ lPos' \in 0 .. left /\ rPos' \in start + left .. start + total
        /\ outPos' = lPos' + rPos' - left
    BY <1>2, <1>3
  <2>3. /\ start .. start + lPos' - 1 = {} /\ start + left .. rPos' - 1 = {}
    BY <1>2, <1>3
  <2> QED
    BY <1>3, <1>5, <1>6, <1>8, <2>1, <2>2, <2>3 DEF Forward
<1>10. Arrays'
  <2>1. /\ lPos' \in 0 .. Wrap - 1 /\ rPos' \in 0 .. Wrap - 1 /\ outPos' \in 0 .. Wrap - 1
    BY <1>2, <1>3, LengthAssumption, WrapAssumption
  <2>2. Block' = Block
    BY <1>1 DEF Block, callVars, total
  <2> QED
    BY <1>1, <2>1, <2>2 DEF Arrays
<1> QED
  BY <1>1, <1>9, <1>10, ParamsStay DEF IInv

\* A run that is complete but for elements that come after it all and are in
\* place, or are put there, is a run of the block.
LEMMA Complete ==
  ASSUME Params, NEW at \in [Places -> Places], NEW new \in [Places -> Places],
         NEW i \in Int, NEW first \in Int, NEW n \in Nat, NEW taken \in SUBSET Places,
         start <= i, i + n = start + total, Run(stamp, at, start, i - 1, taken),
         Block = taken \cup (first .. first + n - 1),
         \A m \in start .. i - 1 : new[m] = at[m],
         \A m \in i .. start + total - 1 : new[m] = first + (m - i),
         \A x \in taken : \A y \in first .. first + n - 1 : Before(stamp, x, y),
         \A x, y \in first .. first + n - 1 : x < y => Before(stamp, x, y)
  PROVE  Run(stamp, new, start, start + total - 1, Block)
<1>1. start \in Nat /\ total \in Nat
  BY Sizes
<1>2. \A m \in start .. start + total - 1 :
        \/ m \in start .. i - 1 /\ new[m] = at[m] /\ new[m] \in taken
        \/ m \in i .. start + total - 1 /\ new[m] = first + (m - i)
             /\ new[m] \in first .. first + n - 1
  <2> TAKE m \in start .. start + total - 1
  <2>1. CASE m \in start .. i - 1
    BY <2>1 DEF Run
  <2>2. CASE m \in i .. start + total - 1
    <3>1. m - i \in 0 .. n - 1 /\ new[m] = first + (m - i)
      BY <1>1, <2>2
    <3> QED
      BY <2>2, <3>1
  <2> QED
    BY <1>1, <2>1, <2>2
<1>3. \A m \in start .. start + total - 1 : new[m] \in Block
  BY <1>2
<1>4. \A x \in Block : \E m \in start .. start + total - 1 : new[m] = x
  <2> TAKE x \in Block
  <2>1. CASE x \in taken
    <3>1. PICK m \in start .. i - 1 : at[m] = x
      BY <2>1 DEF Run
    <3> QED
      BY <3>1, <1>1
  <2>2. CASE x \in first .. first + n - 1
    <3>1. i + (x - first) \in i .. start + total - 1 /\ x = first + ((i + (x - first)) - i)
      BY <2>2, <1>1
    <3>2. i + (x - first) \in start .. start + total - 1
      BY <3>1, <1>1
    <3> QED
      BY <3>1, <3>2
  <2> QED
    BY <2>1, <2>2
<1>5. \A p, q \in start .. start + total - 1 : p < q => Before(stamp, new[p], new[q])
  <2> SUFFICES ASSUME NEW p \in start .. start + total - 1, NEW q \in start .. start + total - 1,
                      p < q
               PROVE  Before(stamp, new[p], new[q])
    OBVIOUS
  <2>1. CASE q \in start .. i - 1
    <3>1. p \in start .. i - 1
      BY <2>1, <1>1
    <3> QED
      BY <2>1, <3>1 DEF Run
  <2>2. CASE p \in start .. i - 1 /\ q \in i .. start + total - 1
    BY <2>2, <1>1, <1>2
  <2>3. CASE p \in i .. start + total - 1 /\ q \in i .. start + total - 1
    <3>1. new[p] \in first .. first + n - 1 /\ new[q] \in first .. first + n - 1
      BY <2>3, <1>1, <1>2
    <3>2. new[p] < new[q]
      BY <2>3, <1>1
    <3> QED
      BY <3>1, <3>2
  <2> QED
    BY <2>1, <2>2, <2>3, <1>1
<1> QED
  BY <1>3, <1>4, <1>5 DEF Run

\* The same for elements that come before the run.
LEMMA CompleteFront ==
  ASSUME Params, NEW at \in [Places -> Places], NEW new \in [Places -> Places],
         NEW i \in Int, NEW first \in Int, NEW n \in Nat, NEW taken \in SUBSET Places,
         i = start + n, i <= start + total, Run(stamp, at, i, start + total - 1, taken),
         Block = (first .. first + n - 1) \cup taken,
         \A m \in i .. start + total - 1 : new[m] = at[m],
         \A m \in start .. i - 1 : new[m] = first + (m - start),
         \A x \in taken : \A y \in first .. first + n - 1 : Before(stamp, y, x),
         \A x, y \in first .. first + n - 1 : x < y => Before(stamp, x, y)
  PROVE  Run(stamp, new, start, start + total - 1, Block)
<1>1. start \in Nat /\ total \in Nat
  BY Sizes
<1>2. \A m \in start .. start + total - 1 :
        \/ m \in i .. start + total - 1 /\ new[m] = at[m] /\ new[m] \in taken
        \/ m \in start .. i - 1 /\ new[m] = first + (m - start)
             /\ new[m] \in first .. first + n - 1
  <2> TAKE m \in start .. start + total - 1
  <2>1. CASE m \in i .. start + total - 1
    BY <2>1 DEF Run
  <2>2. CASE m \in start .. i - 1
    <3>1. m - start \in 0 .. n - 1 /\ new[m] = first + (m - start)
      BY <1>1, <2>2
    <3> QED
      BY <2>2, <3>1
  <2> QED
    BY <1>1, <2>1, <2>2
<1>3. \A m \in start .. start + total - 1 : new[m] \in Block
  BY <1>2
<1>4. \A x \in Block : \E m \in start .. start + total - 1 : new[m] = x
  <2> TAKE x \in Block
  <2>1. CASE x \in taken
    <3>1. PICK m \in i .. start + total - 1 : at[m] = x
      BY <2>1 DEF Run
    <3> QED
      BY <3>1, <1>1
  <2>2. CASE x \in first .. first + n - 1
    <3>1. start + (x - first) \in start .. i - 1 /\ x = first + ((start + (x - first)) - start)
      BY <2>2, <1>1
    <3>2. start + (x - first) \in start .. start + total - 1
      BY <3>1, <1>1
    <3> QED
      BY <3>1, <3>2
  <2> QED
    BY <2>1, <2>2
<1>5. \A p, q \in start .. start + total - 1 : p < q => Before(stamp, new[p], new[q])
  <2> SUFFICES ASSUME NEW p \in start .. start + total - 1, NEW q \in start .. start + total - 1,
                      p < q
               PROVE  Before(stamp, new[p], new[q])
    OBVIOUS
  <2>1. CASE p \in i .. start + total - 1
    <3>1. q \in i .. start + total - 1
      BY <2>1, <1>1
    <3> QED
      BY <2>1, <3>1 DEF Run
  <2>2. CASE p \in start .. i - 1 /\ q \in i .. start + total - 1
    BY <2>2, <1>1, <1>2
  <2>3. CASE p \in start .. i - 1 /\ q \in start .. i - 1
    <3>1. new[p] \in first .. first + n - 1 /\ new[q] \in first .. first + n - 1
      BY <2>3, <1>1, <1>2
    <3>2. new[p] < new[q]
      BY <2>3, <1>1
    <3> QED
      BY <3>1, <3>2
  <2> QED
    BY <2>1, <2>2, <2>3, <1>1
<1> QED
  BY <1>3, <1>4, <1>5 DEF Run

\* What makes the last state right.
LEMMA FinishedIInv ==
  ASSUME Params, Arrays, UNCHANGED callVars, pc' = "done",
         UNCHANGED <<lPos, rPos, outPos>>,
         locs' \in [Places -> Places],
         \A i \in Places \ Block : locs'[i] = locs[i],
         Run(stamp, locs', start, start + total - 1, Block)
  PROVE  IInv'
<1>1. /\ stamp' = stamp /\ start' = start /\ total' = total /\ Block' = Block
  BY DEF callVars, total, Block
<1>2. /\ \A m \in Block : \A n \in Block : m <= n => stamp[locs'[m]] <= stamp[locs'[n]]
      /\ \A x \in Block : \E m \in Block : locs'[m] = x
  BY RunMerges
<1>3. \A i \in Places \ Block : locs'[i] = i
  BY DEF Arrays
<1>4. Merged'
  BY <1>1, <1>2, <1>3 DEF Merged, SortedBetween, Block
<1>5. Arrays'
  BY <1>1, <1>3 DEF Arrays
<1> QED
  BY <1>1, <1>4, <1>5, ParamsStay DEF IInv, Finished

\* The end of the forward merge puts what remains of the left block in place.
LEMMA ForwardEndIInv == IInv /\ ForwardEnd => IInv'
<1> SUFFICES ASSUME IInv, ForwardEnd PROVE IInv'
  OBVIOUS
<1> DEFINE taken == (start .. start + lPos - 1) \cup (start + left .. rPos - 1)
<1>1. /\ Params /\ Arrays /\ Forward /\ UNCHANGED callVars /\ pc' = "done"
      /\ UNCHANGED <<lPos, rPos, outPos>>
  BY DEF IInv, ForwardEnd
<1>2. /\ start \in Nat /\ left \in Nat \ {0} /\ right \in Nat \ {0}
      /\ total = left + right /\ start + total = start + left + right /\ start + total <= Length
  BY <1>1, Sizes
<1>3. /\ lPos \in 0 .. left /\ rPos \in start + left .. start + total
      /\ outPos = lPos + rPos - left
      /\ lPos = left \/ rPos = start + total
  BY <1>1 DEF Forward, ForwardEnd
<1>4. locs \in [Places -> Places] /\ Run(stamp, locs, start, outPos - 1, taken)
  BY <1>1 DEF Arrays, Forward
<1>5. temp = [i \in 0 .. left - 1 |-> start + i]
  BY <1>1 DEF Forward
<1>6. \A i \in outPos .. outPos + (left - lPos) - 1 :
        /\ i \in Block /\ i \in Places
        /\ temp[lPos + (i - outPos)] = start + lPos + (i - outPos)
        /\ start + lPos + (i - outPos) \in Places
  <2> TAKE i \in outPos .. outPos + (left - lPos) - 1
  <2>1. lPos + (i - outPos) \in 0 .. left - 1
    BY <1>2, <1>3
  <2>2. temp[lPos + (i - outPos)] = start + (lPos + (i - outPos))
    BY <2>1, <1>5
  <2>3. start + (lPos + (i - outPos)) = start + lPos + (i - outPos)
    BY <1>2, <1>3
  <2>4. i \in Block /\ i \in Places /\ start + lPos + (i - outPos) \in Places
    BY <1>2, <1>3, LengthAssumption DEF Block, Places
  <2> QED
    BY <2>2, <2>3, <2>4
<1>7. /\ \A i \in Places : locs'[i] = IF i \in outPos .. outPos + (left - lPos) - 1
                                     THEN temp[lPos + (i - outPos)] ELSE locs[i]
      /\ locs' = [i \in Places |-> locs'[i]]
  BY DEF ForwardEnd
<1>8. locs' \in [Places -> Places]
  BY <1>4, <1>6, <1>7
<1>9. \A i \in Places \ Block : locs'[i] = locs[i]
  BY <1>6, <1>7
<1>10. taken \subseteq Places
  BY <1>2, <1>3, LengthAssumption DEF Places
<1>11. \A i \in start .. outPos - 1 : locs'[i] = locs[i]
  <2>1. \A i \in start .. outPos - 1 :
          i \in Places /\ i \notin outPos .. outPos + (left - lPos) - 1
    BY <1>2, <1>3, LengthAssumption DEF Places
  <2> QED
    BY <1>7, <2>1
<1>12. CASE lPos = left
  <2>1. \A i \in outPos .. start + total - 1 : locs'[i] = rPos + (i - outPos)
    <3>1. \A i \in outPos .. start + total - 1 :
            /\ i \in Places /\ i \notin outPos .. outPos + (left - lPos) - 1
            /\ i \in rPos .. start + total - 1 /\ rPos + (i - outPos) = i
      BY <1>2, <1>3, <1>12, LengthAssumption DEF Places
    <3>2. \A i \in rPos .. start + total - 1 : locs[i] = i
      BY <1>1 DEF Forward
    <3> QED
      BY <1>7, <3>1, <3>2
  <2>2. Block = taken \cup (rPos .. rPos + (start + total - rPos) - 1)
    BY <1>2, <1>3, <1>12 DEF Block
  <2>3. \A x \in taken : \A y \in rPos .. rPos + (start + total - rPos) - 1 : Before(stamp, x, y)
    <3> TAKE x \in taken
    <3> TAKE y \in rPos .. rPos + (start + total - rPos) - 1
    <3>1. rPos < start + total /\ y \in start + left .. start + total - 1 /\ rPos <= y
          /\ rPos \in start + left .. start + total - 1 /\ rPos \in Places /\ y \in Places
      BY <1>2, <1>3, LengthAssumption DEF Places
    <3>2. CASE x \in start .. start + lPos - 1
      <4>1. Before(stamp, x, rPos)
        BY <1>1, <3>1, <3>2 DEF Forward
      <4>2. rPos < y => Before(stamp, rPos, y)
        BY <1>1, <3>1 DEF Params
      <4>3. rPos = y \/ rPos < y
        BY <3>1, <1>2, <1>3
      <4> QED
        BY <1>1, <1>10, <3>1, <4>1, <4>2, <4>3, Order
    <3>3. CASE x \in start + left .. rPos - 1
      <4>1. x \in start + left .. start + total - 1 /\ x < y
        BY <1>2, <1>3, <3>1, <3>3
      <4> QED
        BY <1>1, <3>1, <4>1 DEF Params
    <3> QED
      BY <3>2, <3>3
  <2>4. \A x, y \in rPos .. rPos + (start + total - rPos) - 1 : x < y => Before(stamp, x, y)
    <3>1. rPos .. rPos + (start + total - rPos) - 1 \subseteq start + left .. start + total - 1
      BY <1>2, <1>3
    <3> QED
      BY <1>1, <3>1 DEF Params
  <2>5. /\ outPos \in Int /\ rPos \in Int /\ start + total - rPos \in Nat /\ start <= outPos
        /\ outPos + (start + total - rPos) = start + total
    BY <1>2, <1>3, <1>12
  <2>6. Run(stamp, locs', start, start + total - 1, Block)
    <3> HIDE DEF taken
    <3> QED
      BY Complete, <1>1, <1>4, <1>8, <1>10, <1>11, <2>1, <2>2, <2>3, <2>4, <2>5
  <2> QED
    BY <1>1, <1>8, <1>9, <2>6, FinishedIInv
<1>13. CASE rPos = start + total
  <2> DEFINE first == start + lPos
             n     == left - lPos
  <2>1. \A i \in outPos .. start + total - 1 : locs'[i] = first + (i - outPos)
    <3>1. \A i \in outPos .. start + total - 1 :
            i \in Places /\ i \in outPos .. outPos + (left - lPos) - 1
      BY <1>2, <1>3, <1>13, LengthAssumption DEF Places
    <3> QED
      BY <1>6, <1>7, <3>1
  <2>2. Block = taken \cup (first .. first + n - 1)
    BY <1>2, <1>3, <1>13 DEF Block
  <2>3. \A x \in taken : \A y \in first .. first + n - 1 : Before(stamp, x, y)
    <3> TAKE x \in taken
    <3> TAKE y \in first .. first + n - 1
    <3>1. lPos < left /\ y \in start .. start + left - 1 /\ first <= y
          /\ first \in start .. start + left - 1 /\ first \in Places /\ y \in Places
      BY <1>2, <1>3, LengthAssumption DEF Places
    <3>2. CASE x \in start + left .. rPos - 1
      <4>1. Before(stamp, x, first)
        BY <1>1, <3>1, <3>2 DEF Forward
      <4>2. first < y => Before(stamp, first, y)
        BY <1>1, <3>1 DEF Params
      <4>3. first = y \/ first < y
        BY <3>1, <1>2, <1>3
      <4> QED
        BY <1>1, <1>10, <3>1, <4>1, <4>2, <4>3, Order
    <3>3. CASE x \in start .. start + lPos - 1
      <4>1. x \in start .. start + left - 1 /\ x < y
        BY <1>2, <1>3, <3>1, <3>3
      <4> QED
        BY <1>1, <3>1, <4>1 DEF Params
    <3> QED
      BY <3>2, <3>3
  <2>4. \A x, y \in first .. first + n - 1 : x < y => Before(stamp, x, y)
    <3>1. first .. first + n - 1 \subseteq start .. start + left - 1
      BY <1>2, <1>3
    <3> QED
      BY <1>1, <3>1 DEF Params
  <2>5. /\ outPos \in Int /\ first \in Int /\ n \in Nat /\ start <= outPos
        /\ outPos + n = start + total
    BY <1>2, <1>3, <1>13
  <2>6. Run(stamp, locs', start, start + total - 1, Block)
    <3> HIDE DEF taken, first, n
    <3> QED
      BY Complete, <1>1, <1>4, <1>8, <1>10, <1>11, <2>1, <2>2, <2>3, <2>4, <2>5
  <2> QED
    BY <1>1, <1>8, <1>9, <2>6, FinishedIInv
<1> QED
  BY <1>3, <1>12, <1>13

\* Moving the right block out keeps the invariant.
LEMMA StartBackwardIInv == IInv /\ StartBackward => IInv'
<1> SUFFICES ASSUME IInv, StartBackward PROVE IInv'
  OBVIOUS
<1>1. Params /\ Arrays /\ Entering /\ UNCHANGED <<callVars, locs>> /\ pc' = "backward"
  BY DEF IInv, StartBackward
<1>2. /\ start \in Nat /\ left \in Nat \ {0} /\ right \in Nat \ {0}
      /\ total = left + right /\ start + total = start + left + right /\ start + total <= Length
  BY <1>1, Sizes
<1>3. lPos' = start + left - 1 /\ rPos' = right - 1 /\ outPos' = start + total - 1
  BY DEF StartBackward
<1>4. \A i \in Places : locs[i] = i
  BY <1>1 DEF Entering
<1>5. temp' = [i \in 0 .. right - 1 |-> start + left + i]
  <2>1. \A i \in 0 .. right - 1 : start + left + i \in Places
    BY <1>2, LengthAssumption DEF Places
  <2>2. \A i \in 0 .. right - 1 : locs[start + left + i] = start + left + i
    BY <2>1, <1>4
  <2> QED
    BY <2>2 DEF StartBackward
<1>6. /\ Signed(lPos') = start + left - 1 /\ Signed(rPos') = right - 1
      /\ Signed(outPos') = start + total - 1
  <2>1. /\ start + left - 1 \in 0 .. Length /\ right - 1 \in 0 .. Length
        /\ start + total - 1 \in 0 .. Length
    BY <1>2, LengthAssumption
  <2> QED
    BY <1>3, <2>1, IncDec
<1>7. \A i \in start .. start + left - 1 : locs[i] = i
  BY <1>2, <1>4, LengthAssumption DEF Places
<1> DEFINE l == start + left - 1
           r == right - 1
<1>8. /\ l + 1 .. start + left - 1 = {} /\ start + left + r + 1 .. start + total - 1 = {}
      /\ l + r + 2 = start + total /\ l + r + 1 = start + total - 1
      /\ l \in start - 1 .. start + left - 1 /\ r \in -1 .. right - 1
  BY <1>2
<1>9. Run(stamp, locs, start + total, start + total - 1, {} \cup {})
  BY <1>2 DEF Run
<1>10. BackwardAt(l, r)'
  <2>1. /\ start' = start /\ left' = left /\ right' = right /\ stamp' = stamp
        /\ total' = total /\ locs' = locs
    BY <1>1 DEF callVars, total
  <2>2. l' = l /\ r' = r
    BY <2>1
  <2> HIDE DEF l, r
  <2> QED
    BY <1>5, <1>6, <1>7, <1>8, <1>9, <2>1, <2>2 DEF BackwardAt, l
<1>11. Arrays'
  <2>1. /\ lPos' \in 0 .. Wrap - 1 /\ rPos' \in 0 .. Wrap - 1 /\ outPos' \in 0 .. Wrap - 1
    BY <1>2, <1>3, LengthAssumption, WrapAssumption
  <2>2. Block' = Block
    BY <1>1 DEF Block, callVars, total
  <2> QED
    BY <1>1, <2>1, <2>2 DEF Arrays
<1>12. (Signed(lPos))' = l' /\ (Signed(rPos))' = r'
  BY <1>1, <1>6 DEF callVars, Signed
<1>13. BackwardAt(Signed(lPos), Signed(rPos))'
  BY <1>10, <1>12
<1> QED
  BY <1>1, <1>11, <1>13, ParamsStay DEF IInv

\* What makes a state of the backward loop right, for its signed positions.
LEMMA BackwardNext ==
  ASSUME Params, UNCHANGED callVars, UNCHANGED temp, pc' = "backward", Arrays',
         NEW l, NEW r, Signed(lPos') = l, Signed(rPos') = r,
         temp = [i \in 0 .. right - 1 |-> start + left + i],
         l \in start - 1 .. start + left - 1, r \in -1 .. right - 1,
         Signed(outPos') = l + r + 1,
         \A i \in start .. l : locs'[i] = i,
         Run(stamp, locs', l + r + 2, start + total - 1,
             (l + 1 .. start + left - 1) \cup (start + left + r + 1 .. start + total - 1)),
         l >= start => \A x \in start + left + r + 1 .. start + total - 1 : Before(stamp, l, x),
         r >= 0 => \A x \in l + 1 .. start + left - 1 : Before(stamp, start + left + r, x)
  PROVE  IInv'
<1>1. /\ start' = start /\ left' = left /\ right' = right /\ stamp' = stamp
      /\ total' = total /\ temp' = temp
  BY DEF callVars, total
<1>2. (Signed(lPos))' = l /\ (Signed(rPos))' = r /\ (Signed(outPos))' = l + r + 1
  BY DEF Signed
<1>3. BackwardAt(l, r)'
  BY <1>1, <1>2 DEF BackwardAt
<1>4. BackwardAt(Signed(lPos), Signed(rPos))'
  BY <1>2, <1>3
<1> QED
  BY <1>4, ParamsStay DEF IInv

\* A step of the backward merge keeps the invariant.
LEMMA BackwardStepIInv == IInv /\ BackwardStep => IInv'
<1> SUFFICES ASSUME IInv, BackwardStep PROVE IInv'
  OBVIOUS
<1> DEFINE l == Signed(lPos)
           r == Signed(rPos)
           x == start + left + r
           takenL == l + 1 .. start + left - 1
           takenR == start + left + r + 1 .. start + total - 1
<1>1. /\ Params /\ Arrays /\ BackwardAt(l, r) /\ UNCHANGED callVars /\ UNCHANGED temp
      /\ pc' = "backward" /\ pc = "backward"
  BY DEF IInv, BackwardStep
<1>2. /\ start \in Nat /\ left \in Nat \ {0} /\ right \in Nat \ {0}
      /\ total = left + right /\ start + total = start + left + right /\ start + total <= Length
  BY <1>1, Sizes
<1>3. lPos \in 0 .. Wrap - 1 /\ rPos \in 0 .. Wrap - 1 /\ outPos \in 0 .. Wrap - 1
  BY <1>1 DEF Arrays
<1>4. /\ l \in start - 1 .. start + left - 1 /\ r \in -1 .. right - 1
      /\ Signed(outPos) = l + r + 1
  BY <1>1 DEF BackwardAt
<1>5. l # start - 1 /\ r # -1
  <2>1. start \in 0 .. Length /\ 0 \in 0 .. Length
    BY <1>2, LengthAssumption
  <2>2. l # start - 1
    BY <1>3, <2>1, SignedDec DEF BackwardStep
  <2>3. rPos # Wrap - 1
    BY DEF BackwardStep
  <2> QED
    BY <1>3, <2>2, <2>3, WrapAssumption DEF Signed
<1>6. /\ l \in start .. start + left - 1 /\ r \in 0 .. right - 1
  BY <1>2, <1>4, <1>5
<1>7. lPos = l /\ rPos = r /\ outPos = l + r + 1
  BY <1>2, <1>3, <1>4, <1>6, SignedDec
<1> HIDE DEF l, r
<1>8. /\ l \in Places /\ x \in Places /\ outPos \in Places /\ l < x
      /\ outPos > l /\ outPos < start + total
  BY <1>2, <1>6, <1>7, LengthAssumption DEF Places
<1>9. takenL \subseteq Places /\ takenR \subseteq Places
  BY <1>2, <1>6, LengthAssumption DEF Places
<1>10. temp[rPos] = x /\ locs[lPos] = l
  <2>1. temp = [i \in 0 .. right - 1 |-> start + left + i]
    BY <1>1 DEF BackwardAt
  <2>2. \A i \in start .. l : locs[i] = i
    BY <1>1 DEF BackwardAt
  <2> QED
    BY <1>2, <1>6, <1>7, <2>1, <2>2
<1>11. /\ Dec(lPos) \in 0 .. Wrap - 1 /\ Signed(Dec(lPos)) = l - 1
       /\ Dec(rPos) \in 0 .. Wrap - 1 /\ Signed(Dec(rPos)) = r - 1
       /\ outPos' \in 0 .. Wrap - 1 /\ Signed(outPos') = l + r
  <2>1. lPos \in 0 .. Length /\ rPos \in 0 .. Length /\ outPos \in 0 .. Length
    BY <1>2, <1>6, <1>7, LengthAssumption
  <2>2. outPos' = Dec(outPos)
    BY DEF BackwardStep
  <2>3. outPos - 1 = l + r
    BY <1>2, <1>6, <1>7
  <2> QED
    BY <1>7, <2>1, <2>2, <2>3, IncDec
<1>12. locs \in [Places -> Places] /\ \A i \in Places \ Block : locs[i] = i
  BY <1>1 DEF Arrays
<1>13. Run(stamp, locs, outPos + 1, start + total - 1, takenL \cup takenR)
  <2>1. outPos + 1 = l + r + 2
    BY <1>2, <1>6, <1>7
  <2> QED
    BY <1>1, <2>1 DEF BackwardAt
<1>14. \A y \in takenL : Before(stamp, l, y)
  BY <1>1, <1>2, <1>6 DEF Params
<1>15. \A y \in takenR : Before(stamp, l, y)
  BY <1>1, <1>2, <1>6 DEF BackwardAt
<1>16. \A y \in takenR : Before(stamp, x, y)
  <2> TAKE y \in takenR
  <2>1. x \in start + left .. start + total - 1 /\ y \in start + left .. start + total - 1 /\ x < y
    BY <1>2, <1>6
  <2> HIDE DEF x, takenR
  <2> QED
    BY <1>1, <2>1 DEF Params
<1>17. \A y \in takenL : Before(stamp, x, y)
  BY <1>1, <1>2, <1>6 DEF BackwardAt
<1>18. stamp[locs[lPos]] \in Nat /\ stamp[temp[rPos]] \in Nat
  BY <1>1, <1>8, <1>10, StampsAssumption DEF Params
<1>19. /\ Before(stamp, l, x) <=> stamp[locs[lPos]] <= stamp[temp[rPos]]
       /\ Before(stamp, x, l) <=> stamp[locs[lPos]] > stamp[temp[rPos]]
  BY <1>1, <1>8, <1>10, Order
<1>20. \A i \in start .. l : locs[i] = i /\ i \in Places /\ i # outPos
  <2>1. \A i \in start .. l : i \in Places /\ i # outPos
    BY <1>2, <1>6, <1>7, LengthAssumption DEF Places
  <2> QED
    BY <1>1, <2>1 DEF BackwardAt
<1>21. outPos \in Block /\ Block' = Block /\ start + total - 1 \in Places
  BY <1>1, <1>2, <1>6, <1>7, LengthAssumption DEF Block, callVars, total, Places
<1>22. outPos <= start + total - 1
  BY <1>2, <1>6, <1>7
<1>23. temp = [i \in 0 .. right - 1 |-> start + left + i]
  BY <1>1 DEF BackwardAt
<1>24. ASSUME NEW y \in Places, locs' = [locs EXCEPT ![outPos] = y],
              lPos' \in 0 .. Wrap - 1, rPos' \in 0 .. Wrap - 1
       PROVE  Arrays'
  <2>1. \A i \in Places \ Block : locs'[i] = i
    BY <1>12, <1>21, <1>24
  <2>2. locs' \in [Places -> Places]
    BY <1>12, <1>24
  <2> QED
    BY <1>1, <1>11, <1>21, <1>24, <2>1, <2>2 DEF Arrays
<1>25. CASE stamp[locs[lPos]] > stamp[temp[rPos]]
  <2>1. /\ locs' = [locs EXCEPT ![outPos] = l]
        /\ lPos' = Dec(lPos) /\ rPos' = rPos
    BY <1>10, <1>25 DEF BackwardStep
  <2>2. Run(stamp, locs', outPos, start + total - 1, takenL \cup takenR \cup {l})
    <3> HIDE DEF takenL, takenR, x
    <3>1. \A y \in takenL \cup takenR : Before(stamp, l, y)
      BY <1>14, <1>15
    <3> QED
      BY PrependRun, <2>1, <3>1, <1>8, <1>12, <1>13, <1>21, <1>22
  <2>3. takenL \cup takenR \cup {l} = ((l - 1) + 1 .. start + left - 1) \cup takenR
    BY <1>2, <1>6
  <2>4. \A y \in (l - 1) + 1 .. start + left - 1 : Before(stamp, x, y)
    <3>1. \A y \in (l - 1) + 1 .. start + left - 1 : y = l \/ y \in takenL
      BY <1>2, <1>6
    <3> QED
      BY <1>17, <1>19, <1>25, <3>1
  <2>5. l - 1 >= start => \A y \in takenR : Before(stamp, l - 1, y)
    <3> SUFFICES ASSUME l - 1 >= start, NEW y \in takenR PROVE Before(stamp, l - 1, y)
      OBVIOUS
    <3>1. Before(stamp, l - 1, l) /\ l - 1 \in Places
      BY <1>1, <1>2, <1>6, LengthAssumption DEF Params, Places
    <3> QED
      BY <3>1, <1>1, <1>8, <1>9, <1>15, Order
  <2>6. \A i \in start .. l - 1 : locs'[i] = i
    <3>1. \A i \in start .. l - 1 : i \in start .. l
      BY <1>2, <1>6
    <3> QED
      BY <1>12, <1>20, <2>1, <3>1
  <2>7. Arrays'
    BY <1>3, <1>8, <1>11, <1>24, <2>1
  <2>8. /\ l - 1 \in start - 1 .. start + left - 1 /\ r \in -1 .. right - 1
        /\ (l - 1) + r + 1 = l + r /\ (l - 1) + r + 2 = outPos
    BY <1>2, <1>6, <1>7
  <2>9. Signed(lPos') = l - 1 /\ Signed(rPos') = r
    BY <1>11, <2>1 DEF r
  <2>10. Run(stamp, locs', (l - 1) + r + 2, start + total - 1,
             ((l - 1) + 1 .. start + left - 1) \cup takenR)
    BY <2>2, <2>3, <2>8
  <2>11. Signed(outPos') = (l - 1) + r + 1
    BY <1>11, <2>8
  <2> QED
    BY BackwardNext, <1>1, <1>23, <2>4, <2>5, <2>6, <2>7, <2>8, <2>9, <2>10, <2>11
<1>26. CASE stamp[locs[lPos]] <= stamp[temp[rPos]]
  <2>1. /\ locs' = [locs EXCEPT ![outPos] = x]
        /\ rPos' = Dec(rPos) /\ lPos' = lPos
    BY <1>10, <1>18, <1>26 DEF BackwardStep
  <2>2. Run(stamp, locs', outPos, start + total - 1, takenL \cup takenR \cup {x})
    <3>1. \A y \in takenL \cup takenR : Before(stamp, x, y)
      BY <1>16, <1>17
    <3> HIDE DEF takenL, takenR, x
    <3> QED
      BY PrependRun, <2>1, <3>1, <1>8, <1>12, <1>13, <1>21, <1>22
  <2>3. takenL \cup takenR \cup {x}
          = takenL \cup (start + left + (r - 1) + 1 .. start + total - 1)
    BY <1>2, <1>6
  <2>4. \A y \in start + left + (r - 1) + 1 .. start + total - 1 : Before(stamp, l, y)
    <3>1. \A y \in start + left + (r - 1) + 1 .. start + total - 1 : y = x \/ y \in takenR
      BY <1>2, <1>6
    <3> QED
      BY <1>15, <1>19, <1>26, <3>1
  <2>5. r - 1 >= 0 => \A y \in takenL : Before(stamp, start + left + (r - 1), y)
    <3> SUFFICES ASSUME r - 1 >= 0, NEW y \in takenL PROVE Before(stamp, start + left + (r - 1), y)
      OBVIOUS
    <3>1. Before(stamp, start + left + (r - 1), x) /\ start + left + (r - 1) \in Places
      BY <1>1, <1>2, <1>6, LengthAssumption DEF Params, Places
    <3> QED
      BY <3>1, <1>1, <1>8, <1>9, <1>17, Order
  <2>6. \A i \in start .. l : locs'[i] = i
    BY <1>12, <1>20, <2>1
  <2>7. Arrays'
    BY <1>3, <1>8, <1>11, <1>24, <2>1
  <2>8. /\ l \in start - 1 .. start + left - 1 /\ r - 1 \in -1 .. right - 1
        /\ l + (r - 1) + 1 = l + r /\ l + (r - 1) + 2 = outPos
    BY <1>2, <1>6, <1>7
  <2>9. Signed(rPos') = r - 1 /\ Signed(lPos') = l
    BY <1>11, <2>1 DEF l
  <2>10. Run(stamp, locs', l + (r - 1) + 2, start + total - 1,
             takenL \cup (start + left + (r - 1) + 1 .. start + total - 1))
    BY <2>2, <2>3, <2>8
  <2>11. Signed(outPos') = l + (r - 1) + 1
    BY <1>11, <2>8
  <2> QED
    BY BackwardNext, <1>1, <1>23, <2>4, <2>5, <2>6, <2>7, <2>8, <2>9, <2>10, <2>11
<1> QED
  BY <1>18, <1>25, <1>26

\* The end of the backward merge puts what remains of the right block in place.
LEMMA BackwardEndIInv == IInv /\ BackwardEnd => IInv'
<1> SUFFICES ASSUME IInv, BackwardEnd PROVE IInv'
  OBVIOUS
<1> DEFINE l == Signed(lPos)
           r == Signed(rPos)
           taken == (l + 1 .. start + left - 1) \cup (start + left + r + 1 .. start + total - 1)
<1>1. /\ Params /\ Arrays /\ BackwardAt(l, r) /\ UNCHANGED callVars /\ pc' = "done"
      /\ UNCHANGED <<lPos, rPos, outPos>>
  BY DEF IInv, BackwardEnd
<1>2. /\ start \in Nat /\ left \in Nat \ {0} /\ right \in Nat \ {0}
      /\ total = left + right /\ start + total = start + left + right /\ start + total <= Length
  BY <1>1, Sizes
<1>3. lPos \in 0 .. Wrap - 1 /\ rPos \in 0 .. Wrap - 1
  BY <1>1 DEF Arrays
<1>4. l \in start - 1 .. start + left - 1 /\ r \in -1 .. right - 1
  BY <1>1 DEF BackwardAt
<1>5. (lPos = Dec(start)) = (l = start - 1)
  <2>1. start \in 0 .. Length
    BY <1>2, LengthAssumption
  <2> QED
    BY <1>3, <2>1, SignedDec
<1>6. rPos = Wrap - 1 => r = -1
  BY DEF Signed
<1>7. Inc(rPos) = r + 1
  <2>1. CASE rPos = Wrap - 1
    BY <1>6, <2>1, IncDec
  <2>2. CASE rPos # Wrap - 1
    <3>1. r = rPos /\ rPos \in 0 .. Length
      BY <1>2, <1>3, <1>4, <2>2, LengthAssumption DEF Signed
    <3> QED
      BY <3>1, IncDec
  <2> QED
    BY <2>1, <2>2
<1>8. locs \in [Places -> Places] /\ Run(stamp, locs, l + r + 2, start + total - 1, taken)
  BY <1>1 DEF Arrays, BackwardAt
<1>9. temp = [i \in 0 .. right - 1 |-> start + left + i]
  BY <1>1 DEF BackwardAt
<1>10. l = start - 1 \/ r = -1
  BY <1>5, <1>6 DEF BackwardEnd
<1> HIDE DEF l, r
<1>11. taken \subseteq Places
  BY <1>2, <1>4, LengthAssumption DEF Places
<1>12. CASE l = start - 1
  <2> DEFINE first == start + left
             n     == r + 1
             i     == l + r + 2
  <2>1. \A m \in start .. start + r :
          /\ temp[m - start] = start + left + (m - start)
          /\ m \in Block /\ m \in Places /\ start + left + (m - start) \in Places
    <3> TAKE m \in start .. start + r
    <3>1. m - start \in 0 .. right - 1
      BY <1>2, <1>4
    <3>2. m \in Block /\ m \in Places /\ start + left + (m - start) \in Places
      BY <1>2, <1>4, LengthAssumption DEF Block, Places
    <3> QED
      BY <1>9, <3>1, <3>2
  <2>2. start + Inc(rPos) - 1 = start + r
    BY <1>2, <1>4, <1>7
  <2>3. locs' = [m \in Places |-> IF m \in start .. start + r THEN temp[m - start] ELSE locs[m]]
    BY <1>5, <1>12, <2>2 DEF BackwardEnd
  <2>4. locs' \in [Places -> Places] /\ \A m \in Places \ Block : locs'[m] = locs[m]
    BY <1>8, <2>1, <2>3
  <2>5. \A m \in i .. start + total - 1 : locs'[m] = locs[m]
    <3>1. \A m \in i .. start + total - 1 : m \in Places /\ m \notin start .. start + r
      BY <1>2, <1>4, <1>12, LengthAssumption DEF Places
    <3> QED
      BY <2>3, <3>1
  <2>6. \A m \in start .. i - 1 : locs'[m] = first + (m - start)
    <3>1. \A m \in start .. i - 1 : m \in start .. start + r
      BY <1>2, <1>4, <1>12
    <3> QED
      BY <2>1, <2>3, <3>1
  <2>7. Block = (first .. first + n - 1) \cup taken
    BY <1>2, <1>4, <1>12 DEF Block
  <2>8. \A x \in taken : \A y \in first .. first + n - 1 : Before(stamp, y, x)
    <3> TAKE x \in taken
    <3> TAKE y \in first .. first + n - 1
    <3> DEFINE top == start + left + r
    <3>1. r >= 0 /\ y \in start + left .. start + total - 1 /\ y <= top
          /\ top \in start + left .. start + total - 1 /\ top \in Places /\ y \in Places
      BY <1>2, <1>4, LengthAssumption DEF Places
    <3>2. CASE x \in l + 1 .. start + left - 1
      <4>1. Before(stamp, top, x)
        BY <1>1, <3>1, <3>2 DEF BackwardAt
      <4>2. y < top => Before(stamp, y, top)
        BY <1>1, <3>1 DEF Params
      <4>3. top = y \/ y < top
        BY <3>1, <1>2, <1>4
      <4> QED
        BY <1>1, <1>11, <3>1, <4>1, <4>2, <4>3, Order
    <3>3. CASE x \in start + left + r + 1 .. start + total - 1
      <4>1. x \in start + left .. start + total - 1 /\ y < x
        BY <1>2, <1>4, <3>1, <3>3
      <4> QED
        BY <1>1, <3>1, <4>1 DEF Params
    <3> QED
      BY <3>2, <3>3
  <2>9. \A x, y \in first .. first + n - 1 : x < y => Before(stamp, x, y)
    <3>1. first .. first + n - 1 \subseteq start + left .. start + total - 1
      BY <1>2, <1>4
    <3> QED
      BY <1>1, <3>1 DEF Params
  <2>10. /\ i \in Int /\ first \in Int /\ n \in Nat /\ i = start + n /\ i <= start + total
    BY <1>2, <1>4, <1>12
  <2>11. Run(stamp, locs', start, start + total - 1, Block)
    <3> HIDE DEF taken, first, n
    <3> QED
      BY CompleteFront, <1>1, <1>8, <1>11, <2>4, <2>5, <2>6, <2>7, <2>8, <2>9, <2>10
  <2> QED
    BY <1>1, <2>4, <2>11, FinishedIInv
<1>13. CASE r = -1 /\ l # start - 1
  <2> DEFINE n == l + 1 - start
             i == l + r + 2
  <2>1. locs' = locs
    BY <1>5, <1>13 DEF BackwardEnd
  <2>2. \A m \in start .. i - 1 : locs'[m] = start + (m - start)
    <3>1. \A m \in start .. i - 1 : m \in start .. l /\ m = start + (m - start)
      BY <1>2, <1>4, <1>13
    <3>2. \A m \in start .. l : locs[m] = m
      BY <1>1 DEF BackwardAt
    <3> QED
      BY <2>1, <3>1, <3>2
  <2>3. Block = (start .. start + n - 1) \cup taken
    BY <1>2, <1>4, <1>13 DEF Block
  <2>4. \A x \in taken : \A y \in start .. start + n - 1 : Before(stamp, y, x)
    <3> TAKE x \in taken
    <3> TAKE y \in start .. start + n - 1
    <3>1. l >= start /\ y \in start .. start + left - 1 /\ y <= l
          /\ l \in start .. start + left - 1 /\ l \in Places /\ y \in Places
      BY <1>2, <1>4, <1>13, LengthAssumption DEF Places
    <3>2. CASE x \in start + left + r + 1 .. start + total - 1
      <4>1. Before(stamp, l, x)
        BY <1>1, <3>1, <3>2 DEF BackwardAt
      <4>2. y < l => Before(stamp, y, l)
        BY <1>1, <3>1 DEF Params
      <4>3. l = y \/ y < l
        BY <3>1, <1>2, <1>4
      <4> QED
        BY <1>1, <1>11, <3>1, <4>1, <4>2, <4>3, Order
    <3>3. CASE x \in l + 1 .. start + left - 1
      <4>1. x \in start .. start + left - 1 /\ y < x
        BY <1>2, <1>4, <3>1, <3>3
      <4> QED
        BY <1>1, <3>1, <4>1 DEF Params
    <3> QED
      BY <3>2, <3>3
  <2>5. \A x, y \in start .. start + n - 1 : x < y => Before(stamp, x, y)
    <3>1. start .. start + n - 1 \subseteq start .. start + left - 1
      BY <1>2, <1>4
    <3> QED
      BY <1>1, <3>1 DEF Params
  <2>6. /\ i \in Int /\ start \in Int /\ n \in Nat /\ i = start + n /\ i <= start + total
    BY <1>2, <1>4, <1>13
  <2>7. Run(stamp, locs', start, start + total - 1, Block)
    <3> HIDE DEF taken, n
    <3> QED
      BY CompleteFront, <1>1, <1>8, <1>11, <2>1, <2>2, <2>3, <2>4, <2>5, <2>6
  <2> QED
    BY <1>1, <1>8, <2>1, <2>7, FinishedIInv
<1> QED
  BY <1>10, <1>12, <1>13

\* What makes the last state right when the order of equals is not kept.
LEMMA UnstableIInv ==
  ASSUME Params, Arrays, Entering, UNCHANGED callVars, pc' = "done",
         UNCHANGED <<temp, lPos, rPos, outPos>>,
         locs' \in [Places -> Places],
         \A i \in Places \ Block : locs'[i] = i,
         \A m \in Block : \A n \in Block : m <= n => stamp[locs'[m]] <= stamp[locs'[n]],
         \A x \in Block : \E m \in Block : locs'[m] = x
  PROVE  IInv'
<1>1. /\ stamp' = stamp /\ start' = start /\ total' = total /\ Block' = Block
  BY DEF callVars, total, Block
<1>2. Merged'
  BY <1>1 DEF Merged, SortedBetween, Block
<1>3. Arrays'
  BY <1>1 DEF Arrays
<1>4. Finished'
  BY <1>2 DEF Finished, Entering
<1> QED
  BY <1>3, <1>4, ParamsStay DEF IInv

\* qsort, for want of memory, keeps the invariant.
LEMMA QsortIInv == IInv /\ Qsort => IInv'
<1> SUFFICES ASSUME IInv, Qsort PROVE IInv'
  OBVIOUS
<1>1. /\ Params /\ Arrays /\ Entering /\ UNCHANGED callVars /\ pc' = "done"
      /\ UNCHANGED <<temp, lPos, rPos, outPos>>
  BY DEF IInv, Qsort
<1>2. \A i \in Places : locs[i] = i
  BY <1>1 DEF Entering
<1>3. Block \subseteq Places
  BY <1>1, Sizes, LengthAssumption DEF Block, Places
<1>4. PICK order \in Orders :
        locs' = [i \in Places |-> IF i \in Block THEN locs[order[i]] ELSE locs[i]]
  BY DEF Qsort
<1>5. order \in [Block -> Block] /\ \A x \in Block : \E m \in Block : order[m] = x
  BY <1>4 DEF Orders
<1>6. /\ \A m \in Block : locs'[m] = order[m]
      /\ \A m \in Places \ Block : locs'[m] = m
      /\ locs' \in [Places -> Places]
  BY <1>2, <1>3, <1>4, <1>5
<1>7. \A m \in Block : \A n \in Block : m <= n => stamp[locs'[m]] <= stamp[locs'[n]]
  <2>1. stamp' = stamp
    BY <1>1 DEF callVars
  <2>2. SortedBetween(locs', start, start + total - 1)
    BY DEF Qsort
  <2> QED
    BY <2>1, <2>2 DEF SortedBetween, Block
<1>8. \A x \in Block : \E m \in Block : locs'[m] = x
  BY <1>5, <1>6
<1> QED
  BY <1>1, <1>6, <1>7, <1>8, UnstableIInv

\* Rotating the blocks keeps the invariant.
LEMMA RotateIInv == IInv /\ Rotate => IInv'
<1> SUFFICES ASSUME IInv, Rotate PROVE IInv'
  OBVIOUS
<1> DEFINE front == start .. start + right - 1
           back  == start + right .. start + total - 1
<1>1. /\ Params /\ Arrays /\ Entering /\ UNCHANGED callVars /\ pc' = "done"
      /\ UNCHANGED <<temp, lPos, rPos, outPos>>
  BY DEF IInv, Rotate
<1>2. /\ start \in Nat /\ left \in Nat \ {0} /\ right \in Nat \ {0}
      /\ total = left + right /\ start + total = start + left + right /\ start + total <= Length
  BY <1>1, Sizes
<1>3. \A i \in Places : locs[i] = i
  BY <1>1 DEF Entering
<1>4. Block \subseteq Places /\ Block = front \cup back /\ front \cap back = {}
  BY <1>2, LengthAssumption DEF Block, Places
<1>5. /\ \A m \in front : m + left \in start + left .. start + total - 1
      /\ \A m \in back : m - right \in start .. start + left - 1
  BY <1>2
<1>6. /\ start .. start + left - 1 \subseteq Block
      /\ start + left .. start + total - 1 \subseteq Block
  BY <1>2 DEF Block
<1>7. locs' = [i \in Places |->
                 IF i \in front THEN locs[i + left]
                 ELSE IF i \in Block THEN locs[i - right] ELSE locs[i]]
  BY DEF Rotate
<1>8. /\ \A m \in front : locs'[m] = m + left
      /\ \A m \in back : locs'[m] = m - right
      /\ \A m \in Places \ Block : locs'[m] = m
  BY <1>3, <1>4, <1>5, <1>6, <1>7
<1>9. locs' \in [Places -> Places]
  <2>1. \A m \in Places : m \in front \/ m \in back \/ m \in Places \ Block
    BY <1>4
  <2>2. \A m \in Places : locs'[m] \in Places
    BY <1>4, <1>5, <1>6, <1>8, <2>1
  <2> QED
    BY <1>7, <2>2
<1>10. \A x \in Block : \E m \in Block : locs'[m] = x
  <2> TAKE x \in Block
  <2>1. CASE x \in start .. start + left - 1
    <3>1. x + right \in back /\ (x + right) - right = x
      BY <1>2, <2>1
    <3> QED
      BY <1>4, <1>8, <3>1
  <2>2. CASE x \in start + left .. start + total - 1
    <3>1. x - left \in front /\ (x - left) + left = x
      BY <1>2, <2>2
    <3> QED
      BY <1>4, <1>8, <3>1
  <2> QED
    BY <1>2, <2>1, <2>2 DEF Block
<1>11. stamp[start + total - 1] <= stamp[start]
  <2>1. start \in Places /\ start + total - 1 \in Places
    BY <1>2, LengthAssumption DEF Places
  <2>2. stamp[start] >= stamp[start + total - 1]
    BY <1>3, <2>1 DEF Rotate, Rotates
  <2> QED
    BY <1>1, <2>1, <2>2, StampsAssumption DEF Params
<1>12. ASSUME NEW x \in Block, NEW y \in Block, x <= y,
              \/ x \in start .. start + left - 1 /\ y \in start .. start + left - 1
              \/ x \in start + left .. start + total - 1 /\ y \in start + left .. start + total - 1
       PROVE  stamp[x] <= stamp[y]
  <2>1. /\ x \in Places /\ y \in Places /\ x \in Int /\ y \in Int
        /\ stamp[x] \in Nat /\ stamp[y] \in Nat
    <3>1. x \in Places /\ y \in Places /\ stamp \in [Places -> Stamps]
      BY <1>1, <1>4 DEF Params
    <3>2. x \in Int /\ y \in Int
      BY <3>1, LengthAssumption DEF Places
    <3>3. stamp[x] \in Stamps /\ stamp[y] \in Stamps
      BY <3>1
    <3> QED
      BY <3>1, <3>2, <3>3, StampsAssumption
  <2>2. x < y => Before(stamp, x, y)
    BY <1>1, <1>12 DEF Params
  <2> QED
    BY <1>12, <2>1, <2>2 DEF Before
<1>13. \A x \in Block : stamp[x] \in Nat
  BY <1>1, <1>4, StampsAssumption DEF Params
<1>14. \A m \in Block : \A n \in Block : m <= n => stamp[locs'[m]] <= stamp[locs'[n]]
  <2> SUFFICES ASSUME NEW m \in Block, NEW n \in Block, m <= n
               PROVE  stamp[locs'[m]] <= stamp[locs'[n]]
    OBVIOUS
  <2>1. CASE m \in front /\ n \in front
    <3>1. m + left <= n + left
      BY <1>2, <2>1
    <3> QED
      BY <1>5, <1>6, <1>8, <1>12, <2>1, <3>1
  <2>2. CASE m \in back /\ n \in back
    <3>1. m - right <= n - right
      BY <1>2, <2>2
    <3> QED
      BY <1>5, <1>6, <1>8, <1>12, <2>2, <3>1
  <2>3. CASE m \in front /\ n \in back
    <3> DEFINE first == start
               final == start + total - 1
    <3>1. /\ m + left \in start + left .. final /\ final \in start + left .. final
          /\ m + left <= final /\ n - right \in start .. start + left - 1
          /\ first \in start .. start + left - 1 /\ first <= n - right
      BY <1>2, <2>3
    <3>2. m + left \in Block /\ final \in Block /\ n - right \in Block /\ first \in Block
      BY <1>6, <3>1
    <3>3. stamp[m + left] <= stamp[final] /\ stamp[first] <= stamp[n - right]
      BY <1>12, <3>1, <3>2
    <3>4. stamp[final] <= stamp[first]
      BY <1>11
    <3>5. stamp[m + left] <= stamp[n - right]
      <4> HIDE DEF first, final
      <4> QED
        BY <1>13, <3>2, <3>3, <3>4
    <3> QED
      BY <1>8, <2>3, <3>5
  <2>4. ~(m \in back /\ n \in front)
    BY <1>2
  <2> QED
    BY <1>4, <2>1, <2>2, <2>3, <2>4
<1> QED
  BY <1>1, <1>8, <1>9, <1>10, <1>14, UnstableIInv

-----------------------------------------------------------------------------
\* Every step of the merge keeps the invariant.
THEOREM NextIInv == IInv /\ [Next]_vars => IInv'
<1> SUFFICES ASSUME IInv, [Next]_vars PROVE IInv'
  OBVIOUS
<1>1. CASE UNCHANGED vars
  <2>1. UNCHANGED <<callVars, locs, temp, lPos, rPos, outPos, pc>>
    BY <1>1 DEF vars, callVars
  <2>2. Params' = Params /\ Arrays' = Arrays /\ Entering' = Entering /\ Forward' = Forward
    BY <2>1 DEF callVars, Params, Arrays, Entering, Forward, total, Block
  <2>3. BackwardAt(Signed(lPos), Signed(rPos))' = BackwardAt(Signed(lPos), Signed(rPos))
    BY <2>1 DEF callVars, BackwardAt, Signed, total
  <2>4. Finished' = Finished
    BY <2>1 DEF callVars, Finished, Merged, SortedBetween, total, Block
  <2> QED
    BY <2>1, <2>2, <2>3, <2>4 DEF IInv
<1> QED
  BY <1>1, QsortIInv, RotateIInv, StartForwardIInv, StartBackwardIInv, ForwardStepIInv,
     ForwardEndIInv, BackwardStepIInv, BackwardEndIInv DEF Next

\* The invariant of the merge.
THEOREM Invariance == Spec => []IInv
BY InitIInv, NextIInv, PTL DEF Spec

(***************************************************************************)
(* For blocks of every length the merge, forwards, backwards, rotated or   *)
(* by qsort, ends with one sorted block of the same locators.              *)
(***************************************************************************)
THEOREM MergeIsRight == Spec => []Merged
<1>1. IInv => Merged
  BY DEF IInv, Finished, Merged
<1> QED
  BY <1>1, Invariance, PTL

\* A merge that moved a block keeps the order of equal timestamps.
THEOREM MergeIsStable == Spec => []StableMerge
<1>1. IInv => StableMerge
  <2> SUFFICES ASSUME IInv, pc = "done", temp # <<>>, NEW i \in Block, NEW j \in Block, i < j,
                      stamp[locs[i]] = stamp[locs[j]]
               PROVE  locs[i] < locs[j]
    BY DEF StableMerge
  <2>1. Params /\ Arrays /\ Run(stamp, locs, start, start + total - 1, Block)
    BY DEF IInv, Finished
  <2>2. Before(stamp, locs[i], locs[j])
    BY <2>1 DEF Run, Block
  <2>3. i \in Places /\ j \in Places
    BY <2>1, Sizes, LengthAssumption DEF Block, Places
  <2>4. stamp[locs[i]] \in Nat
    BY <2>1, <2>3, StampsAssumption DEF Params, Arrays
  <2> QED
    BY <2>2, <2>4 DEF Before
<1> QED
  BY <1>1, Invariance, PTL

(***************************************************************************)
(* Merging in place never overwrites what it has yet to read, and the      *)
(* positions stay in their blocks or wrap where the loops expect it.       *)
(***************************************************************************)
THEOREM MergeInPlace == Spec => []InputIntact
<1>1. IInv => InputIntact
  <2> SUFFICES ASSUME IInv PROVE InputIntact
    OBVIOUS
  <2>1. pc = "forward" => Forward
    BY DEF IInv
  <2>2. Params /\ Arrays
    BY DEF IInv
  <2>3. ASSUME pc = "backward"
        PROVE  /\ lPos \in start .. start + left - 1 \/ lPos = Dec(start)
               /\ rPos \in 0 .. right - 1 \/ rPos = Wrap - 1
               /\ outPos = (lPos + rPos + 1) % Wrap
               /\ lPos # Dec(start) => \A i \in start .. lPos : locs[i] = i
    <3> DEFINE l == Signed(lPos)
               r == Signed(rPos)
    <3>1. BackwardAt(l, r)
      BY <2>3 DEF IInv
    <3>2. /\ l \in start - 1 .. start + left - 1 /\ r \in -1 .. right - 1
          /\ Signed(outPos) = l + r + 1 /\ \A i \in start .. l : locs[i] = i
      BY <3>1 DEF BackwardAt
    <3>3. /\ start \in Nat /\ left \in Nat \ {0} /\ right \in Nat \ {0}
          /\ start + left + right <= Length /\ start \in 0 .. Length
      BY <2>2, Sizes, LengthAssumption
    <3>4. /\ lPos \in 0 .. Wrap - 1 /\ rPos \in 0 .. Wrap - 1 /\ outPos \in 0 .. Wrap - 1
      BY <2>2 DEF Arrays
    <3>5. /\ lPos = Dec(start) <=> l = start - 1
          /\ l >= 0 => lPos = l
          /\ r >= 0 => rPos = r
      BY <3>3, <3>4, SignedDec
    <3>6. r = -1 => rPos = Wrap - 1
      BY <3>4, WrapAssumption DEF Signed
    <3>7. l = -1 => lPos = Wrap - 1
      BY <3>4, WrapAssumption DEF Signed
    <3>8. l + r + 1 = -1 => outPos = Wrap - 1
      BY <3>2, <3>4, WrapAssumption DEF Signed
    <3>9. l + r + 1 >= 0 => outPos = l + r + 1
      BY <3>2, <3>4, SignedDec
    <3> HIDE DEF l, r
    <3>10. lPos \in start .. start + left - 1 \/ lPos = Dec(start)
      BY <3>2, <3>3, <3>5
    <3>11. rPos \in 0 .. right - 1 \/ rPos = Wrap - 1
      BY <3>2, <3>3, <3>5, <3>6
    <3>12. lPos # Dec(start) => \A i \in start .. lPos : locs[i] = i
      BY <3>2, <3>3, <3>5
    <3>13. outPos = (lPos + rPos + 1) % Wrap
      <4>1. l \in -1 .. Length /\ r \in -1 .. Length /\ l + r + 1 < Length
        BY <3>2, <3>3, LengthAssumption
      <4>2. CASE l >= 0 /\ r >= 0
        <5>1. lPos + rPos + 1 = outPos /\ outPos \in 0 .. Wrap - 1
          BY <4>2, <3>2, <3>4, <3>5, <3>9
        <5>2. outPos % Wrap = outPos
          BY <3>4, WrapAssumption
        <5> QED
          BY <5>1, <5>2
      <4>3. CASE l = -1 /\ r >= 0
        <5>1. lPos + rPos + 1 = r + Wrap /\ outPos = r /\ r < Wrap
          BY <4>1, <4>3, <3>5, <3>7, <3>9, WrapAssumption, LengthAssumption
        <5> QED
          BY <4>1, <4>3, <5>1, WrapAssumption
      <4>4. CASE l >= 0 /\ r = -1
        <5>1. lPos + rPos + 1 = l + Wrap /\ outPos = l /\ l < Wrap
          BY <4>1, <4>4, <3>5, <3>6, <3>9, WrapAssumption, LengthAssumption
        <5> QED
          BY <4>1, <4>4, <5>1, WrapAssumption
      <4>5. CASE l = -1 /\ r = -1
        <5>1. lPos + rPos + 1 = outPos + Wrap
          BY <4>5, <3>6, <3>7, <3>8, WrapAssumption
        <5>2. (outPos + Wrap) % Wrap = outPos
          BY <3>4, WrapAssumption
        <5> QED
          BY <5>1, <5>2
      <4> QED
        BY <4>1, <4>2, <4>3, <4>4, <4>5
    <3> QED
      BY <3>10, <3>11, <3>12, <3>13
  <2> QED
    BY <2>1, <2>3 DEF InputIntact, Forward
<1> QED
  BY <1>1, Invariance, PTL

(***************************************************************************)
(* SinkSort.  A locator of one of two sorted blocks goes to the place that *)
(* its own index and the number of locators before it in the other block   *)
(* add up to; these places differ and are as many as the locators, so the  *)
(* merged block has every place filled once.  A round of merges keeps the  *)
(* locators and halves the blocks, so the rounds leave one block.  With    *)
(* that the invariant SortI says what the sink holds (HeldI), how it is    *)
(* blocked (BlocksI), what has gone out (OutI) and been flushed (FlushedI).*)
(***************************************************************************)
-----------------------------------------------------------------------------
\* A set of naturals that is not empty has a least element.
LEMMA LeastOf ==
  ASSUME NEW T \in SUBSET Nat, T # {}
  PROVE  \E n \in T : \A m \in T : n <= m
<1> DEFINE R == OpToRel(<, Nat)
<1>1. IsWellFoundedOn(R, Nat)
  BY NatLessThanWellFounded
<1>2. \A m, n \in Nat : m < n => <<m, n>> \in R
  BY DEF OpToRel
<1> HIDE DEF R
<1>3. PICK n \in T : \A m \in T : ~(<<m, n>> \in R)
  BY <1>1, WFMin
<1>4. \A m \in T : m \in Nat /\ n \in Nat /\ ~(m < n)
  BY <1>2, <1>3
<1>5. \A m \in T : n <= m
  BY <1>4
<1> QED  BY <1>5

\* A set of the first places has as many elements as its last place says.
LEMMA CountOfFirst ==
  ASSUME NEW n \in Nat, NEW S \in SUBSET (1 .. n), \A i \in S : \A k \in 1 .. n : k < i => k \in S
  PROVE  Cardinality(S) \in 0 .. n /\ \A i \in 1 .. n : i \in S <=> i <= Cardinality(S)
<1> DEFINE T == (1 .. n + 1) \ S
<1>1. T \in SUBSET Nat /\ n + 1 \in T
  OBVIOUS
<1> HIDE DEF T
<1>2. PICK m \in T : \A k \in T : m <= k
  BY <1>1, LeastOf
<1>3. m \in 1 .. n + 1 /\ m \notin S /\ \A k \in 1 .. n : k < m => k \in S
  BY <1>1, <1>2 DEF T
<1>4. S = 1 .. m - 1
  <2>1. ASSUME NEW i \in S PROVE i \in 1 .. m - 1
    <3>1. i \in 1 .. n /\ i # m
      BY <1>3
    <3>2. m \in 1 .. n => ~(m < i)
      BY <1>3
    <3> QED BY <1>3, <3>1, <3>2
  <2>2. ASSUME NEW i \in 1 .. m - 1 PROVE i \in S
    BY <1>3
  <2> QED BY <2>1, <2>2
<1>5. Cardinality(S) = m - 1
  <2>1. 1 \in Int /\ m - 1 \in Int /\ m \in Nat /\ m >= 1
    BY <1>3
  <2>2. Cardinality(1 .. m - 1) = IF 1 > m - 1 THEN 0 ELSE (m - 1) - 1 + 1
    BY <2>1, FS_Interval
  <2> QED BY <1>4, <2>1, <2>2
<1> QED BY <1>3, <1>4, <1>5

-----------------------------------------------------------------------------
\* x is in the sequence s, and s has nothing twice.
Has(s, x) == \E i \in 1 .. Len(s) : s[i] = x
Once(s)   == \A i, k \in 1 .. Len(s) : s[i] = s[k] => i = k

\* A sorted block of locators.
IsBlock(s) == s \in Seq(Locator) /\ Len(s) > 0 /\ AreSorted(s) /\ Once(s)

\* What sorted means, and that timestamps are numbers.
LEMMA SortedIs ==
  ASSUME NEW s \in Seq(Locator)
  PROVE  /\ \A i \in 1 .. Len(s) : s[i] \in Locator /\ s[i].timestamp \in Nat
         /\ AreSorted(s) <=> \A i, k \in 1 .. Len(s) : i < k => s[i].timestamp <= s[k].timestamp
<1>1. \A i \in 1 .. Len(s) : s[i] \in Locator
  OBVIOUS
<1>2. \A x \in Locator : x.timestamp \in Nat
  BY MaxStampAssumption DEF Locator, SortStamps
<1>3. AreSorted(s) <=> \A i, k \in 1 .. Len(s) : i < k => s[i].timestamp <= s[k].timestamp
  BY DEF AreSorted, IsSorted, InOrder
<1> QED BY <1>1, <1>2, <1>3

\* Where the elements of two sorted blocks go: they keep their order, and one
\* of the left goes before one of the right unless that is earlier.
LEMMA PlacesAre ==
  ASSUME NEW l, NEW r, IsBlock(l), IsBlock(r)
  PROVE  /\ \A i \in 1 .. Len(l) : LeftPlace(l, r, i) \in 1 .. Len(l) + Len(r)
         /\ \A j \in 1 .. Len(r) : RightPlace(l, r, j) \in 1 .. Len(l) + Len(r)
         /\ \A i, k \in 1 .. Len(l) : i < k => LeftPlace(l, r, i) < LeftPlace(l, r, k)
         /\ \A j, k \in 1 .. Len(r) : j < k => RightPlace(l, r, j) < RightPlace(l, r, k)
         /\ \A i \in 1 .. Len(l), j \in 1 .. Len(r) :
              IF r[j].timestamp < l[i].timestamp THEN RightPlace(l, r, j) < LeftPlace(l, r, i)
              ELSE LeftPlace(l, r, i) < RightPlace(l, r, j)
<1> DEFINE B(i) == {j \in 1 .. Len(r) : r[j].timestamp < l[i].timestamp}
           A(j) == {i \in 1 .. Len(l) : ~(r[j].timestamp < l[i].timestamp)}
<1>1. /\ l \in Seq(Locator) /\ r \in Seq(Locator) /\ Len(l) \in Nat /\ Len(r) \in Nat
      /\ DOMAIN l = 1 .. Len(l) /\ DOMAIN r = 1 .. Len(r)
  BY DEF IsBlock
<1>2. /\ \A i \in 1 .. Len(l) : l[i].timestamp \in Nat
      /\ \A j \in 1 .. Len(r) : r[j].timestamp \in Nat
      /\ \A i, k \in 1 .. Len(l) : i < k => l[i].timestamp <= l[k].timestamp
      /\ \A j, k \in 1 .. Len(r) : j < k => r[j].timestamp <= r[k].timestamp
  BY <1>1, SortedIs DEF IsBlock
<1>3. ASSUME NEW i \in 1 .. Len(l)
      PROVE  /\ Cardinality(B(i)) \in 0 .. Len(r) /\ LeftPlace(l, r, i) = i + Cardinality(B(i))
             /\ \A j \in 1 .. Len(r) : r[j].timestamp < l[i].timestamp <=> j <= Cardinality(B(i))
  <2>1. B(i) \in SUBSET (1 .. Len(r)) /\ \A j \in B(i) : \A k \in 1 .. Len(r) : k < j => k \in B(i)
    BY SMTT(30), <1>2
  <2>2. LeftPlace(l, r, i) = i + Cardinality(B(i))
    BY <1>1 DEF LeftPlace, Earlier
  <2>3. \A j \in 1 .. Len(r) : j \in B(i) <=> r[j].timestamp < l[i].timestamp
    OBVIOUS
  <2> HIDE DEF B
  <2> QED BY <1>1, <2>1, <2>2, <2>3, CountOfFirst
<1>4. ASSUME NEW j \in 1 .. Len(r)
      PROVE  /\ Cardinality(A(j)) \in 0 .. Len(l) /\ RightPlace(l, r, j) = j + Cardinality(A(j))
             /\ \A i \in 1 .. Len(l) : ~(r[j].timestamp < l[i].timestamp) <=> i <= Cardinality(A(j))
  <2>1. A(j) \in SUBSET (1 .. Len(l)) /\ \A i \in A(j) : \A k \in 1 .. Len(l) : k < i => k \in A(j)
    BY SMTT(30), <1>2
  <2>2. RightPlace(l, r, j) = j + Cardinality(A(j))
    BY <1>1 DEF RightPlace, Earlier
  <2>3. \A i \in 1 .. Len(l) : i \in A(j) <=> ~(r[j].timestamp < l[i].timestamp)
    OBVIOUS
  <2> HIDE DEF A
  <2> QED BY <1>1, <2>1, <2>2, <2>3, CountOfFirst
<1> HIDE DEF A, B
<1>5. \A i \in 1 .. Len(l) : LeftPlace(l, r, i) \in 1 .. Len(l) + Len(r)
  BY <1>1, <1>3
<1>6. \A j \in 1 .. Len(r) : RightPlace(l, r, j) \in 1 .. Len(l) + Len(r)
  BY <1>1, <1>4
<1>7. ASSUME NEW i \in 1 .. Len(l), NEW k \in 1 .. Len(l), i < k
      PROVE  LeftPlace(l, r, i) < LeftPlace(l, r, k)
  <2>1. Cardinality(B(i)) <= Cardinality(B(k))
    <3>1. CASE Cardinality(B(i)) = 0
      BY <1>1, <1>3, <3>1
    <3>2. CASE Cardinality(B(i)) # 0
      <4>1. PICK j \in 1 .. Len(r) : j = Cardinality(B(i))
        BY <1>1, <1>3, <3>2
      <4>2. r[j].timestamp < l[i].timestamp
        BY <1>3, <4>1
      <4>3. r[j].timestamp < l[k].timestamp
        BY <1>2, <1>7, <4>2
      <4> QED BY <1>3, <4>1, <4>3
    <3> QED BY <3>1, <3>2
  <2> QED BY <1>1, <1>3, <1>7, <2>1
<1>8. ASSUME NEW j \in 1 .. Len(r), NEW k \in 1 .. Len(r), j < k
      PROVE  RightPlace(l, r, j) < RightPlace(l, r, k)
  <2>1. Cardinality(A(j)) <= Cardinality(A(k))
    <3>1. CASE Cardinality(A(j)) = 0
      BY <1>1, <1>4, <3>1
    <3>2. CASE Cardinality(A(j)) # 0
      <4>1. PICK i \in 1 .. Len(l) : i = Cardinality(A(j))
        BY <1>1, <1>4, <3>2
      <4>2. ~(r[j].timestamp < l[i].timestamp)
        BY <1>4, <4>1
      <4>3. ~(r[k].timestamp < l[i].timestamp)
        BY <1>2, <1>8, <4>2
      <4> QED BY <1>4, <4>1, <4>3
    <3> QED BY <3>1, <3>2
  <2> QED BY <1>1, <1>4, <1>8, <2>1
<1>9. ASSUME NEW i \in 1 .. Len(l), NEW j \in 1 .. Len(r)
      PROVE  IF r[j].timestamp < l[i].timestamp THEN RightPlace(l, r, j) < LeftPlace(l, r, i)
             ELSE LeftPlace(l, r, i) < RightPlace(l, r, j)
  BY <1>1, <1>3, <1>4
<1> QED BY <1>5, <1>6, <1>7, <1>8, <1>9

\* Every place of the merged block is that of one element.
LEMMA PlacesCover ==
  ASSUME NEW l, NEW r, IsBlock(l), IsBlock(r), NEW k \in 1 .. Len(l) + Len(r)
  PROVE  \/ \E i \in 1 .. Len(l) : LeftPlace(l, r, i) = k
         \/ \E j \in 1 .. Len(r) : RightPlace(l, r, j) = k
<1> DEFINE N == Len(l) + Len(r)
           place == [n \in 1 .. N |-> IF n <= Len(l) THEN LeftPlace(l, r, n) ELSE RightPlace(l, r, n - Len(l))]
<1>1. Len(l) \in Nat /\ Len(r) \in Nat /\ N \in Nat
  BY DEF IsBlock
<1>2. place \in [1 .. N -> 1 .. N]
  BY <1>1, PlacesAre
<1>3. ASSUME NEW n \in 1 .. N, NEW m \in 1 .. N, place[n] = place[m]
      PROVE  n = m
  <2>1. CASE n <= Len(l) /\ m <= Len(l)
    <3>1. n \in 1 .. Len(l) /\ m \in 1 .. Len(l) /\ LeftPlace(l, r, n) = LeftPlace(l, r, m)
      BY <1>1, <1>3, <2>1
    <3>2. LeftPlace(l, r, n) \in Nat /\ ~(n < m) /\ ~(m < n)
      BY <1>1, <3>1, PlacesAre
    <3> QED BY <1>1, <3>2
  <2>2. CASE ~(n <= Len(l)) /\ ~(m <= Len(l))
    <3>0. n - Len(l) \in 1 .. Len(r) /\ m - Len(l) \in 1 .. Len(r)
      BY <1>1, <2>2
    <3>1. PICK a \in 1 .. Len(r), b \in 1 .. Len(r) : a = n - Len(l) /\ b = m - Len(l)
      BY <3>0
    <3>2. RightPlace(l, r, a) = RightPlace(l, r, b)
      BY <1>1, <1>3, <2>2, <3>1
    <3>3. RightPlace(l, r, a) \in Nat /\ ~(a < b) /\ ~(b < a)
      BY SMTT(30), <1>1, <3>2, PlacesAre
    <3> QED BY <1>1, <3>1, <3>3
  <2>3. ASSUME NEW x \in 1 .. N, NEW y \in 1 .. N, x <= Len(l), ~(y <= Len(l)), place[x] = place[y]
        PROVE  FALSE
    <3>1. PICK b \in 1 .. Len(r) : b = y - Len(l)
      BY <1>1, <2>3
    <3>2. x \in 1 .. Len(l) /\ LeftPlace(l, r, x) = RightPlace(l, r, b)
      BY <1>1, <2>3, <3>1
    <3>3. LeftPlace(l, r, x) \in Nat
      BY <1>1, <3>2, PlacesAre
    <3>4. LeftPlace(l, r, x) < RightPlace(l, r, b) \/ RightPlace(l, r, b) < LeftPlace(l, r, x)
      BY <3>2, PlacesAre
    <3> QED BY <3>2, <3>3, <3>4
  <2> QED BY <1>3, <2>1, <2>2, <2>3
<1> HIDE DEF place
<1>4. place \in Injection(1 .. N, 1 .. N)
  BY <1>2, <1>3 DEF Injection, IsInjective
<1>5. IsFiniteSet(1 .. N)
  BY <1>1, FS_Interval
<1>6. place \in Surjection(1 .. N, 1 .. N)
  BY <1>4, <1>5, FS_Injection
<1>7. PICK n \in 1 .. N : place[n] = k
  BY <1>6 DEF Surjection
<1>8. CASE n <= Len(l)
  <2>1. n \in 1 .. Len(l) /\ LeftPlace(l, r, n) = k
    BY <1>1, <1>7, <1>8 DEF place
  <2> QED BY <2>1
<1>9. CASE ~(n <= Len(l))
  <2>1. n - Len(l) \in 1 .. Len(r) /\ RightPlace(l, r, n - Len(l)) = k
    BY <1>1, <1>7, <1>9 DEF place
  <2> QED BY <2>1
<1> QED BY <1>8, <1>9

\* inplace_merge() gives one block, with what was in the two.
LEMMA MergeIs ==
  ASSUME NEW l, NEW r, IsBlock(l), IsBlock(r), \A x : ~(Has(l, x) /\ Has(r, x))
  PROVE  /\ IsBlock(Merge(l, r)) /\ Len(Merge(l, r)) = Len(l) + Len(r)
         /\ \A x : Has(Merge(l, r), x) <=> Has(l, x) \/ Has(r, x)
<1>1. /\ l \in Seq(Locator) /\ r \in Seq(Locator) /\ Len(l) \in Nat /\ Len(r) \in Nat
      /\ Len(l) > 0 /\ Len(r) > 0 /\ DOMAIN l = 1 .. Len(l) /\ DOMAIN r = 1 .. Len(r)
  BY DEF IsBlock
<1>2. /\ \A i \in 1 .. Len(l) : l[i] \in Locator /\ l[i].timestamp \in Nat
      /\ \A j \in 1 .. Len(r) : r[j] \in Locator /\ r[j].timestamp \in Nat
      /\ \A i, k \in 1 .. Len(l) : i < k => l[i].timestamp <= l[k].timestamp
      /\ \A j, k \in 1 .. Len(r) : j < k => r[j].timestamp <= r[k].timestamp
  BY <1>1, SortedIs DEF IsBlock
<1>3. /\ \A i, k \in 1 .. Len(l) : l[i] = l[k] => i = k
      /\ \A j, k \in 1 .. Len(r) : r[j] = r[k] => j = k
      /\ \A i \in 1 .. Len(l), j \in 1 .. Len(r) : l[i] # r[j]
  BY DEF IsBlock, Once, Has
<1>4. CASE l[1].timestamp >= r[Len(r)].timestamp
  <2> DEFINE m == r \o l
  <2>1. m \in Seq(Locator) /\ Len(m) = Len(l) + Len(r)
    BY <1>1
  <2>2. \A k \in 1 .. Len(m) : m[k] = IF k <= Len(r) THEN r[k] ELSE l[k - Len(r)]
    BY <1>1
  <2> HIDE DEF m
  <2>3. \A k \in 1 .. Len(m) : k > Len(r) => k - Len(r) \in 1 .. Len(l)
    BY <1>1, <2>1
  <2>4. \A k \in 1 .. Len(m) : k <= Len(r) => k \in 1 .. Len(r)
    BY <1>1, <2>1
  <2>5. ASSUME NEW k \in 1 .. Len(m), NEW n \in 1 .. Len(m), k < n
        PROVE  m[k].timestamp <= m[n].timestamp
    <3>1. CASE n <= Len(r)
      <4>1. k \in 1 .. Len(r) /\ n \in 1 .. Len(r) /\ m[k] = r[k] /\ m[n] = r[n]
        BY <1>1, <2>2, <2>4, <2>5, <3>1
      <4> QED BY <1>2, <2>5, <4>1
    <3>2. CASE k > Len(r)
      <4>1. PICK a \in 1 .. Len(l), b \in 1 .. Len(l) : a = k - Len(r) /\ b = n - Len(r)
        <5>1. k - Len(r) \in 1 .. Len(l) /\ n - Len(r) \in 1 .. Len(l)
          BY <1>1, <2>1, <2>3, <2>5, <3>2
        <5> QED BY <5>1
      <4>2. m[k] = l[a] /\ m[n] = l[b] /\ a < b
        BY <1>1, <2>1, <2>2, <2>5, <3>2, <4>1
      <4> QED BY <1>2, <4>2
    <3>3. CASE k <= Len(r) /\ n > Len(r)
      <4>1. PICK b \in 1 .. Len(l) : b = n - Len(r)
        BY <2>3, <3>3
      <4>2. k \in 1 .. Len(r) /\ m[k] = r[k] /\ m[n] = l[b]
        BY <1>1, <2>1, <2>2, <2>4, <3>3, <4>1
      <4>3. 1 \in 1 .. Len(l) /\ Len(r) \in 1 .. Len(r)
        BY <1>1
      <4>4. r[k].timestamp <= r[Len(r)].timestamp
        <5>1. k \in 1 .. Len(r)
          BY <4>2
        <5>2. k \in Int /\ k <= Len(r) /\ Len(r) \in Nat
          BY <1>1, <5>1
        <5>3. k = Len(r) \/ k < Len(r)
          BY <5>2
        <5>4. k = Len(r) => r[k].timestamp = r[Len(r)].timestamp /\ r[k].timestamp \in Nat
          BY <1>2, <5>1
        <5>5. k < Len(r) => r[k].timestamp <= r[Len(r)].timestamp
          BY <1>2, <4>3, <5>1
        <5> QED BY <5>3, <5>4, <5>5
      <4>5. l[1].timestamp <= l[b].timestamp
        <5>1. b \in Int /\ 1 <= b
          BY <1>1
        <5>2. b = 1 \/ 1 < b
          BY <5>1
        <5>3. b = 1 => l[1].timestamp = l[b].timestamp /\ l[1].timestamp \in Nat
          BY <1>2, <4>3
        <5>4. 1 < b => l[1].timestamp <= l[b].timestamp
          BY <1>2, <4>3
        <5> QED BY <5>2, <5>3, <5>4
      <4>6. /\ r[k].timestamp \in Nat /\ r[Len(r)].timestamp \in Nat /\ l[1].timestamp \in Nat
            /\ l[b].timestamp \in Nat
        BY <1>2, <4>2, <4>3
      <4> QED BY SMTT(30), <1>4, <4>2, <4>4, <4>5, <4>6
    <3> QED BY <1>1, <2>1, <3>1, <3>2, <3>3
  <2>6. AreSorted(m)
    BY <2>1, <2>5, SortedIs
  <2>7. ASSUME NEW k \in 1 .. Len(m), NEW n \in 1 .. Len(m), m[k] = m[n]
        PROVE  k = n
    <3>1. CASE k <= Len(r) /\ n <= Len(r)
      <4>1. k \in 1 .. Len(r) /\ n \in 1 .. Len(r) /\ m[k] = r[k] /\ m[n] = r[n]
        BY <1>1, <2>1, <2>2, <2>4, <3>1
      <4> QED BY <1>3, <2>7, <4>1
    <3>2. CASE k > Len(r) /\ n > Len(r)
      <4>1. k - Len(r) \in 1 .. Len(l) /\ n - Len(r) \in 1 .. Len(l) /\ m[k] = l[k - Len(r)] /\ m[n] = l[n - Len(r)]
        BY <1>1, <2>1, <2>2, <2>3, <3>2
      <4>2. k - Len(r) = n - Len(r)
        BY <1>3, <2>7, <4>1
      <4> QED BY <1>1, <4>2
    <3>3. ASSUME NEW a \in 1 .. Len(m), NEW b \in 1 .. Len(m), a <= Len(r), b > Len(r)
          PROVE  m[a] # m[b]
      <4>1. a \in 1 .. Len(r) /\ b - Len(r) \in 1 .. Len(l) /\ m[a] = r[a] /\ m[b] = l[b - Len(r)]
        BY <1>1, <2>1, <2>2, <2>3, <2>4, <3>3
      <4> QED BY <1>3, <4>1
    <3> QED BY <1>1, <2>1, <2>7, <3>1, <3>2, <3>3
  <2>8. ASSUME NEW x PROVE Has(m, x) <=> Has(l, x) \/ Has(r, x)
    <3>1. ASSUME NEW k \in 1 .. Len(m), m[k] = x PROVE Has(l, x) \/ Has(r, x)
      <4>1. CASE k <= Len(r)
        <5>1. k \in 1 .. Len(r) /\ r[k] = x
          BY <2>2, <2>4, <3>1, <4>1
        <5> QED BY <5>1 DEF Has
      <4>2. CASE ~(k <= Len(r))
        <5>1. k > Len(r)
          BY <1>1, <2>1, <4>2
        <5>2. k - Len(r) \in 1 .. Len(l) /\ l[k - Len(r)] = x
          BY <2>2, <2>3, <3>1, <4>2, <5>1
        <5> QED BY <5>2 DEF Has
      <4> QED BY <4>1, <4>2
    <3>2. ASSUME NEW j \in 1 .. Len(r), r[j] = x PROVE Has(m, x)
      <4>1. j \in 1 .. Len(m) /\ m[j] = x
        BY <1>1, <2>1, <2>2, <3>2
      <4> QED BY <4>1 DEF Has
    <3>3. ASSUME NEW i \in 1 .. Len(l), l[i] = x PROVE Has(m, x)
      <4>1. PICK k \in 1 .. Len(m) : k = i + Len(r)
        BY <1>1, <2>1
      <4>2. k > Len(r) /\ k - Len(r) = i
        BY <1>1, <4>1
      <4>3. m[k] = x
        BY <1>1, <2>2, <3>3, <4>2
      <4> QED BY <4>3 DEF Has
    <3> QED BY <3>1, <3>2, <3>3 DEF Has
  <2>9. Merge(l, r) = m
    BY <1>4 DEF Merge, m
  <2> QED BY <1>1, <2>1, <2>6, <2>7, <2>8, <2>9 DEF IsBlock, Once
<1>5. CASE ~(l[1].timestamp >= r[Len(r)].timestamp)
  <2> DEFINE N == Len(l) + Len(r)
             m == [k \in 1 .. N |->
                     IF \E i \in 1 .. Len(l) : LeftPlace(l, r, i) = k
                     THEN l[CHOOSE i \in 1 .. Len(l) : LeftPlace(l, r, i) = k]
                     ELSE r[CHOOSE j \in 1 .. Len(r) : RightPlace(l, r, j) = k]]
  <2>1. Merge(l, r) = m
    BY SMTT(30), <1>1, <1>5 DEF Merge
  <2>2. N \in Nat
    BY <1>1
  <2>3. ASSUME NEW k \in 1 .. N
        PROVE  \/ \E i \in 1 .. Len(l) : LeftPlace(l, r, i) = k /\ m[k] = l[i]
               \/ \E j \in 1 .. Len(r) : RightPlace(l, r, j) = k /\ m[k] = r[j]
    <3>1. CASE \E i \in 1 .. Len(l) : LeftPlace(l, r, i) = k
      <4>1. PICK i \in 1 .. Len(l) : i = CHOOSE h \in 1 .. Len(l) : LeftPlace(l, r, h) = k
        BY <3>1
      <4>2. LeftPlace(l, r, i) = k
        BY <3>1, <4>1
      <4>3. m[k] = l[i]
        BY <3>1, <4>1
      <4> QED BY <4>2, <4>3
    <3>2. CASE ~\E i \in 1 .. Len(l) : LeftPlace(l, r, i) = k
      <4>1. \E j \in 1 .. Len(r) : RightPlace(l, r, j) = k
        BY <3>2, PlacesCover
      <4>2. PICK j \in 1 .. Len(r) : j = CHOOSE h \in 1 .. Len(r) : RightPlace(l, r, h) = k
        BY <4>1
      <4>3. RightPlace(l, r, j) = k
        BY <4>1, <4>2
      <4>4. m[k] = r[j]
        BY <3>2, <4>2
      <4> QED BY <4>3, <4>4
    <3> QED BY <3>1, <3>2
  <2>4. DOMAIN m = 1 .. N
    OBVIOUS
  <2> HIDE DEF m
  <2>5. m \in Seq(Locator) /\ Len(m) = N
    <3>1. \A k \in 1 .. N : m[k] \in Locator
      BY <1>2, <2>3
    <3>2. m \in [1 .. N -> Locator]
      BY <2>4, <3>1, <2>1 DEF m
    <3> QED BY <2>2, <3>2
  \* Where two places of the merged block come from
  <2>6. ASSUME NEW i \in 1 .. Len(l), NEW k \in 1 .. N, LeftPlace(l, r, i) = k
        PROVE  m[k] = l[i]
    <3>1. CASE \E i2 \in 1 .. Len(l) : LeftPlace(l, r, i2) = k /\ m[k] = l[i2]
      <4>1. PICK i2 \in 1 .. Len(l) : LeftPlace(l, r, i2) = k /\ m[k] = l[i2]
        BY <3>1
      <4>2. ~(i < i2) /\ ~(i2 < i)
        BY <2>2, <2>6, <4>1, PlacesAre
      <4>3. i = i2
        BY <1>1, <4>2
      <4> QED BY <4>1, <4>3
    <3>2. CASE \E j \in 1 .. Len(r) : RightPlace(l, r, j) = k
      <4>1. PICK j \in 1 .. Len(r) : RightPlace(l, r, j) = k
        BY <3>2
      <4>2. LeftPlace(l, r, i) < RightPlace(l, r, j) \/ RightPlace(l, r, j) < LeftPlace(l, r, i)
        BY PlacesAre
      <4> QED BY <2>2, <2>6, <4>1, <4>2
    <3> QED BY <2>3, <3>1, <3>2
  <2>7. ASSUME NEW j \in 1 .. Len(r), NEW k \in 1 .. N, RightPlace(l, r, j) = k
        PROVE  m[k] = r[j]
    <3>1. CASE \E j2 \in 1 .. Len(r) : RightPlace(l, r, j2) = k /\ m[k] = r[j2]
      <4>1. PICK j2 \in 1 .. Len(r) : RightPlace(l, r, j2) = k /\ m[k] = r[j2]
        BY <3>1
      <4>2. ~(j < j2) /\ ~(j2 < j)
        BY <2>2, <2>7, <4>1, PlacesAre
      <4>3. j = j2
        BY <1>1, <4>2
      <4> QED BY <4>1, <4>3
    <3>2. CASE \E i \in 1 .. Len(l) : LeftPlace(l, r, i) = k
      <4>1. PICK i \in 1 .. Len(l) : LeftPlace(l, r, i) = k
        BY <3>2
      <4>2. LeftPlace(l, r, i) < RightPlace(l, r, j) \/ RightPlace(l, r, j) < LeftPlace(l, r, i)
        BY PlacesAre
      <4> QED BY <2>2, <2>7, <4>1, <4>2
    <3> QED BY <2>3, <3>1, <3>2
  <2>8. ASSUME NEW k \in 1 .. N, NEW n \in 1 .. N, k < n
        PROVE  m[k].timestamp <= m[n].timestamp
    <3>1. CASE \E i \in 1 .. Len(l), i2 \in 1 .. Len(l) : /\ LeftPlace(l, r, i) = k /\ m[k] = l[i]
                                                          /\ LeftPlace(l, r, i2) = n /\ m[n] = l[i2]
      <4>1. PICK i \in 1 .. Len(l), i2 \in 1 .. Len(l) : /\ LeftPlace(l, r, i) = k /\ m[k] = l[i]
                                                          /\ LeftPlace(l, r, i2) = n /\ m[n] = l[i2]
        BY <3>1
      <4>2. ~(i2 < i) /\ i # i2
        BY <2>2, <2>8, <4>1, PlacesAre
      <4>3. i < i2
        BY <1>1, <4>2
      <4> QED BY <1>2, <4>1, <4>3
    <3>2. CASE \E j \in 1 .. Len(r), j2 \in 1 .. Len(r) : /\ RightPlace(l, r, j) = k /\ m[k] = r[j]
                                                          /\ RightPlace(l, r, j2) = n /\ m[n] = r[j2]
      <4>1. PICK j \in 1 .. Len(r), j2 \in 1 .. Len(r) : /\ RightPlace(l, r, j) = k /\ m[k] = r[j]
                                                          /\ RightPlace(l, r, j2) = n /\ m[n] = r[j2]
        BY <3>2
      <4>2. ~(j2 < j) /\ j # j2
        BY SMTT(30), <2>2, <2>8, <4>1, PlacesAre
      <4>3. j < j2
        BY <1>1, <4>2
      <4> QED BY <1>2, <4>1, <4>3
    <3>3. CASE \E i \in 1 .. Len(l), j \in 1 .. Len(r) : /\ LeftPlace(l, r, i) = k /\ m[k] = l[i]
                                                         /\ RightPlace(l, r, j) = n /\ m[n] = r[j]
      <4>1. PICK i \in 1 .. Len(l), j \in 1 .. Len(r) : /\ LeftPlace(l, r, i) = k /\ m[k] = l[i]
                                                        /\ RightPlace(l, r, j) = n /\ m[n] = r[j]
        BY <3>3
      <4>2. ~(r[j].timestamp < l[i].timestamp)
        BY <2>2, <2>8, <4>1, PlacesAre
      <4> QED BY <1>2, <4>1, <4>2
    <3>4. CASE \E i \in 1 .. Len(l), j \in 1 .. Len(r) : /\ RightPlace(l, r, j) = k /\ m[k] = r[j]
                                                         /\ LeftPlace(l, r, i) = n /\ m[n] = l[i]
      <4>1. PICK i \in 1 .. Len(l), j \in 1 .. Len(r) : /\ RightPlace(l, r, j) = k /\ m[k] = r[j]
                                                        /\ LeftPlace(l, r, i) = n /\ m[n] = l[i]
        BY <3>4
      <4>2. r[j].timestamp < l[i].timestamp
        BY <2>2, <2>8, <4>1, PlacesAre
      <4> QED BY <1>2, <4>1, <4>2
    <3>5. \/ \E i \in 1 .. Len(l) : LeftPlace(l, r, i) = k /\ m[k] = l[i]
          \/ \E j \in 1 .. Len(r) : RightPlace(l, r, j) = k /\ m[k] = r[j]
      BY <2>3
    <3>6. \/ \E i \in 1 .. Len(l) : LeftPlace(l, r, i) = n /\ m[n] = l[i]
          \/ \E j \in 1 .. Len(r) : RightPlace(l, r, j) = n /\ m[n] = r[j]
      BY <2>3
    <3> QED BY <3>1, <3>2, <3>3, <3>4, <3>5, <3>6
  <2>9. AreSorted(m)
    BY <2>5, <2>8, SortedIs
  <2>10. ASSUME NEW k \in 1 .. N, NEW n \in 1 .. N, m[k] = m[n]
         PROVE  k = n
    <3>5. \/ \E i \in 1 .. Len(l) : LeftPlace(l, r, i) = k /\ m[k] = l[i]
          \/ \E j \in 1 .. Len(r) : RightPlace(l, r, j) = k /\ m[k] = r[j]
      BY <2>3
    <3>6. \/ \E i \in 1 .. Len(l) : LeftPlace(l, r, i) = n /\ m[n] = l[i]
          \/ \E j \in 1 .. Len(r) : RightPlace(l, r, j) = n /\ m[n] = r[j]
      BY <2>3
    <3> QED BY <1>3, <2>10, <3>5, <3>6
  <2>11. ASSUME NEW x PROVE Has(m, x) <=> Has(l, x) \/ Has(r, x)
    <3>1. ASSUME NEW k \in 1 .. N, m[k] = x PROVE Has(l, x) \/ Has(r, x)
      BY <2>3, <3>1 DEF Has
    <3>2. ASSUME NEW j \in 1 .. Len(r), r[j] = x PROVE Has(m, x)
      <4>1. PICK k \in 1 .. N : k = RightPlace(l, r, j)
        BY PlacesAre
      <4>2. m[k] = x
        BY <2>7, <3>2, <4>1
      <4> QED BY <2>5, <4>2 DEF Has
    <3>3. ASSUME NEW i \in 1 .. Len(l), l[i] = x PROVE Has(m, x)
      <4>1. PICK k \in 1 .. N : k = LeftPlace(l, r, i)
        BY PlacesAre
      <4>2. m[k] = x
        BY <2>6, <3>3, <4>1
      <4> QED BY <2>5, <4>2 DEF Has
    <3> QED BY <2>5, <3>1, <3>2, <3>3 DEF Has
  <2> QED BY <1>1, <2>1, <2>5, <2>9, <2>10, <2>11 DEF IsBlock, Once
<1> QED BY <1>4, <1>5

-----------------------------------------------------------------------------
\* Blocks of which no two have a locator in common, and which have those of L.
AreBlocks(bs, L) ==
  /\ bs \in Seq(Seq(Locator))
  /\ \A n \in 1 .. Len(bs) : IsBlock(bs[n])
  /\ \A n, k \in 1 .. Len(bs) : \A x : Has(bs[n], x) /\ Has(bs[k], x) => n = k
  /\ \A x : x \in L <=> \E n \in 1 .. Len(bs) : Has(bs[n], x)

\* A round leaves half as many blocks, and the one there is alone.
LEMMA RoundIs ==
  ASSUME NEW bs, NEW L, AreBlocks(bs, L)
  PROVE  /\ AreBlocks(Round(bs), L)
         /\ Len(Round(bs)) = IF Len(bs) <= 1 THEN Len(bs) ELSE (Len(bs) + 1) \div 2
<1>1. CASE Len(bs) <= 1
  BY <1>1 DEF Round
<1>2. CASE ~(Len(bs) <= 1)
  <2> DEFINE h  == (Len(bs) + 1) \div 2
             at(n) == IF 2 * n <= Len(bs) THEN Merge(bs[2 * n - 1], bs[2 * n]) ELSE bs[2 * n - 1]
             rs == [n \in 1 .. h |-> at(n)]
  <2>1. bs \in Seq(Seq(Locator)) /\ Len(bs) \in Nat /\ h \in Nat
    BY DEF AreBlocks
  <2>2. Round(bs) = rs
    BY <1>2 DEF Round
  <2>3. \A n \in 1 .. h : /\ 2 * n - 1 \in 1 .. Len(bs)
                          /\ 2 * n <= Len(bs) => 2 * n \in 1 .. Len(bs)
    BY <2>1
  <2>4. \A k \in 1 .. Len(bs) : \E n \in 1 .. h : k = 2 * n - 1 \/ (k = 2 * n /\ 2 * n <= Len(bs))
    <3> SUFFICES ASSUME NEW k \in 1 .. Len(bs)
                 PROVE  \E n \in 1 .. h : k = 2 * n - 1 \/ (k = 2 * n /\ 2 * n <= Len(bs))
      OBVIOUS
    <3>1. (k + 1) \div 2 \in 1 .. h
      BY <2>1
    <3>2. k = 2 * ((k + 1) \div 2) - 1 \/ k = 2 * ((k + 1) \div 2)
      BY <2>1
    <3>3. PICK n \in 1 .. h : n = (k + 1) \div 2
      BY <3>1
    <3>4. k = 2 * n - 1 \/ k = 2 * n
      BY <3>2, <3>3
    <3> QED BY <2>1, <3>4
  <2> HIDE DEF h
  \* What is in each block after the round
  <2>5. ASSUME NEW n \in 1 .. h
        PROVE  /\ IsBlock(at(n))
               /\ \A x : Has(at(n), x) <=> Has(bs[2 * n - 1], x) \/ (2 * n <= Len(bs) /\ Has(bs[2 * n], x))
    <3>1. CASE 2 * n <= Len(bs)
      <4>1. PICK l, r : l = bs[2 * n - 1] /\ r = bs[2 * n]
        OBVIOUS
      <4>2. IsBlock(l) /\ IsBlock(r)
        BY <2>3, <3>1, <4>1 DEF AreBlocks
      <4>3. \A x : ~(Has(l, x) /\ Has(r, x))
        <5>1. 2 * n - 1 \in 1 .. Len(bs) /\ 2 * n \in 1 .. Len(bs) /\ 2 * n - 1 # 2 * n
          BY <2>1, <2>3, <3>1
        <5> QED BY <4>1, <5>1 DEF AreBlocks
      <4>4. at(n) = Merge(l, r)
        BY <3>1, <4>1
      <4>5. IsBlock(Merge(l, r)) /\ \A x : Has(Merge(l, r), x) <=> Has(l, x) \/ Has(r, x)
        BY <4>2, <4>3, MergeIs
      <4> QED BY <3>1, <4>1, <4>4, <4>5
    <3>2. CASE ~(2 * n <= Len(bs))
      <4>1. IsBlock(bs[2 * n - 1])
        BY <2>3 DEF AreBlocks
      <4> QED BY <3>2, <4>1
    <3> QED BY <3>1, <3>2
  <2>6. \A n \in 1 .. h : at(n) \in Seq(Locator)
    BY <2>5 DEF IsBlock
  <2> HIDE DEF at
  <2>7. rs \in Seq(Seq(Locator)) /\ Len(rs) = h /\ \A n \in 1 .. h : rs[n] = at(n)
    BY <2>1, <2>6
  <2> HIDE DEF rs
  <2>8. \A n \in 1 .. Len(rs) : IsBlock(rs[n])
    BY <2>5, <2>7
  <2>9. ASSUME NEW n \in 1 .. Len(rs), NEW k \in 1 .. Len(rs), NEW x, Has(rs[n], x), Has(rs[k], x)
        PROVE  n = k
    <3>1. n \in 1 .. h /\ k \in 1 .. h /\ Has(at(n), x) /\ Has(at(k), x)
      BY <2>7, <2>9
    <3>2. PICK a \in 1 .. Len(bs) : Has(bs[a], x) /\ (a = 2 * n - 1 \/ a = 2 * n)
      BY <2>3, <2>5, <3>1
    <3>3. PICK b \in 1 .. Len(bs) : Has(bs[b], x) /\ (b = 2 * k - 1 \/ b = 2 * k)
      BY <2>3, <2>5, <3>1
    <3>4. a = b
      BY <3>2, <3>3 DEF AreBlocks
    <3> QED BY <2>1, <3>1, <3>2, <3>3, <3>4
  <2>10. ASSUME NEW x PROVE x \in L <=> \E n \in 1 .. Len(rs) : Has(rs[n], x)
    <3>1. ASSUME x \in L PROVE \E n \in 1 .. Len(rs) : Has(rs[n], x)
      <4>1. PICK k \in 1 .. Len(bs) : Has(bs[k], x)
        BY <3>1 DEF AreBlocks
      <4>2. PICK n \in 1 .. h : k = 2 * n - 1 \/ (k = 2 * n /\ 2 * n <= Len(bs))
        BY <2>4
      <4>3. Has(at(n), x)
        BY <2>5, <4>1, <4>2
      <4> QED BY <2>7, <4>3
    <3>2. ASSUME NEW n \in 1 .. Len(rs), Has(rs[n], x) PROVE x \in L
      <4>1. n \in 1 .. h /\ Has(at(n), x)
        BY <2>7, <3>2
      <4>2. PICK a \in 1 .. Len(bs) : Has(bs[a], x)
        BY <2>3, <2>5, <4>1
      <4> QED BY <4>2 DEF AreBlocks
    <3> QED BY <3>1, <3>2
  <2> QED BY <1>2, <2>2, <2>7, <2>8, <2>9, <2>10 DEF AreBlocks, h
<1> QED BY <1>1, <1>2

\* The blocks after each round, to round N.
After(f, bs, N) == f = [n \in 0 .. N |-> IF n = 0 THEN bs ELSE Round(f[n - 1])]

\* There are that many rounds.
LEMMA AfterExists ==
  ASSUME NEW bs, NEW N \in Nat
  PROVE  \E f : After(f, bs, N)
<1> SUFFICES ASSUME ~\E f : After(f, bs, N) PROVE FALSE
  OBVIOUS
<1> DEFINE T == {n \in Nat : ~\E f : After(f, bs, n)}
<1>1. T \in SUBSET Nat /\ T # {}
  OBVIOUS
<1> HIDE DEF T
<1>2. PICK n \in T : \A m \in T : n <= m
  BY <1>1, LeastOf
<1>3. n \in Nat /\ ~\E f : After(f, bs, n)
  BY <1>2 DEF T
<1>4. CASE n = 0
  <2> DEFINE e == [k \in 0 .. 0 |-> bs]
  <2>1. \A k \in 0 .. 0 : k = 0
    OBVIOUS
  <2>2. e = [k \in 0 .. 0 |-> IF k = 0 THEN bs ELSE Round(e[k - 1])]
    BY <2>1
  <2> QED BY <1>3, <1>4, <2>2 DEF After
<1>5. CASE n # 0
  <2>1. PICK m \in Nat : m = n - 1
    BY <1>3, <1>5
  <2>2. m \notin T
    BY <1>2, <1>3, <2>1
  <2>3. PICK g : After(g, bs, m)
    BY <2>2 DEF T
  <2> DEFINE e == [k \in 0 .. n |-> IF k = n THEN Round(g[m]) ELSE g[k]]
  <2>4. \A k \in 0 .. m : g[k] = IF k = 0 THEN bs ELSE Round(g[k - 1])
    BY <2>3 DEF After
  <2>5. \A k \in 0 .. n : e[k] = IF k = 0 THEN bs ELSE Round(e[k - 1])
    <3> SUFFICES ASSUME NEW k \in 0 .. n PROVE e[k] = IF k = 0 THEN bs ELSE Round(e[k - 1])
      OBVIOUS
    <3>1. CASE k = n
      <4>1. k - 1 = m /\ k - 1 \in 0 .. n /\ k - 1 # n /\ k # 0
        BY <1>3, <1>5, <2>1, <3>1
      <4> QED BY <3>1, <4>1
    <3>2. CASE k # n
      <4>1. k \in 0 .. m
        BY <1>3, <2>1, <3>2
      <4>2. k # 0 => k - 1 \in 0 .. n /\ k - 1 # n
        BY <1>3, <3>2
      <4> QED BY <2>4, <3>2, <4>1, <4>2
    <3> QED BY <3>1, <3>2
  <2>6. e = [k \in 0 .. n |-> e[k]]
    OBVIOUS
  <2> HIDE DEF e
  <2>7. e = [k \in 0 .. n |-> IF k = 0 THEN bs ELSE Round(e[k - 1])]
    BY <2>5, <2>6
  <2> QED BY <1>3, <2>7 DEF After
<1> QED BY <1>4, <1>5

\* Every round has the same locators; after n there are n blocks less, or one.
LEMMA AfterIs ==
  ASSUME NEW bs, NEW L, AreBlocks(bs, L), NEW N \in Nat, NEW f, After(f, bs, N), NEW n \in 0 .. N
  PROVE  AreBlocks(f[n], L) /\ (Len(f[n]) <= 1 \/ Len(f[n]) <= Len(bs) - n)
<1> DEFINE P(k) == AreBlocks(f[k], L) /\ (Len(f[k]) <= 1 \/ Len(f[k]) <= Len(bs) - k)
           T == {k \in 0 .. N : ~P(k)}
<1> SUFFICES ASSUME n \in T PROVE FALSE
  OBVIOUS
<1>1. T \in SUBSET Nat /\ T # {}
  OBVIOUS
<1>2. \A k \in 0 .. N : f[k] = IF k = 0 THEN bs ELSE Round(f[k - 1])
  BY DEF After
<1>3. Len(bs) \in Nat
  BY DEF AreBlocks
<1> HIDE DEF T
<1>4. PICK k \in T : \A m \in T : k <= m
  BY <1>1, LeastOf
<1>5. k \in 0 .. N /\ ~P(k)
  BY <1>4 DEF T
<1>6. CASE k = 0
  BY <1>2, <1>3, <1>5, <1>6
<1>7. CASE k # 0
  <2>1. PICK m \in 0 .. N : m = k - 1
    BY <1>5, <1>7
  <2>2. P(m)
    BY <1>4, <1>5, <2>1 DEF T
  <2>3. PICK c : c = f[m]
    OBVIOUS
  <2>4. f[k] = Round(c)
    BY <1>2, <1>5, <1>7, <2>1, <2>3
  <2>5. AreBlocks(Round(c), L) /\ Len(Round(c)) = IF Len(c) <= 1 THEN Len(c) ELSE (Len(c) + 1) \div 2
    BY <2>2, <2>3, RoundIs
  <2>6. Len(c) \in Nat /\ (Len(c) <= 1 \/ Len(c) <= Len(bs) - m)
    BY <2>2, <2>3 DEF AreBlocks
  <2>7. Len(Round(c)) <= 1 \/ Len(Round(c)) <= Len(bs) - k
    BY <1>3, <1>5, <2>1, <2>5, <2>6
  <2> QED BY <1>5, <2>4, <2>5, <2>7
<1> QED BY <1>6, <1>7

\* merge_sort() puts the locators of the blocks in order.
LEMMA MergeSortIs ==
  ASSUME NEW bs, NEW L, AreBlocks(bs, L)
  PROVE  /\ MergeSort(bs) \in Seq(Locator) /\ AreSorted(MergeSort(bs)) /\ Once(MergeSort(bs))
         /\ \A x : Has(MergeSort(bs), x) <=> x \in L
<1> DEFINE f == CHOOSE g : After(g, bs, Len(bs))
<1>1. Len(bs) \in Nat /\ Len(bs) \in 0 .. Len(bs)
  BY DEF AreBlocks
<1>2. After(f, bs, Len(bs))
  BY <1>1, AfterExists
<1>3. MergeSort(bs) = FlattenSeq(f[Len(bs)])
  BY DEF MergeSort, After
<1> HIDE DEF f
<1>4. PICK c : c = f[Len(bs)]
  OBVIOUS
<1>5. AreBlocks(c, L) /\ Len(c) <= 1
  <2>1. AreBlocks(c, L) /\ (Len(c) <= 1 \/ Len(c) <= Len(bs) - Len(bs))
    BY <1>1, <1>2, <1>4, AfterIs
  <2>2. Len(c) \in Nat
    BY <2>1 DEF AreBlocks
  <2> QED BY <1>1, <2>1, <2>2
<1>6. c \in Seq(Seq(Locator)) /\ Len(c) \in {0, 1}
  <2>1. c \in Seq(Seq(Locator))
    BY <1>5 DEF AreBlocks
  <2>2. Len(c) \in Nat
    BY <2>1
  <2>3. Len(c) <= 1
    BY <1>5
  <2>4. PICK n \in Nat : n = Len(c)
    BY <2>2
  <2>5. n <= 1
    BY <2>3, <2>4
  <2>6. n \in {0, 1}
    BY <2>5
  <2>7. Len(c) \in {0, 1}
    BY <2>4, <2>6
  <2> QED BY <2>1, <2>7
<1>7. CASE Len(c) = 0
  <2>1. FlattenSeq(c) = c
    BY <1>7 DEF FlattenSeq
  <2>2. c = <<>>
    BY <1>6, <1>7
  <2>3. <<>> \in Seq(Locator) /\ Len(<<>>) = 0
    OBVIOUS
  <2>4. PICK s \in Seq(Locator) : s = <<>> /\ Len(s) = 0
    BY <2>3
  <2>5. \A i \in 1 .. Len(s) : FALSE
    BY <2>4
  <2>6. AreSorted(s) /\ Once(s) /\ \A x : ~Has(s, x)
    BY <2>5, SortedIs DEF Once, Has
  <2>7. \A x : x \notin L
    BY <1>5, <1>7 DEF AreBlocks
  <2> QED BY <1>3, <1>4, <2>1, <2>2, <2>4, <2>6, <2>7
<1>8. CASE Len(c) = 1
  <2>1. FlattenSeq(c) = c[1]
    <3> DEFINE Eq(g) == g = [i \in 1 .. 1 |-> IF i = 1 THEN c[i] ELSE g[i - 1] \o c[i]]
    <3>1. Eq([i \in 1 .. 1 |-> c[1]])
      OBVIOUS
    <3>2. Eq(CHOOSE g : Eq(g))
      BY <3>1
    <3>3. (CHOOSE g : Eq(g))[1] = c[1]
      BY <3>2
    <3>4. FlattenSeq(c) = (CHOOSE g : Eq(g))[1]
      BY <1>8 DEF FlattenSeq
    <3> QED BY <3>3, <3>4
  <2>2. IsBlock(c[1]) /\ \A x : x \in L <=> Has(c[1], x)
    BY <1>5, <1>8 DEF AreBlocks
  <2> QED BY <1>3, <1>4, <2>1, <2>2 DEF IsBlock
<1> QED BY <1>6, <1>7, <1>8

-----------------------------------------------------------------------------
\* Where blocks of these sizes start, and that the last one ends at n.
StartsAre(st, sizes, n) ==
  /\ st \in [1 .. Len(sizes) + 1 -> Nat] /\ st[1] = 0 /\ st[Len(sizes) + 1] = n
  /\ \A k \in 1 .. Len(sizes) : st[k + 1] = st[k] + sizes[k]

\* The locators list are in order from each start to the next.
InBlocks(st, sizes, list) ==
  \A k \in 1 .. Len(sizes) : \A i, j \in st[k] + 1 .. st[k + 1] :
    i < j => list[i].timestamp <= list[j].timestamp

\* The types, and the bound on the messages.
SortTypes ==
  /\ arrived \in Seq(SortStamps) /\ Len(arrived) <= MaxMsgs
  /\ inBlock \in BOOLEAN /\ flushable \in BOOLEAN /\ closed \in BOOLEAN
  /\ data \in Seq(Nat) /\ locators \in Seq(Locator) /\ blocks \in Seq(Nat \ {0})
  /\ last \in SortStamps /\ output \in Seq(Nat) /\ flushed \in Nat

\* The messages that are held are the last ones that arrived, in that order,
\* and each has its locator.
HeldI ==
  /\ Len(locators) = Len(data) /\ Len(output) + Len(data) = Len(arrived)
  /\ \A i \in 1 .. Len(data) : /\ data[i] = Len(output) + i
                               /\ locators[i].pos = i /\ locators[i].timestamp = arrived[data[i]]

\* The blocks are as sorted_block_sizes_ says, and the last timestamp is that
\* of the last locator.
BlocksI ==
  /\ \E st : StartsAre(st, blocks, Len(locators)) /\ InBlocks(st, blocks, locators)
  /\ blocks # <<>> => Len(locators) > 0 /\ last = locators[Len(locators)].timestamp

\* The messages o of the arrived ones a have gone out, the first Len(o) of
\* them, and an older one after a newer one only if it arrived later.
OutOk(o, a) ==
  /\ \A i \in 1 .. Len(o) : o[i] \in 1 .. Len(o)
  /\ \A n \in 1 .. Len(o) : \E i \in 1 .. Len(o) : o[i] = n
  /\ \A i, j \in 1 .. Len(o) : i < j /\ a[o[i]] > a[o[j]] => o[i] < o[j]

OutI == OutOk(output, arrived)

\* What was written has been flushed, except what a mark tells of.
FlushedI ==
  /\ flushed <= Len(output)
  /\ ~inBlock /\ ~flushable => Len(data) = 0 /\ flushed = Len(output)
  /\ closed => ~inBlock /\ Len(data) = 0 /\ flushed = Len(output)

SortI == SortTypes /\ HeldI /\ BlocksI /\ OutI /\ FlushedI

\* Blocks start one after the other.
LEMMA StartsGrow ==
  ASSUME NEW sizes \in Seq(Nat \ {0}), NEW n \in Nat, NEW st, StartsAre(st, sizes, n)
  PROVE  /\ \A a, b \in 1 .. Len(sizes) + 1 : a < b => st[a] < st[b]
         /\ \A i \in 1 .. n : \E k \in 1 .. Len(sizes) : i \in st[k] + 1 .. st[k + 1]
<1>1. /\ Len(sizes) \in Nat /\ st \in [1 .. Len(sizes) + 1 -> Nat]
      /\ st[1] = 0 /\ st[Len(sizes) + 1] = n
  BY DEF StartsAre
<1>2. \A k \in 1 .. Len(sizes) : st[k] \in Nat /\ st[k + 1] \in Nat /\ st[k] < st[k + 1]
  <2> SUFFICES ASSUME NEW k \in 1 .. Len(sizes) PROVE st[k] \in Nat /\ st[k + 1] \in Nat /\ st[k] < st[k + 1]
    OBVIOUS
  <2>1. sizes[k] \in Nat /\ sizes[k] # 0
    BY <1>1
  <2>2. k \in 1 .. Len(sizes) + 1 /\ k + 1 \in 1 .. Len(sizes) + 1
    BY <1>1
  <2>3. st[k] \in Nat /\ st[k + 1] \in Nat
    BY <1>1, <2>2
  <2>4. st[k + 1] = st[k] + sizes[k]
    BY DEF StartsAre
  <2> QED BY <2>1, <2>3, <2>4
<1>3. ASSUME NEW a \in 1 .. Len(sizes) + 1, NEW b \in 1 .. Len(sizes) + 1, a < b
      PROVE  st[a] < st[b]
  <2> DEFINE T == {c \in a + 1 .. Len(sizes) + 1 : ~(st[a] < st[c])}
  <2> SUFFICES ASSUME b \in T PROVE FALSE
    BY <1>1, <1>3
  <2>1. T \in SUBSET Nat /\ T # {}
    BY SMTT(30), <1>1
  <2> HIDE DEF T
  <2>2. PICK c \in T : \A m \in T : c <= m
    BY <2>1, LeastOf
  <2>3. c \in a + 1 .. Len(sizes) + 1 /\ ~(st[a] < st[c])
    BY <2>2 DEF T
  <2>4. PICK d \in 1 .. Len(sizes) : c = d + 1
    <3>1. c - 1 \in 1 .. Len(sizes) /\ c = (c - 1) + 1
      BY <1>1, <2>3
    <3> QED BY <3>1
  <2>5. st[d] < st[c] /\ st[d] \in Nat /\ st[c] \in Nat /\ st[a] \in Nat
    BY <1>1, <1>2, <2>4
  <2>6. CASE d = a
    BY <2>3, <2>5, <2>6
  <2>7. CASE d # a
    <3>1. d \in a + 1 .. Len(sizes) + 1 /\ ~(c <= d)
      BY <1>1, <2>3, <2>4, <2>7
    <3>2. st[a] < st[d]
      BY <2>2, <3>1 DEF T
    <3> QED BY <2>3, <2>5, <3>2
  <2> QED BY <2>6, <2>7
<1>4. ASSUME NEW i \in 1 .. n
      PROVE  \E k \in 1 .. Len(sizes) : i \in st[k] + 1 .. st[k + 1]
  <2> DEFINE T == {c \in 1 .. Len(sizes) + 1 : i <= st[c]}
  <2>1. T \in SUBSET Nat /\ Len(sizes) + 1 \in T
    BY <1>1
  <2> HIDE DEF T
  <2>2. PICK c \in T : \A m \in T : c <= m
    BY <2>1, LeastOf
  <2>3. c \in 1 .. Len(sizes) + 1 /\ i <= st[c] /\ c # 1
    BY <1>1, <2>2 DEF T
  <2>4. PICK d \in 1 .. Len(sizes) : c = d + 1
    <3>1. c - 1 \in 1 .. Len(sizes) /\ c = (c - 1) + 1
      BY <1>1, <2>3
    <3> QED BY <3>1
  <2>5. d \in 1 .. Len(sizes) + 1 /\ ~(c <= d)
    BY <1>1, <2>4
  <2>6. ~(i <= st[d])
    BY <2>2, <2>5 DEF T
  <2>7. st[d] \in Nat /\ st[c] \in Nat
    BY <1>2, <2>4
  <2> QED BY <2>3, <2>4, <2>6, <2>7
<1> QED BY <1>3, <1>4

\* There is one way for the blocks to start, that of BlockStart.
LEMMA BlockStartIs ==
  ASSUME blocks \in Seq(Nat \ {0}), NEW n, NEW st, StartsAre(st, blocks, n)
  PROVE  BlockStart = st
<1> DEFINE D == 1 .. Len(blocks) + 1
           Eq(f) == f = [k \in D |-> IF k = 1 THEN 0 ELSE f[k - 1] + blocks[k - 1]]
<1>1. /\ Len(blocks) \in Nat /\ st \in [D -> Nat] /\ st[1] = 0
      /\ \A k \in 1 .. Len(blocks) : st[k + 1] = st[k] + blocks[k]
  BY DEF StartsAre
<1>2. Eq(st)
  <2>1. \A k \in D : st[k] = IF k = 1 THEN 0 ELSE st[k - 1] + blocks[k - 1]
    <3> SUFFICES ASSUME NEW k \in D, k # 1 PROVE st[k] = st[k - 1] + blocks[k - 1]
      BY <1>1
    <3>1. PICK m \in 1 .. Len(blocks) : m = k - 1
      <4>1. k - 1 \in 1 .. Len(blocks)
        BY <1>1
      <4> QED BY <4>1
    <3>2. m + 1 = k
      BY <1>1, <3>1
    <3> QED BY <1>1, <3>1, <3>2
  <2> HIDE DEF D
  <2> QED BY <1>1, <2>1
<1>3. Eq(BlockStart)
  <2>1. BlockStart = CHOOSE f : Eq(f)
    BY DEF BlockStart
  <2> HIDE DEF Eq
  <2> QED BY <1>2, <2>1
<1>4. \A k \in D : BlockStart[k] = st[k]
  <2> DEFINE T == {k \in D : BlockStart[k] # st[k]}
  <2> SUFFICES ASSUME T # {} PROVE FALSE
    OBVIOUS
  <2>1. T \in SUBSET Nat
    BY <1>1
  <2> HIDE DEF T
  <2>2. PICK k \in T : \A m \in T : k <= m
    BY <2>1, LeastOf
  <2>3. k \in D /\ BlockStart[k] # st[k]
    BY <2>2 DEF T
  <2>4. k # 1
    BY <1>1, <1>3, <2>3
  <2>5. k - 1 \in D /\ ~(k <= k - 1)
    BY <1>1, <2>3, <2>4
  <2>6. BlockStart[k - 1] = st[k - 1]
    BY <2>2, <2>5 DEF T
  <2> QED BY SMTT(30), <1>2, <1>3, <2>3, <2>4, <2>6
<1>5. DOMAIN BlockStart = D /\ BlockStart = [k \in D |-> BlockStart[k]]
  BY <1>3
<1> HIDE DEF D
<1> QED BY <1>1, <1>4, <1>5

\* A part of a sequence.
LEMMA PartIs ==
  ASSUME NEW S, NEW s \in Seq(S), NEW a \in Nat, NEW b \in Nat, a < b, b <= Len(s)
  PROVE  /\ SubSeq(s, a + 1, b) \in Seq(S) /\ Len(SubSeq(s, a + 1, b)) = b - a
         /\ \A i \in 1 .. b - a : a + i \in a + 1 .. b /\ a + i \in 1 .. Len(s)
                                  /\ SubSeq(s, a + 1, b)[i] = s[a + i]
<1> DEFINE p == SubSeq(s, a + 1, b)
<1>1. Len(s) \in Nat
  OBVIOUS
<1>2. \A i \in a + 1 .. b : s[i] \in S
  BY <1>1
<1>3. p \in Seq(S)
  BY <1>1, <1>2, SubSeqProperties
<1>4. Len(p) = b - a /\ \A i \in 1 .. b - a : p[i] = s[a + 1 + i - 1]
  BY <1>1, SubSeqProperties
<1>5. \A i \in 1 .. b - a : a + i \in a + 1 .. b /\ a + i \in 1 .. Len(s) /\ a + 1 + i - 1 = a + i
  BY <1>1
<1> QED BY <1>3, <1>4, <1>5

\* The blocks that merge_sort() is given are those of the locators.
LEMMA CutIs ==
  ASSUME SortI
  PROVE  AreBlocks(CutBlocks, {locators[i] : i \in 1 .. Len(locators)})
<1> DEFINE L == {locators[i] : i \in 1 .. Len(locators)}
<1>1. /\ locators \in Seq(Locator) /\ blocks \in Seq(Nat \ {0}) /\ Len(locators) \in Nat /\ Len(blocks) \in Nat
      /\ DOMAIN blocks = 1 .. Len(blocks)
      /\ \A i \in 1 .. Len(locators) : locators[i] \in Locator /\ locators[i].pos = i
  BY DEF SortI, SortTypes, HeldI
<1>2. PICK st : StartsAre(st, blocks, Len(locators)) /\ InBlocks(st, blocks, locators)
  BY DEF SortI, BlocksI
<1>3. BlockStart = st
  BY <1>1, <1>2, BlockStartIs
<1>4. /\ \A a, b \in 1 .. Len(blocks) + 1 : a < b => st[a] < st[b]
      /\ \A i \in 1 .. Len(locators) : \E k \in 1 .. Len(blocks) : i \in st[k] + 1 .. st[k + 1]
  BY <1>1, <1>2, StartsGrow
<1>5. ASSUME NEW k \in 1 .. Len(blocks)
      PROVE  /\ st[k] \in Nat /\ st[k + 1] \in Nat /\ st[k] < st[k + 1] /\ st[k + 1] <= Len(locators)
             /\ st[k + 1] = st[k] + blocks[k]
  <2>1. k \in 1 .. Len(blocks) + 1 /\ k + 1 \in 1 .. Len(blocks) + 1 /\ Len(blocks) + 1 \in 1 .. Len(blocks) + 1
        /\ k < k + 1 /\ (k + 1 = Len(blocks) + 1 \/ k + 1 < Len(blocks) + 1)
    BY <1>1
  <2>2. st \in [1 .. Len(blocks) + 1 -> Nat] /\ st[Len(blocks) + 1] = Len(locators)
        /\ st[k + 1] = st[k] + blocks[k]
    BY <1>2 DEF StartsAre
  <2>3. st[k] \in Nat /\ st[k + 1] \in Nat
    BY <2>1, <2>2
  <2>4. st[k] < st[k + 1]
    BY <1>4, <2>1
  <2>5. st[k + 1] = st[Len(blocks) + 1] \/ st[k + 1] < st[Len(blocks) + 1]
    BY <1>4, <2>1
  <2> QED BY <1>1, <2>2, <2>3, <2>4, <2>5
<1>6. ASSUME NEW k \in 1 .. Len(blocks)
      PROVE  /\ CutBlocks[k] = SubSeq(locators, st[k] + 1, st[k + 1])
             /\ CutBlocks[k] \in Seq(Locator) /\ Len(CutBlocks[k]) = st[k + 1] - st[k]
             /\ \A i \in 1 .. Len(CutBlocks[k]) : /\ st[k] + i \in st[k] + 1 .. st[k + 1]
                                                  /\ st[k] + i \in 1 .. Len(locators)
                                                  /\ CutBlocks[k][i] = locators[st[k] + i]
  <2>1. CutBlocks[k] = SubSeq(locators, st[k] + 1, st[k + 1])
    BY <1>1, <1>3, <1>5 DEF CutBlocks
  <2>2. PICK a \in Nat, b \in Nat : a = st[k] /\ b = st[k + 1] /\ a < b /\ b <= Len(locators)
    BY <1>5
  <2> DEFINE p == SubSeq(locators, a + 1, b)
  <2>3. /\ p \in Seq(Locator) /\ Len(p) = b - a
        /\ \A i \in 1 .. b - a : a + i \in a + 1 .. b /\ a + i \in 1 .. Len(locators) /\ p[i] = locators[a + i]
    <3>1. locators \in Seq(Locator) /\ a \in Nat /\ b \in Nat /\ a < b /\ b <= Len(locators)
      BY <1>1, <2>2
    <3> HIDE DEF L, p
    <3> QED BY ONLY <3>1, PartIs DEF p
  <2>4. CutBlocks[k] = p
    BY <2>1, <2>2
  <2> HIDE DEF p
  <2> QED BY <2>1, <2>2, <2>3, <2>4
<1>7. CutBlocks \in Seq(Seq(Locator)) /\ Len(CutBlocks) = Len(blocks)
  <2>1. \A k \in 1 .. Len(blocks) : CutBlocks[k] \in Seq(Locator)
    BY <1>6
  <2>2. CutBlocks = [k \in 1 .. Len(blocks) |-> CutBlocks[k]]
    BY <1>1 DEF CutBlocks
  <2> HIDE DEF L
  <2>3. CutBlocks \in [1 .. Len(blocks) -> Seq(Locator)]
    BY <2>1, <2>2
  <2> QED BY <1>1, <2>3
<1>8. ASSUME NEW k \in 1 .. Len(blocks)
      PROVE  IsBlock(CutBlocks[k])
  <2> DEFINE c == CutBlocks[k]
  <2>1. c \in Seq(Locator) /\ Len(c) \in Nat /\ Len(c) > 0
    <3>1. c \in Seq(Locator) /\ Len(c) = st[k + 1] - st[k]
      BY <1>6
    <3>2. st[k + 1] \in Nat /\ st[k] \in Nat /\ st[k] < st[k + 1]
      BY <1>5
    <3> QED BY <3>1, <3>2
  <2>2. \A i, j \in 1 .. Len(c) : i < j => c[i].timestamp <= c[j].timestamp
    <3> SUFFICES ASSUME NEW i \in 1 .. Len(c), NEW j \in 1 .. Len(c), i < j
                 PROVE  c[i].timestamp <= c[j].timestamp
      OBVIOUS
    <3>1. PICK a, b : a = st[k] + i /\ b = st[k] + j
      OBVIOUS
    <3>2. c[i] = locators[a] /\ c[j] = locators[b] /\ a \in st[k] + 1 .. st[k + 1] /\ b \in st[k] + 1 .. st[k + 1]
      BY <1>6, <3>1
    <3>3. a < b
      BY <1>5, <2>1, <3>1
    <3> QED BY <1>2, <3>2, <3>3 DEF InBlocks
  <2>3. \A i, j \in 1 .. Len(c) : c[i] = c[j] => i = j
    <3> SUFFICES ASSUME NEW i \in 1 .. Len(c), NEW j \in 1 .. Len(c), c[i] = c[j]
                 PROVE  i = j
      OBVIOUS
    <3>1. PICK a, b : a = st[k] + i /\ b = st[k] + j
      OBVIOUS
    <3>2. c[i] = locators[a] /\ c[j] = locators[b] /\ a \in 1 .. Len(locators) /\ b \in 1 .. Len(locators)
      BY <1>6, <3>1
    <3>3. a = b
      BY <1>1, <3>2
    <3> QED BY <1>5, <2>1, <3>1, <3>3
  <2> HIDE DEF c
  <2>4. AreSorted(c) /\ Once(c)
    BY <2>1, <2>2, <2>3, SortedIs DEF Once
  <2> QED BY <2>1, <2>4 DEF IsBlock, c
<1>9. ASSUME NEW k \in 1 .. Len(blocks), NEW x
      PROVE  Has(CutBlocks[k], x) <=> \E i \in st[k] + 1 .. st[k + 1] : i \in 1 .. Len(locators) /\ locators[i] = x
  <2>1. ASSUME Has(CutBlocks[k], x) PROVE \E i \in st[k] + 1 .. st[k + 1] : i \in 1 .. Len(locators) /\ locators[i] = x
    BY ZenonT(30), <1>6, <2>1 DEF Has
  <2>2. ASSUME NEW i \in st[k] + 1 .. st[k + 1], locators[i] = x PROVE Has(CutBlocks[k], x)
    <3>1. PICK j : j = i - st[k]
      OBVIOUS
    <3>2. j \in 1 .. st[k + 1] - st[k] /\ st[k] + j = i
      BY <1>5, <3>1
    <3>3. j \in 1 .. Len(CutBlocks[k]) /\ CutBlocks[k][j] = x
      BY <1>6, <2>2, <3>2
    <3> QED BY <3>3 DEF Has
  <2> QED BY <2>1, <2>2
<1>10. ASSUME NEW k \in 1 .. Len(blocks), NEW m \in 1 .. Len(blocks), NEW x,
              Has(CutBlocks[k], x), Has(CutBlocks[m], x)
       PROVE  k = m
  <2>1. PICK i \in st[k] + 1 .. st[k + 1] : i \in 1 .. Len(locators) /\ locators[i] = x
    BY <1>9, <1>10
  <2>2. PICK j \in st[m] + 1 .. st[m + 1] : j \in 1 .. Len(locators) /\ locators[j] = x
    BY <1>9, <1>10
  <2>3. i = j
    BY <1>1, <2>1, <2>2
  <2>4. ASSUME NEW a \in 1 .. Len(blocks), NEW b \in 1 .. Len(blocks), a < b,
               i \in st[a] + 1 .. st[a + 1], i \in st[b] + 1 .. st[b + 1]
        PROVE  FALSE
    <3>1. st[a + 1] <= st[b]
      <4>1. a + 1 \in 1 .. Len(blocks) + 1 /\ b \in 1 .. Len(blocks) + 1 /\ (a + 1 = b \/ a + 1 < b)
        <5>1. PICK n \in Nat : n = Len(blocks)
          BY <1>1
        <5>2. a \in 1 .. n /\ b \in 1 .. n
          BY <5>1
        <5>3. a + 1 \in 1 .. n + 1 /\ b \in 1 .. n + 1 /\ (a + 1 = b \/ a + 1 < b)
          BY <2>4, <5>2
        <5> QED BY <5>1, <5>3
      <4>2. st[a + 1] \in Nat /\ st[b] \in Nat
        BY <1>5
      <4>3. CASE a + 1 = b
        BY <4>2, <4>3
      <4>4. CASE a + 1 < b
        <5>1. PICK x1 \in Nat, x2 \in Nat : x1 = st[a + 1] /\ x2 = st[b]
          BY <4>2
        <5>2. st[a + 1] < st[b]
          BY <1>4, <4>1, <4>4
        <5>3. x1 <= x2
          BY <5>1, <5>2
        <5> QED BY <5>1, <5>3
      <4> QED BY <4>1, <4>3, <4>4
    <3> QED BY SMTT(30), <1>5, <2>4, <3>1
  <2> QED BY <1>1, <2>1, <2>2, <2>3, <2>4
<1>11. ASSUME NEW x
       PROVE  x \in L <=> \E k \in 1 .. Len(blocks) : Has(CutBlocks[k], x)
  <2>1. ASSUME NEW i \in 1 .. Len(locators), x = locators[i] PROVE \E k \in 1 .. Len(blocks) : Has(CutBlocks[k], x)
    BY <1>4, <1>9, <2>1
  <2>2. ASSUME NEW k \in 1 .. Len(blocks), Has(CutBlocks[k], x) PROVE x \in L
    BY <1>9, <2>2
  <2> QED BY <2>1, <2>2
<1> HIDE DEF L
<1> QED BY <1>7, <1>8, <1>10, <1>11 DEF AreBlocks, L

\* The locators are brought into order, all of them, and each only once.
LEMMA SortedAre ==
  ASSUME SortI, NEW s \in Sorted
  PROVE  /\ s \in Seq(Locator) /\ Len(s) = Len(locators) /\ AreSorted(s)
         /\ \A i \in 1 .. Len(s) : \E k \in 1 .. Len(locators) : s[i] = locators[k]
         /\ \A k \in 1 .. Len(locators) : \E i \in 1 .. Len(s) : s[i] = locators[k]
<1> DEFINE L == {locators[i] : i \in 1 .. Len(locators)}
           D == 1 .. Len(locators)
<1>1. /\ locators \in Seq(Locator) /\ Len(locators) \in Nat /\ DOMAIN locators = D
      /\ \A i \in D : locators[i] \in Locator /\ locators[i].pos = i
  BY DEF SortI, SortTypes, HeldI
<1>2. CASE s = MergeSort(CutBlocks)
  <2>1. s \in Seq(Locator) /\ AreSorted(s) /\ Once(s) /\ \A x : Has(s, x) <=> x \in L
    BY <1>2, CutIs, MergeSortIs
  <2>2. Len(s) \in Nat
    BY <2>1
  <2>3. \A i \in 1 .. Len(s) : \E k \in D : s[i] = locators[k]
    BY <2>1 DEF Has
  <2>4. \A k \in D : \E i \in 1 .. Len(s) : s[i] = locators[k]
    BY <2>1 DEF Has
  <2> DEFINE g == [i \in 1 .. Len(s) |-> s[i].pos]
  <2>5. g \in [1 .. Len(s) -> D]
    BY <1>1, <2>3
  <2>6. \A i \in 1 .. Len(s) : s[i] = locators[g[i]]
    BY <1>1, <2>3
  <2>7. \A k \in D : \E i \in 1 .. Len(s) : g[i] = k
    BY <1>1, <2>4
  <2> HIDE DEF g, D
  <2>8. \A i, j \in 1 .. Len(s) : g[i] = g[j] => i = j
    BY <2>1, <2>6 DEF Once
  <2>9. g \in Bijection(1 .. Len(s), D)
    BY <2>5, <2>7, <2>8 DEF Bijection, Injection, Surjection, IsInjective
  <2>10. IsFiniteSet(1 .. Len(s)) /\ Cardinality(1 .. Len(s)) = Len(s)
    <3>1. PICK n \in Nat : n = Len(s)
      BY <2>2
    <3>2. 1 \in Int /\ n \in Int /\ (IF 1 > n THEN 0 ELSE n - 1 + 1) = n
      OBVIOUS
    <3>3. IsFiniteSet(1 .. n) /\ Cardinality(1 .. n) = n
      BY <3>2, FS_Interval
    <3> QED BY <3>1, <3>3
  <2>11. Cardinality(1 .. Len(locators)) = Len(locators)
    <3>1. Len(locators) >= 0
      BY <1>1
    <3> QED BY SMTT(30), <1>1, <3>1, FS_Interval
  <2>12. Cardinality(1 .. Len(s)) = Cardinality(D)
    BY <2>9, <2>10, FS_Bijection DEF ExistsBijection
  <2>13. Len(s) = Len(locators)
    BY <2>10, <2>11, <2>12 DEF D
  <2> QED BY <2>1, <2>3, <2>4, <2>13 DEF D
<1>3. CASE s # MergeSort(CutBlocks)
  <2>1. s \in [D -> ToSet(locators)] /\ AreSorted(s) /\ ToSet(s) = ToSet(locators)
    BY <1>1, <1>3 DEF Sorted
  <2>2. \A i \in D : \E k \in D : s[i] = locators[k]
    BY <1>1, <2>1 DEF ToSet
  <2>3. \A k \in D : \E i \in D : s[i] = locators[k]
    <3> SUFFICES ASSUME NEW k \in D PROVE \E i \in D : s[i] = locators[k]
      OBVIOUS
    <3>1. locators[k] \in ToSet(locators)
      BY <1>1 DEF ToSet
    <3>2. locators[k] \in ToSet(s) /\ DOMAIN s = D
      BY <2>1, <3>1
    <3> QED BY <3>2 DEF ToSet
  <2>4. \A i \in D : s[i] \in Locator
    BY <1>1, <2>2
  <2>5. s \in Seq(Locator) /\ Len(s) = Len(locators)
    BY <1>1, <2>1, <2>4
  <2> QED BY <2>1, <2>2, <2>3, <2>5
<1> QED BY <1>2, <1>3

\* What a flush writes for an order of the locators.
Writes(s) == [i \in DOMAIN s |-> data[s[i].pos]]

\* It is every message that is held, in the order of their timestamps.
LEMMA WritesAre ==
  ASSUME SortI, NEW s \in Sorted
  PROVE  /\ Writes(s) \in Seq(Nat) /\ Len(Writes(s)) = Len(data)
         /\ \A i \in 1 .. Len(data) : Writes(s)[i] \in Len(output) + 1 .. Len(arrived)
         /\ \A n \in Len(output) + 1 .. Len(arrived) : \E i \in 1 .. Len(data) : Writes(s)[i] = n
         /\ \A i, j \in 1 .. Len(data) : i < j => arrived[Writes(s)[i]] <= arrived[Writes(s)[j]]
<1>1. /\ locators \in Seq(Locator) /\ Len(locators) = Len(data) /\ data \in Seq(Nat) /\ Len(data) \in Nat
      /\ Len(output) \in Nat /\ Len(arrived) \in Nat /\ Len(output) + Len(data) = Len(arrived)
      /\ \A i \in 1 .. Len(data) : /\ data[i] = Len(output) + i
                                   /\ locators[i].pos = i /\ locators[i].timestamp = arrived[data[i]]
  BY DEF SortI, SortTypes, HeldI
<1>2. /\ s \in Seq(Locator) /\ Len(s) = Len(data) /\ AreSorted(s) /\ DOMAIN s = 1 .. Len(data)
      /\ \A i \in 1 .. Len(data) : \E k \in 1 .. Len(data) : s[i] = locators[k]
      /\ \A k \in 1 .. Len(data) : \E i \in 1 .. Len(data) : s[i] = locators[k]
  BY SMTT(30), <1>1, SortedAre
<1> DEFINE w == Writes(s)
<1>3. w = [i \in 1 .. Len(data) |-> data[s[i].pos]]
  BY <1>2 DEF Writes
<1>4. ASSUME NEW i \in 1 .. Len(data)
      PROVE  /\ w[i] \in Len(output) + 1 .. Len(arrived) /\ w[i] \in Nat
             /\ s[i].timestamp = arrived[w[i]]
  <2>1. PICK k \in 1 .. Len(data) : s[i] = locators[k]
    BY <1>2
  <2>2. w[i] = data[k]
    BY <1>1, <1>3, <2>1
  <2> HIDE DEF w
  <2> QED BY SMTT(30), <1>1, <2>1, <2>2
<1>5. ASSUME NEW n \in Len(output) + 1 .. Len(arrived)
      PROVE  \E i \in 1 .. Len(data) : w[i] = n
  <2>1. PICK k \in 1 .. Len(data) : k = n - Len(output)
    <3>1. n - Len(output) \in 1 .. Len(data)
      BY <1>1
    <3> QED BY <3>1
  <2>2. data[k] = n
    <3>1. data[k] = Len(output) + k
      BY <1>1
    <3>2. n \in Int /\ Len(output) \in Int
      BY <1>1
    <3>3. Len(output) + k = n
      BY <2>1, <3>2
    <3> QED BY <3>1, <3>3
  <2>3. PICK i \in 1 .. Len(data) : s[i] = locators[k]
    BY <1>2
  <2>4. w[i] = data[s[i].pos] /\ s[i].pos = k
    BY <1>1, <1>3, <2>3
  <2> HIDE DEF w
  <2> QED BY <2>2, <2>4
<1>6. ASSUME NEW i \in 1 .. Len(data), NEW j \in 1 .. Len(data), i < j
      PROVE  arrived[w[i]] <= arrived[w[j]]
  <2>1. s[i].timestamp <= s[j].timestamp
    BY <1>2, <1>6, SortedIs
  <2> QED BY <1>4, <2>1
<1>7. w \in Seq(Nat) /\ Len(w) = Len(data)
  <2> HIDE DEF w
  <2> QED BY <1>1, <1>3, <1>4
<1> QED BY <1>4, <1>5, <1>6, <1>7

\* The messages w of the arrived ones a are those after the first m, and sorted.
Follows(w, a, m) ==
  /\ \A k \in 1 .. m + Len(w) : a[k] \in Nat
  /\ \A i \in 1 .. Len(w) : w[i] \in m + 1 .. m + Len(w)
  /\ \A k \in m + 1 .. m + Len(w) : \E i \in 1 .. Len(w) : w[i] = k
  /\ \A i, j \in 1 .. Len(w) : i < j => a[w[i]] <= a[w[j]]

\* o is what has gone out, x, and then what comes next of the arrived ones, w.
Joins(o, x, w, a) ==
  x \in Seq(Nat) /\ w \in Seq(Nat) /\ OutOk(x, a) /\ Follows(w, a, Len(x)) /\ o = x \o w

\* Written after what has gone out they leave it as it should be.
LEMMA JoinedOut ==
  ASSUME NEW a, NEW x, NEW w, NEW o, Joins(o, x, w, a)
  PROVE  o \in Seq(Nat) /\ Len(o) = Len(x) + Len(w) /\ OutOk(o, a)
<1>0. x \in Seq(Nat) /\ w \in Seq(Nat) /\ OutOk(x, a) /\ Follows(w, a, Len(x)) /\ o = x \o w
  BY DEF Joins
<1>00. PICK m \in Nat, n \in Nat : m = Len(x) /\ n = Len(w)
  BY <1>0
<1>1. /\ \A i \in 1 .. m : x[i] \in 1 .. m
      /\ \A k \in 1 .. m : \E i \in 1 .. m : x[i] = k
      /\ \A i, j \in 1 .. m : i < j /\ a[x[i]] > a[x[j]] => x[i] < x[j]
  BY <1>0, <1>00 DEF OutOk
<1>2. /\ \A k \in 1 .. m + n : a[k] \in Nat
      /\ \A i \in 1 .. n : w[i] \in m + 1 .. m + n
      /\ \A k \in m + 1 .. m + n : \E i \in 1 .. n : w[i] = k
      /\ \A i, j \in 1 .. n : i < j => a[w[i]] <= a[w[j]]
  BY <1>0, <1>00 DEF Follows
<1>3. o \in Seq(Nat) /\ Len(o) = m + n
  BY <1>0, <1>00
<1>4. /\ \A i \in 1 .. m : i \in 1 .. m + n /\ o[i] = x[i]
      /\ \A i \in 1 .. m + n : i > m => i - m \in 1 .. n /\ o[i] = w[i - m]
      /\ \A i \in 1 .. n : i + m \in 1 .. m + n /\ o[i + m] = w[i]
  <2>1. \A i \in 1 .. m : i \in 1 .. m + n /\ o[i] = x[i]
    BY <1>0, <1>00
  <2>2. \A i \in 1 .. m + n : i > m => i - m \in 1 .. n /\ o[i] = w[i - m]
    BY <1>0, <1>00
  <2>3. \A i \in 1 .. n : i + m \in 1 .. m + n /\ i + m > m /\ (i + m) - m = i
    OBVIOUS
  <2>4. \A i \in 1 .. n : o[i + m] = w[i]
    BY <2>2, <2>3
  <2> QED BY <2>1, <2>2, <2>3, <2>4
<1>5. ASSUME NEW i \in 1 .. m + n
      PROVE  /\ o[i] \in 1 .. m + n /\ o[i] \in Nat
             /\ i <= m => i \in 1 .. m /\ o[i] = x[i] /\ o[i] <= m
             /\ i > m => o[i] > m
  <2>1. CASE i <= m
    <3>1. i \in 1 .. m
      BY <2>1
    <3>2. PICK y \in 1 .. m : o[i] = y /\ x[i] = y
      BY <1>1, <1>4, <3>1
    <3> QED BY <2>1, <3>1, <3>2
  <2>2. CASE i > m
    <3>1. PICK y \in m + 1 .. m + n : o[i] = y
      BY <1>2, <1>4, <2>2
    <3> QED BY <2>2, <3>1
  <2> QED BY <2>1, <2>2
<1>6. ASSUME NEW k \in 1 .. m + n
      PROVE  \E i \in 1 .. m + n : o[i] = k
  <2>1. CASE k \in 1 .. m
    BY <1>1, <1>4, <2>1
  <2>2. CASE k \in m + 1 .. m + n
    <3>1. PICK i \in 1 .. n : w[i] = k
      BY <1>2, <2>2
    <3>2. PICK e \in 1 .. m + n : e = i + m
      BY <1>4
    <3> QED BY <1>4, <3>1, <3>2
  <2> QED BY <2>1, <2>2
<1>7. ASSUME NEW i \in 1 .. m + n, NEW j \in 1 .. m + n, i < j, a[o[i]] > a[o[j]]
      PROVE  o[i] < o[j]
  <2>1. CASE j <= m
    <3>1. i \in 1 .. m /\ j \in 1 .. m
      BY <1>7, <2>1
    <3>2. o[i] = x[i] /\ o[j] = x[j]
      BY <1>4, <3>1
    <3> QED BY <1>1, <1>7, <3>1, <3>2
  <2>2. CASE i > m
    <3>0. j > m
      BY <1>7, <2>2
    <3>1. PICK b \in 1 .. n, c \in 1 .. n : b = i - m /\ c = j - m
      BY <1>4, <2>2, <3>0
    <3>2. b < c
      BY <1>7, <3>1
    <3>3. o[i] = w[b] /\ o[j] = w[c]
      BY <1>4, <2>2, <3>0, <3>1
    <3>4. a[o[i]] <= a[o[j]]
      BY <1>2, <3>2, <3>3
    <3>5. PICK y \in Nat, z \in Nat : y = a[o[i]] /\ z = a[o[j]]
      BY <1>2, <1>5
    <3>6. y <= z /\ y > z
      BY <1>7, <3>4, <3>5
    <3> QED BY <3>6
  <2>3. CASE i <= m /\ j > m
    <3>1. o[i] \in Nat /\ o[i] <= m
      BY <1>5, <2>3
    <3>2. o[j] \in Nat /\ o[j] > m
      BY <1>5, <2>3
    <3>3. PICK y \in Nat, z \in Nat : y = o[i] /\ z = o[j]
      BY <3>1, <3>2
    <3>4. y <= m /\ z > m
      BY <3>1, <3>2, <3>3
    <3>5. y < z
      BY <3>4
    <3> QED BY <3>3, <3>5
  <2> QED BY <2>1, <2>2, <2>3
<1> QED BY <1>00, <1>3, <1>5, <1>6, <1>7 DEF OutOk

\* After a flush every message that arrived has gone out, and as it should.
LEMMA FlushedOut ==
  ASSUME SortI, NEW s \in Sorted, NEW o, o = output \o Writes(s)
  PROVE  /\ o \in Seq(Nat) /\ Len(o) = Len(arrived) /\ OutOk(o, arrived)
         /\ Len(output) <= Len(o) /\ (Len(data) = 0 => Len(o) = Len(output))
<1>1. /\ output \in Seq(Nat) /\ Len(output) \in Nat /\ Len(data) \in Nat
      /\ Len(output) + Len(data) = Len(arrived) /\ OutOk(output, arrived)
      /\ \A k \in 1 .. Len(arrived) : arrived[k] \in Nat
  BY MaxStampAssumption DEF SortI, SortTypes, SortStamps, HeldI, OutI
<1>2. Writes(s) \in Seq(Nat) /\ Len(Writes(s)) = Len(data) /\ Follows(Writes(s), arrived, Len(output))
  BY <1>1, WritesAre DEF Follows
<1>3. o \in Seq(Nat) /\ Len(o) = Len(output) + Len(data) /\ OutOk(o, arrived)
  <2>1. Joins(o, output, Writes(s), arrived)
    BY <1>1, <1>2 DEF Joins
  <2>2. o \in Seq(Nat) /\ Len(o) = Len(output) + Len(Writes(s)) /\ OutOk(o, arrived)
    BY ONLY <2>1, JoinedOut
  <2> QED BY <1>2, <2>2
<1> QED BY <1>1, <1>3

\* The message t arrives after those of a, and goes out after those of o.
Appends(p, b, o, a, t) ==
  /\ a \in Seq(SortStamps) /\ o \in Seq(Nat) /\ Len(o) = Len(a) /\ OutOk(o, a) /\ t \in SortStamps
  /\ p = Append(o, Len(a) + 1) /\ b = Append(a, t)

\* A message that goes straight to the output keeps it so.
LEMMA AppendedOut ==
  ASSUME NEW a, NEW o, NEW t, NEW p, NEW b, Appends(p, b, o, a, t)
  PROVE  p \in Seq(Nat) /\ Len(p) = Len(b) /\ OutOk(p, b)
<1>1. /\ Len(o) \in Nat /\ p \in Seq(Nat) /\ Len(p) = Len(o) + 1 /\ p[Len(o) + 1] = Len(o) + 1
      /\ \A i \in 1 .. Len(o) : p[i] = o[i] /\ i \in 1 .. Len(p)
      /\ Len(b) = Len(o) + 1 /\ \A i \in 1 .. Len(o) : b[i] = a[i]
  BY DEF Appends
<1>2. \A i \in 1 .. Len(p) : i \in 1 .. Len(o) \/ i = Len(o) + 1
  BY <1>1
<1>3. /\ \A i \in 1 .. Len(o) : o[i] \in 1 .. Len(o)
      /\ \A n \in 1 .. Len(o) : \E i \in 1 .. Len(o) : o[i] = n
      /\ \A i, j \in 1 .. Len(o) : i < j /\ a[o[i]] > a[o[j]] => o[i] < o[j]
  BY DEF Appends, OutOk
<1>4. \A i \in 1 .. Len(p) : p[i] \in 1 .. Len(p)
  <2> SUFFICES ASSUME NEW i \in 1 .. Len(p) PROVE p[i] \in 1 .. Len(p)
    OBVIOUS
  <2>1. CASE i \in 1 .. Len(o)
    <3>1. PICK y \in 1 .. Len(o) : y = p[i]
      BY <1>1, <1>3, <2>1
    <3> QED BY <1>1, <3>1
  <2>2. CASE i = Len(o) + 1
    BY <1>1, <2>2
  <2> QED BY <1>2, <2>1, <2>2
<1>5. \A n \in 1 .. Len(p) : \E i \in 1 .. Len(p) : p[i] = n
  <2> SUFFICES ASSUME NEW n \in 1 .. Len(p) PROVE \E i \in 1 .. Len(p) : p[i] = n
    OBVIOUS
  <2>1. CASE n \in 1 .. Len(o)
    BY <1>1, <1>3, <2>1
  <2>2. CASE n = Len(o) + 1
    BY <1>1, <2>2
  <2> QED BY <1>2, <2>1, <2>2
<1>6. ASSUME NEW i \in 1 .. Len(p), NEW j \in 1 .. Len(p), i < j, b[p[i]] > b[p[j]]
      PROVE  p[i] < p[j]
  <2>1. i \in 1 .. Len(o)
    BY <1>1, <1>6
  <2>2. CASE j \in 1 .. Len(o)
    <3>1. p[i] = o[i] /\ p[j] = o[j] /\ b[o[i]] = a[o[i]] /\ b[o[j]] = a[o[j]]
      BY <1>1, <1>3, <2>1, <2>2
    <3> QED BY <1>3, <1>6, <2>1, <2>2, <3>1
  <2>3. CASE j = Len(o) + 1
    <3>1. PICK y \in 1 .. Len(o) : y = p[i]
      BY <1>1, <1>3, <2>1
    <3>2. p[j] = Len(o) + 1 /\ y < Len(o) + 1
      BY <1>1, <2>3
    <3> QED BY <3>1, <3>2
  <2> QED BY <1>2, <2>2, <2>3
<1> QED BY <1>1, <1>4, <1>5, <1>6 DEF OutOk

-----------------------------------------------------------------------------
\* Nothing is collected any more.
LEMMA NothingCollected ==
  ASSUME NEW d, NEW l, NEW b, NEW t, d = <<>>, l = <<>>, b = <<>>, t = MaxStamp
  PROVE  /\ d \in Seq(Nat) /\ l \in Seq(Locator) /\ b \in Seq(Nat \ {0}) /\ t \in SortStamps
         /\ Len(d) = 0 /\ Len(l) = 0 /\ (\A i \in 1 .. Len(d) : FALSE)
         /\ \E st : StartsAre(st, b, Len(l)) /\ InBlocks(st, b, l)
<1>1. Len(d) = 0 /\ Len(l) = 0 /\ Len(b) = 0
  OBVIOUS
<1>2. <<>> \in Seq(Nat) /\ <<>> \in Seq(Locator) /\ <<>> \in Seq(Nat \ {0})
  OBVIOUS
<1>3. t \in SortStamps
  BY MaxStampAssumption DEF SortStamps
<1>4. \A i \in 1 .. Len(d) : FALSE
  BY <1>1
<1>5. \E st : StartsAre(st, b, Len(l)) /\ InBlocks(st, b, l)
  <2> DEFINE st == [k \in 1 .. 1 |-> 0]
  <2>1. st \in [1 .. 1 -> Nat] /\ st[1] = 0
    OBVIOUS
  <2>2. 1 .. Len(b) = {} /\ Len(b) + 1 = 1
    BY <1>1
  <2> HIDE DEF st
  <2>3. StartsAre(st, b, Len(l)) /\ InBlocks(st, b, l)
    BY <1>1, <2>1, <2>2 DEF StartsAre, InBlocks
  <2> QED BY <2>3
<1> QED BY <1>1, <1>2, <1>3, <1>4, <1>5

\* A new sink satisfies the invariant.
LEMMA SortInitI ==
  ASSUME SortInit
  PROVE  SortI
<1>1. /\ data \in Seq(Nat) /\ locators \in Seq(Locator) /\ blocks \in Seq(Nat \ {0}) /\ last \in SortStamps
      /\ Len(data) = 0 /\ Len(locators) = 0 /\ (\A i \in 1 .. Len(data) : FALSE)
      /\ \E st : StartsAre(st, blocks, Len(locators)) /\ InBlocks(st, blocks, locators)
  BY NothingCollected DEF SortInit
<1>2. /\ arrived \in Seq(SortStamps) /\ output \in Seq(Nat) /\ Len(arrived) = 0 /\ Len(output) = 0
      /\ \A i \in 1 .. Len(output) : FALSE
  <2>1. <<>> \in Seq(Nat) /\ <<>> \in Seq(SortStamps) /\ Len(<<>>) = 0 /\ 1 .. 0 = {}
    OBVIOUS
  <2> QED BY <2>1 DEF SortInit
<1>3. SortTypes
  <2>1. inBlock = FALSE /\ flushable = FALSE /\ closed = FALSE /\ flushed \in Nat
    BY DEF SortInit
  <2>2. Len(arrived) <= MaxMsgs
    BY <1>2, MaxMsgsAssumption
  <2>3. inBlock \in BOOLEAN /\ flushable \in BOOLEAN /\ closed \in BOOLEAN
    BY <2>1
  <2> QED BY <1>1, <1>2, <2>1, <2>2, <2>3, Zenon DEF SortTypes
<1>4. HeldI /\ BlocksI /\ OutI /\ FlushedI
  BY <1>1, <1>2 DEF SortInit, HeldI, BlocksI, OutI, OutOk, FlushedI
<1> QED BY <1>3, <1>4 DEF SortI

\* A message that finds no memory goes out after what was collected.
LEMMA NoMemoryI ==
  ASSUME SortI, NEW t \in SortStamps, SinkMsgNoMemory(t)
  PROVE  SortI'
<1>1. PICK s \in Sorted : output' = Append(output \o Writes(s), Len(arrived'))
  BY DEF SinkMsgNoMemory, Writes
<1>2. PICK o : o = output \o Writes(s)
  OBVIOUS
<1>3. o \in Seq(Nat) /\ Len(o) = Len(arrived) /\ OutOk(o, arrived) /\ Len(output) <= Len(o)
  BY <1>2, FlushedOut
<1>4. /\ arrived \in Seq(SortStamps) /\ Len(arrived) \in Nat /\ Len(arrived) < MaxMsgs
      /\ arrived' = Append(arrived, t) /\ inBlock' = TRUE /\ closed = FALSE
      /\ flushable' = flushable /\ flushed' = flushed /\ closed' = closed
      /\ flushable \in BOOLEAN /\ flushed \in Nat /\ flushed <= Len(output)
  BY DEF SinkMsgNoMemory, Message, SortI, SortTypes, FlushedI
<1>5. arrived' \in Seq(SortStamps) /\ Len(arrived') = Len(arrived) + 1 /\ Len(arrived') <= MaxMsgs
  BY <1>4, MaxMsgsAssumption
<1>6. output' = Append(o, Len(arrived) + 1)
  BY <1>1, <1>2, <1>5
<1>7. output' \in Seq(Nat) /\ Len(output') = Len(arrived') /\ OutOk(output', arrived')
  <2>1. Appends(output', arrived', o, arrived, t)
    BY <1>3, <1>4, <1>6 DEF Appends
  <2> QED BY <2>1, AppendedOut
<1>8. /\ data' \in Seq(Nat) /\ locators' \in Seq(Locator) /\ blocks' \in Seq(Nat \ {0}) /\ last' \in SortStamps
      /\ Len(data') = 0 /\ Len(locators') = 0 /\ (\A i \in 1 .. Len(data') : FALSE)
      /\ \E st : StartsAre(st, blocks', Len(locators')) /\ InBlocks(st, blocks', locators')
  BY NothingCollected DEF SinkMsgNoMemory
<1>9. SortTypes'
  BY <1>4, <1>5, <1>7, <1>8 DEF SortTypes
<1>10. HeldI' /\ OutI'
  BY <1>4, <1>5, <1>7, <1>8 DEF HeldI, OutI
<1>11. BlocksI'
  BY <1>8 DEF BlocksI, SinkMsgNoMemory
<1>12. FlushedI'
  <2>1. Len(output) \in Nat /\ Len(output') \in Nat /\ flushed' <= Len(output')
    BY <1>3, <1>4, <1>5, <1>7 DEF SortI, SortTypes
  <2> QED BY <1>4, <2>1 DEF FlushedI
<1> QED BY <1>9, <1>10, <1>11, <1>12 DEF SortI

\* What is the same after flush_impl() whatever comes after it.
LEMMA FlushImplI ==
  ASSUME SortI, NEW s \in Sorted, FlushImpl(s), arrived' = arrived, inBlock' = inBlock,
         flushed' \in Nat, flushable' \in BOOLEAN, closed' \in BOOLEAN
  PROVE  /\ SortTypes' /\ HeldI' /\ BlocksI' /\ OutI' /\ Len(data') = 0
         /\ Len(output) <= Len(output') /\ (Len(data) = 0 => Len(output') = Len(output))
<1>1. output' = output \o Writes(s)
  BY DEF FlushImpl, Writes
<1>2. /\ output' \in Seq(Nat) /\ Len(output') = Len(arrived) /\ OutOk(output', arrived)
      /\ Len(output) <= Len(output') /\ (Len(data) = 0 => Len(output') = Len(output))
  BY <1>1, FlushedOut
<1>3. /\ data' \in Seq(Nat) /\ locators' \in Seq(Locator) /\ blocks' \in Seq(Nat \ {0}) /\ last' \in SortStamps
      /\ Len(data') = 0 /\ Len(locators') = 0 /\ (\A i \in 1 .. Len(data') : FALSE)
      /\ \E st : StartsAre(st, blocks', Len(locators')) /\ InBlocks(st, blocks', locators')
  BY NothingCollected DEF FlushImpl
<1>4. SortTypes'
  BY <1>2, <1>3 DEF SortI, SortTypes
<1>5. Len(arrived) \in Nat
  BY DEF SortI, SortTypes
<1>6. HeldI' /\ OutI'
  BY <1>2, <1>3, <1>5 DEF HeldI, OutI
<1>7. BlocksI'
  BY <1>3 DEF BlocksI, FlushImpl
<1> QED BY <1>2, <1>3, <1>4, <1>6, <1>7

\* flush() keeps the invariant: the output is flushed if it has data to flush.
LEMMA FlushI ==
  ASSUME SortI, Flush
  PROVE  SortI'
<1>1. PICK s \in Sorted : FlushImpl(s)
  BY DEF Flush
<1>2. /\ arrived' = arrived /\ inBlock' = inBlock /\ inBlock = FALSE /\ closed = FALSE /\ closed' = closed
      /\ flushed \in Nat /\ flushable \in BOOLEAN /\ flushed <= Len(output)
      /\ ~flushable => Len(data) = 0 /\ flushed = Len(output)
  BY DEF Flush, SortI, SortTypes, FlushedI
<1>3. flushable => flushed' = Len(output') /\ flushable' = FALSE
  BY DEF Flush
<1>4. ~flushable => flushed' = flushed /\ flushable' = flushable
  BY DEF Flush
<1>5. Len(output') \in Nat
  BY <1>1, FlushedOut DEF FlushImpl, Writes
<1>6. flushed' \in Nat /\ flushable' \in BOOLEAN /\ closed' \in BOOLEAN
  BY <1>2, <1>3, <1>4, <1>5
<1>7. /\ SortTypes' /\ HeldI' /\ BlocksI' /\ OutI' /\ Len(data') = 0
      /\ Len(output) <= Len(output') /\ (Len(data) = 0 => Len(output') = Len(output))
  BY <1>1, <1>2, <1>6, FlushImplI
<1>8. flushed' = Len(output')
  BY <1>2, <1>3, <1>4, <1>7
<1>9. FlushedI'
  BY <1>2, <1>5, <1>7, <1>8 DEF FlushedI
<1> QED BY <1>7, <1>9 DEF SortI

\* The destructors keep the invariant, and leave nothing unflushed.
LEMMA DestroyI ==
  ASSUME SortI, Destroy
  PROVE  SortI'
<1>1. PICK s \in Sorted : FlushImpl(s)
  BY DEF Destroy
<1>2. /\ arrived' = arrived /\ inBlock' = inBlock /\ inBlock = FALSE /\ closed' = TRUE
      /\ flushable' = flushable /\ flushable \in BOOLEAN /\ flushed' = Len(output')
  BY DEF Destroy, SortI, SortTypes
<1>3. Len(output') \in Nat
  BY <1>1, FlushedOut DEF FlushImpl, Writes
<1>4. SortTypes' /\ HeldI' /\ BlocksI' /\ OutI' /\ Len(data') = 0
  BY <1>1, <1>2, <1>3, FlushImplI
<1>5. FlushedI'
  BY <1>2, <1>3, <1>4 DEF FlushedI
<1> QED BY <1>4, <1>5 DEF SortI

\* The end of a block of messages keeps the invariant: it sets the mark.
LEMMA EndBlockI ==
  ASSUME SortI, EndBlock
  PROVE  SortI'
<1>1. /\ arrived' = arrived /\ data' = data /\ locators' = locators /\ blocks' = blocks /\ last' = last
      /\ output' = output /\ flushed' = flushed /\ closed' = closed
      /\ inBlock = TRUE /\ inBlock' = FALSE /\ flushable' = TRUE
  BY DEF EndBlock, sortVars, SortI, SortTypes
<1>2. SortTypes' /\ HeldI' /\ OutI'
  BY <1>1 DEF SortI, SortTypes, HeldI, OutI, OutOk
<1>3. BlocksI'
  BY <1>1 DEF SortI, BlocksI, StartsAre, InBlocks
<1>4. FlushedI'
  BY <1>1 DEF SortI, FlushedI
<1> QED BY <1>2, <1>3, <1>4 DEF SortI

\* The locator of a message that is not earlier than the last one goes into
\* the last block.
LEMMA BlockGrows ==
  ASSUME NEW sizes \in Seq(Nat \ {0}), sizes # <<>>, NEW list \in Seq(Locator), NEW loc \in Locator,
         NEW st, StartsAre(st, sizes, Len(list)), InBlocks(st, sizes, list),
         list[Len(list)].timestamp <= loc.timestamp,
         NEW sizes2, sizes2 = [sizes EXCEPT ![Len(sizes)] = @ + 1],
         NEW list2, list2 = Append(list, loc)
  PROVE  \E st2 : StartsAre(st2, sizes2, Len(list2)) /\ InBlocks(st2, sizes2, list2)
<1>0. PICK N \in Nat, m \in Nat : N = Len(sizes) /\ m = Len(list)
  OBVIOUS
<1>1. /\ N \in Nat /\ N > 0 /\ m \in Nat /\ N \in 1 .. N
      /\ list2 \in Seq(Locator) /\ Len(list2) = m + 1 /\ list2[m + 1] = loc
      /\ \A i \in 1 .. m : list2[i] = list[i] /\ list[i].timestamp \in Nat
      /\ sizes2 \in Seq(Nat) /\ Len(sizes2) = N /\ \A k \in 1 .. N : sizes[k] \in Nat \ {0}
      /\ \A k \in 1 .. N : sizes2[k] = IF k = N THEN sizes[k] + 1 ELSE sizes[k]
  <2>1. N \in Nat /\ m \in Nat /\ N # 0 /\ \A k \in 1 .. N : sizes[k] \in Nat \ {0}
    BY <1>0
  <2>2. list2 \in Seq(Locator) /\ Len(list2) = m + 1 /\ list2[m + 1] = loc /\ \A i \in 1 .. m : list2[i] = list[i]
    BY <1>0
  <2>3. \A i \in 1 .. m : list[i].timestamp \in Nat
    BY <1>0, SortedIs
  <2>4. /\ sizes2 \in Seq(Nat) /\ Len(sizes2) = N
        /\ \A k \in 1 .. N : sizes2[k] = IF k = N THEN sizes[k] + 1 ELSE sizes[k]
    <3>1. DOMAIN sizes = 1 .. N /\ sizes2 = [sizes EXCEPT ![N] = sizes[N] + 1]
      BY <1>0
    <3>2. \A k \in 1 .. N : sizes2[k] = IF k = N THEN sizes[k] + 1 ELSE sizes[k]
      BY <3>1
    <3>3. \A k \in 1 .. N : sizes2[k] \in Nat
      BY <2>1, <3>2
    <3>4. DOMAIN sizes2 = 1 .. N /\ sizes2 = [k \in 1 .. N |-> sizes2[k]]
      BY <3>1
    <3>5. sizes2 \in [1 .. N -> Nat]
      BY <3>3, <3>4
    <3> QED BY <3>2, <3>5
  <2> QED BY <2>1, <2>2, <2>3, <2>4
<1>2. /\ st \in [1 .. N + 1 -> Nat] /\ st[1] = 0 /\ st[N + 1] = m
      /\ \A k \in 1 .. N : st[k + 1] = st[k] + sizes[k]
  BY <1>0 DEF StartsAre
<1>3. \A a, b \in 1 .. N + 1 : a < b => st[a] < st[b]
  BY <1>0, <1>1, StartsGrow
<1>4. loc.timestamp \in Nat
  BY MaxStampAssumption DEF Locator, SortStamps
<1> DEFINE st2 == [st EXCEPT ![N + 1] = m + 1]
<1>5. /\ st2 \in [1 .. N + 1 -> Nat] /\ st2[N + 1] = m + 1
      /\ \A k \in 1 .. N : st2[k] = st[k] /\ k \in 1 .. N + 1 /\ k + 1 \in 1 .. N + 1 /\ k # N + 1
  <2>1. st2 \in [1 .. N + 1 -> Nat] /\ st2[N + 1] = m + 1 /\ \A k \in 1 .. N + 1 : k # N + 1 => st2[k] = st[k]
    BY SMTT(30), <1>1, <1>2
  <2>2. \A k \in 1 .. N : k \in 1 .. N + 1 /\ k + 1 \in 1 .. N + 1 /\ k # N + 1
    OBVIOUS
  <2> HIDE DEF st2
  <2> QED BY <2>1, <2>2
<1> HIDE DEF st2
<1>6. \A k \in 1 .. N : k # N => k + 1 \in 1 .. N /\ k + 1 # N + 1
  BY <1>1
<1>7. StartsAre(st2, sizes2, Len(list2))
  <2>1. 1 \in 1 .. N
    BY <1>1
  <2>2. st2[1] = 0 /\ st2[N + 1] = m + 1
    BY <1>2, <1>5, <2>1
  <2>3. ASSUME NEW k \in 1 .. N PROVE st2[k + 1] = st2[k] + sizes2[k]
    <3>1. CASE k = N
      <4>1. PICK x \in Nat, y \in Nat : x = st[k] /\ y = sizes[k]
        BY <1>1, <1>2, <1>5
      <4>2. m = x + y
        BY <1>2, <3>1, <4>1
      <4>3. sizes2[k] = y + 1
        BY <1>1, <3>1, <4>1
      <4>4. st2[k + 1] = m + 1 /\ st2[k] = x
        BY <1>5, <3>1, <4>1
      <4>5. m + 1 = x + (y + 1)
        BY <4>2
      <4> QED BY <4>3, <4>4, <4>5
    <3>2. CASE k # N
      <4>1. st2[k + 1] = st[k + 1] /\ st2[k] = st[k] /\ sizes2[k] = sizes[k]
        BY <1>1, <1>5, <1>6, <3>2
      <4> QED BY <1>2, <4>1
    <3> QED BY <3>1, <3>2
  <2> QED BY <1>0, <1>1, <1>5, <2>2, <2>3 DEF StartsAre
<1>8. InBlocks(st2, sizes2, list2)
  <2> SUFFICES ASSUME NEW k \in 1 .. N, NEW i \in st2[k] + 1 .. st2[k + 1], NEW j \in st2[k] + 1 .. st2[k + 1], i < j
               PROVE  list2[i].timestamp <= list2[j].timestamp
    BY <1>1 DEF InBlocks
  <2>1. PICK x \in Nat, y \in Nat : x = st[k] /\ y = st[k + 1] /\ x < y /\ y <= m
    <3>1. st[k] \in Nat /\ st[k + 1] \in Nat /\ st[N + 1] = m
      BY <1>2, <1>5
    <3>2. st[k] < st[k + 1]
      BY <1>1, <1>3, <1>5
    <3>3. (k = N \/ k + 1 < N + 1) /\ N + 1 \in 1 .. N + 1
      OBVIOUS
    <3>4. st[k + 1] = m \/ st[k + 1] < m
      BY <1>2, <1>3, <1>5, <3>3
    <3>5. PICK x \in Nat, y \in Nat : x = st[k] /\ y = st[k + 1]
      BY <3>1
    <3>6. x < y /\ y <= m
      BY <3>2, <3>4, <3>5
    <3> QED BY <3>5, <3>6
  <2>2. CASE k # N
    <3>1. st2[k + 1] = y /\ st2[k] = x
      BY <1>5, <1>6, <2>1, <2>2
    <3>2. i \in x + 1 .. y /\ j \in x + 1 .. y
      BY <3>1
    <3>3. i \in 1 .. m /\ j \in 1 .. m
      BY SMTT(30), <2>1, <3>2
    <3>4. list[i].timestamp <= list[j].timestamp
      BY <1>0, <2>1, <3>2 DEF InBlocks
    <3> QED BY <1>1, <3>3, <3>4
  <2>3. CASE k = N
    <3>1. st2[k + 1] = m + 1 /\ st2[k] = x /\ y = m
      BY <1>2, <1>5, <2>1, <2>3
    <3>2. i \in x + 1 .. m /\ j \in x + 1 .. m + 1
      BY <1>1, <2>1, <3>1
    <3>3. i \in 1 .. m /\ m \in 1 .. m /\ m \in x + 1 .. m
      BY SMTT(30), <1>1, <2>1, <3>1, <3>2
    <3>4. \A a, b \in x + 1 .. m : a < b => list[a].timestamp <= list[b].timestamp
      BY SMTT(30), <1>0, <1>1, <2>1, <2>3, <3>1 DEF InBlocks
    <3>5. CASE j \in x + 1 .. m
      <4>1. j \in 1 .. m
        BY <2>1, <3>5
      <4> QED BY <1>1, <3>2, <3>3, <3>4, <3>5, <4>1
    <3>6. CASE j = m + 1
      <4>1. i = m \/ i < m
        BY <1>1, <3>2
      <4>2. list[i].timestamp <= list[m].timestamp
        <5>1. i = m => list[i].timestamp = list[m].timestamp /\ list[i].timestamp \in Nat
          BY <1>1, <3>3
        <5>2. i < m => list[i].timestamp <= list[m].timestamp
          BY <3>2, <3>3, <3>4
        <5> QED BY <4>1, <5>1, <5>2
      <4>3. list[m].timestamp <= loc.timestamp
        BY <1>0
      <4>4. PICK u \in Nat, v \in Nat, z \in Nat : u = list[i].timestamp /\ v = list[m].timestamp /\ z = loc.timestamp
        BY <1>1, <1>4, <3>3
      <4>6. u <= v /\ v <= z
        BY <4>2, <4>3, <4>4
      <4>5. u <= z
        BY <4>6
      <4> QED BY <1>1, <3>3, <3>6, <4>4, <4>5
    <3> QED BY SMTT(30), <1>1, <3>2, <3>5, <3>6
  <2> QED BY <2>2, <2>3
<1> QED BY <1>7, <1>8

\* Any other locator starts a block of its own.
LEMMA BlockStarts ==
  ASSUME NEW sizes \in Seq(Nat \ {0}), NEW list \in Seq(Locator), NEW loc \in Locator,
         NEW st, StartsAre(st, sizes, Len(list)), InBlocks(st, sizes, list),
         NEW sizes2, sizes2 = Append(sizes, 1), NEW list2, list2 = Append(list, loc)
  PROVE  \E st2 : StartsAre(st2, sizes2, Len(list2)) /\ InBlocks(st2, sizes2, list2)
<1>0. PICK N \in Nat, m \in Nat : N = Len(sizes) /\ m = Len(list)
  OBVIOUS
<1>1. /\ list2 \in Seq(Locator) /\ Len(list2) = m + 1 /\ \A i \in 1 .. m : list2[i] = list[i]
      /\ \A i \in 1 .. m + 1 : list2[i].timestamp \in Nat
      /\ Len(sizes2) = N + 1 /\ sizes2[N + 1] = 1 /\ \A k \in 1 .. N : sizes2[k] = sizes[k]
  <2>1. list2 \in Seq(Locator) /\ Len(list2) = m + 1 /\ \A i \in 1 .. m : list2[i] = list[i]
    BY <1>0
  <2>2. Len(sizes2) = N + 1 /\ sizes2[N + 1] = 1 /\ \A k \in 1 .. N : sizes2[k] = sizes[k]
    BY <1>0
  <2>3. \A i \in 1 .. m + 1 : list2[i].timestamp \in Nat
    BY <2>1, SortedIs
  <2> QED BY <2>1, <2>2, <2>3
<1>2. /\ st \in [1 .. N + 1 -> Nat] /\ st[1] = 0 /\ st[N + 1] = m
      /\ \A k \in 1 .. N : st[k + 1] = st[k] + sizes[k]
  BY <1>0 DEF StartsAre
<1>3. \A a, b \in 1 .. N + 1 : a < b => st[a] < st[b]
  BY <1>0, StartsGrow
<1> DEFINE st2 == [k \in 1 .. N + 2 |-> IF k = N + 2 THEN m + 1 ELSE st[k]]
<1>4. /\ st2 \in [1 .. N + 2 -> Nat] /\ st2[N + 2] = m + 1
      /\ \A k \in 1 .. N + 1 : st2[k] = st[k]
  <2>1. \A k \in 1 .. N + 2 : k # N + 2 => k \in 1 .. N + 1
    OBVIOUS
  <2>2. \A k \in 1 .. N + 2 : (IF k = N + 2 THEN m + 1 ELSE st[k]) \in Nat
    BY <1>2, <2>1
  <2>3. N + 2 \in 1 .. N + 2 /\ \A k \in 1 .. N + 1 : k \in 1 .. N + 2 /\ k # N + 2
    OBVIOUS
  <2> QED BY <2>2, <2>3
<1> HIDE DEF st2
<1>5. /\ 1 \in 1 .. N + 1 /\ N + 1 \in 1 .. N + 1 /\ (N + 1) + 1 = N + 2
      /\ \A k \in 1 .. N : k \in 1 .. N + 1 /\ k + 1 \in 1 .. N + 1
      /\ \A k \in 1 .. N + 1 : k \in 1 .. N \/ k = N + 1
  OBVIOUS
<1>6. StartsAre(st2, sizes2, Len(list2))
  <2>1. ASSUME NEW k \in 1 .. N + 1 PROVE st2[k + 1] = st2[k] + sizes2[k]
    <3>1. CASE k \in 1 .. N
      <4>1. st2[k + 1] = st[k + 1] /\ st2[k] = st[k] /\ sizes2[k] = sizes[k]
        BY <1>1, <1>4, <1>5, <3>1
      <4> QED BY <1>2, <3>1, <4>1
    <3>2. CASE k = N + 1
      <4>1. st2[k + 1] = m + 1 /\ st2[k] = m /\ sizes2[k] = 1
        BY <1>1, <1>2, <1>4, <1>5, <3>2
      <4> QED BY <4>1
    <3> QED BY <1>5, <3>1, <3>2
  <2>2. st2[1] = 0
    BY <1>2, <1>4, <1>5
  <2> QED BY <1>0, <1>1, <1>4, <1>5, <2>1, <2>2 DEF StartsAre
<1>7. InBlocks(st2, sizes2, list2)
  <2> SUFFICES ASSUME NEW k \in 1 .. N + 1, NEW i \in st2[k] + 1 .. st2[k + 1], NEW j \in st2[k] + 1 .. st2[k + 1], i < j
               PROVE  list2[i].timestamp <= list2[j].timestamp
    BY <1>1 DEF InBlocks
  <2>1. CASE k \in 1 .. N
    <3>1. st2[k + 1] = st[k + 1] /\ st2[k] = st[k]
      BY <1>4, <1>5, <2>1
    <3>2. PICK x \in Nat, y \in Nat : x = st[k] /\ y = st[k + 1]
      BY <1>2, <1>5, <2>1
    <3>3. y <= m
      <4>1. k + 1 = N + 1 \/ k + 1 < N + 1
        BY <2>1
      <4>2. st[k + 1] = m \/ st[k + 1] < m
        BY <1>2, <1>3, <1>5, <2>1, <4>1
      <4> QED BY <3>2, <4>2
    <3>4. i \in x + 1 .. y /\ j \in x + 1 .. y
      BY <3>1, <3>2
    <3>5. i \in 1 .. m /\ j \in 1 .. m
      BY <3>3, <3>4
    <3>6. list[i].timestamp <= list[j].timestamp
      BY <1>0, <2>1, <3>2, <3>4 DEF InBlocks
    <3> QED BY <1>1, <3>5, <3>6
  <2>2. CASE k = N + 1
    <3>1. st2[k + 1] = m + 1 /\ st2[k] = m
      BY <1>2, <1>4, <1>5, <2>2
    <3>2. i \in m + 1 .. m + 1 /\ j \in m + 1 .. m + 1
      BY <3>1
    <3> QED BY <3>2
  <2> QED BY <1>5, <2>1, <2>2
<1> QED BY <1>6, <1>7

\* Collecting a message keeps the invariant, in the last block or in a new one.
LEMMA SinkMsgI ==
  ASSUME SortI, NEW t \in SortStamps, SinkMsg(t)
  PROVE  SortI'
<1>0. PICK n \in Nat, m \in Nat : n = Len(arrived) /\ m = Len(data)
  BY DEF SortI, SortTypes
<1>1. /\ arrived \in Seq(SortStamps) /\ n < MaxMsgs /\ data \in Seq(Nat) /\ locators \in Seq(Locator)
      /\ blocks \in Seq(Nat \ {0}) /\ output \in Seq(Nat) /\ Len(output) \in Nat
      /\ Len(locators) = m /\ Len(output) + m = n
      /\ \A i \in 1 .. m : /\ data[i] = Len(output) + i
                            /\ locators[i].pos = i /\ locators[i].timestamp = arrived[data[i]]
      /\ flushable \in BOOLEAN /\ flushed \in Nat
  BY <1>0 DEF SinkMsg, Message, SortI, SortTypes, HeldI
<1>2. /\ arrived' = Append(arrived, t) /\ inBlock' = TRUE /\ flushable' = flushable /\ flushed' = flushed
      /\ closed = FALSE /\ closed' = closed /\ last' = t /\ output' = output
  BY DEF SinkMsg, Message, SortI, SortTypes
<1>3. arrived' \in Seq(SortStamps) /\ Len(arrived') = n + 1 /\ n + 1 <= MaxMsgs
      /\ arrived'[n + 1] = t /\ \A i \in 1 .. n : arrived'[i] = arrived[i]
  BY <1>0, <1>1, <1>2, MaxMsgsAssumption
<1>4. data' = Append(data, n + 1)
  BY <1>3 DEF SinkMsg
<1>5. data' \in Seq(Nat) /\ Len(data') = m + 1 /\ data'[m + 1] = n + 1 /\ \A i \in 1 .. m : data'[i] = data[i]
  BY <1>0, <1>1, <1>4
<1>6. PICK loc : loc = [timestamp |-> t, pos |-> m + 1]
  OBVIOUS
<1>7. locators' = Append(locators, loc)
  BY <1>5, <1>6 DEF SinkMsg
<1>8. loc \in Locator
  <2>1. m + 1 \in 1 .. MaxMsgs
    BY <1>1, MaxMsgsAssumption
  <2> QED BY <1>6, <2>1 DEF Locator
<1>9. /\ locators' \in Seq(Locator) /\ Len(locators') = m + 1 /\ locators'[m + 1] = loc
      /\ \A i \in 1 .. m : locators'[i] = locators[i]
  BY <1>1, <1>7, <1>8
<1>10. PICK st : StartsAre(st, blocks, Len(locators)) /\ InBlocks(st, blocks, locators)
  BY DEF SortI, BlocksI
<1>11. blocks' \in Seq(Nat \ {0}) /\ \E st2 : StartsAre(st2, blocks', Len(locators')) /\ InBlocks(st2, blocks', locators')
  <2>1. CASE t < last \/ blocks = <<>>
    <3>1. blocks' = Append(blocks, 1)
      BY <2>1 DEF SinkMsg
    <3>2. blocks' \in Seq(Nat \ {0})
      BY <1>1, <3>1
    <3> QED BY <1>1, <1>7, <1>8, <1>10, <3>1, <3>2, BlockStarts
  <2>2. CASE ~(t < last \/ blocks = <<>>)
    <3>1. blocks' = [blocks EXCEPT ![Len(blocks)] = @ + 1] /\ blocks # <<>>
      BY <2>2 DEF SinkMsg
    <3>2. blocks' \in Seq(Nat \ {0})
      <4>1. PICK N \in Nat : N = Len(blocks) /\ DOMAIN blocks = 1 .. N
        BY <1>1
      <4>2. \A k \in 1 .. N : blocks[k] \in Nat \ {0}
        BY <1>1, <4>1
      <4>3. DOMAIN blocks' = 1 .. N /\ \A k \in 1 .. N : blocks'[k] = IF k = N THEN blocks[k] + 1 ELSE blocks[k]
        BY <3>1, <4>1
      <4>4. \A k \in 1 .. N : blocks'[k] \in Nat \ {0}
        BY <4>2, <4>3
      <4>5. blocks' = [k \in 1 .. N |-> blocks'[k]]
        BY <3>1, <4>3
      <4>6. blocks' \in [1 .. N -> Nat \ {0}]
        BY <4>4, <4>5
      <4> QED BY <4>6
    <3>3. locators[Len(locators)].timestamp <= loc.timestamp
      <4>1. last = locators[Len(locators)].timestamp /\ last \in Nat
        BY <3>1, MaxStampAssumption DEF SortI, SortTypes, BlocksI, SortStamps
      <4>2. t \in Nat /\ loc.timestamp = t
        BY <1>6, MaxStampAssumption DEF SortStamps
      <4> QED BY <2>2, <4>1, <4>2
    <3> QED BY <1>1, <1>7, <1>8, <1>10, <3>1, <3>2, <3>3, BlockGrows
  <2> QED BY <2>1, <2>2
<1>12. SortTypes'
  BY <1>1, <1>2, <1>3, <1>5, <1>9, <1>11 DEF SortTypes
<1>13. HeldI'
  <2>1. ASSUME NEW i \in 1 .. m + 1
        PROVE  data'[i] = Len(output) + i /\ locators'[i].pos = i /\ locators'[i].timestamp = arrived'[data'[i]]
    <3>1. CASE i = m + 1
      BY <1>1, <1>3, <1>5, <1>6, <1>9, <3>1
    <3>2. CASE i \in 1 .. m
      <4>1. data'[i] = data[i] /\ locators'[i] = locators[i] /\ data[i] = Len(output) + i
        BY <1>1, <1>5, <1>9, <3>2
      <4>2. Len(output) + i \in 1 .. n
        BY <1>1, <3>2
      <4>3. arrived'[data[i]] = arrived[data[i]]
        BY <1>3, <4>1, <4>2
      <4> QED BY <1>1, <3>2, <4>1, <4>3
    <3> QED BY <3>1, <3>2
  <2>2. Len(output) + (m + 1) = n + 1
    <3>1. PICK o \in Nat : o = Len(output) /\ o + m = n
      BY <1>1
    <3>2. o + (m + 1) = n + 1
      BY <3>1
    <3> QED BY <3>1, <3>2
  <2> QED BY <1>2, <1>3, <1>5, <1>9, <2>1, <2>2 DEF HeldI
<1>14. BlocksI'
  <2>1. Len(locators') > 0 /\ last' = locators'[Len(locators')].timestamp
    BY <1>2, <1>6, <1>9
  <2> QED BY <1>11, <2>1 DEF BlocksI
<1>15. OutI'
  <2>1. OutOk(output, arrived)
    BY DEF SortI, OutI
  <2>2. \A i \in 1 .. Len(output) : output[i] \in 1 .. n /\ arrived'[output[i]] = arrived[output[i]]
    <3> SUFFICES ASSUME NEW i \in 1 .. Len(output) PROVE output[i] \in 1 .. n /\ arrived'[output[i]] = arrived[output[i]]
      OBVIOUS
    <3>1. PICK y \in 1 .. Len(output) : y = output[i]
      BY <2>1 DEF OutOk
    <3>2. y \in 1 .. n
      BY <1>1, <3>1
    <3> QED BY <1>3, <3>1, <3>2
  <2>3. OutOk(output, arrived')
    BY <2>1, <2>2 DEF OutOk
  <2> QED BY <1>2, <2>3 DEF OutI
<1>16. FlushedI'
  BY <1>2 DEF SortI, FlushedI
<1> QED BY <1>12, <1>13, <1>14, <1>15, <1>16 DEF SortI

\* Every step of the sink keeps the invariant.
LEMMA SortNextI ==
  ASSUME SortI, [SortNext]_sinkVars
  PROVE  SortI'
<1>1. CASE SortNext
  BY <1>1, SinkMsgI, NoMemoryI, EndBlockI, FlushI, DestroyI DEF SortNext
<1>2. CASE UNCHANGED sinkVars
  <2>1. /\ arrived' = arrived /\ inBlock' = inBlock /\ data' = data /\ locators' = locators /\ blocks' = blocks
        /\ last' = last /\ flushable' = flushable /\ output' = output /\ flushed' = flushed /\ closed' = closed
    BY <1>2 DEF sinkVars
  <2>2. SortTypes'
    BY <2>1 DEF SortI, SortTypes
  <2>3. HeldI'
    BY <2>1 DEF SortI, HeldI
  <2>4. BlocksI'
    BY <2>1 DEF SortI, BlocksI
  <2>5. OutI'
    BY <2>1 DEF SortI, OutI
  <2>6. FlushedI'
    BY <2>1 DEF SortI, FlushedI
  <2> QED BY <2>2, <2>3, <2>4, <2>5, <2>6 DEF SortI
<1> QED BY <1>1, <1>2

(***************************************************************************)
(* sink_sort_mixin.hpp loses no message and writes none twice: what passed *)
(* the filter has gone out or is held by a locator, whether sink_msg()     *)
(* found memory or not.                                                    *)
(***************************************************************************)
THEOREM MessagesKept == SortInit /\ [][SortNext]_sinkVars => []NothingLost
<1>1. SortI => NothingLost
  <2> SUFFICES ASSUME SortI PROVE NothingLost
    OBVIOUS
  <2>1. PICK m \in Nat, n \in Nat, d \in Nat : m = Len(output) /\ n = Len(arrived) /\ d = Len(data)
    BY DEF SortI, SortTypes
  <2>2. /\ output \in Seq(Nat) /\ DOMAIN arrived = 1 .. n /\ DOMAIN locators = 1 .. d /\ m + d = n
        /\ \A i \in 1 .. d : data[i] = m + i /\ locators[i].pos = i
        /\ \A i \in 1 .. m : output[i] \in 1 .. m
        /\ \A k \in 1 .. m : \E i \in 1 .. m : output[i] = k
    BY <2>1 DEF SortI, SortTypes, HeldI, OutI, OutOk
  <2> DEFINE held == [i \in DOMAIN locators |-> data[locators[i].pos]]
             all == output \o held
  <2>3. held = [i \in 1 .. d |-> m + i]
    <3>1. \A i \in 1 .. d : data[locators[i].pos] = m + i
      BY <2>2
    <3> QED BY <2>2, <3>1
  <2>4. held \in Seq(Nat) /\ Len(held) = d /\ \A i \in 1 .. d : held[i] = m + i
    <3> HIDE DEF held
    <3> QED BY <2>3
  <2> HIDE DEF held
  <2>5. all \in Seq(Nat) /\ Len(all) = n /\ DOMAIN all = 1 .. n
    BY <2>1, <2>2, <2>4
  <2>6. \A i \in 1 .. m : all[i] = output[i] /\ i \in 1 .. n
    BY <2>1, <2>2, <2>4
  <2>7. ASSUME NEW i \in 1 .. n, i \notin 1 .. m PROVE all[i] = i
    <3>1. PICK k \in 1 .. d : k = i - m
      <4>1. i - m \in 1 .. d
        BY <2>2, <2>7
      <4> QED BY <4>1
    <3>2. all[i] = held[i - m]
      BY <2>1, <2>2, <2>4, <2>7
    <3>3. held[k] = m + k /\ m + k = i
      BY <2>4, <3>1
    <3> QED BY <3>1, <3>2, <3>3
  <2> HIDE DEF all
  <2>8. ASSUME NEW i \in 1 .. n PROVE all[i] \in 1 .. n
    <3>1. CASE i \in 1 .. m
      <4>1. all[i] \in 1 .. m
        BY <2>2, <2>6, <3>1
      <4> QED BY <2>6, <4>1
    <3>2. CASE i \notin 1 .. m
      BY <2>7, <3>2
    <3> QED BY <3>1, <3>2
  <2>9. ASSUME NEW k \in 1 .. n PROVE \E i \in 1 .. n : all[i] = k
    <3>1. CASE k \in 1 .. m
      BY <2>2, <2>6, <3>1
    <3>2. CASE k \notin 1 .. m
      BY <2>7, <3>2
    <3> QED BY <3>1, <3>2
  <2>10. ToSet(all) = 1 .. n
    BY <2>5, <2>8, <2>9 DEF ToSet
  <2> QED BY <2>1, <2>2, <2>5, <2>10 DEF NothingLost, all, held
<1> QED BY <1>1, SortInitI, SortNextI, PTL

(***************************************************************************)
(* Whatever the flushes and the shortages of memory, a message goes out    *)
(* after a newer one only if it came to the sink after it.                 *)
(***************************************************************************)
THEOREM OnlyLateOnesTrail == SortInit /\ [][SortNext]_sinkVars => []DisorderIsLate
<1>1. SortI => DisorderIsLate
  <2> SUFFICES ASSUME SortI, NEW j \in DOMAIN output, NEW i \in 1 .. j - 1, arrived[output[i]] > arrived[output[j]]
               PROVE  output[i] < output[j]
    BY DEF DisorderIsLate
  <2>1. DOMAIN output = 1 .. Len(output) /\ Len(output) \in Nat
    BY DEF SortI, SortTypes
  <2>2. i \in 1 .. Len(output) /\ j \in 1 .. Len(output) /\ i < j
    BY <2>1
  <2> QED BY <2>2 DEF SortI, OutI, OutOk
<1> QED BY <1>1, SortInitI, SortNextI, PTL

(***************************************************************************)
(* has_flushable_data_ is set in time: between blocks of messages, without *)
(* the mark everything has been flushed, and so it has when the sink is    *)
(* destroyed.                                                              *)
(***************************************************************************)
THEOREM NothingLeftBehind == SortInit /\ [][SortNext]_sinkVars => []NothingHeldBack
<1>1. SortI => NothingHeldBack
  <2> SUFFICES ASSUME SortI PROVE NothingHeldBack
    OBVIOUS
  <2>1. Len(output) \in Nat /\ Len(data) \in Nat /\ Len(output) + Len(data) = Len(arrived)
    BY DEF SortI, SortTypes, HeldI
  <2>2. Len(data) = 0 => Len(arrived) = Len(output)
    BY <2>1
  <2> QED BY <2>2 DEF SortI, FlushedI, NothingHeldBack
<1> QED BY <1>1, SortInitI, SortNextI, PTL

(***************************************************************************)
(* What flush_impl() writes is sorted by the timestamps, whatever blocks   *)
(* the messages came in and whether there was memory to merge or not.      *)
(***************************************************************************)
THEOREM FlushesSort == SortInit /\ [][SortNext]_sinkVars => FlushSorts
<1> DEFINE Act == output' # output /\ arrived' = arrived =>
                    AreSorted(StampsOut(SubSeq(output', Len(output) + 1, Len(output'))))
<1>1. ASSUME SortI, [SortNext]_sinkVars PROVE [Act]_sinkVars
  <2> SUFFICES ASSUME SortNext, output' # output, arrived' = arrived
               PROVE  AreSorted(StampsOut(SubSeq(output', Len(output) + 1, Len(output'))))
    BY <1>1
  <2>1. PICK s \in Sorted : FlushImpl(s)
    <3>1. ASSUME NEW t \in SortStamps PROVE ~SinkMsg(t) /\ ~SinkMsgNoMemory(t)
      <4>1. arrived \in Seq(SortStamps)
        BY <1>1 DEF SortI, SortTypes
      <4>2. Append(arrived, t) # arrived
        <5>1. Len(Append(arrived, t)) = Len(arrived) + 1 /\ Len(arrived) \in Nat
          BY <4>1
        <5> QED BY <5>1
      <4> QED BY <4>2 DEF SinkMsg, SinkMsgNoMemory, Message
    <3>2. ~EndBlock
      BY DEF EndBlock
    <3> QED BY <3>1, <3>2 DEF SortNext, Flush, Destroy
  <2>2. output' = output \o Writes(s)
    BY <2>1 DEF FlushImpl, Writes
  <2>3. PICK m \in Nat, d \in Nat, w \in Seq(Nat) :
          /\ m = Len(output) /\ d = Len(data) /\ w = Writes(s) /\ Len(w) = d
          /\ \A i, j \in 1 .. d : i < j => arrived[w[i]] <= arrived[w[j]]
    <3>1. Len(output) \in Nat /\ Len(data) \in Nat
      BY <1>1 DEF SortI, SortTypes
    <3>2. /\ Writes(s) \in Seq(Nat) /\ Len(Writes(s)) = Len(data)
          /\ \A i, j \in 1 .. Len(data) : i < j => arrived[Writes(s)[i]] <= arrived[Writes(s)[j]]
      BY <1>1, <2>1, WritesAre
    <3> QED BY <3>1, <3>2
  <2>4. output' \in Seq(Nat) /\ Len(output') = m + d /\ \A i \in 1 .. d : output'[m + i] = w[i]
    <3>1. output \in Seq(Nat)
      BY <1>1 DEF SortI, SortTypes
    <3>2. PICK x \in Seq(Nat) : x = output
      BY <3>1
    <3>3. output' = x \o w /\ Len(x) = m
      BY <2>2, <2>3, <3>2
    <3>4. x \o w \in Seq(Nat) /\ Len(x \o w) = m + d /\ \A i \in 1 .. d : (x \o w)[m + i] = w[i]
      <4>1. x \o w \in Seq(Nat) /\ Len(x \o w) = Len(x) + Len(w)
        OBVIOUS
      <4>2. ASSUME NEW i \in 1 .. d PROVE (x \o w)[m + i] = w[i]
        <5>1. m + i \in 1 .. m + d /\ m + i > m /\ (m + i) - m = i
          OBVIOUS
        <5>2. PICK k \in 1 .. m + d : k = m + i /\ k > m /\ k - m = i
          BY <5>1
        <5>3. k \in 1 .. Len(x) + Len(w) /\ k > Len(x)
          BY <2>3, <3>3, <5>2
        <5>4. (x \o w)[k] = w[k - Len(x)]
          BY ONLY <5>3, x \in Seq(Nat), w \in Seq(Nat)
        <5> QED BY <3>3, <5>2, <5>4
      <4> QED BY <2>3, <3>3, <4>1, <4>2
    <3> QED BY <3>3, <3>4
  <2>5. d # 0
    <3>1. SUFFICES ASSUME d = 0 PROVE FALSE
      OBVIOUS
    <3>2. w = <<>>
      BY <2>3, <3>1
    <3>3. output \o <<>> = output
      BY <1>1 DEF SortI, SortTypes
    <3> QED BY <2>2, <2>3, <3>2, <3>3
  <2> DEFINE p == SubSeq(output', m + 1, m + d)
  <2>6. Len(p) = d /\ p \in Seq(Nat) /\ \A i \in 1 .. d : p[i] = w[i]
    <3>1. PICK y \in Seq(Nat), e \in Nat : y = output' /\ e = m + d
      BY <2>4
    <3>2. m < e /\ e <= Len(y) /\ e - m = d
      BY <2>4, <2>5, <3>1
    <3>3. /\ SubSeq(y, m + 1, e) \in Seq(Nat) /\ Len(SubSeq(y, m + 1, e)) = e - m
          /\ \A i \in 1 .. e - m : SubSeq(y, m + 1, e)[i] = y[m + i]
      BY <3>2, PartIs
    <3> QED BY <2>4, <3>1, <3>2, <3>3
  <2> HIDE DEF p
  <2>7. \A i \in 1 .. d : StampsOut(p)[i].timestamp = arrived[w[i]]
    BY <2>6 DEF StampsOut
  <2>8. Len(StampsOut(p)) = d
    BY <2>6 DEF StampsOut
  <2>9. AreSorted(StampsOut(p))
    BY <2>3, <2>7, <2>8 DEF AreSorted, IsSorted, InOrder
  <2> QED BY <2>3, <2>4, <2>9 DEF p
<1>2. FlushSorts <=> [][Act]_sinkVars
  BY DEF FlushSorts
<1> HIDE DEF Act
<1> QED BY <1>1, <1>2, SortInitI, SortNextI, PTL
=============================================================================
