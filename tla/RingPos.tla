------------------------------ MODULE RingPos ------------------------------
(***************************************************************************)
(* The position arithmetic of log_buffer_impl.                             *)
(*                                                                         *)
(* write_pos_, read_pos_ and snapshot_write_pos_ are free running uint32   *)
(* counters; a position is turned into an index of the ring by masking it  *)
(* with buffer_size_ - 1.  PosMod stands for 2^32 and Size for             *)
(* buffer_size_, both counted in units of the message alignment (the       *)
(* program only ever advances a position by a padded message size or to    *)
(* the end of the ring, so every position is a multiple of it).            *)
(***************************************************************************)
EXTENDS Integers

CONSTANTS Size,    \* buffer_size_
          PosMod   \* 2^32: positions are computed modulo PosMod

(***************************************************************************)
(* The constructor rounds buffer_size_ to a power of two not smaller than  *)
(* config::min_ringbuffer_size; the static_assert that closes              *)
(* log_buffer_impl.cpp keeps it at or below half of the position range.    *)
(***************************************************************************)
ASSUME SizeAssumption   == Size \in Nat /\ Size >= 4 /\ Size % 4 = 0
ASSUME PosModAssumption == /\ PosMod \in Nat
                           /\ PosMod >= 2 * Size
                           /\ PosMod % Size = 0

Pos   == 0 .. PosMod - 1
Index == 0 .. Size - 1

\* uint32 addition and subtraction: both wrap around.
Plus(a, b)  == IF a + b >= PosMod THEN a + b - PosMod ELSE a + b
Minus(a, b) == IF a >= b THEN a - b ELSE a - b + PosMod

\* The index a position falls on: pos & buffer_mask_.
IndexOf(p) == p % Size

\* The unread bytes between a read position and a write position.
Fill(w, r) == Minus(w, r)

\* empty()
Empty(w, r) == w = r

\* A bug: the threshold is the whole ring.
FullOnly(w, r) == Fill(w, r) > Size - 1

\* half_full(): (write_pos() - read_pos()) > half_buffer_mask_.
HalfFull(w, r) == Fill(w, r) > (Size \div 2) - 1

\* (prev ^ cur) > quarter_buffer_mask_: the positions lie in different
\* quarters of some turn of the ring.
QuarterCrossed(prev, cur) == prev \div (Size \div 4) # cur \div (Size \div 4)

\* A bug: all free space is taken for contiguous.
UpdateIgnoresTheEnd(w, r, needed) ==
  [wrap |-> FALSE, write |-> w, writeable |-> Size - Fill(w, r)]

(***************************************************************************)
(* update_producer_state(needed): what the producer learns from one load   *)
(* of read_pos_.  When the message does not fit in front of the end of     *)
(* the ring but all of that tail is free, an end-of-data marker is written *)
(* at the write position and the position is moved to the start of the     *)
(* ring.                                                                   *)
(***************************************************************************)
ProducerUpdate(w, r, needed) ==
  LET untilEnd == Size - IndexOf(w)
      allFree  == Size - Fill(w, r)
  IN  CASE untilEnd > allFree ->
             [wrap |-> FALSE, write |-> w, writeable |-> allFree]
        [] untilEnd <= allFree /\ untilEnd >= needed ->
             [wrap |-> FALSE, write |-> w, writeable |-> untilEnd]
        [] untilEnd <= allFree /\ untilEnd < needed ->
             [wrap |-> TRUE, write |-> Plus(w, untilEnd),
              writeable |-> allFree - untilEnd]

(***************************************************************************)
(* get_unread(): the unread data as one or two contiguous blocks of the    *)
(* ring, the second one starting at index 0.                               *)
(***************************************************************************)
Unread(snap, r) ==
  LET readIndex  == IndexOf(r)
      writeIndex == IndexOf(snap)
  IN  CASE snap = r ->
             [first |-> 0, size1 |-> 0, size2 |-> 0]
        [] snap # r /\ readIndex < writeIndex ->
             [first |-> readIndex, size1 |-> writeIndex - readIndex, size2 |-> 0]
        [] snap # r /\ readIndex >= writeIndex ->
             [first |-> readIndex, size1 |-> Size - readIndex, size2 |-> writeIndex]
=============================================================================
