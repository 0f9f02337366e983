---------------------------- MODULE MessageQueue ----------------------------
(***************************************************************************)
(* What a log buffer promises: a FIFO of messages between one producer and *)
(* the core.  A log call is either accepted, and then takes its place      *)
(* behind the messages accepted before it, or dropped, and then leaves no  *)
(* trace.  The core receives the accepted messages in order, each exactly  *)
(* once, in batches of any length.                                         *)
(***************************************************************************)
EXTENDS Naturals, Sequences

CONSTANT Messages

VARIABLES accepted,   \* the messages accepted so far, oldest first
          delivered   \* the messages handed to the sinks so far, oldest first

TypeOK == accepted \in Seq(Messages) /\ delivered \in Seq(Messages)

Init == accepted = << >> /\ delivered = << >>

Accept(m) == accepted' = Append(accepted, m) /\ UNCHANGED delivered

Deliver(n) ==
  /\ n \in Len(delivered) + 1 .. Len(accepted)
  /\ delivered' = SubSeq(accepted, 1, n)
  /\ UNCHANGED accepted

Next == \/ \E m \in Messages : Accept(m)
        \/ \E n \in 1 .. Len(accepted) : Deliver(n)

Spec == Init /\ [][Next]_<<accepted, delivered>>
=============================================================================
