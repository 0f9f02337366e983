-------------------------- MODULE MCFlushProtocol --------------------------
(***************************************************************************)
(* Instances of FlushProtocol: g logs with the guaranteed policy, n with   *)
(* the nonguaranteed and l with the low latency policy.                    *)
(***************************************************************************)
EXTENDS FlushProtocol

CONSTANTS g, n, l

MCPolicy == [p \in Producers |-> CASE p = g -> "guaranteed"
                                   [] p = n -> "nonguaranteed"
                                   [] p = l -> "lowlatency"]
=============================================================================
