----------------------------- MODULE MCLifecycle -----------------------------
(***************************************************************************)
(* The life of cores, buffers and sinks, and the growing array a core      *)
(* keeps its sinks and buffers in.  They share no state: the array is      *)
(* checked while no core is made, and the cores while the arrays have no   *)
(* memory.                                                                 *)
(***************************************************************************)
EXTENDS Lifecycle, DynArray, TLC

\* Threads, cores and buffers are interchangeable; places and ids are not.
Symmetry == Permutations(Threads) \cup Permutations(Cores) \cup Permutations(Buffers)

ListedInit == Init /\ ArrayInit

ListedNext ==
  \/ Next /\ ArrayInit /\ UNCHANGED arrayVars
  \/ Init /\ ArrayNext /\ UNCHANGED vars

ListedSpec == ListedInit /\ [][ListedNext]_<<vars, arrayVars>>
=============================================================================
