-------------------------- MODULE MCEgressRuntime --------------------------
(***************************************************************************)
(* Instances of EgressRuntime for TLC.                                     *)
(***************************************************************************)
EXTENDS EgressRuntime, TLC

CONSTANTS d1, d2, d3, r1, r2

OneByte == [d \in Deliveries |-> 1]

(* Identifiers are compared for equality only, and where Routes is not a   *)
(* singleton CallRoutes is empty.                                          *)
Interchangeable == Permutations(Deliveries) \cup Permutations(Routes)
=============================================================================
