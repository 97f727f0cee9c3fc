----------------------------- MODULE EndpointMC -----------------------------
(***************************************************************************)
(* Endpoint for TLC.  Nothing tells one connection slot from another, so   *)
(* states that differ by a permutation of the slots are one (the run that  *)
(* uses this checks no liveness).                                          *)
(***************************************************************************)
EXTENDS Endpoint, TLC

ConnSymmetry == Permutations(Conns)
=============================================================================
