------------------------------ MODULE MCIsaTop ------------------------------
(* Instances of IsaTop for TLC. *)
EXTENDS IsaTop, TLC

EndpointSymmetry == Permutations(Endpoints)
=============================================================================
