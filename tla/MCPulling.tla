------------------------------ MODULE MCPulling ------------------------------
(* Instances of Pulling for TLC; the bounds are given by the cfg. *)
EXTENDS Pulling
=============================================================================
