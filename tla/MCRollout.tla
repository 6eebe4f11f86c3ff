------------------------------ MODULE MCRollout ------------------------------
(* Rollout; the values of the constants are in the .cfg files. *)
EXTENDS Rollout
=============================================================================
