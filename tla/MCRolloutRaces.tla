---------------------------- MODULE MCRolloutRaces ----------------------------
(* RolloutRaces on two workers; the values of the constants are in the .cfg.  *)
EXTENDS RolloutRaces
=============================================================================
