---------------------------- MODULE MCFlushBuffer ----------------------------
(* Instances of FlushBuffer for TLC; the bounds are given by the cfg. *)
EXTENDS FlushBuffer
=============================================================================
