------------------------------ MODULE MCPubSub ------------------------------
(* Two server processes and one tab of the web UI: see pubsub.cfg. *)
EXTENDS PubSub
=============================================================================
