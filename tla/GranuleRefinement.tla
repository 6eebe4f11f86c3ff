-------------------------- MODULE GranuleRefinement --------------------------
(***************************************************************************)
(* GranuleProtocol implements GranuleLifecycle: however leases, messages,    *)
(* workers and requests meet, what they do to a granule is a step of its     *)
(* life or nothing.                                                          *)
(***************************************************************************)
EXTENDS GranuleDelivery

Settled ==
  [pending |-> "waiting", uploaded |-> "offered", acked |-> "delivered",
   deleted |-> "finished", absent |-> "absent"]
StageOf ==
  [s \in RowStates |->
     IF s \in LeasedStates THEN "running"
     ELSE IF s \in RetryableStates THEN "stopped" ELSE Settled[s]]

Lifecycle ==
  INSTANCE GranuleLifecycle
    WITH stage <- [g \in Granules |-> StageOf[granule[g].state]], outputs <- rows,
         used <- {o \in Objects : host[o] # NoWorker}, taken <- acked, count <- delivered

\* Every step of the orchestrator, the workers and the receivers is a step of the life
\* promised to the operator, or changes none of it: a granule is offered with the outputs of
\* one attempt only, is delivered with its last acknowledgement and by nothing else, never
\* leaves a delivered stage but to be finished, and is counted exactly then.
ImplementsLifecycle == Lifecycle!Spec
=============================================================================
