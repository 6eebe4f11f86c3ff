--------------------------- MODULE GranuleLifecycle ---------------------------
(***************************************************************************)
(* What an operator is promised about the granules of a batch, with no       *)
(* workers, leases, receivers, messages or clocks in sight: which stages a   *)
(* granule goes through, what becomes of its outputs, and what is counted.   *)
(* GranuleRefinement states that GranuleProtocol implements it.              *)
(*                                                                           *)
(* A step may move several granules, as one sweep or request of the          *)
(* orchestrator does.                                                        *)
(***************************************************************************)
EXTENDS Naturals, FiniteSets

CONSTANTS Granules, Objects

VARIABLES
  stage,    \* granule -> where it is
  outputs,  \* granule -> outputs of its one upload
  used,     \* outputs there ever were
  taken,    \* outputs a receiver has acknowledged
  receipts, \* outputs the ledger has a receipt of
  count     \* granules delivered

vars == <<stage, outputs, used, taken, receipts, count>>

Stages == {"absent", "waiting", "running", "offered", "delivered", "finished", "stopped"}

In(s) == {g \in Granules : stage[g] = s}
Move(S, s) == stage' = [g \in Granules |-> IF g \in S THEN s ELSE stage[g]]
Discard(S) ==
  /\ outputs' = [g \in Granules |-> IF g \in S THEN {} ELSE outputs[g]]
  /\ taken' = taken \ UNION {outputs[g] : g \in S}
KeepsOutputs == UNCHANGED <<outputs, used, taken, receipts>>

Init ==
  /\ stage = [g \in Granules |-> "absent"]
  /\ outputs = [g \in Granules |-> {}]
  /\ used = {} /\ taken = {} /\ receipts = {} /\ count = 0

\* Granules come in; a batch that is created anew counts from zero.
Submit(S) ==
  /\ S \subseteq In("absent") /\ Move(S, "waiting")
  /\ count' = count \/ (In("absent") = Granules /\ count' = 0)
  /\ KeepsOutputs

Start(g) == stage[g] = "waiting" /\ Move({g}, "running") /\ KeepsOutputs /\ UNCHANGED count

\* An attempt that is over without a result is repeated, or nothing more is tried until
\* somebody asks for it.
GiveBack(S) == S \subseteq In("running") /\ Move(S, "waiting") /\ KeepsOutputs /\ UNCHANGED count
Stop(S) ==
  /\ S \subseteq In("running") \cup In("waiting") /\ Move(S, "stopped")
  /\ KeepsOutputs /\ UNCHANGED count
Retry(S) == S \subseteq In("stopped") /\ Move(S, "waiting") /\ KeepsOutputs /\ UNCHANGED count

\* The outputs of one attempt, none of them seen before, are offered together.
Offer(g, os) ==
  /\ stage[g] = "running" /\ outputs[g] = {}
  /\ os # {} /\ os \cap used = {}
  /\ Move({g}, "offered")
  /\ outputs' = [outputs EXCEPT ![g] = os]
  /\ used' = used \cup os
  /\ UNCHANGED <<taken, receipts, count>>

\* Outputs nobody can get are withdrawn and made again.
Withdraw(S) ==
  /\ S \subseteq In("offered") /\ Move(S, "waiting")
  /\ Discard(S)
  /\ UNCHANGED <<used, receipts, count>>

\* An output is acknowledged and gets its receipt; with the last one the granule is delivered.
Take(g, o) ==
  /\ o \in outputs[g]
  /\ taken' = taken \cup {o} /\ receipts' = receipts \cup {o}
  /\ IF stage[g] = "offered" /\ outputs[g] \subseteq taken' THEN Move({g}, "delivered") ELSE UNCHANGED stage
  /\ UNCHANGED <<outputs, used, count>>

\* What was delivered is finished and counted.
Finish(S) ==
  /\ S \subseteq In("delivered") /\ Move(S, "finished")
  /\ count' = count + Cardinality(S)
  /\ KeepsOutputs

\* What is finished is forgotten some day and stays counted; the outputs of T are forgotten
\* with it, or earlier.
Forget(S, T) ==
  /\ S \subseteq In("finished") /\ Move(S, "absent")
  /\ S \subseteq T /\ Discard(T)
  /\ UNCHANGED <<used, receipts, count>>

\* The batch is deleted; receipts stay.
Drop ==
  /\ Move(Granules, "absent") /\ Discard(Granules)
  /\ count' = 0
  /\ UNCHANGED <<used, receipts>>

Next ==
  \/ \E S \in SUBSET Granules :
       \/ Submit(S) \/ GiveBack(S) \/ Stop(S) \/ Retry(S) \/ Withdraw(S) \/ Finish(S)
       \/ \E T \in SUBSET Granules : Forget(S, T)
  \/ \E g \in Granules :
       \/ Start(g)
       \/ \E os \in SUBSET Objects : Offer(g, os)
       \/ \E o \in Objects : Take(g, o)
  \/ Drop

Spec == Init /\ [][Next]_vars
=============================================================================
