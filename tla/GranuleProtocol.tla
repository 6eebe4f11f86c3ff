--------------------------- MODULE GranuleProtocol ---------------------------
(***************************************************************************)
(* The life of the granules of one batch, from submission to delivery, with *)
(* every orchestrator request taken as one atomic step (what a single       *)
(* writer gives when requests do not overlap; GranuleRaces splits them).    *)
(*                                                                          *)
(* Orchestrator tables: granule, the object rows (rows, host, acked,        *)
(* deleted, exhausted), batch, delivered, worker, receipts.                 *)
(* Processes and network: up, handlers, offers, beats, confirms, received.  *)
(* History, read by properties and bounds only: known, retired.             *)
(***************************************************************************)
EXTENDS GranuleStates, FiniteSets

CONSTANTS Granules,    \* granule ids of the batch
          Objects,     \* granule_objects row ids, never reused
          MaxInflight, \* settings.max_inflight_per_worker, 0 disables the cap
          ReuseIds,    \* may a granule id be submitted again once its row is gone?
          Reported,    \* bound: stage events the workers report; {} is fast mode
          Requests     \* bound: operator requests that are issued

ASSUME GranulesAssumption == IsFiniteSet(Granules)
ASSUME MaxInflightAssumption == MaxInflight \in Nat
ASSUME ReuseIdsAssumption == ReuseIds \in BOOLEAN
ASSUME ReportedAssumption == Reported \subseteq StageTargets

VARIABLES
  granule,   \* granules table
  rows,      \* granule -> ids of its granule_objects rows
  host,      \* object id -> worker_id of the upload; NoWorker: id never used
  acked,     \* rows with acked_at
  deleted,   \* rows with deleted_at
  exhausted, \* rows whose failed_pulls reached max_pull_failures
  batch,     \* batches row: absent, running or paused
  delivered, \* batches.delivered_count
  worker,    \* workers row: absent, active, paused (operator_paused), removed
  receipts,  \* objects with a delivery_records row
  up,        \* workers with a running process
  handlers,  \* worker -> granules it handles or still owes a buffered event for
  offers,    \* lease replies on their way: <<worker, granule>>
  beats,     \* heartbeats on their way: <<worker, active_granule_ids>>
  confirms,  \* DeleteConfirmed events a worker owes or is resending
  received,  \* objects whose bytes a receiver has verified
  known,     \* granule ids ever submitted
  retired    \* granules of the batch pruned after they were counted

objVars   == <<rows, host, acked, deleted, exhausted>>
batchVars == <<batch, delivered, known, retired>>
ledgerVars == <<receipts, received>>
procVars  == <<up, handlers, offers, beats, confirms>>
vars == <<granule, objVars, batchVars, ledgerVars, worker, procVars>>

Registered == {"active", "paused"}

TypeOK ==
  /\ granule \in [Granules -> Rows]
  /\ rows \in [Granules -> SUBSET Objects]
  /\ host \in [Objects -> Workers \cup {NoWorker}]
  /\ acked \subseteq Objects
  /\ deleted \subseteq Objects
  /\ exhausted \subseteq Objects
  /\ batch \in {"absent", "running", "paused"}
  /\ delivered \in Nat
  /\ worker \in [Workers -> Registered \cup {"absent", "removed"}]
  /\ receipts \subseteq Objects
  /\ received \subseteq Objects
  /\ up \subseteq Workers
  /\ handlers \in [Workers -> SUBSET Granules]
  /\ offers \subseteq Workers \X Granules
  /\ beats \subseteq Workers \X SUBSET Granules
  /\ confirms \subseteq Workers \X Granules
  /\ known \subseteq Granules
  /\ retired \subseteq Granules

Init ==
  /\ granule = [g \in Granules |-> NoRow]
  /\ rows = [g \in Granules |-> {}]
  /\ host = [o \in Objects |-> NoWorker]
  /\ acked = {} /\ deleted = {} /\ exhausted = {}
  /\ batch = "absent" /\ delivered = 0
  /\ worker = [w \in Workers |-> "absent"]
  /\ receipts = {} /\ received = {}
  /\ up = {}
  /\ handlers = [w \in Workers |-> {}]
  /\ offers = {} /\ beats = {} /\ confirms = {}
  /\ known = {} /\ retired = {}

-----------------------------------------------------------------------------
(* Queries and column updates several handlers share.                        *)

InState(s) == {g \in Granules : granule[g].state = s}
Leased == {g \in Granules : IsLeased(granule[g])}
HeldGranules(w) == {g \in Granules : HeldBy(granule[g], w)}

Pullable(o) == o \notin acked \cup deleted \cup exhausted
AllAcked(os) == os \subseteq acked

\* One statement or ORM loop that rewrites the rows of S.
Rewritten(S, F(_)) ==
  [g \in Granules |-> IF g \in S THEN F(granule[g]) ELSE granule[g]]

\* revoke_worker_leases
RevokeLeases(w) == granule' = Rewritten(HeldGranules(w), Revoked)

\* DELETE FROM granule_objects for the ids of os.
DropObjects(os) ==
  /\ rows' = [g \in Granules |-> rows[g] \ os]
  /\ acked' = acked \ os
  /\ deleted' = deleted \ os
  /\ exhausted' = exhausted \ os
  /\ UNCHANGED host

\* Mutant: the UPDATE does not re-assert that the row is not deleted yet.
DeletePathUnguarded(S) ==
  LET flipped == {g \in S : granule[g].state # "absent"}
  IN /\ granule' = [g \in Granules |->
                      IF g \in flipped THEN [granule[g] EXCEPT !.state = "deleted"]
                                       ELSE granule[g]]
     /\ deleted' = deleted \cup {o \in Objects : \E g \in flipped : o \in rows[g]}
     /\ delivered' = delivered + Cardinality(flipped)

\* Mutant: only a granule that comes from ACKED is counted.
DeletePathCountingAcked(S) ==
  LET flipped == {g \in S : granule[g].state \notin {"deleted", "absent"}}
  IN /\ granule' = [g \in Granules |->
                      IF g \in flipped THEN [granule[g] EXCEPT !.state = "deleted"]
                                       ELSE granule[g]]
     /\ deleted' = deleted \cup {o \in Objects : \E g \in flipped : o \in rows[g]}
     /\ delivered' = delivered + Cardinality(flipped \cap InState("acked"))

\* The one counted transition: a conditional UPDATE flips the rows of S that are
\* not yet deleted, stamps their objects and bumps the batch counter.
DeletePath(S) ==
  LET flipped == {g \in S : granule[g].state \notin {"deleted", "absent"}}
  IN /\ granule' = [g \in Granules |->
                      IF g \in flipped THEN [granule[g] EXCEPT !.state = "deleted"]
                                       ELSE granule[g]]
     /\ deleted' = deleted \cup {o \in Objects : \E g \in flipped : o \in rows[g]}
     /\ delivered' = delivered + Cardinality(flipped)

-----------------------------------------------------------------------------
(* Batches: submission, flow control, deletion, retention.                   *)

\* Ids the operator may submit: no row holds them, and by default none ever did.
Submittable == {g \in Granules : granule[g].state = "absent"
                                   /\ (ReuseIds \/ g \notin known)}

Submit(S) ==
  /\ S \subseteq Submittable
  /\ granule' = [g \in Granules |-> IF g \in S THEN NewRow ELSE granule[g]]
  /\ known' = known \cup S

CreateBatch(S) ==
  /\ batch = "absent"
  /\ Submit(S)
  /\ batch' = "running"
  /\ delivered' = 0 /\ retired' = {}
  /\ UNCHANGED <<objVars, ledgerVars, worker, procVars>>

AddGranules(S) ==
  /\ batch # "absent"
  /\ S # {}
  /\ Submit(S)
  /\ UNCHANGED <<objVars, batch, delivered, retired, ledgerVars, worker, procVars>>

SetBatchStatus(s) ==
  /\ batch \notin {"absent", s}
  /\ batch' = s
  /\ UNCHANGED <<granule, objVars, delivered, known, retired, ledgerVars, worker,
                 procVars>>

\* Deletes every granule with its objects; receipts stay.
DeleteBatch(force) ==
  /\ batch # "absent"
  /\ force \/ Leased = {}
  /\ granule' = [g \in Granules |-> NoRow]
  /\ DropObjects(UNION {rows[g] : g \in Granules})
  /\ receipts' = receipts \cup acked
  /\ batch' = "absent" /\ delivered' = 0 /\ retired' = {}
  /\ UNCHANGED <<known, received, worker, procVars>>

\* The retention sweep prunes old deleted objects, old DELETED granules and old
\* removed workers.  S and ws are what is old enough; the objects of a granule are
\* stamped deleted together and age together.
Retention(S, ws) ==
  LET doomed == S \cap InState("deleted")
  IN /\ \A w \in ws : worker[w] = "removed"
     /\ granule' = [g \in Granules |-> IF g \in doomed THEN NoRow ELSE granule[g]]
     /\ DropObjects((UNION {rows[g] : g \in doomed})
                      \cup (UNION {rows[g] \cap deleted : g \in S}))
     /\ worker' = [w \in Workers |-> IF w \in ws THEN "absent" ELSE worker[w]]
     /\ retired' = retired \cup doomed
     /\ UNCHANGED <<batch, delivered, known, ledgerVars, procVars>>

-----------------------------------------------------------------------------
(* Operator requests on granules.                                            *)

\* cancel_granule and cancel_batch
Cancel(S) ==
  /\ S # {}
  /\ \A g \in S : granule[g].state \in CancellableStates
  /\ granule' = [g \in Granules |-> IF g \in S THEN Released(granule[g], "blacklisted")
                                               ELSE granule[g]]
  /\ UNCHANGED <<objVars, batchVars, ledgerVars, worker, procVars>>

\* retry_granule and retry_failed
Retry(S) ==
  /\ S # {}
  /\ \A g \in S : granule[g].state \in RetryableStates
  /\ granule' = Rewritten(S, Restarted)
  /\ UNCHANGED <<objVars, batchVars, ledgerVars, worker, procVars>>

\* UPLOADED granules no receiver can be offered anything of.
Undeliverable == {g \in InState("uploaded") : \A o \in rows[g] : ~ Pullable(o)}

RequeueUndeliverable ==
  /\ Undeliverable # {}
  /\ granule' = Rewritten(Undeliverable, Restarted)
  /\ DropObjects(UNION {rows[g] : g \in Undeliverable})
  /\ UNCHANGED <<batchVars, ledgerVars, worker, procVars>>

\* reset_pull_failures and reset_exhausted_objects
ResetPullFailures ==
  /\ exhausted \ (acked \cup deleted) # {}
  /\ exhausted' = exhausted \cap (acked \cup deleted)
  /\ UNCHANGED <<granule, rows, host, acked, deleted, batchVars, ledgerVars, worker,
                 procVars>>

-----------------------------------------------------------------------------
(* Worker registration and administration.                                   *)

\* A new row, or a fresh process taking its row over: its old leases are orphans.
Register(w) ==
  /\ \/ worker[w] = "absent" /\ worker' = [worker EXCEPT ![w] = "active"]
                             /\ UNCHANGED granule
     \/ worker[w] \in Registered /\ w \notin up /\ RevokeLeases(w) /\ UNCHANGED worker
  /\ up' = up \cup {w}
  /\ UNCHANGED <<objVars, batchVars, ledgerVars, handlers, offers, beats, confirms>>

\* The process ends (crash, restart, drained after removal) and forgets everything.
Crash(w) ==
  /\ w \in up
  /\ up' = up \ {w}
  /\ handlers' = [handlers EXCEPT ![w] = {}]
  /\ offers' = {x \in offers : x[1] # w}
  /\ confirms' = {x \in confirms : x[1] # w}
  /\ UNCHANGED <<granule, objVars, batchVars, ledgerVars, worker, beats>>

SetPaused(w, paused) ==
  /\ worker[w] \in Registered
  /\ worker' = [worker EXCEPT ![w] = IF paused THEN "paused" ELSE "active"]
  /\ UNCHANGED <<granule, objVars, batchVars, ledgerVars, procVars>>

RevokeAll(w) ==
  /\ worker[w] # "absent"
  /\ HeldGranules(w) # {}
  /\ RevokeLeases(w)
  /\ UNCHANGED <<objVars, batchVars, ledgerVars, worker, procVars>>

RemoveWorker(w, force) ==
  /\ worker[w] \in Registered
  /\ worker' = [worker EXCEPT ![w] = "removed"]
  /\ IF force
     THEN /\ RevokeLeases(w)
          /\ deleted' = deleted \cup {o \in Objects : host[o] = w
                                        /\ \E g \in Granules : o \in rows[g]}
     ELSE UNCHANGED <<granule, deleted>>
  /\ UNCHANGED <<rows, host, acked, exhausted, batchVars, ledgerVars, procVars>>

PurgeWorker(w) ==
  /\ worker[w] = "removed"
  /\ worker' = [worker EXCEPT ![w] = "absent"]
  /\ UNCHANGED <<granule, objVars, batchVars, ledgerVars, procVars>>

-----------------------------------------------------------------------------
(* Leases.                                                                   *)

\* count_worker_inflight: leased granules plus granules with undeleted objects.
StoredGranules(w) == {g \in Granules : \E o \in rows[g] \ deleted : host[o] = w}
Inflight(w) == Cardinality(HeldGranules(w)) + Cardinality(StoredGranules(w))

Claimable(g) ==
  /\ granule[g].state = "pending"
  /\ granule[g].leased_by = NoWorker \/ granule[g].lease = "expired"
  /\ batch # "paused"

\* Mutant: the cap is compared with <=.
UnderCapOffByOne(w) == MaxInflight = 0 \/ Inflight(w) <= MaxInflight
UnderCap(w) == MaxInflight = 0 \/ Inflight(w) < MaxInflight

\* /lease claims a granule and replies; the reply is on its way.
Lease(w, g) ==
  /\ w \in up /\ worker[w] = "active"
  /\ UnderCap(w)
  /\ Claimable(g)
  /\ granule' = [granule EXCEPT ![g] = Claimed(granule[g], w)]
  /\ offers' = offers \cup {<<w, g>>}
  /\ UNCHANGED <<objVars, batchVars, ledgerVars, worker, up, handlers, beats, confirms>>

\* The reply arrives (a handler starts) or is lost.
ReceiveOffer(w, g, arrives) ==
  /\ <<w, g>> \in offers
  /\ offers' = offers \ {<<w, g>>}
  /\ handlers' = IF arrives THEN [handlers EXCEPT ![w] = @ \cup {g}] ELSE handlers
  /\ UNCHANGED <<granule, objVars, batchVars, ledgerVars, worker, up, beats, confirms>>

\* The worker gives the granule up: its last event was answered, the batch reply
\* listed it as revoked, or the events were lost with the buffer.
HandlerEnds(w, g) ==
  /\ g \in handlers[w]
  /\ handlers' = [handlers EXCEPT ![w] = @ \ {g}]
  /\ UNCHANGED <<granule, objVars, batchVars, ledgerVars, worker, up, offers, beats,
                 confirms>>

\* lease_expires_at goes by without a renewal.
ExpireLease(g) ==
  /\ granule[g].lease = "live"
  /\ granule' = [granule EXCEPT ![g].lease = "expired"]
  /\ UNCHANGED <<objVars, batchVars, ledgerVars, worker, procVars>>

\* The reclaim grace goes by since the row was last written.  A lease reply or a
\* heartbeat older than the write has been received or given up by then: requests
\* time out after 30 s, the grace is 60 s.
GraceElapses(g) ==
  /\ granule[g].fresh
  /\ \A w \in Workers : <<w, g>> \notin offers
  /\ \A b \in beats : b[1] = granule[g].leased_by => g \in b[2]
  /\ granule' = [granule EXCEPT ![g].fresh = FALSE]
  /\ UNCHANGED <<objVars, batchVars, ledgerVars, worker, procVars>>

\* Mutant: only expired leases are swept.
OwnerlessIfExpired(g) == IsLeased(granule[g]) /\ granule[g].lease = "expired"
Ownerless(g) == IsLeased(granule[g])
                  /\ (granule[g].leased_by = NoWorker \/ granule[g].lease = "expired")

SweepExpiredLeases ==
  /\ \E g \in Granules : Ownerless(g)
  /\ granule' = [g \in Granules |->
                   IF Ownerless(g) THEN Released(granule[g], "pending") ELSE granule[g]]
  /\ UNCHANGED <<objVars, batchVars, ledgerVars, worker, procVars>>

-----------------------------------------------------------------------------
(* Heartbeats.                                                               *)

\* _active_granule_ids: running handlers and granules with a buffered event.
ActiveIds(w) == handlers[w] \cup {g \in Granules : <<w, g>> \in confirms}

SendBeat(w) ==
  /\ w \in up
  /\ \A b \in beats : b[1] # w
  /\ beats' = beats \cup {<<w, ActiveIds(w)>>}
  /\ UNCHANGED <<granule, objVars, batchVars, ledgerVars, worker, up, handlers, offers,
                 confirms>>

LoseBeat(b) ==
  /\ b \in beats
  /\ beats' = beats \ {b}
  /\ UNCHANGED <<granule, objVars, batchVars, ledgerVars, worker, up, handlers, offers,
                 confirms>>

\* reclaim_inactive_leases: leases the reported set does not cover, past the grace.
\* Mutant: an empty report is taken for an absent one.
ReclaimableIfReported(w, A) ==
  {g \in HeldGranules(w) : A # {} /\ ~ granule[g].fresh /\ g \notin A}
Reclaimable(w, A) == {g \in HeldGranules(w) : ~ granule[g].fresh /\ g \notin A}

\* The heartbeat handler: reclaim, renew what is left, report what is lost.  The
\* reply may not arrive.  An absent or removed worker gets neither.
ServeBeat(w, A, arrives) ==
  LET kept == HeldGranules(w) \ Reclaimable(w, A)
  IN /\ <<w, A>> \in beats
     /\ beats' = beats \ {<<w, A>>}
     /\ IF worker[w] \in Registered
        THEN /\ granule' = [g \in Granules |->
                  IF g \in Reclaimable(w, A) THEN Released(granule[g], "pending")
                  ELSE IF g \in kept THEN [granule[g] EXCEPT !.lease = "live"]
                  ELSE granule[g]]
             /\ handlers' = IF arrives
                            THEN [handlers EXCEPT ![w] = @ \ (A \ kept)]
                            ELSE handlers
        ELSE UNCHANGED <<granule, handlers>>
     /\ UNCHANGED <<objVars, batchVars, ledgerVars, worker, up, offers, confirms>>

-----------------------------------------------------------------------------
(* Worker events.  A refused event changes nothing and is no step.           *)

MayReport(w, g) == w \in up /\ g \in handlers[w] /\ granule[g].leased_by = w

\* DownloadStarted, DownloadFinished, ProcessStarted, ProcessFinished, UploadStarted
StageEvent(w, g, to) ==
  /\ MayReport(w, g)
  /\ granule[g].state \in AcceptedFrom[to]
  /\ granule' = [granule EXCEPT ![g] = Advanced(granule[g], to)]
  /\ UNCHANGED <<objVars, batchVars, ledgerVars, worker, procVars>>

UploadCompleted(w, g, os) ==
  /\ MayReport(w, g)
  /\ granule[g].state \in AcceptedFrom["uploaded"]
  /\ os # {} /\ \A o \in os : host[o] = NoWorker
  /\ granule' = [granule EXCEPT ![g] = Released(granule[g], "uploaded")]
  /\ rows' = [rows EXCEPT ![g] = @ \cup os]
  /\ host' = [o \in Objects |-> IF o \in os THEN w ELSE host[o]]
  /\ UNCHANGED <<acked, deleted, exhausted, batchVars, ledgerVars, worker, procVars>>

ProcessingFailed(w, g) ==
  /\ MayReport(w, g)
  /\ IsLeased(granule[g])
  /\ granule' = [granule EXCEPT ![g] = FailedRow(granule[g])]
  /\ UNCHANGED <<objVars, batchVars, ledgerVars, worker, procVars>>

-----------------------------------------------------------------------------
(* Delivery.                                                                 *)

\* A receiver is offered the object, fetches it and verifies its digest.
Receive(o) ==
  /\ o \notin received
  /\ Pullable(o)
  /\ \E g \in Granules : o \in rows[g] /\ granule[g].state = "uploaded"
  /\ received' = received \cup {o}
  /\ UNCHANGED <<granule, objVars, batchVars, receipts, worker, procVars>>

\* A failed pull reported on an unacked row reaches the cap (each count below the
\* cap only re-offers the object).
PullFails(o) ==
  /\ \E g \in Granules : o \in rows[g]
  /\ o \notin acked \cup exhausted
  /\ exhausted' = exhausted \cup {o}
  /\ UNCHANGED <<granule, rows, host, acked, deleted, batchVars, ledgerVars, worker,
                 procVars>>

\* Mutant: an object given up for pulling keeps the gate shut even when it is acked.
GateWithoutExhausted(g, os) == granule[g].state = "uploaded" /\ rows[g] \subseteq os \ exhausted
\* The last ack of a granule moves it on; every row counts, deleted or not.
AckGate(g, os) == granule[g].state = "uploaded" /\ rows[g] \subseteq os

\* A receiver reports an object it holds; the ledger gets its receipt in the same
\* commit.  Repeats are harmless, an object without a row is refused.
Ack(o) ==
  /\ o \in received
  /\ \E g \in Granules :
       /\ o \in rows[g]
       /\ acked' = acked \cup {o}
       /\ granule' = IF AckGate(g, acked \cup {o})
                     THEN [granule EXCEPT ![g].state = "acked"] ELSE granule
  /\ receipts' = receipts \cup {o}
  /\ UNCHANGED <<rows, host, deleted, exhausted, batchVars, received, worker, procVars>>

\* /deletable for w: granules whose undeleted objects are all acked.
\* Mutant: one acked object is enough.
DeletableOnFirstAck(w, g) == \E o \in rows[g] \ deleted : host[o] = w /\ o \in acked
Deletable(w, g) ==
  /\ AllAcked(rows[g] \ deleted)
  /\ \E o \in rows[g] \ deleted : host[o] = w

\* The janitor deletes the listed files and owes the orchestrator the news.
PollDeletable(w) ==
  /\ w \in up
  /\ \E g \in Granules : Deletable(w, g) /\ <<w, g>> \notin confirms
  /\ confirms' = confirms \cup {<<w, g>> : g \in {x \in Granules : Deletable(w, x)}}
  /\ UNCHANGED <<granule, objVars, batchVars, ledgerVars, worker, up, handlers, offers,
                 beats>>

\* DeleteConfirmed is applied; unanswered, it will be sent again.
ConfirmDelete(w, g, answered) ==
  /\ <<w, g>> \in confirms
  /\ DeletePath({g})
  /\ confirms' = IF answered THEN confirms \ {<<w, g>>} ELSE confirms
  /\ UNCHANGED <<rows, host, acked, exhausted, batch, known, retired, ledgerVars, worker,
                 up, handlers, offers, beats>>

\* Mutant: a registered worker counts as present even when it has gone silent.
OrphanedByRegistration(live) ==
  {g \in InState("acked") : ~ \E o \in rows[g] \ deleted : worker[host[o]] \in Registered}
\* ACKED granules with no undeleted object on a live worker.
Orphaned(live) ==
  {g \in InState("acked") : ~ \E o \in rows[g] \ deleted : host[o] \in live}

\* live: registered workers heard from within the orphan grace.
SweepOrphanedAcked(live) ==
  /\ \A w \in live : worker[w] \in Registered
  /\ Orphaned(live) # {}
  /\ DeletePath(Orphaned(live))
  /\ UNCHANGED <<rows, host, acked, exhausted, batch, known, retired, ledgerVars, worker,
                 procVars>>

-----------------------------------------------------------------------------

OperatorStep ==
  \/ \E S \in SUBSET Granules :
       \/ CreateBatch(S)
       \/ "add" \in Requests /\ AddGranules(S)
       \/ "cancel" \in Requests /\ Cancel(S)
       \/ "retry" \in Requests /\ Retry(S)
  \/ "status" \in Requests /\ \E s \in {"running", "paused"} : SetBatchStatus(s)
  \/ "delete" \in Requests /\ \E force \in BOOLEAN : DeleteBatch(force)
  \/ "requeue" \in Requests /\ RequeueUndeliverable
  \/ "reset" \in Requests /\ ResetPullFailures
  \/ \E w \in Workers :
       \/ "revoke" \in Requests /\ RevokeAll(w)
       \/ \E flag \in BOOLEAN :
            \/ "pause" \in Requests /\ SetPaused(w, flag)
            \/ "remove" \in Requests /\ RemoveWorker(w, flag)
       \/ "purge" \in Requests /\ PurgeWorker(w)

\* The periodic tasks of the orchestrator, and the passing of time.
BackgroundStep ==
  \/ SweepExpiredLeases
  \/ \E live \in SUBSET Workers : SweepOrphanedAcked(live)
  \/ "retain" \in Requests
       /\ \E S \in SUBSET Granules, ws \in SUBSET Workers : Retention(S, ws)
  \/ \E g \in Granules : ExpireLease(g) \/ GraceElapses(g)

WorkerStep(w) ==
  \/ Register(w) \/ Crash(w) \/ SendBeat(w) \/ PollDeletable(w)
  \/ \E A \in SUBSET Granules :
       LoseBeat(<<w, A>>) \/ \E arrives \in BOOLEAN : ServeBeat(w, A, arrives)
  \/ \E g \in Granules :
       \/ Lease(w, g) \/ HandlerEnds(w, g) \/ ProcessingFailed(w, g)
       \/ \E to \in Reported : StageEvent(w, g, to)
       \/ \E os \in SUBSET Objects : UploadCompleted(w, g, os)
       \/ \E ok \in BOOLEAN : ReceiveOffer(w, g, ok) \/ ConfirmDelete(w, g, ok)

ReceiverStep(o) == Receive(o) \/ PullFails(o) \/ Ack(o)

Next ==
  \/ OperatorStep
  \/ BackgroundStep
  \/ \E w \in Workers : WorkerStep(w)
  \/ \E o \in Objects : ReceiverStep(o)

Spec == Init /\ [][Next]_vars

-----------------------------------------------------------------------------
(* Safety.                                                                   *)

\* A row is in the leased band exactly when it has an owner and an expiry: every
\* clear of leased_by also moves the state out of the band, and no path leaves a
\* lease behind on a granule nobody is working on.
LeaseDiscipline ==
  \A g \in Granules :
    /\ IsLeased(granule[g]) <=> granule[g].leased_by # NoWorker
    /\ IsLeased(granule[g]) <=> granule[g].lease # "none"

\* An attempt starts clean: object rows exist only between the upload and the end of
\* the delivery, whatever was cancelled, revoked, requeued or retried before.
NoStaleObjects ==
  \A g \in Granules :
    rows[g] # {} => granule[g].state \in {"uploaded", "acked", "deleted"}

\* A granule counts as delivered only when every object of it that the orchestrator
\* knows has been acknowledged, and an acknowledged object is at a receiver.
DeliveredMeansReceived ==
  \A g \in Granules :
    granule[g].state \in {"acked", "deleted"} => rows[g] \subseteq acked \cap received

\* delivered_count is the number of granules that reached DELETED, each counted once,
\* whichever of the worker and the orphan sweep got there first and however often.
DeliveredExactly ==
  ReuseIds \/ delivered = Cardinality(InState("deleted") \cup retired)

\* A worker deletes its files and confirms only for granules the receivers have in
\* full; a confirmation, late or repeated, never finds a granule still at work.
ConfirmGated ==
  \A x \in confirms : granule[x[2]].state \in {"acked", "deleted", "absent"}

\* Every acknowledged object has its durable receipt, and no receipt is issued for
\* an object no receiver holds.
ReceiptPerAck == acked \subseteq receipts /\ receipts \subseteq received

\* A DELETED granule has no object left that would still be offered, held against a
\* worker's quota, or listed for deletion.
DeletedIsClean ==
  \A g \in Granules : granule[g].state = "deleted" => rows[g] \subseteq deleted

\* The cap on what one worker holds, from the claim to the deletion of its files.
InflightCapped ==
  MaxInflight = 0 \/ \A w \in Workers : Inflight(w) <= MaxInflight

\* What the cap rests on: an upload's row ids are new, so no object changes its host.
RowsHaveHost == \A g \in Granules : \A o \in rows[g] : host[o] # NoWorker

\* What the reconcile rests on: a lease whose reply is on its way is within the grace,
\* and a report that leaves out a lease past the grace is from a worker that has no
\* handler for it.
OffersAreFresh ==
  \A x \in offers : HeldBy(granule[x[2]], x[1]) => granule[x[2]].fresh
ReportsCover ==
  \A b \in beats : \A g \in HeldGranules(b[1]) \cap handlers[b[1]] :
    granule[g].fresh \/ g \in b[2]

\* The heartbeat reconcile never takes a granule from a worker that is handling it,
\* however late the report it acts on was sent.
NoReclaimOfLiveWork ==
  [][\A w \in Workers, A \in SUBSET Granules :
       ServeBeat(w, A, TRUE) \/ ServeBeat(w, A, FALSE) =>
         \A g \in HeldGranules(w) : granule'[g].state = "pending" => g \notin handlers[w]]_vars

-----------------------------------------------------------------------------
(* Liveness.                                                                 *)

\* Heartbeats are periodic and some get through; a lease nobody renews expires; the
\* sweeper and the janitor run periodically; a buffered confirmation is resent; a
\* request is answered or given up.
Unrenewed(g) == granule[g].leased_by \notin up
                  \/ worker[granule[g].leased_by] \notin Registered

LiveWorkers == {w \in up : worker[w] \in Registered}

Fairness ==
  /\ WF_vars(SweepExpiredLeases)
  /\ SF_vars(SweepOrphanedAcked(LiveWorkers))
  /\ \A g \in Granules :
       SF_vars(GraceElapses(g)) /\ SF_vars(IsLeased(granule[g]) /\ Unrenewed(g) /\ ExpireLease(g))
  /\ \A w \in Workers :
       /\ WF_vars(SendBeat(w))
       /\ SF_vars(w \in LiveWorkers /\ \E A \in SUBSET Granules, ok \in BOOLEAN : ServeBeat(w, A, ok))
       /\ SF_vars(PollDeletable(w))
       /\ \A g \in Granules :
            /\ SF_vars(ConfirmDelete(w, g, TRUE))
            /\ WF_vars(\E ok \in BOOLEAN : ReceiveOffer(w, g, ok))

LiveSpec == Spec /\ Fairness

\* A lease whose worker is gone, or forgot the granule, does not wedge it.
NoWedgedLease ==
  \A w \in Workers, g \in Granules :
    HeldBy(granule[g], w) /\ g \notin handlers[w] /\ <<w, g>> \notin offers
      ~> ~ HeldBy(granule[g], w)

\* A delivered granule does not strand in ACKED, worker present or not.
AckedIsFinished ==
  \A g \in Granules : granule[g].state = "acked" ~> granule[g].state # "acked"
=============================================================================
