---------------------------- MODULE GranuleProofs ----------------------------
(***************************************************************************)
(* GranuleProtocol for every number of workers, granules and objects, every *)
(* retry budget and every in-flight cap: types, the cap, the heartbeat       *)
(* reconcile; and, when a granule id is submitted once, lease discipline,    *)
(* safe delivery and the refinement of GranuleLifecycle.                     *)
(***************************************************************************)
EXTENDS GranuleRefinement, FiniteSetTheorems, TLAPS

-----------------------------------------------------------------------------
(* The row operations of GranuleStates.                                      *)

\* What a row must be for LeaseDiscipline.
Disciplined(row) ==
  /\ IsLeased(row) <=> row.leased_by # NoWorker
  /\ IsLeased(row) <=> row.lease # "none"

\* Every operation that leaves the leased band makes a disciplined row.
LEMMA ReleasedRow ==
  ASSUME NEW row \in Rows, NEW to \in GranuleStateSet \ LeasedStates
  PROVE  /\ Released(row, to) \in Rows
         /\ Disciplined(Released(row, to))
         /\ Released(row, to).state = to
         /\ Released(row, to).retry = row.retry
  BY DEF Rows, RowStates, LeasePhases, Released, Disciplined, IsLeased

LEMMA RetryBudget ==
  ASSUME NEW n \in 0..MaxRetries
  PROVE  Bumped(n) \in 0..MaxRetries
  BY MaxRetriesAssumption DEF Bumped

LEMMA RevokedRow ==
  ASSUME NEW row \in Rows
  PROVE  /\ Revoked(row) \in Rows
         /\ Disciplined(Revoked(row))
         /\ Revoked(row).state = "pending"
  <1> DEFINE r == Released(row, "pending")
  <1>1. r \in Rows /\ Disciplined(r) /\ r.state = "pending"
    BY ReleasedRow DEF GranuleStateSet, LeasedStates
  <1>2. Bumped(row.retry) \in 0..MaxRetries
    BY RetryBudget DEF Rows
  <1> QED
    BY <1>1, <1>2 DEF Revoked, Rows, Disciplined, IsLeased

LEMMA RestartedRow ==
  ASSUME NEW row \in Rows
  PROVE  /\ Restarted(row) \in Rows
         /\ Disciplined(Restarted(row))
         /\ Restarted(row).state = "pending"
  <1> DEFINE r == Released(row, "pending")
  <1>1. r \in Rows /\ Disciplined(r) /\ r.state = "pending"
    BY ReleasedRow DEF GranuleStateSet, LeasedStates
  <1> QED
    BY <1>1, MaxRetriesAssumption DEF Restarted, Rows, Disciplined, IsLeased

LEMMA FailedRowResult ==
  ASSUME NEW row \in Rows
  PROVE  /\ FailedRow(row) \in Rows
         /\ Disciplined(FailedRow(row))
         /\ FailedRow(row).state \in {"pending", "blacklisted"}
  <1> DEFINE to == IF row.retry + 1 >= MaxRetries THEN "blacklisted" ELSE "pending"
             r == Released(row, to)
  <1>1. to \in GranuleStateSet \ LeasedStates /\ to \in {"pending", "blacklisted"}
    BY DEF GranuleStateSet, LeasedStates, RetryableStates
  <1>2. r \in Rows /\ Disciplined(r) /\ r.state = to
    BY <1>1, ReleasedRow
  <1>3. Bumped(row.retry) \in 0..MaxRetries
    BY RetryBudget DEF Rows
  <1> QED
    BY <1>1, <1>2, <1>3 DEF FailedRow, Rows, Disciplined, IsLeased

LEMMA ClaimedRow ==
  ASSUME NEW row \in Rows, NEW w \in Workers
  PROVE  /\ Claimed(row, w) \in Rows
         /\ Disciplined(Claimed(row, w))
         /\ Claimed(row, w).state = "queued"
  BY NoWorkerAssumption DEF Claimed, Rows, RowStates, GranuleStateSet, LeasedStates,
     LeasePhases, Disciplined, IsLeased

LEMMA StageStates ==
  ASSUME NEW to \in StageTargets
  PROVE  to \in LeasedStates /\ AcceptedFrom[to] \subseteq LeasedStates
  <1>1. CASE to = "downloading" BY <1>1 DEF AcceptedFrom, LeasedStates
  <1>2. CASE to = "downloaded" BY <1>2 DEF AcceptedFrom, LeasedStates
  <1>3. CASE to = "processing" BY <1>3 DEF AcceptedFrom, LeasedStates
  <1>4. CASE to = "processed" BY <1>4 DEF AcceptedFrom, LeasedStates
  <1>5. CASE to = "uploading" BY <1>5 DEF AcceptedFrom, LeasedStates
  <1> QED
    BY <1>1, <1>2, <1>3, <1>4, <1>5 DEF StageTargets

LEMMA AdvancedRow ==
  ASSUME NEW row \in Rows, NEW to \in StageTargets
  PROVE  /\ Advanced(row, to) \in Rows
         /\ Advanced(row, to).state = to
         /\ IsLeased(row) /\ Disciplined(row) => Disciplined(Advanced(row, to))
  <1>1. to \in LeasedStates
    BY StageStates
  <1> QED
    BY <1>1 DEF Advanced, Rows, RowStates, GranuleStateSet, Disciplined, IsLeased

\* Rows a submission creates, and rows that move between states outside the leased
\* band.
LEMMA AbsentRow == NoRow \in Rows /\ Disciplined(NoRow) /\ NoRow.state = "absent"
  BY MaxRetriesAssumption DEF NoRow, Rows, RowStates, GranuleStateSet,
     LeasedStates, RetryableStates, LeasePhases, Disciplined, IsLeased

LEMMA SubmittedRow == NewRow \in Rows /\ Disciplined(NewRow) /\ NewRow.state = "pending"
  BY AbsentRow DEF NewRow, NoRow, Rows, RowStates, GranuleStateSet,
     LeasedStates, Disciplined, IsLeased

LEMMA MovedRow ==
  ASSUME NEW row \in Rows, NEW to \in GranuleStateSet \ LeasedStates
  PROVE  /\ [row EXCEPT !.state = to] \in Rows
         /\ [row EXCEPT !.state = to].state = to
         /\ Disciplined(row) /\ ~ IsLeased(row) => Disciplined([row EXCEPT !.state = to])
  BY DEF Rows, RowStates, Disciplined, IsLeased

\* Time passing on a row, and a renewal.
LEMMA TimedRow ==
  ASSUME NEW row \in Rows
  PROVE  /\ [row EXCEPT !.fresh = FALSE] \in Rows
         /\ Disciplined(row) => Disciplined([row EXCEPT !.fresh = FALSE])
         /\ \A l \in {"live", "expired"} :
              /\ [row EXCEPT !.lease = l] \in Rows
              /\ Disciplined(row) /\ IsLeased(row) => Disciplined([row EXCEPT !.lease = l])
  BY DEF Rows, LeasePhases, Disciplined, IsLeased

-----------------------------------------------------------------------------
(* Type correctness.                                                         *)

\* The rewrites several actions share keep the tables well typed.
LEMMA TypedDeletePath ==
  ASSUME TypeOK, NEW S \in SUBSET Granules, DeletePath(S)
  PROVE  /\ granule' \in [Granules -> Rows]
         /\ deleted' \subseteq Objects
         /\ delivered' \in Nat
  <1> DEFINE flipped == {g \in S : granule[g].state \notin {"deleted", "absent"}}
  <1>1. Cardinality(flipped) \in Nat
    <2>1. flipped \subseteq Granules
      OBVIOUS
    <2> QED
      BY <2>1, GranulesAssumption, FS_Subset, FS_CardinalityType
  <1>2. \A g \in Granules : [granule[g] EXCEPT !.state = "deleted"] \in Rows
    BY MovedRow DEF TypeOK, GranuleStateSet, LeasedStates, RetryableStates
  <1> QED
    BY <1>1, <1>2 DEF TypeOK, DeletePath

LEMMA TypedDrop ==
  ASSUME TypeOK, NEW os, DropObjects(os)
  PROVE  /\ rows' \in [Granules -> SUBSET Objects]
         /\ acked' \subseteq Objects /\ deleted' \subseteq Objects
         /\ exhausted' \subseteq Objects
         /\ host' \in [Objects -> Workers \cup {NoWorker}]
  BY DEF TypeOK, DropObjects

LEMMA TypedRevoke ==
  ASSUME TypeOK, NEW w, RevokeLeases(w)
  PROVE  granule' \in [Granules -> Rows]
  BY RevokedRow DEF TypeOK, RevokeLeases, Rewritten

LEMMA InitTyped == Init => TypeOK
  BY AbsentRow DEF Init, TypeOK

LEMMA StepTyped == TypeOK /\ [Next]_vars => TypeOK'
  <1> SUFFICES ASSUME TypeOK, [Next]_vars PROVE TypeOK'
    OBVIOUS
  <1> USE DEF objVars, batchVars, ledgerVars, procVars
  <1>1. ASSUME NEW S \in SUBSET Granules, CreateBatch(S) PROVE TypeOK'
    BY <1>1, SubmittedRow DEF TypeOK, CreateBatch, Submit
  <1>2. ASSUME NEW S \in SUBSET Granules, AddGranules(S) PROVE TypeOK'
    BY <1>2, SubmittedRow DEF TypeOK, AddGranules, Submit
  <1>3. ASSUME NEW S \in SUBSET Granules, Cancel(S) PROVE TypeOK'
    BY <1>3, ReleasedRow DEF TypeOK, Cancel, GranuleStateSet, RetryableStates, LeasedStates
  <1>4. ASSUME NEW S \in SUBSET Granules, Retry(S) PROVE TypeOK'
    BY <1>4, RestartedRow DEF TypeOK, Retry, Rewritten
  <1>5. ASSUME NEW s \in {"running", "paused"}, SetBatchStatus(s) PROVE TypeOK'
    BY <1>5 DEF TypeOK, SetBatchStatus
  <1>6. ASSUME NEW force \in BOOLEAN, DeleteBatch(force) PROVE TypeOK'
    BY <1>6, TypedDrop, AbsentRow DEF TypeOK, DeleteBatch
  <1>7. ASSUME RequeueUndeliverable PROVE TypeOK'
    BY <1>7, TypedDrop, RestartedRow DEF TypeOK, RequeueUndeliverable, Rewritten
  <1>8. ASSUME ResetPullFailures PROVE TypeOK'
    BY <1>8 DEF TypeOK, ResetPullFailures
  <1>9. ASSUME NEW w \in Workers, RevokeAll(w) PROVE TypeOK'
    BY <1>9, TypedRevoke DEF TypeOK, RevokeAll
  <1>10. ASSUME NEW w \in Workers, NEW flag \in BOOLEAN, SetPaused(w, flag) PROVE TypeOK'
    BY <1>10 DEF TypeOK, SetPaused, Registered
  <1>11. ASSUME NEW w \in Workers, NEW flag \in BOOLEAN, RemoveWorker(w, flag) PROVE TypeOK'
    BY <1>11, TypedRevoke DEF TypeOK, RemoveWorker
  <1>12. ASSUME NEW w \in Workers, PurgeWorker(w) PROVE TypeOK'
    BY <1>12 DEF TypeOK, PurgeWorker
  <1>13. ASSUME SweepExpiredLeases PROVE TypeOK'
    BY <1>13, ReleasedRow DEF TypeOK, SweepExpiredLeases, GranuleStateSet, LeasedStates
  <1>14. ASSUME NEW live \in SUBSET Workers, SweepOrphanedAcked(live) PROVE TypeOK'
    <2>1. Orphaned(live) \in SUBSET Granules
      BY DEF Orphaned, InState
    <2> QED
      BY <1>14, <2>1, TypedDeletePath DEF TypeOK, SweepOrphanedAcked
  <1>15. ASSUME NEW S \in SUBSET Granules, NEW ws \in SUBSET Workers, Retention(S, ws)
         PROVE TypeOK'
    BY <1>15, TypedDrop, AbsentRow DEF TypeOK, Retention, InState
  <1>16. ASSUME NEW g \in Granules, ExpireLease(g) \/ GraceElapses(g) PROVE TypeOK'
    <2>1. /\ [granule[g] EXCEPT !.lease = "expired"] \in Rows
          /\ [granule[g] EXCEPT !.fresh = FALSE] \in Rows
      BY TimedRow DEF TypeOK
    <2>2. granule' \in [Granules -> Rows]
      BY <1>16, <2>1 DEF TypeOK, ExpireLease, GraceElapses
    <2> QED
      BY <1>16, <2>2 DEF TypeOK, ExpireLease, GraceElapses
  <1>17. ASSUME NEW w \in Workers, Register(w) PROVE TypeOK'
    BY <1>17, TypedRevoke DEF TypeOK, Register, Registered
  <1>18. ASSUME NEW w \in Workers, Crash(w) PROVE TypeOK'
    BY <1>18 DEF TypeOK, Crash
  <1>19. ASSUME NEW w \in Workers, SendBeat(w) PROVE TypeOK'
    <2>1. ActiveIds(w) \in SUBSET Granules
      BY DEF TypeOK, ActiveIds
    <2> QED
      BY <1>19, <2>1 DEF TypeOK, SendBeat
  <1>20. ASSUME NEW w \in Workers, PollDeletable(w) PROVE TypeOK'
    BY <1>20 DEF TypeOK, PollDeletable
  <1>21. ASSUME NEW w \in Workers, NEW A \in SUBSET Granules, LoseBeat(<<w, A>>)
         PROVE TypeOK'
    BY <1>21 DEF TypeOK, LoseBeat
  <1>22. ASSUME NEW w \in Workers, NEW A \in SUBSET Granules, NEW arrives \in BOOLEAN,
                ServeBeat(w, A, arrives)
         PROVE TypeOK'
    <2>1. granule' \in [Granules -> Rows]
      <3>1. \A g \in Granules : /\ Released(granule[g], "pending") \in Rows
                                /\ [granule[g] EXCEPT !.lease = "live"] \in Rows
        BY ReleasedRow, TimedRow DEF TypeOK, GranuleStateSet, LeasedStates
      <3> QED
        BY <1>22, <3>1 DEF TypeOK, ServeBeat
    <2>2. handlers' \in [Workers -> SUBSET Granules]
      BY <1>22 DEF TypeOK, ServeBeat
    <2> QED
      BY <1>22, <2>1, <2>2 DEF TypeOK, ServeBeat
  <1>23. ASSUME NEW w \in Workers, NEW g \in Granules, Lease(w, g) PROVE TypeOK'
    BY <1>23, ClaimedRow DEF TypeOK, Lease
  <1>24. ASSUME NEW w \in Workers, NEW g \in Granules, HandlerEnds(w, g) PROVE TypeOK'
    BY <1>24 DEF TypeOK, HandlerEnds
  <1>25. ASSUME NEW w \in Workers, NEW g \in Granules, ProcessingFailed(w, g) PROVE TypeOK'
    BY <1>25, FailedRowResult DEF TypeOK, ProcessingFailed
  <1>26. ASSUME NEW w \in Workers, NEW g \in Granules, NEW to \in Reported,
                StageEvent(w, g, to)
         PROVE TypeOK'
    BY <1>26, AdvancedRow, ReportedAssumption DEF TypeOK, StageEvent
  <1>27. ASSUME NEW w \in Workers, NEW g \in Granules, NEW os \in SUBSET Objects,
                UploadCompleted(w, g, os)
         PROVE TypeOK'
    BY <1>27, ReleasedRow DEF TypeOK, UploadCompleted, GranuleStateSet, LeasedStates
  <1>28. ASSUME NEW w \in Workers, NEW g \in Granules, NEW ok \in BOOLEAN,
                ReceiveOffer(w, g, ok)
         PROVE TypeOK'
    BY <1>28 DEF TypeOK, ReceiveOffer
  <1>29. ASSUME NEW w \in Workers, NEW g \in Granules, NEW ok \in BOOLEAN,
                ConfirmDelete(w, g, ok)
         PROVE TypeOK'
    <2>1. {g} \in SUBSET Granules
      OBVIOUS
    <2> QED
      BY <1>29, <2>1, TypedDeletePath DEF TypeOK, ConfirmDelete
  <1>30. ASSUME NEW o \in Objects, Receive(o) \/ PullFails(o) PROVE TypeOK'
    BY <1>30 DEF TypeOK, Receive, PullFails
  <1>31. ASSUME NEW o \in Objects, Ack(o) PROVE TypeOK'
    <2>1. \A g \in Granules : [granule[g] EXCEPT !.state = "acked"] \in Rows
      BY MovedRow DEF TypeOK, GranuleStateSet, LeasedStates, RetryableStates
    <2> QED
      BY <1>31, <2>1 DEF TypeOK, Ack
  <1>32. CASE UNCHANGED vars
    BY <1>32 DEF TypeOK, vars
  <1> QED
    BY <1>1, <1>2, <1>3, <1>4, <1>5, <1>6, <1>7, <1>8, <1>9, <1>10, <1>11, <1>12, <1>13,
       <1>14, <1>15, <1>16, <1>17, <1>18, <1>19, <1>20, <1>21, <1>22, <1>23, <1>24, <1>25,
       <1>26, <1>27, <1>28, <1>29, <1>30, <1>31, <1>32
       DEF Next, OperatorStep, BackgroundStep, WorkerStep, ReceiverStep

\* Every table keeps well-formed rows, the retry count its budget and the delivered
\* counter its non-negative value, whatever the instance.
THEOREM TypeCorrect == Spec => []TypeOK
  BY InitTyped, StepTyped, PTL DEF Spec
-----------------------------------------------------------------------------
(* What becomes of a lease.  Every action but the claim and the passing of the grace *)
(* leaves a lease with its holder and within the grace, or ends it.                  *)

Holds(g) ==
  IsLeased(granule'[g]) =>
    /\ IsLeased(granule[g])
    /\ granule'[g].leased_by = granule[g].leased_by
    /\ granule[g].fresh => granule'[g].fresh

LEMMA RevokedHolds ==
  ASSUME TypeOK, NEW w, RevokeLeases(w)
  PROVE  \A g \in Granules : Holds(g)
  BY RevokedRow DEF TypeOK, RevokeLeases, Rewritten, Holds, IsLeased, LeasedStates

LEMMA DeletedHolds ==
  ASSUME TypeOK, NEW S \in SUBSET Granules, DeletePath(S)
  PROVE  \A g \in Granules : Holds(g)
  BY DEF TypeOK, DeletePath, Holds, IsLeased, LeasedStates

LEMMA OperatorHolds ==
  ASSUME TypeOK, OperatorStep
  PROVE  \A g \in Granules : Holds(g)
  <1>1. ASSUME NEW S \in SUBSET Granules, CreateBatch(S) \/ AddGranules(S)
        PROVE  \A g \in Granules : Holds(g)
    BY <1>1, SubmittedRow DEF TypeOK, CreateBatch, AddGranules, Submit, Holds, IsLeased, LeasedStates
  <1>2. ASSUME NEW S \in SUBSET Granules, Cancel(S) PROVE \A g \in Granules : Holds(g)
    <2>1. "blacklisted" \in GranuleStateSet \ LeasedStates
      BY DEF GranuleStateSet, RetryableStates, LeasedStates
    <2> QED
      BY <1>2, <2>1, ReleasedRow DEF TypeOK, Cancel, Holds, IsLeased
  <1>3. ASSUME NEW S \in SUBSET Granules, Retry(S) PROVE \A g \in Granules : Holds(g)
    BY <1>3, RestartedRow DEF TypeOK, Retry, Rewritten, Holds, IsLeased, LeasedStates
  <1>4. ASSUME NEW force \in BOOLEAN, DeleteBatch(force) PROVE \A g \in Granules : Holds(g)
    BY <1>4, AbsentRow DEF DeleteBatch, Holds, IsLeased, LeasedStates
  <1>5. ASSUME RequeueUndeliverable PROVE \A g \in Granules : Holds(g)
    BY <1>5, RestartedRow DEF TypeOK, RequeueUndeliverable, Rewritten, Holds, IsLeased, LeasedStates
  <1>6. ASSUME UNCHANGED granule PROVE \A g \in Granules : Holds(g)
    BY <1>6 DEF Holds
  <1>7. ASSUME NEW w \in Workers, RevokeAll(w) PROVE \A g \in Granules : Holds(g)
    BY <1>7, RevokedHolds DEF RevokeAll
  <1>8. ASSUME NEW w \in Workers, NEW flag \in BOOLEAN, RemoveWorker(w, flag)
        PROVE  \A g \in Granules : Holds(g)
    BY <1>8, <1>6, RevokedHolds DEF RemoveWorker
  <1>9. ASSUME \/ \E s \in {"running", "paused"} : SetBatchStatus(s)
               \/ ResetPullFailures
               \/ \E w \in Workers : PurgeWorker(w) \/ \E flag \in BOOLEAN : SetPaused(w, flag)
        PROVE  UNCHANGED granule
    BY <1>9 DEF SetBatchStatus, ResetPullFailures, PurgeWorker, SetPaused
  <1> QED
    BY <1>1, <1>2, <1>3, <1>4, <1>5, <1>6, <1>7, <1>8, <1>9 DEF OperatorStep

LEMMA BackgroundHolds ==
  ASSUME TypeOK, BackgroundStep, ~ \E g \in Granules : GraceElapses(g)
  PROVE  \A g \in Granules : Holds(g)
  <1>1. ASSUME SweepExpiredLeases PROVE \A g \in Granules : Holds(g)
    BY <1>1, ReleasedRow DEF TypeOK, SweepExpiredLeases, Holds, IsLeased, GranuleStateSet, LeasedStates
  <1>2. ASSUME NEW live \in SUBSET Workers, SweepOrphanedAcked(live)
        PROVE  \A g \in Granules : Holds(g)
    <2>1. Orphaned(live) \in SUBSET Granules
      BY DEF Orphaned, InState
    <2> QED
      BY <1>2, <2>1, DeletedHolds DEF SweepOrphanedAcked
  <1>3. ASSUME NEW S \in SUBSET Granules, NEW ws \in SUBSET Workers, Retention(S, ws)
        PROVE  \A g \in Granules : Holds(g)
    BY <1>3, AbsentRow DEF Retention, Holds, IsLeased, LeasedStates
  <1>4. ASSUME NEW h \in Granules, ExpireLease(h) PROVE \A g \in Granules : Holds(g)
    BY <1>4 DEF TypeOK, Rows, ExpireLease, Holds, IsLeased
  <1> QED
    BY <1>1, <1>2, <1>3, <1>4 DEF BackgroundStep

LEMMA WorkerHolds ==
  ASSUME TypeOK, NEW w \in Workers, WorkerStep(w), ~ \E g \in Granules : Lease(w, g)
  PROVE  \A g \in Granules : Holds(g)
  <1>1. ASSUME UNCHANGED granule PROVE \A g \in Granules : Holds(g)
    BY <1>1 DEF Holds
  <1>2. ASSUME Register(w) PROVE \A g \in Granules : Holds(g)
    BY <1>2, <1>1, RevokedHolds DEF Register
  <1>3. ASSUME NEW A \in SUBSET Granules, NEW arrives \in BOOLEAN, ServeBeat(w, A, arrives)
        PROVE  \A g \in Granules : Holds(g)
    <2>1. ASSUME NEW g \in Granules
          PROVE  \/ granule'[g] = granule[g]
                 \/ granule'[g] = Released(granule[g], "pending")
                 \/ granule'[g] = [granule[g] EXCEPT !.lease = "live"]
      BY <1>3 DEF ServeBeat, HeldGranules
    <2> TAKE g \in Granules
    <2>2. granule[g] \in Rows /\ "pending" \in GranuleStateSet \ LeasedStates
      BY DEF TypeOK, GranuleStateSet, LeasedStates
    <2>3. CASE granule'[g] = granule[g]
      BY <2>3 DEF Holds
    <2>4. CASE granule'[g] = Released(granule[g], "pending")
      BY <2>2, <2>4, ReleasedRow DEF Holds, IsLeased
    <2>5. CASE granule'[g] = [granule[g] EXCEPT !.lease = "live"]
      BY <2>2, <2>5 DEF Rows, Holds, IsLeased
    <2> QED
      BY <2>1, <2>3, <2>4, <2>5
  <1>4. ASSUME NEW h \in Granules, ProcessingFailed(w, h) PROVE \A g \in Granules : Holds(g)
    BY <1>4, FailedRowResult DEF TypeOK, ProcessingFailed, Holds, IsLeased, LeasedStates
  <1>5. ASSUME NEW h \in Granules, NEW to \in Reported, StageEvent(w, h, to)
        PROVE  \A g \in Granules : Holds(g)
    <2>1. granule'[h] = Advanced(granule[h], to) /\ \A g \in Granules \ {h} : granule'[g] = granule[g]
      BY <1>5 DEF TypeOK, StageEvent
    <2>2. IsLeased(granule[h])
      BY <1>5, StageStates, ReportedAssumption DEF StageEvent, IsLeased
    <2>3. Advanced(granule[h], to).leased_by = granule[h].leased_by /\ Advanced(granule[h], to).fresh
      BY DEF TypeOK, Rows, Advanced
    <2> QED
      BY <2>1, <2>2, <2>3 DEF Holds
  <1>6. ASSUME NEW h \in Granules, NEW os \in SUBSET Objects, UploadCompleted(w, h, os)
        PROVE  \A g \in Granules : Holds(g)
    BY <1>6, ReleasedRow DEF TypeOK, UploadCompleted, Holds, IsLeased, GranuleStateSet, LeasedStates
  <1>7. ASSUME NEW h \in Granules, NEW ok \in BOOLEAN, ConfirmDelete(w, h, ok)
        PROVE  \A g \in Granules : Holds(g)
    <2>1. {h} \in SUBSET Granules
      OBVIOUS
    <2> QED
      BY <1>7, <2>1, DeletedHolds DEF ConfirmDelete
  <1>8. ASSUME \/ Crash(w) \/ SendBeat(w) \/ PollDeletable(w)
               \/ \E A \in SUBSET Granules : LoseBeat(<<w, A>>)
               \/ \E g \in Granules : HandlerEnds(w, g) \/ \E ok \in BOOLEAN : ReceiveOffer(w, g, ok)
        PROVE  UNCHANGED granule
    BY <1>8 DEF Crash, SendBeat, PollDeletable, LoseBeat, HandlerEnds, ReceiveOffer
  <1> QED
    BY <1>1, <1>2, <1>3, <1>4, <1>5, <1>6, <1>7, <1>8 DEF WorkerStep

LEMMA ReceiverHolds ==
  ASSUME TypeOK, NEW o \in Objects, ReceiverStep(o)
  PROVE  \A g \in Granules : Holds(g)
  <1>1. CASE Receive(o) \/ PullFails(o)
    BY <1>1 DEF Receive, PullFails, Holds
  <1>2. CASE Ack(o)
    BY <1>2 DEF TypeOK, Rows, Ack, Holds, IsLeased, LeasedStates
  <1> QED
    BY <1>1, <1>2 DEF ReceiverStep

LEMMA StepHolds ==
  ASSUME TypeOK, [Next]_vars
  PROVE  \/ \A g \in Granules : Holds(g)
         \/ \E w \in Workers, g \in Granules : Lease(w, g)
         \/ \E g \in Granules : GraceElapses(g)
  <1>1. ASSUME UNCHANGED vars PROVE \A g \in Granules : Holds(g)
    BY <1>1 DEF vars, Holds
  <1> QED
    BY <1>1, OperatorHolds, BackgroundHolds, WorkerHolds, ReceiverHolds DEF Next

-----------------------------------------------------------------------------
(* The in-flight cap.                                                        *)

CapInv == RowsHaveHost /\ InflightCapped

\* What a worker holds and stores are finite sets of granules, so Inflight counts.
LEMMA InflightCounts ==
  ASSUME NEW w
  PROVE  /\ IsFiniteSet(HeldGranules(w)) /\ IsFiniteSet(StoredGranules(w))
         /\ Cardinality(HeldGranules(w)) \in Nat /\ Cardinality(StoredGranules(w)) \in Nat
  <1>1. HeldGranules(w) \subseteq Granules /\ StoredGranules(w) \subseteq Granules
    BY DEF HeldGranules, StoredGranules
  <1> QED
    BY <1>1, GranulesAssumption, FS_Subset, FS_CardinalityType

LEMMA OneMore ==
  ASSUME NEW S, IsFiniteSet(S), NEW x
  PROVE  /\ IsFiniteSet(S \cup {x}) /\ Cardinality(S \cup {x}) \in Nat
         /\ Cardinality(S \cup {x}) <= Cardinality(S) + 1
  <1>1. Cardinality(S) \in Nat
    BY FS_CardinalityType
  <1>2. /\ IsFiniteSet(S \cup {x})
        /\ Cardinality(S \cup {x}) = IF x \in S THEN Cardinality(S) ELSE Cardinality(S) + 1
    BY FS_AddElement
  <1> QED
    BY <1>1, <1>2

\* A step after which nobody holds or stores more keeps the cap.
LEMMA CapShrinks ==
  ASSUME InflightCapped,
         \A w \in Workers : /\ HeldGranules(w)' \subseteq HeldGranules(w)
                            /\ StoredGranules(w)' \subseteq StoredGranules(w)
  PROVE  InflightCapped'
  <1> SUFFICES ASSUME MaxInflight # 0, NEW w \in Workers PROVE Inflight(w)' <= MaxInflight
    BY DEF InflightCapped
  <1>1. /\ Cardinality(HeldGranules(w)') \in Nat
        /\ Cardinality(HeldGranules(w)') <= Cardinality(HeldGranules(w))
    BY InflightCounts, FS_Subset, FS_CardinalityType
  <1>2. /\ Cardinality(StoredGranules(w)') \in Nat
        /\ Cardinality(StoredGranules(w)') <= Cardinality(StoredGranules(w))
    BY InflightCounts, FS_Subset, FS_CardinalityType
  <1>3. Inflight(w) <= MaxInflight
    BY DEF InflightCapped
  <1> QED
    BY <1>1, <1>2, <1>3, InflightCounts, MaxInflightAssumption DEF Inflight

\* The claim adds one granule, and the check before it leaves room for one.
LEMMA LeaseKeepsCap ==
  ASSUME TypeOK, CapInv, NEW w \in Workers, NEW g \in Granules, Lease(w, g)
  PROVE  CapInv'
  <1> USE DEF objVars
  <1>1. RowsHaveHost'
    BY DEF Lease, CapInv, RowsHaveHost
  <1>2. /\ granule'[g] = Claimed(granule[g], w) /\ \A h \in Granules \ {g} : granule'[h] = granule[h]
        /\ Claimed(granule[g], w).leased_by = w
    BY DEF Lease, TypeOK, Rows, Claimed
  <1>3. \A v \in Workers : StoredGranules(v)' = StoredGranules(v)
    BY DEF Lease, StoredGranules
  <1>4. \A v \in Workers \ {w} : HeldGranules(v)' \subseteq HeldGranules(v)
    BY <1>2 DEF HeldGranules, HeldBy
  <1>5. HeldGranules(w)' \subseteq HeldGranules(w) \cup {g}
    BY <1>2 DEF HeldGranules, HeldBy
  <1> SUFFICES ASSUME MaxInflight # 0, NEW v \in Workers PROVE Inflight(v)' <= MaxInflight
    BY <1>1 DEF CapInv, InflightCapped
  <1>6. CASE v # w
    <2>1. /\ Cardinality(HeldGranules(v)') \in Nat
          /\ Cardinality(HeldGranules(v)') <= Cardinality(HeldGranules(v))
      BY <1>4, <1>6, InflightCounts, FS_Subset, FS_CardinalityType
    <2>2. Inflight(v) <= MaxInflight
      BY DEF CapInv, InflightCapped
    <2> QED
      BY <2>1, <2>2, <1>3, InflightCounts, MaxInflightAssumption DEF Inflight
  <1>7. CASE v = w
    <2>1. Inflight(w) < MaxInflight
      BY DEF Lease, UnderCap
    <2>2. /\ IsFiniteSet(HeldGranules(w) \cup {g})
          /\ Cardinality(HeldGranules(w) \cup {g}) <= Cardinality(HeldGranules(w)) + 1
      BY InflightCounts, OneMore
    <2>3. /\ Cardinality(HeldGranules(w)') \in Nat
          /\ Cardinality(HeldGranules(w)') <= Cardinality(HeldGranules(w) \cup {g})
      BY <1>5, <2>2, FS_Subset, FS_CardinalityType
    <2>4. Cardinality(HeldGranules(w) \cup {g}) \in Nat
      BY InflightCounts, OneMore
    <2>5. Cardinality(HeldGranules(w)') <= Cardinality(HeldGranules(w)) + 1
      BY <2>2, <2>3, <2>4, InflightCounts
    <2> QED
      BY <1>3, <1>7, <2>1, <2>3, <2>5, InflightCounts, MaxInflightAssumption DEF Inflight
  <1> QED
    BY <1>6, <1>7

\* An upload turns a held granule into a stored one of the same worker.
LEMMA UploadKeepsCap ==
  ASSUME TypeOK, CapInv, NEW w \in Workers, NEW g \in Granules, NEW os \in SUBSET Objects,
         UploadCompleted(w, g, os)
  PROVE  CapInv'
  <1>1. /\ granule[g].leased_by = w /\ IsLeased(granule[g])
        /\ rows' = [rows EXCEPT ![g] = @ \cup os]
        /\ \A o \in os : host[o] = NoWorker
        /\ \A o \in Objects : host'[o] = IF o \in os THEN w ELSE host[o]
        /\ deleted' = deleted
    BY DEF UploadCompleted, MayReport, AcceptedFrom, IsLeased, LeasedStates
  <1>2. \A h \in Granules : \A o \in rows'[h] :
          \/ o \in rows[h] /\ host'[o] = host[o] /\ host[o] # NoWorker
          \/ h = g /\ o \in os /\ host'[o] = w
    BY <1>1 DEF CapInv, RowsHaveHost, TypeOK
  <1>3. RowsHaveHost'
    BY <1>2, NoWorkerAssumption DEF RowsHaveHost
  <1>4. \A h \in Granules : Holds(h)
    BY ReleasedRow DEF TypeOK, UploadCompleted, Holds, IsLeased, GranuleStateSet, LeasedStates
  <1>5. ~ IsLeased(granule'[g])
    BY ReleasedRow DEF TypeOK, UploadCompleted, IsLeased, GranuleStateSet, LeasedStates
  <1>6. \A v \in Workers : HeldGranules(v)' \subseteq HeldGranules(v) \ {g}
    BY <1>4, <1>5 DEF HeldGranules, HeldBy, Holds
  <1>7. \A v \in Workers : StoredGranules(v)' \subseteq StoredGranules(v) \cup (IF v = w THEN {g} ELSE {})
    BY <1>1, <1>2 DEF StoredGranules
  <1> SUFFICES ASSUME MaxInflight # 0, NEW v \in Workers PROVE Inflight(v)' <= MaxInflight
    BY <1>3 DEF CapInv, InflightCapped
  <1>8. Inflight(v) <= MaxInflight
    BY DEF CapInv, InflightCapped
  <1>9. CASE v # w
    <2>1. /\ Cardinality(HeldGranules(v)') \in Nat
          /\ Cardinality(HeldGranules(v)') <= Cardinality(HeldGranules(v))
      BY <1>6, InflightCounts, FS_Subset, FS_CardinalityType
    <2>2. StoredGranules(v)' \subseteq StoredGranules(v)
      BY <1>7, <1>9
    <2>3. /\ Cardinality(StoredGranules(v)') \in Nat
          /\ Cardinality(StoredGranules(v)') <= Cardinality(StoredGranules(v))
      BY <2>2, InflightCounts, FS_Subset, FS_CardinalityType
    <2> QED
      BY <1>8, <2>1, <2>3, InflightCounts, MaxInflightAssumption DEF Inflight
  <1>10. CASE v = w
    <2>1. g \in HeldGranules(w)
      BY <1>1 DEF HeldGranules, HeldBy
    <2>2. /\ IsFiniteSet(HeldGranules(w) \ {g})
          /\ Cardinality(HeldGranules(w) \ {g}) = Cardinality(HeldGranules(w)) - 1
      BY <2>1, InflightCounts, FS_RemoveElement
    <2>3. /\ Cardinality(HeldGranules(w)') \in Nat
          /\ Cardinality(HeldGranules(w)') <= Cardinality(HeldGranules(w) \ {g})
      BY <1>6, <2>2, FS_Subset, FS_CardinalityType
    <2>4. /\ IsFiniteSet(StoredGranules(w) \cup {g})
          /\ Cardinality(StoredGranules(w) \cup {g}) <= Cardinality(StoredGranules(w)) + 1
      BY InflightCounts, OneMore
    <2>5. StoredGranules(w)' \subseteq StoredGranules(w) \cup {g}
      BY <1>7
    <2>6. /\ Cardinality(StoredGranules(w)') \in Nat
          /\ Cardinality(StoredGranules(w)') <= Cardinality(StoredGranules(w) \cup {g})
      BY <2>4, <2>5, FS_Subset, FS_CardinalityType
    <2>7. Cardinality(StoredGranules(w) \cup {g}) \in Nat
      BY InflightCounts, OneMore
    <2>8. Cardinality(StoredGranules(w)') <= Cardinality(StoredGranules(w)) + 1
      BY <2>4, <2>6, <2>7, InflightCounts
    <2> QED
      BY <1>8, <1>10, <2>2, <2>3, <2>6, <2>8, InflightCounts, MaxInflightAssumption DEF Inflight
  <1> QED
    BY <1>9, <1>10

\* Every other step that touches objects drops rows or stamps them.
LEMMA RowsShrink ==
  ASSUME [Next]_vars,
         ~ \E w \in Workers, g \in Granules, os \in SUBSET Objects : UploadCompleted(w, g, os)
  PROVE  /\ host' = host
         /\ \A g \in Granules : rows'[g] \subseteq rows[g] /\ rows'[g] \ deleted' \subseteq rows[g] \ deleted
  <1> USE DEF objVars
  <1> DEFINE Shrunk == /\ host' = host
                       /\ \A g \in Granules : /\ rows'[g] \subseteq rows[g]
                                              /\ rows'[g] \ deleted' \subseteq rows[g] \ deleted
  <1>1. ASSUME NEW os, DropObjects(os) PROVE Shrunk
    BY <1>1 DEF DropObjects
  <1>2. ASSUME OperatorStep PROVE Shrunk
    <2>1. CASE \E force \in BOOLEAN : DeleteBatch(force)
      BY <1>1, <2>1 DEF DeleteBatch
    <2>2. CASE RequeueUndeliverable
      BY <1>1, <2>2 DEF RequeueUndeliverable
    <2>3. CASE \E w \in Workers, flag \in BOOLEAN : RemoveWorker(w, flag)
      BY <2>3 DEF RemoveWorker
    <2>4. CASE UNCHANGED <<rows, host, deleted>>
      BY <2>4
    <2>5. \/ UNCHANGED <<rows, host, deleted>>
          \/ \E force \in BOOLEAN : DeleteBatch(force)
          \/ RequeueUndeliverable
          \/ \E w \in Workers, flag \in BOOLEAN : RemoveWorker(w, flag)
      BY <1>2 DEF OperatorStep, CreateBatch, AddGranules, Cancel, Retry, SetBatchStatus,
         ResetPullFailures, RevokeAll, SetPaused, PurgeWorker
    <2> QED
      BY <2>1, <2>2, <2>3, <2>4, <2>5
  <1>3. ASSUME BackgroundStep PROVE Shrunk
    <2>1. CASE \E live \in SUBSET Workers : SweepOrphanedAcked(live)
      BY <2>1 DEF SweepOrphanedAcked, DeletePath
    <2>2. CASE \E S \in SUBSET Granules, ws \in SUBSET Workers : Retention(S, ws)
      BY <1>1, <2>2 DEF Retention
    <2>3. CASE SweepExpiredLeases \/ \E g \in Granules : ExpireLease(g) \/ GraceElapses(g)
      BY <2>3 DEF SweepExpiredLeases, ExpireLease, GraceElapses
    <2> QED
      BY <1>3, <2>1, <2>2, <2>3 DEF BackgroundStep
  <1>4. ASSUME NEW w \in Workers, WorkerStep(w) PROVE Shrunk
    <2>1. CASE \E g \in Granules, ok \in BOOLEAN : ConfirmDelete(w, g, ok)
      BY <2>1 DEF ConfirmDelete, DeletePath
    <2>2. CASE UNCHANGED <<rows, host, deleted>>
      BY <2>2
    <2>3. \/ UNCHANGED <<rows, host, deleted>>
          \/ \E g \in Granules, ok \in BOOLEAN : ConfirmDelete(w, g, ok)
      BY <1>4 DEF WorkerStep, Register, Crash, SendBeat, PollDeletable, LoseBeat, ServeBeat,
         Lease, HandlerEnds, ProcessingFailed, StageEvent, ReceiveOffer
    <2> QED
      BY <2>1, <2>2, <2>3
  <1>5. ASSUME NEW o \in Objects, ReceiverStep(o) PROVE Shrunk
    BY <1>5 DEF ReceiverStep, Receive, PullFails, Ack
  <1>6. CASE UNCHANGED vars
    BY <1>6 DEF vars
  <1> QED
    BY <1>2, <1>3, <1>4, <1>5, <1>6 DEF Next

LEMMA StepCapped == TypeOK /\ CapInv /\ [Next]_vars => CapInv'
  <1> SUFFICES ASSUME TypeOK, CapInv, [Next]_vars PROVE CapInv'
    OBVIOUS
  <1>1. CASE \E w \in Workers, g \in Granules, os \in SUBSET Objects : UploadCompleted(w, g, os)
    BY <1>1, UploadKeepsCap
  <1>2. CASE \E w \in Workers, g \in Granules : Lease(w, g)
    BY <1>2, LeaseKeepsCap
  <1>3. CASE /\ ~ \E w \in Workers, g \in Granules, os \in SUBSET Objects : UploadCompleted(w, g, os)
             /\ ~ \E w \in Workers, g \in Granules : Lease(w, g)
    <2>1. /\ host' = host
          /\ \A g \in Granules : /\ rows'[g] \subseteq rows[g]
                                 /\ rows'[g] \ deleted' \subseteq rows[g] \ deleted
      BY <1>3, RowsShrink
    <2>2. RowsHaveHost'
      BY <2>1 DEF CapInv, RowsHaveHost
    <2>3. \A w \in Workers : StoredGranules(w)' \subseteq StoredGranules(w)
      BY <2>1 DEF StoredGranules
    <2>4. \/ \A g \in Granules : Holds(g)
          \/ \E g \in Granules : GraceElapses(g)
      BY <1>3, StepHolds
    <2>5. \A w \in Workers : HeldGranules(w)' \subseteq HeldGranules(w)
      BY <2>4 DEF GraceElapses, TypeOK, Rows, Holds, HeldGranules, HeldBy, IsLeased
    <2> QED
      BY <2>2, <2>3, <2>5, CapShrinks DEF CapInv
  <1> QED
    BY <1>1, <1>2, <1>3

\* No worker ever holds more than the cap, counted from the claim to the deletion of its
\* files (worker_leases.py, count_worker_inflight): an upload hands its granule from the
\* one count to the other, and nothing but the claim, which checks, adds to both.
THEOREM CapHolds == Spec => []InflightCapped
  <1>1. Init => CapInv
    <2> SUFFICES ASSUME Init PROVE CapInv
      OBVIOUS
    <2>1. RowsHaveHost
      BY DEF Init, RowsHaveHost
    <2>2. \A w \in Workers : HeldGranules(w) = {} /\ StoredGranules(w) = {}
      BY DEF Init, NoRow, HeldGranules, HeldBy, IsLeased, LeasedStates, StoredGranules
    <2>3. \A w \in Workers : Cardinality(HeldGranules(w)) = 0 /\ Cardinality(StoredGranules(w)) = 0
      BY <2>2, FS_EmptySet
    <2>4. ASSUME NEW w \in Workers PROVE Inflight(w) = 0
      <3>1. Cardinality(HeldGranules(w)) = 0 /\ Cardinality(StoredGranules(w)) = 0
        BY <2>3
      <3> QED
        BY <3>1 DEF Inflight
    <2> QED
      BY <2>1, <2>4, MaxInflightAssumption DEF CapInv, InflightCapped
  <1>2. CapInv => InflightCapped
    BY DEF CapInv
  <1> QED
    BY <1>1, <1>2, StepCapped, TypeCorrect, PTL DEF Spec

-----------------------------------------------------------------------------
(* The reconcile.                                                            *)

ReclaimInv == OffersAreFresh /\ ReportsCover

\* Leases that stay as they are leave the reports true, as long as no handler starts,
\* no reply and no report is sent.
LEMMA HeldReclaim ==
  ASSUME TypeOK, ReclaimInv, \A g \in Granules : Holds(g),
         offers' \subseteq offers, beats' \subseteq beats,
         \A w \in Workers : handlers'[w] \subseteq handlers[w]
  PROVE  ReclaimInv'
  <1>1. OffersAreFresh'
    <2> SUFFICES ASSUME NEW x \in offers', HeldBy(granule'[x[2]], x[1]) PROVE granule'[x[2]].fresh
      BY DEF OffersAreFresh
    <2>1. x \in offers /\ x[2] \in Granules
      BY DEF TypeOK
    <2> QED
      BY <2>1 DEF ReclaimInv, OffersAreFresh, Holds, HeldBy
  <1>2. ReportsCover'
    <2> SUFFICES ASSUME NEW b \in beats', NEW g \in HeldGranules(b[1])' \cap handlers'[b[1]]
                 PROVE  granule'[g].fresh \/ g \in b[2]
      BY DEF ReportsCover
    <2>1. b \in beats /\ b[1] \in Workers
      BY DEF TypeOK
    <2>2. g \in Granules /\ g \in HeldGranules(b[1]) /\ g \in handlers[b[1]]
      BY <2>1 DEF HeldGranules, HeldBy, Holds
    <2> QED
      BY <2>1, <2>2 DEF ReclaimInv, ReportsCover, Holds, HeldGranules, HeldBy
  <1> QED
    BY <1>1, <1>2 DEF ReclaimInv

\* The claim starts a new grace.
LEMMA LeaseReclaim ==
  ASSUME TypeOK, ReclaimInv, NEW w \in Workers, NEW g \in Granules, Lease(w, g)
  PROVE  ReclaimInv'
  <1>1. /\ granule'[g] = Claimed(granule[g], w) /\ \A h \in Granules \ {g} : granule'[h] = granule[h]
        /\ Claimed(granule[g], w).fresh
    BY DEF Lease, TypeOK, Rows, Claimed
  <1>2. offers' = offers \cup {<<w, g>>} /\ handlers' = handlers /\ beats' = beats
    BY DEF Lease
  <1>3. OffersAreFresh'
    BY <1>1, <1>2 DEF ReclaimInv, OffersAreFresh, TypeOK
  <1>4. ReportsCover'
    BY <1>1, <1>2 DEF ReclaimInv, ReportsCover, HeldGranules
  <1> QED
    BY <1>3, <1>4 DEF ReclaimInv

\* The grace has passed only when the replies and reports of before have arrived.
LEMMA GraceReclaim ==
  ASSUME TypeOK, ReclaimInv, NEW g \in Granules, GraceElapses(g)
  PROVE  ReclaimInv'
  <1> USE DEF procVars
  <1>1. /\ \A h \in Granules \ {g} : granule'[h] = granule[h]
        /\ granule'[g].leased_by = granule[g].leased_by
    BY DEF GraceElapses, TypeOK, Rows
  <1>2. /\ offers' = offers /\ handlers' = handlers /\ beats' = beats
        /\ \A w \in Workers : <<w, g>> \notin offers
        /\ \A b \in beats : b[1] = granule[g].leased_by => g \in b[2]
    BY DEF GraceElapses
  <1>3. OffersAreFresh'
    <2> SUFFICES ASSUME NEW x \in offers, HeldBy(granule'[x[2]], x[1]) PROVE granule'[x[2]].fresh
      BY <1>2 DEF OffersAreFresh
    <2>1. x[2] \in Granules /\ x[2] # g
      BY <1>2 DEF TypeOK
    <2> QED
      BY <1>1, <2>1 DEF ReclaimInv, OffersAreFresh
  <1>4. ReportsCover'
    BY <1>1, <1>2 DEF ReclaimInv, ReportsCover, HeldGranules, HeldBy
  <1> QED
    BY <1>3, <1>4 DEF ReclaimInv

\* A handler starts from a reply, which is fresh; a report has every handler.
LEMMA OfferReclaim ==
  ASSUME TypeOK, ReclaimInv, NEW w \in Workers, NEW g \in Granules, NEW ok \in BOOLEAN,
         ReceiveOffer(w, g, ok)
  PROVE  ReclaimInv'
  <1>1. /\ <<w, g>> \in offers /\ offers' \subseteq offers /\ beats' = beats /\ granule' = granule
        /\ \A v \in Workers : handlers'[v] \subseteq handlers[v] \cup (IF v = w THEN {g} ELSE {})
    BY DEF ReceiveOffer, TypeOK
  <1>2. OffersAreFresh'
    BY <1>1 DEF ReclaimInv, OffersAreFresh
  <1>3. HeldBy(granule[g], w) => granule[g].fresh
    BY <1>1 DEF ReclaimInv, OffersAreFresh
  <1>4. ReportsCover'
    <2> SUFFICES ASSUME NEW b \in beats, NEW h \in HeldGranules(b[1]) \cap handlers'[b[1]]
                 PROVE  granule[h].fresh \/ h \in b[2]
      BY <1>1 DEF ReportsCover, HeldGranules
    <2>1. b[1] \in Workers
      BY DEF TypeOK
    <2>2. h \in handlers[b[1]] \/ (b[1] = w /\ h = g)
      BY <1>1, <2>1
    <2> QED
      BY <1>3, <2>2 DEF ReclaimInv, ReportsCover, HeldGranules
  <1> QED
    BY <1>2, <1>4 DEF ReclaimInv

LEMMA BeatReclaim ==
  ASSUME TypeOK, ReclaimInv, NEW w \in Workers, SendBeat(w)
  PROVE  ReclaimInv'
  <1>1. /\ beats' = beats \cup {<<w, ActiveIds(w)>>} /\ handlers[w] \subseteq ActiveIds(w)
        /\ UNCHANGED <<granule, handlers, offers>>
    BY DEF SendBeat, ActiveIds
  <1> QED
    BY <1>1 DEF ReclaimInv, OffersAreFresh, ReportsCover, HeldGranules

\* Nothing else sends a reply or a report, or starts a handler.
LEMMA ProcsShrink ==
  ASSUME TypeOK, [Next]_vars,
         ~ \E w \in Workers, g \in Granules : Lease(w, g),
         ~ \E w \in Workers, g \in Granules, ok \in BOOLEAN : ReceiveOffer(w, g, ok),
         ~ \E w \in Workers : SendBeat(w)
  PROVE  /\ offers' \subseteq offers /\ beats' \subseteq beats
         /\ \A w \in Workers : handlers'[w] \subseteq handlers[w]
  <1> USE DEF procVars
  <1> DEFINE Shrunk == /\ offers' \subseteq offers /\ beats' \subseteq beats
                       /\ \A w \in Workers : handlers'[w] \subseteq handlers[w]
  <1>1. ASSUME UNCHANGED <<offers, beats, handlers>> PROVE Shrunk
    BY <1>1
  <1>2. ASSUME OperatorStep PROVE Shrunk
    BY <1>1, <1>2 DEF OperatorStep, CreateBatch, AddGranules, Cancel, Retry, SetBatchStatus,
       DeleteBatch, RequeueUndeliverable, ResetPullFailures, RevokeAll, SetPaused, RemoveWorker,
       PurgeWorker
  <1>3. ASSUME BackgroundStep PROVE Shrunk
    BY <1>1, <1>3 DEF BackgroundStep, SweepExpiredLeases, SweepOrphanedAcked, Retention,
       ExpireLease, GraceElapses
  <1>4. ASSUME NEW w \in Workers, WorkerStep(w) PROVE Shrunk
    <2>1. CASE Crash(w)
      BY <2>1 DEF Crash, TypeOK
    <2>2. CASE \E A \in SUBSET Granules : LoseBeat(<<w, A>>)
      BY <2>2 DEF LoseBeat
    <2>3. CASE \E A \in SUBSET Granules, arrives \in BOOLEAN : ServeBeat(w, A, arrives)
      BY <2>3 DEF ServeBeat, TypeOK
    <2>4. CASE \E g \in Granules : HandlerEnds(w, g)
      BY <2>4 DEF HandlerEnds, TypeOK
    <2>5. CASE UNCHANGED <<offers, beats, handlers>>
      BY <1>1, <2>5
    <2>6. \/ UNCHANGED <<offers, beats, handlers>> \/ Crash(w)
          \/ \E A \in SUBSET Granules : LoseBeat(<<w, A>>)
          \/ \E A \in SUBSET Granules, arrives \in BOOLEAN : ServeBeat(w, A, arrives)
          \/ \E g \in Granules : HandlerEnds(w, g)
      BY <1>4 DEF WorkerStep, Register, PollDeletable, ProcessingFailed, StageEvent,
         UploadCompleted, ConfirmDelete
    <2> QED
      BY <2>1, <2>2, <2>3, <2>4, <2>5, <2>6
  <1>5. ASSUME NEW o \in Objects, ReceiverStep(o) PROVE Shrunk
    BY <1>1, <1>5 DEF ReceiverStep, Receive, PullFails, Ack
  <1>6. CASE UNCHANGED vars
    BY <1>1, <1>6 DEF vars
  <1> QED
    BY <1>2, <1>3, <1>4, <1>5, <1>6 DEF Next

LEMMA StepReclaim == TypeOK /\ ReclaimInv /\ [Next]_vars => ReclaimInv'
  <1> SUFFICES ASSUME TypeOK, ReclaimInv, [Next]_vars PROVE ReclaimInv'
    OBVIOUS
  <1>1. CASE \E w \in Workers, g \in Granules : Lease(w, g)
    BY <1>1, LeaseReclaim
  <1>2. CASE \E g \in Granules : GraceElapses(g)
    BY <1>2, GraceReclaim
  <1>3. CASE \E w \in Workers, g \in Granules, ok \in BOOLEAN : ReceiveOffer(w, g, ok)
    BY <1>3, OfferReclaim
  <1>4. CASE \E w \in Workers : SendBeat(w)
    BY <1>4, BeatReclaim
  <1>5. CASE /\ ~ \E w \in Workers, g \in Granules : Lease(w, g)
             /\ ~ \E g \in Granules : GraceElapses(g)
             /\ ~ \E w \in Workers, g \in Granules, ok \in BOOLEAN : ReceiveOffer(w, g, ok)
             /\ ~ \E w \in Workers : SendBeat(w)
    BY <1>5, StepHolds, ProcsShrink, HeldReclaim
  <1> QED
    BY <1>1, <1>2, <1>3, <1>4, <1>5

\* What the reconcile takes is past the grace and not in the report.
LEMMA ReclaimedIsIdle ==
  ASSUME TypeOK, ReclaimInv, NEW w \in Workers, NEW A \in SUBSET Granules,
         NEW arrives \in BOOLEAN, ServeBeat(w, A, arrives),
         NEW g \in HeldGranules(w), granule'[g].state = "pending"
  PROVE  g \notin handlers[w]
  <1>1. g \in Granules /\ granule[g].state # "pending"
    BY DEF HeldGranules, HeldBy, IsLeased, LeasedStates
  <1>2. granule[g] \in Rows
    BY <1>1 DEF TypeOK
  <1>3. [granule[g] EXCEPT !.lease = "live"].state = granule[g].state
    BY <1>2 DEF Rows
  <1>4. g \in Reclaimable(w, A)
    BY <1>1, <1>3 DEF ServeBeat
  <1>5. <<w, A>> \in beats
    BY DEF ServeBeat
  <1> QED
    BY <1>4, <1>5 DEF Reclaimable, ReclaimInv, ReportsCover

\* The heartbeat's reconcile (worker_leases.py, reclaim_inactive_leases) takes a granule
\* only from a worker that has no handler for it: whatever was lost, late or leased again
\* since the report was made, a lease that the report does not cover and that is past its
\* grace was not being worked on.
THEOREM ReclaimIsSafe == Spec => NoReclaimOfLiveWork
  <1>1. Init => ReclaimInv
    BY DEF Init, ReclaimInv, OffersAreFresh, ReportsCover
  <1>2. TypeOK /\ ReclaimInv =>
          \A w \in Workers, A \in SUBSET Granules :
            ServeBeat(w, A, TRUE) \/ ServeBeat(w, A, FALSE) =>
              \A g \in HeldGranules(w) : granule'[g].state = "pending" => g \notin handlers[w]
    BY ReclaimedIsIdle
  <1> QED
    BY <1>1, <1>2, StepReclaim, TypeCorrect, PTL DEF Spec, NoReclaimOfLiveWork

-----------------------------------------------------------------------------
(* Delivery.                                                                 *)

\* States in which a granule has no objects and is not done.
WorkStates == LeasedStates \cup RetryableStates \cup {"pending"}

\* What an action may do to a row without disturbing the delivery: nothing that
\* counts, or a move within the states of a granule without objects.
Keeps(g) == /\ granule'[g].state = granule[g].state
            /\ granule'[g].leased_by = granule[g].leased_by
            /\ granule'[g].lease = granule[g].lease
Works(g) == /\ granule[g].state \in WorkStates
            /\ granule'[g].state \in WorkStates
            /\ Disciplined(granule'[g])

LEMMA WorkMoves ==
  ASSUME TypeOK, DeliveryInv,
         \A g \in Granules : Keeps(g) \/ Works(g),
         confirms' \subseteq confirms,
         UNCHANGED <<rows, host, acked, deleted, known, retired, receipts, received>>,
         batch' = "absent" => batch = "absent"
  PROVE  DeliveryInv'
  <1> USE DEF WorkStates, LeasedStates, RetryableStates
  <1>1. LeaseDiscipline'
    BY DEF DeliveryInv, LeaseDiscipline, Keeps, Works, Disciplined, IsLeased
  <1>2. NoStaleObjects'
    BY DEF DeliveryInv, NoStaleObjects, Keeps, Works
  <1>3. DeliveredMeansReceived'
    BY DEF DeliveryInv, DeliveredMeansReceived, Keeps, Works
  <1>4. ConfirmGated'
    BY DEF DeliveryInv, ConfirmGated, Keeps, Works, TypeOK
  <1>5. ReceiptPerAck' /\ OneUpload' /\ ObjectRows'
    BY DEF DeliveryInv, ReceiptPerAck, OneUpload, ObjectRows
  <1>6. DeletedIsClean' /\ UploadedIsWaiting'
    BY DEF DeliveryInv, DeletedIsClean, UploadedIsWaiting, Keeps, Works
  <1>7. GranulesKnown' /\ BatchOwnsRows'
    BY DEF DeliveryInv, GranulesKnown, BatchOwnsRows, Keeps, Works, TypeOK
  <1> QED
    BY <1>1, <1>2, <1>3, <1>4, <1>5, <1>6, <1>7 DEF DeliveryInv

\* Rows a handler rewrites with an operation that leaves a disciplined working row.
LEMMA RevokedWork ==
  ASSUME TypeOK, NEW w, RevokeLeases(w)
  PROVE  \A g \in Granules : Keeps(g) \/ Works(g)
  BY RevokedRow DEF TypeOK, RevokeLeases, Rewritten, Keeps, Works, HeldGranules, HeldBy,
     IsLeased, WorkStates, LeasedStates

LEMMA InitDelivery == Init => DeliveryInv
  BY DEF Init, NoRow, DeliveryInv, LeaseDiscipline, IsLeased, LeasedStates, NoStaleObjects,
     DeliveredMeansReceived, ConfirmGated, ReceiptPerAck, DeletedIsClean, GranulesKnown,
     ObjectRows, OneUpload, UploadedIsWaiting, BatchOwnsRows

-----------------------------------------------------------------------------
(* The actions that touch objects or the delivered states.                   *)

LEMMA UploadStep ==
  ASSUME TypeOK, DeliveryInv, NEW w \in Workers, NEW h \in Granules, NEW os \in SUBSET Objects,
         UploadCompleted(w, h, os)
  PROVE  DeliveryInv'
  <1> USE DEF ledgerVars, batchVars, procVars
  <1>1. granule[h].state \in LeasedStates /\ rows[h] = {}
    BY DEF UploadCompleted, AcceptedFrom, LeasedStates, DeliveryInv, NoStaleObjects
  <1>2. /\ \A g \in Granules \ {h} : granule'[g] = granule[g] /\ rows'[g] = rows[g]
        /\ rows'[h] = os /\ os # {}
        /\ granule'[h].state = "uploaded" /\ Disciplined(granule'[h])
    BY <1>1, ReleasedRow DEF UploadCompleted, TypeOK, GranuleStateSet, LeasedStates
  <1>3. \A o \in os : o \notin acked /\ o \notin deleted /\ \A g \in Granules : o \notin rows[g]
    BY DEF UploadCompleted, DeliveryInv, ObjectRows
  <1>4. \A o \in Objects : host'[o] = IF o \in os THEN w ELSE host[o]
    BY DEF UploadCompleted
  <1>5. UNCHANGED <<acked, deleted, batch, known, retired, receipts, received, confirms>>
    BY DEF UploadCompleted
  <1>6. LeaseDiscipline' /\ NoStaleObjects' /\ DeliveredMeansReceived'
    BY <1>2, <1>5 DEF DeliveryInv, LeaseDiscipline, Disciplined, IsLeased, NoStaleObjects,
       DeliveredMeansReceived
  <1>7. ConfirmGated' /\ ReceiptPerAck' /\ DeletedIsClean'
    BY <1>1, <1>2, <1>5 DEF DeliveryInv, ConfirmGated, ReceiptPerAck, DeletedIsClean, TypeOK,
       LeasedStates
  <1>8. GranulesKnown' /\ BatchOwnsRows'
    BY <1>1, <1>2, <1>5 DEF DeliveryInv, GranulesKnown, BatchOwnsRows, TypeOK, LeasedStates
  <1>9. ObjectRows'
    <2>1. \A g, k \in Granules : rows'[g] \cap rows'[k] # {} => g = k
      BY <1>2, <1>3 DEF DeliveryInv, ObjectRows
    <2>2. \A g \in Granules : \A o \in rows'[g] : host'[o] # NoWorker
      BY <1>2, <1>3, <1>4, NoWorkerAssumption DEF DeliveryInv, ObjectRows, TypeOK
    <2>3. \A o \in acked' \cup deleted' : \E g \in Granules : o \in rows'[g]
      BY <1>1, <1>2, <1>5 DEF DeliveryInv, ObjectRows
    <2> QED
      BY <2>1, <2>2, <2>3 DEF ObjectRows
  <1>10. OneUpload'
    BY <1>2, <1>3, <1>4, <1>5 DEF DeliveryInv, OneUpload, TypeOK
  <1>11. UploadedIsWaiting'
    BY <1>2, <1>3, <1>5 DEF DeliveryInv, UploadedIsWaiting
  <1> QED
    BY <1>6, <1>7, <1>8, <1>9, <1>10, <1>11 DEF DeliveryInv

\* Dropping whole object sets: of granules that go back to work, or that go away.
LEMMA DropStep ==
  ASSUME TypeOK, DeliveryInv, NEW D \in SUBSET Granules,
         \A g \in D : rows'[g] = {},
         \A g \in Granules \ D : rows'[g] = rows[g],
         acked' = acked \ UNION {rows[g] : g \in D},
         deleted' = deleted \ UNION {rows[g] : g \in D},
         UNCHANGED <<host, received>>,
         acked \subseteq receipts', receipts' \subseteq received,
         \A g \in Granules \ D : Keeps(g),
         \A g \in D : \/ Keeps(g)
                      \/ Disciplined(granule'[g]) /\ granule'[g].state = "absent"
                      \/ /\ Disciplined(granule'[g])
                         /\ granule[g].state = "uploaded" /\ granule'[g].state = "pending",
         GranulesKnown', BatchOwnsRows', confirms' = confirms
  PROVE  DeliveryInv'
  <1> DEFINE X == UNION {rows[g] : g \in D}
  <1>1. \A g \in Granules \ D : rows[g] \cap X = {}
    BY DEF DeliveryInv, ObjectRows
  <1>2. acked' = acked \ X /\ deleted' = deleted \ X
    OBVIOUS
  <1> HIDE DEF X
  <1>3. LeaseDiscipline' /\ NoStaleObjects'
    BY DEF DeliveryInv, LeaseDiscipline, Disciplined, IsLeased, NoStaleObjects, Keeps
  <1>4. DeliveredMeansReceived' /\ DeletedIsClean' /\ UploadedIsWaiting'
    BY <1>1, <1>2 DEF DeliveryInv, DeliveredMeansReceived, DeletedIsClean, UploadedIsWaiting, Keeps
  <1>5. ConfirmGated' /\ ReceiptPerAck'
    BY <1>2 DEF DeliveryInv, ConfirmGated, ReceiptPerAck, Keeps, TypeOK
  <1>6. OneUpload'
    BY <1>1, <1>2 DEF DeliveryInv, OneUpload, TypeOK
  <1>7. ObjectRows'
    <2>1. \A o \in acked' \cup deleted' : \E g \in Granules \ D : o \in rows[g]
      BY <1>2 DEF X, DeliveryInv, ObjectRows
    <2> QED
      BY <2>1 DEF DeliveryInv, ObjectRows
  <1> QED
    BY <1>3, <1>4, <1>5, <1>6, <1>7 DEF DeliveryInv

LEMMA AckStep ==
  ASSUME TypeOK, DeliveryInv, NEW o \in Objects, Ack(o)
  PROVE  DeliveryInv'
  <1> USE DEF batchVars, procVars
  <1>1. PICK g \in Granules :
          /\ o \in rows[g]
          /\ acked' = acked \cup {o}
          /\ granule' = IF AckGate(g, acked \cup {o})
                        THEN [granule EXCEPT ![g].state = "acked"] ELSE granule
    BY DEF Ack
  <1>2. /\ o \in received /\ receipts' = receipts \cup {o}
        /\ UNCHANGED <<rows, host, deleted, batch, known, retired, received, confirms>>
    BY DEF Ack
  <1>3. /\ \A k \in Granules \ {g} : granule'[k] = granule[k] /\ o \notin rows[k]
        /\ \/ granule'[g] = granule[g]
              /\ (granule[g].state = "uploaded" => ~ rows[g] \subseteq acked')
           \/ /\ granule[g].state = "uploaded" /\ rows[g] \subseteq acked'
              /\ granule'[g] = [granule[g] EXCEPT !.state = "acked"]
    BY <1>1 DEF AckGate, TypeOK, DeliveryInv, ObjectRows
  <1>4. \/ granule'[g] = granule[g]
        \/ granule'[g].state = "acked" /\ Disciplined(granule'[g])
    <2>1. ~ IsLeased(granule[g]) => Disciplined([granule[g] EXCEPT !.state = "acked"])
      BY MovedRow DEF TypeOK, DeliveryInv, LeaseDiscipline, Disciplined, GranuleStateSet,
         LeasedStates
    <2> QED
      BY <1>3, <2>1 DEF IsLeased, LeasedStates, TypeOK, Rows
  <1>5. LeaseDiscipline' /\ NoStaleObjects'
    BY <1>2, <1>3, <1>4 DEF DeliveryInv, LeaseDiscipline, Disciplined, IsLeased, NoStaleObjects
  <1>6. ReceiptPerAck' /\ OneUpload' /\ ObjectRows'
    BY <1>1, <1>2 DEF DeliveryInv, ReceiptPerAck, OneUpload, ObjectRows
  <1>7. DeliveredMeansReceived' /\ DeletedIsClean'
    BY <1>1, <1>2, <1>3, <1>4 DEF DeliveryInv, DeliveredMeansReceived, DeletedIsClean,
       ReceiptPerAck
  <1>8. UploadedIsWaiting'
    <2> SUFFICES ASSUME NEW k \in Granules, granule'[k].state = "uploaded", rows[k] # {}
                 PROVE  ~ rows[k] \subseteq acked'
      BY <1>2 DEF UploadedIsWaiting
    <2>1. CASE k = g
      BY <1>3, <2>1 DEF TypeOK, Rows
    <2>2. CASE k # g
      BY <1>1, <1>3, <2>2 DEF DeliveryInv, UploadedIsWaiting
    <2> QED
      BY <2>1, <2>2
  <1>9. ConfirmGated' /\ GranulesKnown' /\ BatchOwnsRows'
    BY <1>2, <1>3, <1>4 DEF DeliveryInv, ConfirmGated, GranulesKnown, BatchOwnsRows, TypeOK
  <1> QED
    BY <1>5, <1>6, <1>7, <1>8, <1>9 DEF DeliveryInv

\* The counted path, used on granules whose delivery is complete.
LEMMA DeleteStep ==
  ASSUME TypeOK, DeliveryInv, NEW S \in SUBSET Granules,
         \A g \in S : granule[g].state \in {"acked", "deleted", "absent"},
         DeletePath(S), confirms' \subseteq confirms,
         UNCHANGED <<rows, host, acked, batch, known, retired, receipts, received>>
  PROVE  DeliveryInv'
  <1> DEFINE flipped == {g \in S : granule[g].state \notin {"deleted", "absent"}}
  <1>1. /\ \A g \in flipped : /\ granule[g].state = "acked"
                              /\ granule'[g] = [granule[g] EXCEPT !.state = "deleted"]
        /\ \A g \in Granules \ flipped : granule'[g] = granule[g]
        /\ deleted' = deleted \cup {o \in Objects : \E g \in flipped : o \in rows[g]}
    BY DEF DeletePath, TypeOK
  <1>a. flipped \subseteq Granules
    OBVIOUS
  <1> HIDE DEF flipped
  <1>2. \A g \in flipped : granule'[g].state = "deleted" /\ Disciplined(granule'[g])
    <2> SUFFICES ASSUME NEW g \in flipped
                 PROVE  granule'[g].state = "deleted" /\ Disciplined(granule'[g])
      OBVIOUS
    <2>1. granule[g] \in Rows /\ Disciplined(granule[g]) /\ ~ IsLeased(granule[g])
      BY <1>a, <1>1 DEF TypeOK, DeliveryInv, LeaseDiscipline, Disciplined, IsLeased, LeasedStates
    <2>2. "deleted" \in GranuleStateSet \ LeasedStates
      BY DEF GranuleStateSet, LeasedStates
    <2>3. /\ [granule[g] EXCEPT !.state = "deleted"].state = "deleted"
          /\ Disciplined([granule[g] EXCEPT !.state = "deleted"])
      BY <2>1, <2>2, MovedRow
    <2> QED
      BY <1>1, <2>3
  <1>3. LeaseDiscipline' /\ NoStaleObjects' /\ DeliveredMeansReceived'
    BY <1>1, <1>2 DEF DeliveryInv, LeaseDiscipline, Disciplined, IsLeased, NoStaleObjects,
       DeliveredMeansReceived
  <1>4. ConfirmGated' /\ GranulesKnown' /\ BatchOwnsRows' /\ ReceiptPerAck'
    BY <1>1, <1>2 DEF DeliveryInv, ConfirmGated, GranulesKnown, BatchOwnsRows, ReceiptPerAck,
       TypeOK
  <1>5. DeletedIsClean' /\ UploadedIsWaiting'
    <2>1. DeletedIsClean'
      BY <1>a, <1>1, <1>2 DEF DeliveryInv, DeletedIsClean, TypeOK
    <2>2. UploadedIsWaiting'
      BY <1>a, <1>1, <1>2 DEF DeliveryInv, UploadedIsWaiting
    <2> QED
      BY <2>1, <2>2
  <1>6. ObjectRows' /\ OneUpload'
    <2>1. \A g \in Granules : \A o \in rows[g] :
            o \in deleted' <=> o \in deleted \/ g \in flipped
      BY <1>a, <1>1 DEF DeliveryInv, ObjectRows, TypeOK
    <2>2. OneUpload'
      BY <2>1 DEF DeliveryInv, OneUpload
    <2>3. \A o \in deleted' : \E g \in Granules : o \in rows[g]
      BY <1>a, <1>1 DEF DeliveryInv, ObjectRows
    <2> QED
      BY <2>2, <2>3 DEF DeliveryInv, ObjectRows
  <1> QED
    BY <1>3, <1>4, <1>5, <1>6 DEF DeliveryInv

LEMMA PollStep ==
  ASSUME TypeOK, DeliveryInv, NEW w \in Workers, PollDeletable(w)
  PROVE  DeliveryInv'
  <1> USE DEF objVars, batchVars, ledgerVars
  <1>1. \A g \in Granules : Deletable(w, g) => granule[g].state \in {"acked", "deleted"}
    <2> SUFFICES ASSUME NEW g \in Granules, Deletable(w, g)
                 PROVE  granule[g].state \in {"acked", "deleted"}
      OBVIOUS
    <2>1. rows[g] # {} /\ rows[g] \cap deleted = {}
      BY DEF Deletable, DeliveryInv, OneUpload
    <2>2. rows[g] \subseteq acked
      BY <2>1 DEF Deletable, AllAcked
    <2> QED
      BY <2>1, <2>2 DEF DeliveryInv, NoStaleObjects, UploadedIsWaiting
  <1>2. /\ confirms' = confirms \cup {<<w, g>> : g \in {x \in Granules : Deletable(w, x)}}
        /\ UNCHANGED <<granule, rows, host, acked, deleted, batch, known, retired, receipts,
                       received>>
    BY DEF PollDeletable
  <1>3. ConfirmGated' /\ GranulesKnown'
    BY <1>1, <1>2 DEF DeliveryInv, ConfirmGated, GranulesKnown
  <1> QED
    BY <1>2, <1>3 DEF DeliveryInv, LeaseDiscipline, NoStaleObjects, DeliveredMeansReceived,
       ReceiptPerAck, DeletedIsClean, ObjectRows, OneUpload, UploadedIsWaiting, BatchOwnsRows

\* A removed worker's leases go back and its objects are stamped: objects of granules
\* in any state, the whole granule at a time.
LEMMA ForcedRemovalStep ==
  ASSUME TypeOK, DeliveryInv, NEW w \in Workers, RemoveWorker(w, TRUE)
  PROVE  DeliveryInv'
  <1> USE DEF batchVars, ledgerVars, procVars
  <1>1. \A g \in Granules : Keeps(g) \/ Works(g)
    BY RevokedWork DEF RemoveWorker
  <1>2. /\ deleted' = deleted \cup {o \in Objects : host[o] = w
                                      /\ \E g \in Granules : o \in rows[g]}
        /\ UNCHANGED <<rows, host, acked, batch, known, retired, receipts, received, confirms>>
    BY DEF RemoveWorker
  <1>3. LeaseDiscipline' /\ NoStaleObjects' /\ DeliveredMeansReceived'
    BY <1>1, <1>2 DEF DeliveryInv, LeaseDiscipline, NoStaleObjects, DeliveredMeansReceived,
       Keeps, Works, Disciplined, IsLeased, WorkStates, LeasedStates, RetryableStates
  <1>4. ConfirmGated' /\ ReceiptPerAck' /\ GranulesKnown' /\ BatchOwnsRows'
    BY <1>1, <1>2 DEF DeliveryInv, ConfirmGated, ReceiptPerAck, GranulesKnown, BatchOwnsRows,
       Keeps, Works, TypeOK, WorkStates, LeasedStates, RetryableStates
  <1>5. DeletedIsClean' /\ UploadedIsWaiting'
    BY <1>1, <1>2 DEF DeliveryInv, DeletedIsClean, UploadedIsWaiting, Keeps, Works, WorkStates,
       LeasedStates, RetryableStates
  <1>6. ObjectRows'
    BY <1>2 DEF DeliveryInv, ObjectRows
  <1>7. OneUpload'
    <2>1. \A g \in Granules : \A o \in rows[g] :
            o \in deleted' <=> o \in deleted \/ host[o] = w
      BY <1>2 DEF TypeOK
    <2> QED
      BY <1>2, <2>1 DEF DeliveryInv, OneUpload
  <1> QED
    BY <1>3, <1>4, <1>5, <1>6, <1>7 DEF DeliveryInv

LEMMA RetentionStep ==
  ASSUME TypeOK, DeliveryInv, NEW S \in SUBSET Granules, NEW ws, Retention(S, ws)
  PROVE  DeliveryInv'
  <1> DEFINE doomed == S \cap InState("deleted")
             X1 == UNION {rows[g] : g \in doomed}
             X2 == UNION {rows[g] \cap deleted : g \in S}
             X == (UNION {rows[g] : g \in doomed}) \cup (UNION {rows[g] \cap deleted : g \in S})
             D == {g \in Granules : rows[g] # {} /\ rows[g] \subseteq X} \cup doomed
  <1> USE DEF ledgerVars, procVars
  <1>1. /\ \A g \in doomed : granule'[g] = NoRow /\ granule[g].state = "deleted"
        /\ \A g \in Granules \ doomed : granule'[g] = granule[g]
        /\ rows' = [g \in Granules |-> rows[g] \ X]
        /\ acked' = acked \ X /\ deleted' = deleted \ X /\ host' = host
        /\ retired' = retired \cup doomed
        /\ UNCHANGED <<batch, known, receipts, received, confirms>>
    BY DEF Retention, DropObjects, InState
  <1>a. \A o : o \in X <=> \E g \in S : o \in rows[g] /\ (g \in doomed \/ o \in deleted)
    <2>1. \A o : o \in X1 <=> \E g \in doomed : o \in rows[g]
      OBVIOUS
    <2>2. \A o : o \in X2 <=> \E g \in S : o \in rows[g] /\ o \in deleted
      OBVIOUS
    <2>3. doomed \subseteq S
      OBVIOUS
    <2>4. X = X1 \cup X2
      OBVIOUS
    <2> HIDE DEF X1, X2, X, doomed
    <2> QED
      BY <2>1, <2>2, <2>3, <2>4
  <1>b. doomed \subseteq S
    OBVIOUS
  <1>2. \A g \in Granules : rows[g] \subseteq X \/ rows[g] \cap X = {}
    <2> HIDE DEF X, doomed
    <2> SUFFICES ASSUME NEW g \in Granules, NEW o \in rows[g], o \in X, NEW p \in rows[g]
                 PROVE  p \in X
      OBVIOUS
    <2>1. CASE g \in doomed
      BY <1>a, <1>b, <2>1
    <2>2. CASE g \notin doomed
      <3>1. \A h \in Granules : o \in rows[h] => h = g
        BY DEF DeliveryInv, ObjectRows
      <3>2. g \in S /\ o \in deleted
        <4>1. PICK h \in S : o \in rows[h] /\ (h \in doomed \/ o \in deleted)
          BY <1>a
        <4> QED
          BY <2>2, <3>1, <4>1
      <3>3. p \in deleted
        BY <3>2 DEF DeliveryInv, OneUpload
      <3> QED
        BY <1>a, <3>2, <3>3
    <2> QED
      BY <2>1, <2>2
  <1>3. X = UNION {rows[g] : g \in D}
    <2> HIDE DEF X, doomed
    <2>1. ASSUME NEW o \in X PROVE \E g \in D : o \in rows[g]
      <3>1. PICK g \in S : o \in rows[g]
        BY <1>a
      <3> QED
        BY <1>2, <3>1
    <2>2. ASSUME NEW g \in D, NEW o \in rows[g] PROVE o \in X
      BY <1>a, <1>b
    <2> QED
      BY <2>1, <2>2
  <1>4. D \in SUBSET Granules /\ doomed \subseteq D /\ doomed \subseteq Granules
    BY DEF InState
  <1> HIDE DEF X, doomed
  <1>5. /\ \A g \in D : rows'[g] = {}
        /\ \A g \in Granules \ D : rows'[g] = rows[g]
    BY <1>1, <1>2, <1>3, <1>4
  <1>6. /\ \A g \in Granules \ D : Keeps(g)
        /\ \A g \in D : Keeps(g)
                          \/ (Disciplined(granule'[g]) /\ granule'[g].state = "absent")
    BY <1>1, <1>4, AbsentRow DEF Keeps
  <1>7. GranulesKnown' /\ BatchOwnsRows'
    BY <1>1, <1>4, AbsentRow DEF DeliveryInv, GranulesKnown, BatchOwnsRows, TypeOK
  <1>8. /\ acked' = acked \ UNION {rows[g] : g \in D}
        /\ deleted' = deleted \ UNION {rows[g] : g \in D}
    BY <1>1, <1>3
  <1>9. acked \subseteq receipts' /\ receipts' \subseteq received
    BY <1>1 DEF DeliveryInv, ReceiptPerAck
  <1> HIDE DEF D
  <1> QED
    BY <1>1, <1>4, <1>5, <1>6, <1>7, <1>8, <1>9, DropStep

LEMMA RequeueStep ==
  ASSUME TypeOK, DeliveryInv, RequeueUndeliverable
  PROVE  DeliveryInv'
  <1> USE DEF batchVars, ledgerVars, procVars
  <1>1. \A g \in Undeliverable : g \in Granules /\ granule[g].state = "uploaded"
    BY DEF Undeliverable, InState
  <1>2. /\ \A g \in Undeliverable : granule'[g].state = "pending" /\ Disciplined(granule'[g])
        /\ \A g \in Granules \ Undeliverable : granule'[g] = granule[g]
    BY <1>1, RestartedRow DEF RequeueUndeliverable, Rewritten, TypeOK
  <1>3. /\ rows' = [g \in Granules |-> rows[g] \ UNION {rows[h] : h \in Undeliverable}]
        /\ acked' = acked \ UNION {rows[g] : g \in Undeliverable}
        /\ deleted' = deleted \ UNION {rows[g] : g \in Undeliverable}
        /\ UNCHANGED <<host, batch, known, retired, receipts, received, confirms>>
    BY DEF RequeueUndeliverable, DropObjects
  <1>4. /\ \A g \in Undeliverable : rows'[g] = {}
        /\ \A g \in Granules \ Undeliverable : rows'[g] = rows[g]
    BY <1>1, <1>3 DEF DeliveryInv, ObjectRows
  <1>5. GranulesKnown' /\ BatchOwnsRows'
    BY <1>1, <1>2, <1>3 DEF DeliveryInv, GranulesKnown, BatchOwnsRows, TypeOK
  <1>6. acked \subseteq receipts' /\ receipts' \subseteq received
    BY <1>3 DEF DeliveryInv, ReceiptPerAck
  <1>7. \A g \in Granules \ Undeliverable : Keeps(g)
    BY <1>2 DEF Keeps
  <1> QED
    BY <1>1, <1>2, <1>3, <1>4, <1>5, <1>6, <1>7, DropStep

LEMMA DeleteBatchStep ==
  ASSUME TypeOK, DeliveryInv, NEW force, DeleteBatch(force)
  PROVE  DeliveryInv'
  <1> USE DEF procVars
  <1>1. /\ \A g \in Granules : granule'[g].state = "absent" /\ Disciplined(granule'[g])
        /\ rows' = [g \in Granules |-> rows[g] \ UNION {rows[h] : h \in Granules}]
        /\ acked' = acked \ UNION {rows[g] : g \in Granules}
        /\ deleted' = deleted \ UNION {rows[g] : g \in Granules}
        /\ receipts' = receipts \cup acked /\ retired' = {}
        /\ UNCHANGED <<host, known, received, confirms>>
    BY AbsentRow DEF DeleteBatch, DropObjects
  <1>2. \A g \in Granules : rows'[g] = {}
    BY <1>1
  <1>3. GranulesKnown' /\ BatchOwnsRows'
    BY <1>1 DEF DeliveryInv, GranulesKnown, BatchOwnsRows
  <1>4. acked \subseteq receipts' /\ receipts' \subseteq received
    BY <1>1 DEF DeliveryInv, ReceiptPerAck
  <1> QED
    BY <1>1, <1>2, <1>3, <1>4, DropStep

\* A submitted id is new: nothing is left of it and no confirmation is owed.
LEMMA SubmitStep ==
  ASSUME ReuseIds = FALSE, TypeOK, DeliveryInv, NEW S, Submit(S),
         UNCHANGED <<rows, host, acked, deleted, receipts, received, confirms>>,
         retired' \subseteq retired, batch' # "absent"
  PROVE  DeliveryInv'
  <1>1. \A g \in S : g \in Granules /\ g \notin known /\ granule[g].state = "absent"
    BY DEF Submit, Submittable
  <1>2. /\ \A g \in S : granule'[g].state = "pending" /\ Disciplined(granule'[g])
        /\ \A g \in Granules \ S : granule'[g] = granule[g]
        /\ known' = known \cup S
    BY <1>1, SubmittedRow DEF Submit
  <1>3. LeaseDiscipline' /\ NoStaleObjects' /\ DeliveredMeansReceived'
    BY <1>1, <1>2 DEF DeliveryInv, LeaseDiscipline, NoStaleObjects, DeliveredMeansReceived,
       Disciplined, IsLeased
  <1>4. ConfirmGated' /\ GranulesKnown' /\ BatchOwnsRows'
    BY <1>1, <1>2 DEF DeliveryInv, ConfirmGated, GranulesKnown, BatchOwnsRows, TypeOK
  <1>5. DeletedIsClean' /\ UploadedIsWaiting'
    BY <1>1, <1>2 DEF DeliveryInv, DeletedIsClean, UploadedIsWaiting
  <1>6. ReceiptPerAck' /\ ObjectRows' /\ OneUpload'
    BY DEF DeliveryInv, ReceiptPerAck, ObjectRows, OneUpload
  <1> QED
    BY <1>3, <1>4, <1>5, <1>6 DEF DeliveryInv

-----------------------------------------------------------------------------
(* Every step.                                                               *)

LEMMA StepDelivery ==
  ASSUME ReuseIds = FALSE, TypeOK, DeliveryInv, [Next]_vars
  PROVE  DeliveryInv'
  <1> USE DEF objVars, batchVars, ledgerVars, procVars
  <1> DEFINE Moves == \A g \in Granules : Keeps(g) \/ Works(g)
  <1>1. ASSUME NEW S \in SUBSET Granules, CreateBatch(S) PROVE DeliveryInv'
    BY <1>1, SubmitStep DEF CreateBatch
  <1>2. ASSUME NEW S \in SUBSET Granules, AddGranules(S) PROVE DeliveryInv'
    BY <1>2, SubmitStep DEF AddGranules
  <1>3. ASSUME NEW S \in SUBSET Granules, Cancel(S) PROVE DeliveryInv'
    <2>1. Moves
      BY <1>3, ReleasedRow DEF Cancel, Keeps, Works, TypeOK, WorkStates, CancellableStates,
         LeasedStates, RetryableStates, GranuleStateSet
    <2> QED
      BY <1>3, <2>1, WorkMoves DEF Cancel
  <1>4. ASSUME NEW S \in SUBSET Granules, Retry(S) PROVE DeliveryInv'
    <2>1. Moves
      BY <1>4, RestartedRow DEF Retry, Rewritten, Keeps, Works, TypeOK, WorkStates
    <2> QED
      BY <1>4, <2>1, WorkMoves DEF Retry
  <1>5. ASSUME NEW s \in {"running", "paused"}, SetBatchStatus(s) PROVE DeliveryInv'
    <2>1. Moves
      BY <1>5 DEF SetBatchStatus, Keeps
    <2> QED
      BY <1>5, <2>1, WorkMoves DEF SetBatchStatus
  <1>6. ASSUME NEW force \in BOOLEAN, DeleteBatch(force) PROVE DeliveryInv'
    BY <1>6, DeleteBatchStep
  <1>7. ASSUME RequeueUndeliverable PROVE DeliveryInv'
    BY <1>7, RequeueStep
  <1>8. ASSUME NEW w \in Workers, RevokeAll(w) PROVE DeliveryInv'
    <2>1. Moves
      BY <1>8, RevokedWork DEF RevokeAll
    <2> QED
      BY <1>8, <2>1, WorkMoves DEF RevokeAll
  <1>9. ASSUME NEW w \in Workers, NEW force \in BOOLEAN, RemoveWorker(w, force)
        PROVE DeliveryInv'
    <2>1. CASE force = TRUE
      BY <1>9, <2>1, ForcedRemovalStep
    <2>2. CASE force = FALSE
      <3>1. Moves
        BY <1>9, <2>2 DEF RemoveWorker, Keeps
      <3> QED
        BY <1>9, <2>2, <3>1, WorkMoves DEF RemoveWorker
    <2> QED
      BY <2>1, <2>2
  <1>10. ASSUME SweepExpiredLeases PROVE DeliveryInv'
    <2>1. Moves
      BY <1>10, ReleasedRow DEF SweepExpiredLeases, Ownerless, IsLeased, Keeps, Works, TypeOK,
         WorkStates, GranuleStateSet, LeasedStates
    <2> QED
      BY <1>10, <2>1, WorkMoves DEF SweepExpiredLeases
  <1>11. ASSUME NEW live \in SUBSET Workers, SweepOrphanedAcked(live) PROVE DeliveryInv'
    <2>1. Orphaned(live) \in SUBSET Granules /\ \A g \in Orphaned(live) : granule[g].state = "acked"
      BY DEF Orphaned, InState
    <2> QED
      BY <1>11, <2>1, DeleteStep DEF SweepOrphanedAcked
  <1>12. ASSUME NEW S \in SUBSET Granules, NEW ws \in SUBSET Workers, Retention(S, ws)
         PROVE DeliveryInv'
    BY <1>12, RetentionStep
  <1>13. ASSUME NEW h \in Granules, ExpireLease(h) PROVE DeliveryInv'
    <2>1. IsLeased(granule[h])
      BY <1>13 DEF ExpireLease, DeliveryInv, LeaseDiscipline
    <2>2. Works(h)
      BY <1>13, <2>1, TimedRow
         DEF ExpireLease, Works, WorkStates, TypeOK, Rows, IsLeased, DeliveryInv,
             LeaseDiscipline, Disciplined
    <2>3. Moves
      BY <1>13, <2>2 DEF ExpireLease, Keeps, TypeOK
    <2> QED
      BY <1>13, <2>3, WorkMoves DEF ExpireLease
  <1>14. ASSUME NEW h \in Granules, GraceElapses(h) PROVE DeliveryInv'
    <2>1. Moves
      BY <1>14 DEF GraceElapses, Keeps, TypeOK, Rows
    <2> QED
      BY <1>14, <2>1, WorkMoves DEF GraceElapses
  <1>15. ASSUME NEW w \in Workers, Register(w) PROVE DeliveryInv'
    <2>1. Moves
      BY <1>15, RevokedWork DEF Register, Keeps
    <2> QED
      BY <1>15, <2>1, WorkMoves DEF Register
  <1>16. ASSUME NEW w \in Workers, NEW A \in SUBSET Granules, NEW arrives \in BOOLEAN,
                ServeBeat(w, A, arrives)
         PROVE DeliveryInv'
    <2>1. \A g \in HeldGranules(w) :
            /\ g \in Granules /\ IsLeased(granule[g]) /\ granule[g] \in Rows
            /\ Disciplined(granule[g])
      BY DEF HeldGranules, HeldBy, TypeOK, DeliveryInv, LeaseDiscipline, Disciplined
    <2>2. "pending" \in GranuleStateSet \ LeasedStates
      BY DEF GranuleStateSet, LeasedStates
    <2>3. \A g \in HeldGranules(w) :
            /\ Released(granule[g], "pending").state = "pending"
            /\ Disciplined(Released(granule[g], "pending"))
            /\ [granule[g] EXCEPT !.lease = "live"].state = granule[g].state
            /\ Disciplined([granule[g] EXCEPT !.lease = "live"])
      BY <2>1, <2>2, ReleasedRow, TimedRow DEF Rows
    <2>4. Reclaimable(w, A) \subseteq HeldGranules(w)
      BY DEF Reclaimable
    <2>5. ASSUME NEW g \in Granules PROVE Keeps(g) \/ Works(g)
      <3>1. CASE granule'[g] = granule[g]
        BY <3>1 DEF Keeps
      <3>2. CASE g \in HeldGranules(w) /\ granule'[g] = Released(granule[g], "pending")
        BY <2>1, <2>3, <3>2 DEF Works, WorkStates, IsLeased
      <3>3. CASE g \in HeldGranules(w) /\ granule'[g] = [granule[g] EXCEPT !.lease = "live"]
        BY <2>1, <2>3, <3>3 DEF Works, WorkStates, IsLeased
      <3> QED
        BY <1>16, <2>4, <3>1, <3>2, <3>3 DEF ServeBeat
    <2> QED
      BY <1>16, <2>5, WorkMoves DEF ServeBeat
  <1>17. ASSUME NEW w \in Workers, NEW h \in Granules, Lease(w, h) PROVE DeliveryInv'
    <2>1. Works(h)
      BY <1>17, ClaimedRow DEF Lease, Claimable, Works, WorkStates, LeasedStates, TypeOK
    <2>2. Moves
      BY <1>17, <2>1 DEF Lease, Keeps, TypeOK
    <2> QED
      BY <1>17, <2>2, WorkMoves DEF Lease
  <1>18. ASSUME NEW w \in Workers, NEW h \in Granules, ProcessingFailed(w, h) PROVE DeliveryInv'
    <2>1. Works(h)
      BY <1>18, FailedRowResult DEF ProcessingFailed, Works, WorkStates, RetryableStates, TypeOK,
         IsLeased
    <2>2. Moves
      BY <1>18, <2>1 DEF ProcessingFailed, Keeps, TypeOK
    <2> QED
      BY <1>18, <2>2, WorkMoves DEF ProcessingFailed
  <1>19. ASSUME NEW w \in Workers, NEW h \in Granules, NEW to \in Reported, StageEvent(w, h, to)
         PROVE DeliveryInv'
    <2>1. IsLeased(granule[h]) /\ Disciplined(granule[h]) /\ to \in StageTargets
      BY <1>19, StageStates, ReportedAssumption
         DEF StageEvent, IsLeased, DeliveryInv, LeaseDiscipline, Disciplined
    <2>2. Works(h)
      BY <1>19, <2>1, AdvancedRow, StageStates DEF StageEvent, Works, WorkStates, TypeOK, IsLeased
    <2>3. Moves
      BY <1>19, <2>2 DEF StageEvent, Keeps, TypeOK
    <2> QED
      BY <1>19, <2>3, WorkMoves DEF StageEvent
  <1>20. ASSUME NEW w \in Workers, NEW h \in Granules, NEW os \in SUBSET Objects,
                UploadCompleted(w, h, os)
         PROVE DeliveryInv'
    BY <1>20, UploadStep
  <1>21. ASSUME NEW w \in Workers, PollDeletable(w) PROVE DeliveryInv'
    BY <1>21, PollStep
  <1>22. ASSUME NEW w \in Workers, NEW h \in Granules, NEW ok \in BOOLEAN, ConfirmDelete(w, h, ok)
         PROVE DeliveryInv'
    <2>1. granule[h].state \in {"acked", "deleted", "absent"}
      BY <1>22 DEF ConfirmDelete, DeliveryInv, ConfirmGated
    <2>2. {h} \in SUBSET Granules
      OBVIOUS
    <2> QED
      BY <1>22, <2>1, <2>2, DeleteStep DEF ConfirmDelete
  <1>23. ASSUME NEW o \in Objects, Ack(o) PROVE DeliveryInv'
    BY <1>23, AckStep
  <1>24. ASSUME NEW o \in Objects, Receive(o) PROVE DeliveryInv'
    <2>1. received' = received \cup {o} /\ UNCHANGED <<granule, rows, host, acked, deleted, batch,
                                                     known, retired, receipts, confirms>>
      BY <1>24 DEF Receive
    <2> QED
      BY <2>1 DEF DeliveryInv, LeaseDiscipline, NoStaleObjects, DeliveredMeansReceived,
         ConfirmGated, ReceiptPerAck, DeletedIsClean, GranulesKnown, ObjectRows, OneUpload,
         UploadedIsWaiting, BatchOwnsRows
  <1>25. ASSUME UNCHANGED <<granule, rows, host, acked, deleted, batchVars, ledgerVars>>,
                confirms' \subseteq confirms
         PROVE DeliveryInv'
    <2>1. Moves
      BY <1>25 DEF Keeps
    <2> QED
      BY <1>25, <2>1, WorkMoves
  <1>26. ASSUME NEW w \in Workers, NEW flag \in BOOLEAN, SetPaused(w, flag) \/ PurgeWorker(w)
         PROVE DeliveryInv'
    BY <1>25, <1>26 DEF SetPaused, PurgeWorker
  <1>27. ASSUME NEW w \in Workers, Crash(w) \/ SendBeat(w) PROVE DeliveryInv'
    BY <1>25, <1>27 DEF Crash, SendBeat
  <1>28. ASSUME NEW w \in Workers, NEW A \in SUBSET Granules, LoseBeat(<<w, A>>)
         PROVE DeliveryInv'
    BY <1>25, <1>28 DEF LoseBeat
  <1>29. ASSUME NEW w \in Workers, NEW h \in Granules, NEW ok \in BOOLEAN,
                HandlerEnds(w, h) \/ ReceiveOffer(w, h, ok)
         PROVE DeliveryInv'
    BY <1>25, <1>29 DEF HandlerEnds, ReceiveOffer
  <1>30. ASSUME NEW o \in Objects, PullFails(o) PROVE DeliveryInv'
    BY <1>25, <1>30 DEF PullFails
  <1>31. ASSUME ResetPullFailures PROVE DeliveryInv'
    BY <1>25, <1>31 DEF ResetPullFailures
  <1>32. CASE UNCHANGED vars
    BY <1>25, <1>32 DEF vars
  <1> QED
    BY <1>1, <1>2, <1>3, <1>4, <1>5, <1>6, <1>7, <1>8, <1>9, <1>10, <1>11, <1>12, <1>13,
       <1>14, <1>15, <1>16, <1>17, <1>18, <1>19, <1>20, <1>21, <1>22, <1>23, <1>24, <1>26,
       <1>27, <1>28, <1>29, <1>30, <1>31, <1>32
       DEF Next, OperatorStep, BackgroundStep, WorkerStep, ReceiverStep

\* Leases are disciplined, attempts start clean, and nothing is confirmed, counted or
\* deleted before the receivers have it, in every instance where ids are not reused.
THEOREM DeliverySafe == ASSUME ReuseIds = FALSE PROVE Spec => []DeliveryInv
  <1>1. Init => TypeOK /\ DeliveryInv
    BY InitTyped, InitDelivery
  <1>2. TypeOK /\ DeliveryInv /\ [Next]_vars => TypeOK' /\ DeliveryInv'
    BY StepTyped, StepDelivery
  <1> QED
    BY <1>1, <1>2, PTL DEF Spec

-----------------------------------------------------------------------------
(* Counting.                                                                 *)

Counted == InState("deleted") \cup retired

LEMMA CountedFinite == ASSUME TypeOK PROVE IsFiniteSet(Counted) /\ Counted \subseteq Granules
  BY GranulesAssumption, FS_Subset DEF TypeOK, Counted, InState

\* The counted path adds as many as it flips: none of them was counted before.
LEMMA DeletePathCounts ==
  ASSUME TypeOK, DeliveryInv, DeliveredExactly, ReuseIds = FALSE,
         NEW S \in SUBSET Granules, DeletePath(S), retired' = retired
  PROVE  DeliveredExactly'
  <1> DEFINE flipped == {g \in S : granule[g].state \notin {"deleted", "absent"}}
  <1>1. /\ delivered' = delivered + Cardinality(flipped)
        /\ granule' = [g \in Granules |->
                         IF g \in flipped THEN [granule[g] EXCEPT !.state = "deleted"]
                                          ELSE granule[g]]
    BY DEF DeletePath
  <1>2. flipped \cap Counted = {} /\ flipped \subseteq Granules
    BY DEF Counted, InState, DeliveryInv, GranulesKnown
  <1> HIDE DEF flipped
  <1>3. Counted' = Counted \cup flipped
    BY <1>1, <1>2 DEF Counted, InState, TypeOK, Rows
  <1>4. /\ IsFiniteSet(Counted) /\ IsFiniteSet(flipped)
        /\ Cardinality(Counted \cap flipped) = 0
    BY <1>2, CountedFinite, GranulesAssumption, FS_Subset, FS_EmptySet
  <1>5. Cardinality(Counted \cup flipped) = Cardinality(Counted) + Cardinality(flipped)
    BY <1>4, FS_Union, FS_CardinalityType
  <1> QED
    BY <1>1, <1>3, <1>5 DEF DeliveredExactly, Counted

\* A step that neither deletes nor prunes nor counts.
LEMMA CountUntouched ==
  ASSUME DeliveredExactly, UNCHANGED <<delivered, retired>>,
         \A g \in Granules : granule'[g].state = "deleted" <=> granule[g].state = "deleted"
  PROVE  DeliveredExactly'
  <1>1. Counted' = Counted
    BY DEF Counted, InState
  <1> QED
    BY <1>1 DEF DeliveredExactly, Counted

LEMMA RevokeKeepsDeleted ==
  ASSUME TypeOK, NEW w, RevokeLeases(w)
  PROVE  \A g \in Granules : granule'[g].state = "deleted" <=> granule[g].state = "deleted"
  BY RevokedWork DEF Keeps, Works, WorkStates, LeasedStates, RetryableStates

LEMMA StepCounts ==
  ASSUME ReuseIds = FALSE, TypeOK, DeliveryInv, DeliveredExactly, [Next]_vars
  PROVE  DeliveredExactly'
  <1> USE DEF objVars, batchVars, ledgerVars, procVars
  <1> DEFINE Same == \A g \in Granules :
                       granule'[g].state = "deleted" <=> granule[g].state = "deleted"
  <1>1. ASSUME NEW S \in SUBSET Granules, CreateBatch(S) PROVE DeliveredExactly'
    <2>1. Counted' = {}
      BY <1>1, SubmittedRow DEF CreateBatch, Submit, Counted, InState, DeliveryInv, BatchOwnsRows
    <2> QED
      BY <1>1, <2>1, FS_EmptySet DEF CreateBatch, DeliveredExactly, Counted
  <1>2. ASSUME NEW force \in BOOLEAN, DeleteBatch(force) PROVE DeliveredExactly'
    <2>1. Counted' = {}
      BY <1>2, AbsentRow DEF DeleteBatch, Counted, InState
    <2> QED
      BY <1>2, <2>1, FS_EmptySet DEF DeleteBatch, DeliveredExactly, Counted
  <1>3. ASSUME NEW S \in SUBSET Granules, NEW ws \in SUBSET Workers, Retention(S, ws)
        PROVE DeliveredExactly'
    <2>1. Counted' = Counted
      BY <1>3, AbsentRow DEF Retention, Counted, InState, TypeOK
    <2> QED
      BY <1>3, <2>1 DEF Retention, DeliveredExactly, Counted
  <1>4. ASSUME NEW w \in Workers, NEW h \in Granules, NEW ok \in BOOLEAN, ConfirmDelete(w, h, ok)
        PROVE DeliveredExactly'
    <2>1. {h} \in SUBSET Granules
      OBVIOUS
    <2> QED
      BY <1>4, <2>1, DeletePathCounts DEF ConfirmDelete
  <1>5. ASSUME NEW live \in SUBSET Workers, SweepOrphanedAcked(live) PROVE DeliveredExactly'
    <2>1. Orphaned(live) \in SUBSET Granules
      BY DEF Orphaned, InState
    <2> QED
      BY <1>5, <2>1, DeletePathCounts DEF SweepOrphanedAcked
  <1>6. ASSUME NEW S \in SUBSET Granules, AddGranules(S) \/ Cancel(S) \/ Retry(S)
        PROVE DeliveredExactly'
    <2>1. Same
      BY <1>6, SubmittedRow, ReleasedRow, RestartedRow
         DEF AddGranules, Submit, Submittable, Cancel, Retry, Rewritten, TypeOK, GranuleStateSet,
             LeasedStates, RetryableStates, CancellableStates
    <2> QED
      BY <1>6, <2>1, CountUntouched DEF AddGranules, Cancel, Retry
  <1>7. ASSUME RequeueUndeliverable PROVE DeliveredExactly'
    <2>1. Same
      BY <1>7, RestartedRow DEF RequeueUndeliverable, Rewritten, Undeliverable, InState, TypeOK
    <2> QED
      BY <1>7, <2>1, CountUntouched DEF RequeueUndeliverable
  <1>8. ASSUME NEW w \in Workers, NEW flag \in BOOLEAN,
               RevokeAll(w) \/ RemoveWorker(w, flag) \/ Register(w)
        PROVE DeliveredExactly'
    <2>1. Same
      BY <1>8, RevokeKeepsDeleted DEF RevokeAll, RemoveWorker, Register
    <2> QED
      BY <1>8, <2>1, CountUntouched DEF RevokeAll, RemoveWorker, Register
  <1>9. ASSUME SweepExpiredLeases PROVE DeliveredExactly'
    <2>1. Same
      BY <1>9, ReleasedRow DEF SweepExpiredLeases, Ownerless, IsLeased, TypeOK, GranuleStateSet,
         LeasedStates
    <2> QED
      BY <1>9, <2>1, CountUntouched DEF SweepExpiredLeases
  <1>10. ASSUME NEW h \in Granules, ExpireLease(h) \/ GraceElapses(h) PROVE DeliveredExactly'
    <2>1. Same
      BY <1>10 DEF ExpireLease, GraceElapses, TypeOK, Rows
    <2> QED
      BY <1>10, <2>1, CountUntouched DEF ExpireLease, GraceElapses
  <1>11. ASSUME NEW w \in Workers, NEW A \in SUBSET Granules, NEW arrives \in BOOLEAN,
                ServeBeat(w, A, arrives)
         PROVE DeliveredExactly'
    <2>1. \A g \in HeldGranules(w) :
            /\ granule[g].state # "deleted"
            /\ Released(granule[g], "pending").state = "pending"
            /\ [granule[g] EXCEPT !.lease = "live"].state = granule[g].state
      BY ReleasedRow DEF HeldGranules, HeldBy, IsLeased, LeasedStates, GranuleStateSet, TypeOK, Rows
    <2>2. Reclaimable(w, A) \subseteq HeldGranules(w)
      BY DEF Reclaimable
    <2>3. ASSUME NEW g \in Granules
          PROVE  granule'[g].state = "deleted" <=> granule[g].state = "deleted"
      <3>1. \/ granule'[g] = granule[g]
            \/ g \in HeldGranules(w) /\ granule'[g] = Released(granule[g], "pending")
            \/ g \in HeldGranules(w) /\ granule'[g] = [granule[g] EXCEPT !.lease = "live"]
        BY <1>11, <2>2 DEF ServeBeat
      <3> QED
        BY <2>1, <3>1
    <2> QED
      BY <1>11, <2>3, CountUntouched DEF ServeBeat
  <1>12. ASSUME NEW w \in Workers, NEW h \in Granules, Lease(w, h) PROVE DeliveredExactly'
    <2>1. Same
      BY <1>12, ClaimedRow DEF Lease, Claimable, TypeOK
    <2> QED
      BY <1>12, <2>1, CountUntouched DEF Lease
  <1>13. ASSUME NEW w \in Workers, NEW h \in Granules, ProcessingFailed(w, h)
         PROVE DeliveredExactly'
    <2>1. Same
      BY <1>13, FailedRowResult DEF ProcessingFailed, TypeOK, IsLeased, LeasedStates
    <2> QED
      BY <1>13, <2>1, CountUntouched DEF ProcessingFailed
  <1>14. ASSUME NEW w \in Workers, NEW h \in Granules, NEW to \in Reported, StageEvent(w, h, to)
         PROVE DeliveredExactly'
    <2>1. to \in StageTargets /\ to # "deleted" /\ granule[h].state # "deleted"
      BY <1>14, StageStates, ReportedAssumption DEF StageEvent, LeasedStates
    <2>2. Same
      BY <1>14, <2>1, AdvancedRow DEF StageEvent, TypeOK
    <2> QED
      BY <1>14, <2>2, CountUntouched DEF StageEvent
  <1>15. ASSUME NEW w \in Workers, NEW h \in Granules, NEW os \in SUBSET Objects,
                UploadCompleted(w, h, os)
         PROVE DeliveredExactly'
    <2>1. Same
      BY <1>15, ReleasedRow
         DEF UploadCompleted, AcceptedFrom, TypeOK, GranuleStateSet, LeasedStates
    <2> QED
      BY <1>15, <2>1, CountUntouched DEF UploadCompleted
  <1>16. ASSUME NEW o \in Objects, Ack(o) PROVE DeliveredExactly'
    <2>1. Same
      BY <1>16 DEF Ack, AckGate, TypeOK, Rows
    <2> QED
      BY <1>16, <2>1, CountUntouched DEF Ack
  <1>17. ASSUME UNCHANGED <<granule, delivered, retired>> PROVE DeliveredExactly'
    BY <1>17, CountUntouched
  <1>18. ASSUME NEW w \in Workers, NEW flag \in BOOLEAN,
                SetPaused(w, flag) \/ PurgeWorker(w)
         PROVE DeliveredExactly'
    BY <1>17, <1>18 DEF SetPaused, PurgeWorker
  <1>19. ASSUME NEW w \in Workers, NEW A \in SUBSET Granules,
                Crash(w) \/ SendBeat(w) \/ PollDeletable(w) \/ LoseBeat(<<w, A>>)
         PROVE DeliveredExactly'
    BY <1>17, <1>19 DEF Crash, SendBeat, PollDeletable, LoseBeat
  <1>20. ASSUME NEW w \in Workers, NEW h \in Granules, NEW ok \in BOOLEAN,
                HandlerEnds(w, h) \/ ReceiveOffer(w, h, ok)
         PROVE DeliveredExactly'
    BY <1>17, <1>20 DEF HandlerEnds, ReceiveOffer
  <1>21. ASSUME NEW o \in Objects, Receive(o) \/ PullFails(o) PROVE DeliveredExactly'
    BY <1>17, <1>21 DEF Receive, PullFails
  <1>22. ASSUME SetBatchStatus("running") \/ SetBatchStatus("paused") \/ ResetPullFailures
         PROVE DeliveredExactly'
    BY <1>17, <1>22 DEF SetBatchStatus, ResetPullFailures
  <1>23. CASE UNCHANGED vars
    BY <1>17, <1>23 DEF vars
  <1> QED
    BY <1>1, <1>2, <1>3, <1>4, <1>5, <1>6, <1>7, <1>8, <1>9, <1>10, <1>11, <1>12, <1>13,
       <1>14, <1>15, <1>16, <1>18, <1>19, <1>20, <1>21, <1>22, <1>23
       DEF Next, OperatorStep, BackgroundStep, WorkerStep, ReceiverStep

\* delivered_count is exact: every granule that reached DELETED is counted once, however
\* worker confirmations, repeats and orphan sweeps meet.
THEOREM DeliveryCountedOnce == ASSUME ReuseIds = FALSE PROVE Spec => []DeliveredExactly
  <1>1. Init => TypeOK /\ DeliveryInv /\ DeliveredExactly
    <2>1. Init => InState("deleted") \cup retired = {} /\ delivered = 0
      BY DEF Init, InState, NoRow
    <2> QED
      BY <2>1, InitTyped, InitDelivery, FS_EmptySet DEF DeliveredExactly
  <1>2. TypeOK /\ DeliveryInv /\ DeliveredExactly /\ [Next]_vars
          => TypeOK' /\ DeliveryInv' /\ DeliveredExactly'
    BY StepTyped, StepDelivery, StepCounts
  <1> QED
    BY <1>1, <1>2, PTL DEF Spec

\* A row has an owner and an expiry exactly while it is leased: as an invariant of its
\* own, because the sweeper's comment relies on it.
THEOREM LeasesDisciplined == ASSUME ReuseIds = FALSE PROVE Spec => []LeaseDiscipline
  <1>1. DeliveryInv => LeaseDiscipline
    BY DEF DeliveryInv
  <1> QED
    BY <1>1, DeliverySafe, PTL

-----------------------------------------------------------------------------
(* The refinement of GranuleLifecycle.                                       *)

\* The stage a granule is in, and the ids of the outputs there ever were.
Stage(g) == StageOf[granule[g].state]
Used == {o \in Objects : host[o] # NoWorker}

LEMMA StageValues ==
  /\ \A s \in LeasedStates : s \in RowStates /\ StageOf[s] = "running"
  /\ \A s \in RetryableStates : s \in RowStates /\ StageOf[s] = "stopped"
  /\ "pending" \in RowStates /\ StageOf["pending"] = "waiting"
  /\ "uploaded" \in RowStates /\ StageOf["uploaded"] = "offered"
  /\ "acked" \in RowStates /\ StageOf["acked"] = "delivered"
  /\ "deleted" \in RowStates /\ StageOf["deleted"] = "finished"
  /\ "absent" \in RowStates /\ StageOf["absent"] = "absent"
  BY DEF StageOf, Settled, RowStates, GranuleStateSet, LeasedStates, RetryableStates

\* A step that takes the granules of S to one stage and leaves the others in theirs.
LEMMA StageMoves ==
  ASSUME NEW S \in SUBSET Granules, NEW s,
         \A g \in S : Stage(g)' = s,
         \A g \in Granules \ S : Stage(g)' = Stage(g)
  PROVE  Lifecycle!Move(S, s)
  BY DEF Lifecycle!Move, Stage

LEMMA StageStays ==
  ASSUME \A g \in Granules : Stage(g)' = Stage(g)
  PROVE  UNCHANGED [g \in Granules |-> StageOf[granule[g].state]]
  BY DEF Stage

LEMMA InitLifecycle == Init => Lifecycle!Init
  BY StageValues DEF Init, Lifecycle!Init, NoRow

-----------------------------------------------------------------------------
(* One lemma for each way a step reads in the life of a granule.             *)

Untouched == UNCHANGED <<rows, host, acked, receipts, delivered>>

\* What nobody outside the protocol can see.
LEMMA Stutters ==
  ASSUME Untouched, \A g \in Granules : Stage(g)' = Stage(g)
  PROVE  UNCHANGED Lifecycle!vars
  <1>1. UNCHANGED [g \in Granules |-> StageOf[granule[g].state]]
    BY StageStays
  <1> QED
    BY <1>1 DEF Lifecycle!vars, Untouched

\* Running granules are given back.
LEMMA GivesBack ==
  ASSUME NEW S \in SUBSET Granules, Untouched,
         \A g \in S : Stage(g) = "running" /\ Stage(g)' = "waiting",
         \A g \in Granules \ S : Stage(g)' = Stage(g)
  PROVE  Lifecycle!Next
  <1>1. Lifecycle!Move(S, "waiting")
    BY StageMoves
  <1>2. S \subseteq Lifecycle!In("running")
    BY DEF Lifecycle!In, Stage
  <1>3. Lifecycle!GiveBack(S)
    BY <1>1, <1>2 DEF Lifecycle!GiveBack, Lifecycle!KeepsOutputs, Untouched
  <1> QED
    BY <1>3 DEF Lifecycle!Next

\* Running and waiting granules are stopped.
LEMMA Stops ==
  ASSUME NEW S \in SUBSET Granules, Untouched,
         \A g \in S : Stage(g) \in {"running", "waiting"} /\ Stage(g)' = "stopped",
         \A g \in Granules \ S : Stage(g)' = Stage(g)
  PROVE  Lifecycle!Next
  <1>1. Lifecycle!Move(S, "stopped")
    BY StageMoves
  <1>2. S \subseteq Lifecycle!In("running") \cup Lifecycle!In("waiting")
    BY DEF Lifecycle!In, Stage
  <1>3. Lifecycle!Stop(S)
    BY <1>1, <1>2 DEF Lifecycle!Stop, Lifecycle!KeepsOutputs, Untouched
  <1> QED
    BY <1>3 DEF Lifecycle!Next

\* The object rows of the granules of S are dropped, and no other ones.
LEMMA Discards ==
  ASSUME TypeOK, ObjectRows, NEW S \in SUBSET Granules,
         DropObjects(UNION {rows[g] : g \in S})
  PROVE  Lifecycle!Discard(S)
  <1>1. rows' = [g \in Granules |-> IF g \in S THEN {} ELSE rows[g]]
    <2>1. \A g \in S : rows[g] \ UNION {rows[h] : h \in S} = {}
      OBVIOUS
    <2>2. \A g \in Granules \ S : rows[g] \ UNION {rows[h] : h \in S} = rows[g]
      BY DEF ObjectRows
    <2>3. rows' = [g \in Granules |-> rows[g] \ UNION {rows[h] : h \in S}]
      BY DEF DropObjects
    <2> QED
      BY <2>1, <2>2, <2>3
  <1> QED
    BY <1>1 DEF Lifecycle!Discard, DropObjects

\* The delete path finishes what was delivered and counts it.
LEMMA Finishes ==
  ASSUME TypeOK, NEW S \in SUBSET Granules, DeletePath(S),
         \A g \in S : granule[g].state \in {"acked", "deleted", "absent"},
         UNCHANGED <<rows, host, acked, receipts>>
  PROVE  Lifecycle!Next
  <1>1. PICK flipped \in SUBSET Granules :
          flipped = {g \in S : granule[g].state \notin {"deleted", "absent"}}
    OBVIOUS
  <1>2. \A g \in flipped : Stage(g) = "delivered" /\ Stage(g)' = "finished"
    BY <1>1, StageValues DEF Stage, DeletePath, TypeOK, Rows
  <1>3. \A g \in Granules \ flipped : Stage(g)' = Stage(g)
    BY <1>1 DEF Stage, DeletePath
  <1>4. Lifecycle!Move(flipped, "finished")
    BY <1>2, <1>3, StageMoves
  <1>5. flipped \subseteq Lifecycle!In("delivered")
    BY <1>2 DEF Lifecycle!In, Stage
  <1>6. delivered' = delivered + Cardinality(flipped)
    BY <1>1 DEF DeletePath
  <1>7. Lifecycle!Finish(flipped)
    BY <1>4, <1>5, <1>6 DEF Lifecycle!Finish, Lifecycle!KeepsOutputs, Cardinality, Lifecycle!Cardinality
  <1> QED
    BY <1>7 DEF Lifecycle!Next

\* Revoked leases of a worker are given back.
LEMMA RevocationGivesBack ==
  ASSUME TypeOK, NEW w \in Workers, RevokeLeases(w), Untouched
  PROVE  Lifecycle!Next
  <1>1. \A g \in HeldGranules(w) : Stage(g) = "running" /\ Stage(g)' = "waiting"
    BY RevokedRow, StageValues DEF Stage, RevokeLeases, Rewritten, HeldGranules, HeldBy, IsLeased, TypeOK
  <1>2. \A g \in Granules \ HeldGranules(w) : Stage(g)' = Stage(g)
    BY DEF Stage, RevokeLeases, Rewritten
  <1>3. HeldGranules(w) \in SUBSET Granules
    BY DEF HeldGranules
  <1> QED
    BY <1>1, <1>2, <1>3, GivesBack

-----------------------------------------------------------------------------
(* The steps of the protocol.                                                *)

\* Submission, into a batch that is new or there.
LEMMA SubmitStepLives ==
  ASSUME TypeOK, BatchOwnsRows, NEW S \in SUBSET Granules, CreateBatch(S) \/ AddGranules(S)
  PROVE  Lifecycle!Next
  <1>1. Submit(S) /\ UNCHANGED <<rows, host, acked, receipts>>
    BY DEF CreateBatch, AddGranules, objVars, ledgerVars
  <1>2. \A g \in S : Stage(g) = "absent" /\ Stage(g)' = "waiting"
    BY <1>1, StageValues, SubmittedRow DEF Stage, Submit, Submittable
  <1>3. \A g \in Granules \ S : Stage(g)' = Stage(g)
    BY <1>1 DEF Stage, Submit
  <1>4. Lifecycle!Move(S, "waiting")
    BY <1>2, <1>3, StageMoves
  <1>5. S \subseteq Lifecycle!In("absent")
    BY <1>2 DEF Lifecycle!In, Stage
  <1>6. delivered' = delivered \/ (Lifecycle!In("absent") = Granules /\ delivered' = 0)
    <2>1. CASE CreateBatch(S)
      BY <2>1, StageValues DEF CreateBatch, BatchOwnsRows, Lifecycle!In
    <2>2. CASE AddGranules(S)
      BY <2>2 DEF AddGranules
    <2> QED
      BY <2>1, <2>2
  <1>7. Lifecycle!Submit(S)
    BY <1>1, <1>4, <1>5, <1>6 DEF Lifecycle!Submit, Lifecycle!KeepsOutputs
  <1> QED
    BY <1>7 DEF Lifecycle!Next

\* What is deleted with its batch.
LEMMA DeleteBatchLives ==
  ASSUME TypeOK, DeliveryInv, NEW force \in BOOLEAN, DeleteBatch(force)
  PROVE  Lifecycle!Next
  <1>1. Lifecycle!Discard(Granules)
    BY Discards DEF DeleteBatch, DeliveryInv
  <1>2. \A g \in Granules : Stage(g)' = "absent"
    BY StageValues, AbsentRow DEF Stage, DeleteBatch
  <1>3. Lifecycle!Move(Granules, "absent")
    BY <1>2, StageMoves
  <1>4. receipts' = receipts
    BY DEF DeleteBatch, DeliveryInv, ReceiptPerAck
  <1>5. Lifecycle!Drop
    BY <1>1, <1>3, <1>4 DEF Lifecycle!Drop, DeleteBatch, DropObjects
  <1> QED
    BY <1>5 DEF Lifecycle!Next

\* Retention forgets finished granules, and outputs of granules that it keeps.
LEMMA RetentionLives ==
  ASSUME TypeOK, DeliveryInv, NEW S \in SUBSET Granules, NEW ws \in SUBSET Workers,
         Retention(S, ws)
  PROVE  Lifecycle!Next
  <1>1. PICK doomed \in SUBSET Granules : doomed = S \cap InState("deleted")
    OBVIOUS
  <1>2. PICK T \in SUBSET Granules : T = doomed \cup {g \in S : rows[g] \cap deleted # {}}
    BY <1>1
  <1>3. (UNION {rows[g] : g \in doomed}) \cup (UNION {rows[g] \cap deleted : g \in S})
          = UNION {rows[g] : g \in T}
    <2>1. \A g \in S : rows[g] \cap deleted # {} => rows[g] \cap deleted = rows[g]
      BY DEF DeliveryInv, OneUpload
    <2> QED
      BY <1>2, <2>1
  <1>4. Lifecycle!Discard(T)
    <2>1. DropObjects(UNION {rows[g] : g \in T})
      BY <1>1, <1>3 DEF Retention
    <2> QED
      BY <2>1, Discards DEF DeliveryInv
  <1>5. \A g \in doomed : Stage(g) = "finished" /\ Stage(g)' = "absent"
    BY <1>1, StageValues, AbsentRow DEF Stage, Retention, InState
  <1>6. \A g \in Granules \ doomed : Stage(g)' = Stage(g)
    BY <1>1 DEF Stage, Retention
  <1>7. Lifecycle!Move(doomed, "absent")
    BY <1>5, <1>6, StageMoves
  <1>8. doomed \subseteq Lifecycle!In("finished")
    BY <1>5 DEF Lifecycle!In, Stage
  <1>9. UNCHANGED <<host, receipts, delivered>>
    BY DEF Retention, DropObjects, ledgerVars
  <1>10. Lifecycle!Forget(doomed, T)
    BY <1>2, <1>4, <1>7, <1>8, <1>9 DEF Lifecycle!Forget
  <1> QED
    BY <1>10 DEF Lifecycle!Next

\* Granules whose outputs nobody can be offered are withdrawn.
LEMMA RequeueLives ==
  ASSUME TypeOK, DeliveryInv, RequeueUndeliverable
  PROVE  Lifecycle!Next
  <1>1. PICK S \in SUBSET Granules : S = Undeliverable
    BY DEF Undeliverable, InState
  <1>2. Lifecycle!Discard(S)
    BY <1>1, Discards DEF RequeueUndeliverable, DeliveryInv
  <1>3. \A g \in S : Stage(g) = "offered" /\ Stage(g)' = "waiting"
    BY <1>1, StageValues, RestartedRow
       DEF Stage, RequeueUndeliverable, Rewritten, Undeliverable, InState, TypeOK
  <1>4. \A g \in Granules \ S : Stage(g)' = Stage(g)
    BY <1>1 DEF Stage, RequeueUndeliverable, Rewritten
  <1>5. Lifecycle!Move(S, "waiting")
    BY <1>1, <1>3, <1>4, StageMoves
  <1>6. S \subseteq Lifecycle!In("offered")
    BY <1>1, <1>3 DEF Lifecycle!In, Stage
  <1>7. UNCHANGED <<host, receipts, delivered>>
    BY DEF RequeueUndeliverable, DropObjects, ledgerVars, batchVars
  <1>8. Lifecycle!Withdraw(S)
    BY <1>2, <1>5, <1>6, <1>7 DEF Lifecycle!Withdraw
  <1> QED
    BY <1>1, <1>8 DEF Lifecycle!Next

\* An upload offers the outputs of one attempt.
LEMMA UploadLives ==
  ASSUME TypeOK, DeliveryInv, NEW w \in Workers, NEW g \in Granules, NEW os \in SUBSET Objects,
         UploadCompleted(w, g, os)
  PROVE  Lifecycle!Next
  <1>1. Stage(g) = "running" /\ granule[g].state \in LeasedStates
    BY StageValues DEF Stage, UploadCompleted, AcceptedFrom, LeasedStates
  <1>2. rows[g] = {}
    BY <1>1 DEF DeliveryInv, NoStaleObjects, LeasedStates
  <1>3. Stage(g)' = "offered"
    BY ReleasedRow, StageValues DEF Stage, UploadCompleted, TypeOK, GranuleStateSet, LeasedStates
  <1>4. \A h \in Granules \ {g} : Stage(h)' = Stage(h)
    BY DEF Stage, UploadCompleted, TypeOK
  <1>5. Lifecycle!Move({g}, "offered")
    BY <1>3, <1>4, StageMoves
  <1>6. Used' = Used \cup os /\ os \cap Used = {}
    BY NoWorkerAssumption DEF Used, UploadCompleted, TypeOK
  <1>7. rows' = [rows EXCEPT ![g] = os]
    BY <1>2 DEF UploadCompleted, TypeOK
  <1>8. Lifecycle!Offer(g, os)
    BY <1>1, <1>2, <1>5, <1>6, <1>7
       DEF Lifecycle!Offer, UploadCompleted, Used, Stage, ledgerVars, batchVars
  <1> QED
    BY <1>8 DEF Lifecycle!Next

\* An acknowledgement takes an output, the last one delivers.
LEMMA AckLives ==
  ASSUME TypeOK, DeliveryInv, NEW o \in Objects, Ack(o)
  PROVE  Lifecycle!Next
  <1>1. PICK g \in Granules :
          /\ o \in rows[g] /\ acked' = acked \cup {o}
          /\ granule' = IF AckGate(g, acked \cup {o})
                        THEN [granule EXCEPT ![g].state = "acked"] ELSE granule
    BY DEF Ack
  <1>2. granule[g].state = "uploaded" <=> Stage(g) = "offered"
    BY StageValues DEF Stage, TypeOK, Rows, RowStates, GranuleStateSet, LeasedStates, RetryableStates
  <1>3. CASE AckGate(g, acked \cup {o})
    <2>1. Stage(g)' = "delivered" /\ \A h \in Granules \ {g} : Stage(h)' = Stage(h)
      BY <1>1, <1>3, StageValues DEF Stage, TypeOK, Rows
    <2>2. Lifecycle!Move({g}, "delivered")
      BY <2>1, StageMoves
    <2>3. Lifecycle!Take(g, o)
      BY <1>1, <1>2, <1>3, <2>2
         DEF Lifecycle!Take, Ack, AckGate, Stage, batchVars
    <2> QED
      BY <2>3 DEF Lifecycle!Next
  <1>4. CASE ~ AckGate(g, acked \cup {o})
    <2>1. Lifecycle!Take(g, o)
      BY <1>1, <1>2, <1>4 DEF Lifecycle!Take, Ack, AckGate, Stage, batchVars
    <2> QED
      BY <2>1 DEF Lifecycle!Next
  <1> QED
    BY <1>3, <1>4

\* A heartbeat gives back what it reclaims.
LEMMA BeatLives ==
  ASSUME TypeOK, NEW w \in Workers, NEW A \in SUBSET Granules, NEW ok \in BOOLEAN,
         ServeBeat(w, A, ok)
  PROVE  Lifecycle!Next \/ UNCHANGED Lifecycle!vars
  <1>1. Untouched
    BY DEF ServeBeat, Untouched, objVars, batchVars, ledgerVars
  <1>2. CASE worker[w] \notin Registered
    <2>1. \A g \in Granules : Stage(g)' = Stage(g)
      BY <1>2 DEF ServeBeat, Stage
    <2> QED
      BY <1>1, <2>1, Stutters
  <1>3. CASE worker[w] \in Registered
    <2> DEFINE S == Reclaimable(w, A)
    <2>1. S \in SUBSET Granules
      BY DEF Reclaimable, HeldGranules
    <2>2. \A g \in S : Stage(g) = "running"
      BY StageValues DEF Stage, Reclaimable, HeldGranules, HeldBy, IsLeased
    <2>3. \A g \in S : Stage(g)' = "waiting"
      BY <1>3, <2>1, ReleasedRow, StageValues
         DEF Stage, ServeBeat, TypeOK, GranuleStateSet, LeasedStates
    <2>4. \A g \in Granules \ S : Stage(g)' = Stage(g)
      BY <1>3 DEF Stage, ServeBeat, TypeOK, Rows
    <2> QED
      BY <1>1, <2>1, <2>2, <2>3, <2>4, GivesBack
  <1> QED
    BY <1>2, <1>3

\* Every step of the protocol.
LEMMA StepLives ==
  ASSUME TypeOK, DeliveryInv, [Next]_vars
  PROVE  Lifecycle!Next \/ UNCHANGED Lifecycle!vars
  <1> DEFINE Lives == Lifecycle!Next \/ UNCHANGED Lifecycle!vars
  <1> USE DEF objVars, batchVars, ledgerVars
  <1>1. ASSUME NEW S \in SUBSET Granules, CreateBatch(S) \/ AddGranules(S) PROVE Lives
    BY <1>1, SubmitStepLives DEF DeliveryInv
  <1>2. ASSUME NEW S \in SUBSET Granules, Cancel(S) PROVE Lives
    <2>1. \A g \in S : Stage(g) \in {"running", "waiting"}
      BY <1>2, StageValues DEF Stage, Cancel, CancellableStates
    <2>2. \A g \in S : Stage(g)' = "stopped"
      BY <1>2, ReleasedRow, StageValues
         DEF Stage, Cancel, TypeOK, GranuleStateSet, LeasedStates, RetryableStates
    <2>3. \A g \in Granules \ S : Stage(g)' = Stage(g)
      BY <1>2 DEF Stage, Cancel
    <2> QED
      BY <1>2, <2>1, <2>2, <2>3, Stops DEF Cancel, Untouched
  <1>3. ASSUME NEW S \in SUBSET Granules, Retry(S) PROVE Lives
    <2>1. \A g \in S : Stage(g) = "stopped" /\ Stage(g)' = "waiting"
      BY <1>3, RestartedRow, StageValues DEF Stage, Retry, Rewritten, TypeOK
    <2>2. \A g \in Granules \ S : Stage(g)' = Stage(g)
      BY <1>3 DEF Stage, Retry, Rewritten
    <2>3. Lifecycle!Move(S, "waiting")
      BY <2>1, <2>2, StageMoves
    <2>4. S \subseteq Lifecycle!In("stopped")
      BY <2>1 DEF Lifecycle!In, Stage
    <2>5. Lifecycle!Retry(S)
      BY <1>3, <2>3, <2>4 DEF Lifecycle!Retry, Lifecycle!KeepsOutputs, Retry
    <2> QED
      BY <2>5 DEF Lifecycle!Next
  <1>4. ASSUME NEW force \in BOOLEAN, DeleteBatch(force) PROVE Lives
    BY <1>4, DeleteBatchLives
  <1>5. CASE RequeueUndeliverable
    BY <1>5, RequeueLives
  <1>6. ASSUME NEW w \in Workers, RevokeAll(w) PROVE Lives
    BY <1>6, RevocationGivesBack DEF RevokeAll, Untouched
  <1>7. ASSUME NEW w \in Workers, NEW force \in BOOLEAN, RemoveWorker(w, force) PROVE Lives
    <2>1. Untouched
      BY <1>7 DEF RemoveWorker, Untouched
    <2>2. CASE force
      BY <1>7, <2>1, <2>2, RevocationGivesBack DEF RemoveWorker
    <2>3. CASE ~ force
      <3>1. \A g \in Granules : Stage(g)' = Stage(g)
        BY <1>7, <2>3 DEF RemoveWorker, Stage
      <3> QED
        BY <2>1, <3>1, Stutters
    <2> QED
      BY <2>2, <2>3
  <1>8. ASSUME NEW w \in Workers, Register(w) PROVE Lives
    <2>1. Untouched
      BY <1>8 DEF Register, Untouched
    <2>2. CASE UNCHANGED granule
      <3>1. \A g \in Granules : Stage(g)' = Stage(g)
        BY <2>2 DEF Stage
      <3> QED
        BY <2>1, <3>1, Stutters
    <2>3. CASE RevokeLeases(w)
      BY <2>1, <2>3, RevocationGivesBack
    <2> QED
      BY <1>8, <2>2, <2>3 DEF Register
  <1>9. CASE SweepExpiredLeases
    <2> DEFINE S == {g \in Granules : Ownerless(g)}
    <2>1. \A g \in S : Stage(g) = "running"
      BY StageValues DEF Stage, Ownerless, IsLeased
    <2>2. \A g \in S : Stage(g)' = "waiting"
      BY <1>9, ReleasedRow, StageValues
         DEF Stage, SweepExpiredLeases, TypeOK, GranuleStateSet, LeasedStates
    <2>3. \A g \in Granules \ S : Stage(g)' = Stage(g)
      BY <1>9 DEF Stage, SweepExpiredLeases
    <2>4. S \in SUBSET Granules /\ Untouched
      BY <1>9 DEF SweepExpiredLeases, Untouched
    <2> QED
      BY <2>1, <2>2, <2>3, <2>4, GivesBack
  <1>10. ASSUME NEW on \in SUBSET Workers, SweepOrphanedAcked(on) PROVE Lives
    <2>1. Orphaned(on) \in SUBSET Granules /\ \A g \in Orphaned(on) : granule[g].state = "acked"
      BY DEF Orphaned, InState
    <2> QED
      BY <1>10, <2>1, Finishes DEF SweepOrphanedAcked
  <1>11. ASSUME NEW S \in SUBSET Granules, NEW ws \in SUBSET Workers, Retention(S, ws) PROVE Lives
    BY <1>11, RetentionLives
  <1>12. ASSUME NEW g \in Granules, ExpireLease(g) \/ GraceElapses(g) PROVE Lives
    <2>1. \A h \in Granules : Stage(h)' = Stage(h)
      BY <1>12 DEF Stage, ExpireLease, GraceElapses, TypeOK, Rows
    <2> QED
      BY <1>12, <2>1, Stutters DEF ExpireLease, GraceElapses, Untouched
  <1>13. ASSUME NEW w \in Workers, NEW A \in SUBSET Granules, NEW ok \in BOOLEAN,
                ServeBeat(w, A, ok)
         PROVE Lives
    BY <1>13, BeatLives
  <1>14. ASSUME NEW w \in Workers, NEW g \in Granules, Lease(w, g) PROVE Lives
    <2>1. Stage(g) = "waiting"
      BY <1>14, StageValues DEF Stage, Lease, Claimable
    <2>2. Stage(g)' = "running"
      BY <1>14, ClaimedRow, StageValues DEF Stage, Lease, TypeOK, LeasedStates
    <2>3. \A h \in Granules \ {g} : Stage(h)' = Stage(h)
      BY <1>14 DEF Stage, Lease, TypeOK
    <2>4. Lifecycle!Move({g}, "running")
      BY <2>2, <2>3, StageMoves
    <2>5. Lifecycle!Start(g)
      BY <1>14, <2>1, <2>4 DEF Lifecycle!Start, Lifecycle!KeepsOutputs, Lease, Stage
    <2> QED
      BY <2>5 DEF Lifecycle!Next
  <1>15. ASSUME NEW w \in Workers, NEW g \in Granules, ProcessingFailed(w, g) PROVE Lives
    <2>1. Stage(g) = "running"
      BY <1>15, StageValues DEF Stage, ProcessingFailed, IsLeased
    <2>2. Stage(g)' \in {"waiting", "stopped"}
      BY <1>15, FailedRowResult, StageValues DEF Stage, ProcessingFailed, TypeOK, RetryableStates
    <2>3. \A h \in Granules \ {g} : Stage(h)' = Stage(h)
      BY <1>15 DEF Stage, ProcessingFailed, TypeOK
    <2>4. Untouched
      BY <1>15 DEF ProcessingFailed, Untouched
    <2>5. CASE Stage(g)' = "waiting"
      BY <2>1, <2>3, <2>4, <2>5, GivesBack
    <2>6. CASE Stage(g)' = "stopped"
      BY <2>1, <2>3, <2>4, <2>6, Stops
    <2> QED
      BY <2>2, <2>5, <2>6
  <1>16. ASSUME NEW w \in Workers, NEW g \in Granules, NEW to \in Reported, StageEvent(w, g, to)
         PROVE Lives
    <2>1. to \in StageTargets /\ to \in LeasedStates /\ granule[g].state \in LeasedStates
      BY <1>16, StageStates, ReportedAssumption DEF StageEvent
    <2>2. Stage(g)' = "running" /\ Stage(g) = "running"
      BY <1>16, <2>1, AdvancedRow, StageValues DEF Stage, StageEvent, TypeOK
    <2>3. \A h \in Granules \ {g} : Stage(h)' = Stage(h)
      BY <1>16 DEF Stage, StageEvent, TypeOK
    <2> QED
      BY <1>16, <2>2, <2>3, Stutters DEF StageEvent, Untouched
  <1>17. ASSUME NEW w \in Workers, NEW g \in Granules, NEW os \in SUBSET Objects,
                UploadCompleted(w, g, os)
         PROVE Lives
    BY <1>17, UploadLives
  <1>18. ASSUME NEW w \in Workers, NEW g \in Granules, NEW ok \in BOOLEAN, ConfirmDelete(w, g, ok)
         PROVE Lives
    <2>1. granule[g].state \in {"acked", "deleted", "absent"}
      BY <1>18 DEF ConfirmDelete, DeliveryInv, ConfirmGated
    <2> QED
      BY <1>18, <2>1, Finishes DEF ConfirmDelete
  <1>19. ASSUME NEW o \in Objects, Ack(o) PROVE Lives
    BY <1>19, AckLives
  <1>20. ASSUME UNCHANGED <<granule, rows, host, acked, receipts, delivered>> PROVE Lives
    <2>1. \A g \in Granules : Stage(g)' = Stage(g)
      BY <1>20 DEF Stage
    <2> QED
      BY <1>20, <2>1, Stutters DEF Untouched
  <1>21. ASSUME NEW w \in Workers, NEW flag \in BOOLEAN, SetPaused(w, flag) \/ PurgeWorker(w)
         PROVE Lives
    BY <1>20, <1>21 DEF SetPaused, PurgeWorker
  <1>22. ASSUME NEW w \in Workers, NEW A \in SUBSET Granules,
                Crash(w) \/ SendBeat(w) \/ PollDeletable(w) \/ LoseBeat(<<w, A>>)
         PROVE Lives
    BY <1>20, <1>22 DEF Crash, SendBeat, PollDeletable, LoseBeat
  <1>23. ASSUME NEW w \in Workers, NEW g \in Granules, NEW ok \in BOOLEAN,
                HandlerEnds(w, g) \/ ReceiveOffer(w, g, ok)
         PROVE Lives
    BY <1>20, <1>23 DEF HandlerEnds, ReceiveOffer
  <1>24. ASSUME NEW o \in Objects, Receive(o) \/ PullFails(o) PROVE Lives
    BY <1>20, <1>24 DEF Receive, PullFails
  <1>25. ASSUME SetBatchStatus("running") \/ SetBatchStatus("paused") \/ ResetPullFailures
         PROVE Lives
    BY <1>20, <1>25 DEF SetBatchStatus, ResetPullFailures
  <1>26. CASE UNCHANGED vars
    BY <1>20, <1>26 DEF vars
  <1> HIDE DEF Lives
  <1> QED
    BY <1>1, <1>2, <1>3, <1>4, <1>5, <1>6, <1>7, <1>8, <1>9, <1>10, <1>11, <1>12, <1>13,
       <1>14, <1>15, <1>16, <1>17, <1>18, <1>19, <1>21, <1>22, <1>23, <1>24, <1>25, <1>26
       DEF Next, OperatorStep, BackgroundStep, WorkerStep, ReceiverStep, Lives

\* Whatever leases, messages and requests do to a granule is a step of the life that
\* GranuleLifecycle promises, or changes nothing an operator sees.
THEOREM LifecycleImplemented == ASSUME ReuseIds = FALSE PROVE Spec => ImplementsLifecycle
  <1>1. Init => TypeOK /\ DeliveryInv /\ Lifecycle!Init
    BY InitTyped, InitDelivery, InitLifecycle
  <1>2. TypeOK /\ DeliveryInv /\ [Next]_vars => TypeOK' /\ DeliveryInv'
    BY StepTyped, StepDelivery
  <1>3. TypeOK /\ DeliveryInv /\ [Next]_vars => [Lifecycle!Next]_(Lifecycle!vars)
    BY StepLives
  <1> QED
    BY <1>1, <1>2, <1>3, PTL DEF Spec, ImplementsLifecycle, Lifecycle!Spec
=============================================================================
