-------------------------- MODULE GranuleRacesProofs --------------------------
(***************************************************************************)
(* What overlapping requests leave of the guarantees of GranuleProtocol, for *)
(* any number of workers, granules, objects and requests in flight.         *)
(***************************************************************************)
EXTENDS GranuleRaces, GranuleProofs

-----------------------------------------------------------------------------
(* Requests that run alone.                                                  *)

\* A row is neither made nor counted, and its lease stays in order.
Quiet(g) ==
  /\ granule[g].state = "absent" => granule'[g].state = "absent"
  /\ granule'[g].state = "deleted" => granule[g].state = "deleted"
  /\ Disciplined(granule[g]) => Disciplined(granule'[g])

AllQuiet ==
  /\ \A g \in Granules : Quiet(g)
  /\ UNCHANGED <<delivered, retired>>
  /\ batch' = "absent" => batch = "absent"

\* The counted deletions, and the steps that make rows or take them away.
Exceptional ==
  \/ \E S \in SUBSET Granules : CreateBatch(S) \/ AddGranules(S)
  \/ \E force \in BOOLEAN : DeleteBatch(force)
  \/ \E S \in SUBSET Granules, ws \in SUBSET Workers : Retention(S, ws)
  \/ \E S \in SUBSET Granules : DeletePath(S) /\ UNCHANGED <<batch, retired>>

LEMMA RevokeQuiet ==
  ASSUME TypeOK, NEW w, RevokeLeases(w)
  PROVE  \A g \in Granules : Quiet(g)
  BY RevokedRow DEF TypeOK, RevokeLeases, Rewritten, HeldGranules, HeldBy, IsLeased, LeasedStates, Quiet

LEMMA OperatorQuiet ==
  ASSUME TypeOK, OperatorStep
  PROVE  AllQuiet \/ Exceptional
  <1> USE DEF objVars, batchVars, ledgerVars, procVars
  <1>1. ASSUME NEW S \in SUBSET Granules, CreateBatch(S) \/ AddGranules(S) PROVE Exceptional
    BY <1>1 DEF Exceptional
  <1>2. ASSUME NEW S \in SUBSET Granules, Cancel(S) PROVE AllQuiet
    <2>1. "blacklisted" \in GranuleStateSet \ LeasedStates
      BY DEF GranuleStateSet, RetryableStates, LeasedStates
    <2>2. \A g \in Granules : granule[g] \in Rows
      BY DEF TypeOK
    <2>3. \A g \in S : granule[g].state # "absent"
      BY <1>2 DEF Cancel, CancellableStates, LeasedStates
    <2>4. \A g \in Granules : granule'[g] = IF g \in S THEN Released(granule[g], "blacklisted") ELSE granule[g]
      BY <1>2 DEF Cancel
    <2>5. \A g \in Granules : Quiet(g)
      BY <2>1, <2>2, <2>3, <2>4, ReleasedRow DEF Quiet
    <2> QED
      BY <1>2, <2>5 DEF Cancel, AllQuiet
  <1>3. ASSUME NEW S \in SUBSET Granules, Retry(S) PROVE AllQuiet
    <2>1. \A g \in Granules : Quiet(g)
      BY <1>3, RestartedRow DEF TypeOK, Retry, Rewritten, RetryableStates, Quiet
    <2> QED
      BY <1>3, <2>1 DEF Retry, AllQuiet
  <1>4. ASSUME NEW force \in BOOLEAN, DeleteBatch(force) PROVE Exceptional
    BY <1>4 DEF Exceptional
  <1>5. ASSUME RequeueUndeliverable PROVE AllQuiet
    <2>1. \A g \in Granules : Quiet(g)
      BY <1>5, RestartedRow DEF TypeOK, RequeueUndeliverable, Rewritten, Undeliverable, InState, Quiet
    <2> QED
      BY <1>5, <2>1 DEF RequeueUndeliverable, AllQuiet
  <1>6. ASSUME NEW w \in Workers, RevokeAll(w) PROVE AllQuiet
    BY <1>6, RevokeQuiet DEF RevokeAll, AllQuiet
  <1>7. ASSUME NEW w \in Workers, NEW flag \in BOOLEAN, RemoveWorker(w, flag) PROVE AllQuiet
    <2>1. \A g \in Granules : Quiet(g)
      BY <1>7, RevokeQuiet DEF RemoveWorker, Quiet
    <2> QED
      BY <1>7, <2>1 DEF RemoveWorker, AllQuiet
  <1>8. ASSUME NEW s \in {"running", "paused"}, SetBatchStatus(s) PROVE AllQuiet
    BY <1>8 DEF SetBatchStatus, AllQuiet, Quiet
  <1>9. ASSUME \/ ResetPullFailures
               \/ \E w \in Workers : PurgeWorker(w) \/ \E flag \in BOOLEAN : SetPaused(w, flag)
        PROVE  AllQuiet
    BY <1>9 DEF ResetPullFailures, PurgeWorker, SetPaused, AllQuiet, Quiet
  <1> QED
    BY <1>1, <1>2, <1>3, <1>4, <1>5, <1>6, <1>7, <1>8, <1>9 DEF OperatorStep

LEMMA BackgroundQuiet ==
  ASSUME TypeOK, BackgroundStep
  PROVE  AllQuiet \/ Exceptional
  <1> USE DEF objVars, batchVars, ledgerVars, procVars
  <1>1. ASSUME SweepExpiredLeases PROVE AllQuiet
    <2>1. "pending" \in GranuleStateSet \ LeasedStates /\ \A g \in Granules : granule[g] \in Rows
      BY DEF TypeOK, GranuleStateSet, LeasedStates
    <2>2. \A g \in Granules : /\ granule'[g] = IF Ownerless(g) THEN Released(granule[g], "pending") ELSE granule[g]
                              /\ Ownerless(g) => granule[g].state # "absent"
      BY <1>1 DEF SweepExpiredLeases, Ownerless, IsLeased, LeasedStates
    <2>3. \A g \in Granules : Quiet(g)
      BY <2>1, <2>2, ReleasedRow DEF Quiet
    <2> QED
      BY <1>1, <2>3 DEF SweepExpiredLeases, AllQuiet
  <1>2. ASSUME NEW live \in SUBSET Workers, SweepOrphanedAcked(live) PROVE Exceptional
    <2>1. Orphaned(live) \in SUBSET Granules
      BY DEF Orphaned, InState
    <2> QED
      BY <1>2, <2>1 DEF SweepOrphanedAcked, Exceptional
  <1>3. ASSUME NEW S \in SUBSET Granules, NEW ws \in SUBSET Workers, Retention(S, ws) PROVE Exceptional
    BY <1>3 DEF Exceptional
  <1>4. ASSUME NEW h \in Granules, ExpireLease(h) \/ GraceElapses(h) PROVE AllQuiet
    <2>1. \A g \in Granules \ {h} : granule'[g] = granule[g]
      BY <1>4 DEF TypeOK, ExpireLease, GraceElapses
    <2>2. Quiet(h)
      <3>1. granule[h] \in Rows
        BY DEF TypeOK
      <3>2. CASE ExpireLease(h)
        <4>1. granule'[h] = [granule[h] EXCEPT !.lease = "expired"] /\ granule[h].lease = "live"
          BY <3>2 DEF TypeOK, ExpireLease
        <4> QED
          BY <3>1, <4>1, TimedRow DEF Quiet, Rows, Disciplined, IsLeased
      <3>3. CASE GraceElapses(h)
        <4>1. granule'[h] = [granule[h] EXCEPT !.fresh = FALSE]
          BY <3>3 DEF TypeOK, GraceElapses
        <4> QED
          BY <3>1, <4>1, TimedRow DEF Quiet, Rows
      <3> QED
        BY <1>4, <3>2, <3>3
    <2>3. \A g \in Granules : Quiet(g)
      BY <2>1, <2>2 DEF Quiet
    <2> QED
      BY <1>4, <2>3 DEF ExpireLease, GraceElapses, AllQuiet
  <1> QED
    BY <1>1, <1>2, <1>3, <1>4 DEF BackgroundStep

LEMMA WorkerQuiet ==
  ASSUME TypeOK, NEW w \in Workers, WorkerStep(w)
  PROVE  AllQuiet \/ Exceptional
  <1> USE DEF objVars, batchVars, ledgerVars, procVars
  <1>1. ASSUME Register(w) PROVE AllQuiet
    <2>1. \A g \in Granules : Quiet(g)
      BY <1>1, RevokeQuiet DEF Register, Quiet
    <2> QED
      BY <1>1, <2>1 DEF Register, AllQuiet
  <1>2. ASSUME NEW A \in SUBSET Granules, NEW arrives \in BOOLEAN, ServeBeat(w, A, arrives)
        PROVE  AllQuiet
    <2>1. ASSUME NEW g \in Granules
          PROVE  \/ granule'[g] = granule[g]
                 \/ g \in HeldGranules(w) /\ granule'[g] = Released(granule[g], "pending")
                 \/ g \in HeldGranules(w) /\ granule'[g] = [granule[g] EXCEPT !.lease = "live"]
      BY <1>2 DEF ServeBeat, Reclaimable
    <2>2. ASSUME NEW g \in Granules PROVE Quiet(g)
      <3>1. granule[g] \in Rows /\ "pending" \in GranuleStateSet \ LeasedStates
        BY DEF TypeOK, GranuleStateSet, LeasedStates
      <3>2. g \in HeldGranules(w) => IsLeased(granule[g]) /\ granule[g].state # "absent"
        BY DEF HeldGranules, HeldBy, IsLeased, LeasedStates
      <3>3. CASE granule'[g] = granule[g]
        BY <3>3 DEF Quiet
      <3>4. CASE g \in HeldGranules(w) /\ granule'[g] = Released(granule[g], "pending")
        BY <3>1, <3>2, <3>4, ReleasedRow DEF Quiet
      <3>5. CASE g \in HeldGranules(w) /\ granule'[g] = [granule[g] EXCEPT !.lease = "live"]
        BY <3>1, <3>2, <3>5, TimedRow DEF Quiet, Rows, Disciplined, IsLeased
      <3> QED
        BY <2>1, <3>3, <3>4, <3>5
    <2> QED
      BY <1>2, <2>2 DEF ServeBeat, AllQuiet
  <1>3. ASSUME NEW h \in Granules, ProcessingFailed(w, h) PROVE AllQuiet
    <2>1. granule'[h] = FailedRow(granule[h]) /\ \A g \in Granules \ {h} : granule'[g] = granule[g]
      BY <1>3 DEF TypeOK, ProcessingFailed
    <2>2. granule[h] \in Rows /\ granule[h].state # "absent"
      BY <1>3 DEF TypeOK, ProcessingFailed, IsLeased, LeasedStates
    <2>3. \A g \in Granules : Quiet(g)
      BY <2>1, <2>2, FailedRowResult DEF Quiet
    <2> QED
      BY <1>3, <2>3 DEF ProcessingFailed, AllQuiet
  <1>4. ASSUME NEW h \in Granules, NEW to \in Reported, StageEvent(w, h, to) PROVE AllQuiet
    <2>1. granule'[h] = Advanced(granule[h], to) /\ \A g \in Granules \ {h} : granule'[g] = granule[g]
      BY <1>4 DEF TypeOK, StageEvent
    <2>2. /\ to \in StageTargets /\ to \in LeasedStates /\ granule[h] \in Rows
          /\ IsLeased(granule[h]) /\ granule[h].state # "absent"
      BY <1>4, StageStates, ReportedAssumption DEF TypeOK, StageEvent, IsLeased, LeasedStates
    <2>3. to # "deleted"
      BY <2>2 DEF LeasedStates
    <2>4. \A g \in Granules : Quiet(g)
      BY <2>1, <2>2, <2>3, AdvancedRow DEF Quiet
    <2> QED
      BY <1>4, <2>4 DEF StageEvent, AllQuiet
  <1>5. ASSUME NEW h \in Granules, NEW os \in SUBSET Objects, UploadCompleted(w, h, os) PROVE AllQuiet
    <2>1. granule'[h] = Released(granule[h], "uploaded") /\ \A g \in Granules \ {h} : granule'[g] = granule[g]
      BY <1>5 DEF TypeOK, UploadCompleted
    <2>2. /\ granule[h] \in Rows /\ granule[h].state # "absent"
          /\ "uploaded" \in GranuleStateSet \ LeasedStates
      BY <1>5 DEF TypeOK, UploadCompleted, AcceptedFrom, GranuleStateSet, LeasedStates
    <2>3. \A g \in Granules : Quiet(g)
      BY <2>1, <2>2, ReleasedRow DEF Quiet
    <2> QED
      BY <1>5, <2>3 DEF UploadCompleted, AllQuiet
  <1>6. ASSUME NEW h \in Granules, NEW ok \in BOOLEAN, ConfirmDelete(w, h, ok) PROVE Exceptional
    <2>1. {h} \in SUBSET Granules
      OBVIOUS
    <2> QED
      BY <1>6, <2>1 DEF ConfirmDelete, Exceptional
  <1>7. ASSUME NEW h \in Granules, Lease(w, h) PROVE AllQuiet
    <2>1. granule'[h] = Claimed(granule[h], w) /\ \A g \in Granules \ {h} : granule'[g] = granule[g]
      BY <1>7 DEF TypeOK, Lease
    <2>2. granule[h] \in Rows /\ granule[h].state # "absent"
      BY <1>7 DEF TypeOK, Lease, Claimable
    <2>3. \A g \in Granules : Quiet(g)
      BY <2>1, <2>2, ClaimedRow DEF Quiet
    <2> QED
      BY <1>7, <2>3 DEF Lease, AllQuiet
  <1>8. ASSUME \/ Crash(w) \/ SendBeat(w) \/ PollDeletable(w)
               \/ \E A \in SUBSET Granules : LoseBeat(<<w, A>>)
               \/ \E g \in Granules : HandlerEnds(w, g) \/ \E ok \in BOOLEAN : ReceiveOffer(w, g, ok)
        PROVE  AllQuiet
    <2>1. UNCHANGED <<granule, batch, delivered, retired>>
      BY <1>8 DEF Crash, SendBeat, PollDeletable, LoseBeat, HandlerEnds, ReceiveOffer
    <2> QED
      BY <2>1 DEF AllQuiet, Quiet
  <1> QED
    BY <1>1, <1>2, <1>3, <1>4, <1>5, <1>6, <1>7, <1>8 DEF WorkerStep

LEMMA ReceiverQuiet ==
  ASSUME TypeOK, NEW o \in Objects, ReceiverStep(o)
  PROVE  AllQuiet
  <1> USE DEF objVars, batchVars, ledgerVars, procVars
  <1>1. CASE Receive(o) \/ PullFails(o)
    BY <1>1 DEF Receive, PullFails, AllQuiet, Quiet
  <1>2. CASE Ack(o)
    <2>1. ASSUME NEW g \in Granules
          PROVE  \/ granule'[g] = granule[g]
                 \/ granule[g].state = "uploaded" /\ granule'[g] = [granule[g] EXCEPT !.state = "acked"]
      BY <1>2 DEF TypeOK, Ack, AckGate
    <2>2. /\ "acked" \in GranuleStateSet \ LeasedStates /\ "uploaded" \notin LeasedStates
          /\ \A g \in Granules : granule[g] \in Rows
      BY DEF TypeOK, GranuleStateSet, LeasedStates
    <2>3. ASSUME NEW g \in Granules PROVE Quiet(g)
      <3>1. CASE granule'[g] = granule[g]
        BY <3>1 DEF Quiet
      <3>2. CASE granule[g].state = "uploaded" /\ granule'[g] = [granule[g] EXCEPT !.state = "acked"]
        <4>1. [granule[g] EXCEPT !.state = "acked"].state = "acked"
          BY <2>2, MovedRow
        <4>2. ~ IsLeased(granule[g])
          BY <2>2, <3>2 DEF IsLeased
        <4>3. Disciplined(granule[g]) => Disciplined(granule'[g])
          BY <2>2, <3>2, <4>2, MovedRow
        <4> QED
          BY <3>2, <4>1, <4>3 DEF Quiet
      <3> QED
        BY <2>1, <3>1, <3>2
    <2> QED
      BY <1>2, <2>3 DEF Ack, AllQuiet
  <1> QED
    BY <1>1, <1>2 DEF ReceiverStep

LEMMA StepQuiet ==
  ASSUME TypeOK, [Next]_vars
  PROVE  AllQuiet \/ Exceptional
  <1>1. CASE UNCHANGED vars
    BY <1>1 DEF vars, batchVars, AllQuiet, Quiet
  <1> QED
    BY <1>1, OperatorQuiet, BackgroundQuiet, WorkerQuiet, ReceiverQuiet DEF Next

-----------------------------------------------------------------------------
(* What overlapping requests write.                                          *)

\* The counter is not behind.
NotBehind == Cardinality(InState("deleted") \cup retired) <= delivered

\* No request means to write that a granule is deleted: the delete path alone does that.
WritesKeep ==
  \A i \in Slots : InFlight(i, "write") => \A g \in DOMAIN tx[i].new : tx[i].new[g].state # "deleted"

RaceInv == RaceTypeOK /\ BatchOwnsRows /\ NotBehind /\ WritesKeep

LEMMA CountedSet ==
  ASSUME TypeOK
  PROVE  LET D == InState("deleted") \cup retired
         IN IsFiniteSet(D) /\ D \subseteq Granules /\ Cardinality(D) \in Nat
  BY GranulesAssumption, FS_Subset, FS_CardinalityType DEF TypeOK, InState

LEMMA QuietSteps ==
  ASSUME TypeOK, BatchOwnsRows, NotBehind, UNCHANGED <<delivered, retired>>,
         \A g \in Granules : /\ granule[g].state = "absent" => granule'[g].state = "absent"
                             /\ granule'[g].state = "deleted" => granule[g].state = "deleted",
         batch' = "absent" => batch = "absent"
  PROVE  BatchOwnsRows' /\ NotBehind'
  <1>1. BatchOwnsRows'
    BY DEF BatchOwnsRows
  <1> DEFINE D == InState("deleted") \cup retired
  <1>2. D' \subseteq D
    BY DEF InState
  <1>3. IsFiniteSet(D) /\ Cardinality(D) \in Nat
    BY CountedSet
  <1> HIDE DEF D
  <1>4. Cardinality(D') <= Cardinality(D) /\ Cardinality(D') \in Nat
    BY <1>2, <1>3, FS_Subset, FS_CardinalityType
  <1>5. D' = InState("deleted")' \cup retired'
    BY DEF D
  <1>6. Cardinality(D) <= delivered /\ delivered \in Nat /\ delivered' = delivered
    BY DEF D, NotBehind, TypeOK
  <1>7. Cardinality(D') <= delivered'
    BY <1>3, <1>4, <1>6
  <1> QED
    BY <1>1, <1>5, <1>7 DEF NotBehind

LEMMA ExceptionalSteps ==
  ASSUME TypeOK, BatchOwnsRows, NotBehind, Exceptional
  PROVE  BatchOwnsRows' /\ NotBehind'
  <1> USE DEF objVars, batchVars, ledgerVars, procVars
  <1>1. ASSUME NEW S \in SUBSET Granules, CreateBatch(S) PROVE BatchOwnsRows' /\ NotBehind'
    <2>1. InState("deleted")' \cup retired' = {}
      BY <1>1, SubmittedRow DEF CreateBatch, Submit, InState, BatchOwnsRows
    <2>2. NotBehind'
      BY <1>1, <2>1, FS_EmptySet DEF CreateBatch, NotBehind
    <2> QED
      BY <1>1, <2>2 DEF CreateBatch, BatchOwnsRows
  <1>2. ASSUME NEW S \in SUBSET Granules, AddGranules(S) PROVE BatchOwnsRows' /\ NotBehind'
    <2>1. InState("deleted")' \cup retired' = InState("deleted") \cup retired
      BY <1>2, SubmittedRow DEF AddGranules, Submit, Submittable, InState
    <2>2. NotBehind'
      BY <1>2, <2>1 DEF AddGranules, NotBehind
    <2> QED
      BY <1>2, <2>2 DEF AddGranules, BatchOwnsRows
  <1>3. ASSUME NEW force \in BOOLEAN, DeleteBatch(force) PROVE BatchOwnsRows' /\ NotBehind'
    <2>1. \A g \in Granules : granule'[g].state = "absent"
      BY <1>3, AbsentRow DEF DeleteBatch
    <2>2. InState("deleted")' \cup retired' = {}
      BY <1>3, <2>1 DEF DeleteBatch, InState
    <2>3. NotBehind'
      BY <1>3, <2>2, FS_EmptySet DEF DeleteBatch, NotBehind
    <2> QED
      BY <2>1, <2>3 DEF BatchOwnsRows
  <1>4. ASSUME NEW S \in SUBSET Granules, NEW ws \in SUBSET Workers, Retention(S, ws)
        PROVE  BatchOwnsRows' /\ NotBehind'
    <2>1. InState("deleted")' \cup retired' = InState("deleted") \cup retired
      BY <1>4, AbsentRow DEF Retention, InState, TypeOK
    <2>2. NotBehind'
      BY <1>4, <2>1 DEF Retention, NotBehind
    <2> QED
      BY <1>4, <2>2, AbsentRow DEF Retention, BatchOwnsRows
  <1>5. ASSUME NEW S \in SUBSET Granules, DeletePath(S), UNCHANGED <<batch, retired>>
        PROVE  BatchOwnsRows' /\ NotBehind'
    <2> DEFINE flipped == {g \in S : granule[g].state \notin {"deleted", "absent"}}
               D == InState("deleted") \cup retired
    <2>1. /\ delivered' = delivered + Cardinality(flipped)
          /\ granule' = [g \in Granules |->
                           IF g \in flipped THEN [granule[g] EXCEPT !.state = "deleted"]
                                            ELSE granule[g]]
      BY <1>5 DEF DeletePath
    <2>2. flipped \subseteq Granules /\ \A g \in flipped : granule[g].state # "absent"
      OBVIOUS
    <2> HIDE DEF flipped
    <2>3. D' \subseteq D \cup flipped
      BY <1>5, <2>1 DEF InState
    <2>4. IsFiniteSet(D) /\ Cardinality(D) \in Nat
      BY CountedSet
    <2>5. Cardinality(D) <= delivered /\ delivered \in Nat
      BY DEF NotBehind, TypeOK
    <2>6. D' = InState("deleted")' \cup retired'
      OBVIOUS
    <2> HIDE DEF D
    <2>7. IsFiniteSet(flipped) /\ Cardinality(flipped) \in Nat
      BY <2>2, GranulesAssumption, FS_Subset, FS_CardinalityType
    <2>8. /\ IsFiniteSet(D \cup flipped) /\ Cardinality(D \cup flipped) \in Nat
          /\ Cardinality(D \cup flipped) <= Cardinality(D) + Cardinality(flipped)
      <3>1. /\ IsFiniteSet(D \cup flipped)
            /\ Cardinality(D \cup flipped) = Cardinality(D) + Cardinality(flipped) - Cardinality(D \cap flipped)
        BY <2>4, <2>7, FS_Union
      <3>2. Cardinality(D \cap flipped) \in Nat
        BY <2>4, FS_Intersection, FS_CardinalityType
      <3> QED
        BY <2>4, <2>7, <3>1, <3>2, FS_CardinalityType
    <2>9. Cardinality(D') <= Cardinality(D \cup flipped) /\ Cardinality(D') \in Nat
      BY <2>3, <2>8, FS_Subset, FS_CardinalityType
    <2>10. Cardinality(D') <= delivered'
      BY <2>1, <2>4, <2>5, <2>7, <2>8, <2>9
    <2>11. BatchOwnsRows'
      BY <1>5, <2>1, <2>2 DEF BatchOwnsRows
    <2> QED
      BY <2>6, <2>10, <2>11 DEF NotBehind
  <1> QED
    BY <1>1, <1>2, <1>3, <1>4, <1>5 DEF Exceptional

\* The ORM writes a row column by column, so what it leaves is still a row.
LEMMA FlushedRow ==
  ASSUME NEW row \in Rows, NEW snap \in Rows, NEW new \in Rows
  PROVE  /\ Flushed(row, snap, new) \in Rows
         /\ Flushed(row, snap, new).state = IF new.state # snap.state THEN new.state ELSE row.state
  <1>1. PICK merged : merged = [c \in DOMAIN row |-> IF new[c] # snap[c] THEN new[c] ELSE row[c]]
    OBVIOUS
  <1>2. DOMAIN row = {"state", "leased_by", "lease", "retry", "fresh"}
    BY DEF Rows
  <1>3. /\ merged.state = IF new.state # snap.state THEN new.state ELSE row.state
        /\ merged.leased_by = IF new.leased_by # snap.leased_by THEN new.leased_by ELSE row.leased_by
        /\ merged.lease = IF new.lease # snap.lease THEN new.lease ELSE row.lease
        /\ merged.retry = IF new.retry # snap.retry THEN new.retry ELSE row.retry
        /\ merged.fresh = IF new.fresh # snap.fresh THEN new.fresh ELSE row.fresh
    BY <1>1, <1>2
  <1>4. merged \in Rows
    BY <1>1, <1>2, <1>3 DEF Rows
  <1>5. Flushed(row, snap, new) = [merged EXCEPT !.fresh = IsLeased(merged)]
    BY <1>1 DEF Flushed
  <1>6. IsLeased(merged) \in BOOLEAN
    BY DEF IsLeased
  <1> QED
    BY <1>3, <1>4, <1>5, <1>6 DEF Rows

-----------------------------------------------------------------------------
(* The reads.                                                                *)

LEMMA KindOf ==
  ASSUME RaceTypeOK, NEW i \in Slots
  PROVE  /\ InFlight(i, "write") => tx[i] \in WriteTxs
         /\ InFlight(i, "ack") => tx[i] \in AckTxs
         /\ InFlight(i, "beat") => tx[i] \in BeatTxs
         /\ InFlight(i, "lease") => tx[i] \in LeaseTxs
  BY DEF RaceTypeOK, InFlight, Idle, WriteTxs, AckTxs, BeatTxs, LeaseTxs

\* A step that leaves the tables alone and puts into a slot what may be in one.
LEMMA SlotStep ==
  ASSUME RaceInv, UNCHANGED vars, NEW i \in Slots, NEW t, tx' = [tx EXCEPT ![i] = t],
         t \in {Idle} \cup WriteTxs \cup AckTxs \cup BeatTxs \cup LeaseTxs,
         t.kind = "write" => \A g \in DOMAIN t.new : t.new[g].state # "deleted"
  PROVE  RaceInv'
  <1>1. TypeOK' /\ BatchOwnsRows' /\ NotBehind'
    BY DEF RaceInv, RaceTypeOK, vars, objVars, batchVars, ledgerVars, procVars, TypeOK,
           BatchOwnsRows, NotBehind, InState
  <1>2. \A j \in Slots : tx'[j] = tx[j] \/ tx'[j] = t
    OBVIOUS
  <1>3. RaceTypeOK'
    BY <1>1, <1>2 DEF RaceInv, RaceTypeOK
  <1>4. WritesKeep'
    BY <1>2 DEF RaceInv, WritesKeep, InFlight
  <1> QED
    BY <1>1, <1>3, <1>4 DEF RaceInv

LEMMA BeginWriteStep ==
  ASSUME RaceInv, NEW i \in Slots, NEW S \in SUBSET Granules, NEW N \in [S -> Rows],
         \A g \in S : N[g].state # "deleted",
         NEW u \in Workers \cup {NoWorker}, NEW d \in BOOLEAN,
         Begin(i, [kind |-> "write", snap |-> [g \in S |-> granule[g]], new |-> N,
                   uploader |-> u, drop |-> d])
  PROVE  RaceInv'
  <1>1. PICK t : t = [kind |-> "write", snap |-> [g \in S |-> granule[g]], new |-> N,
                      uploader |-> u, drop |-> d]
    OBVIOUS
  <1>2. [g \in S |-> granule[g]] \in [S -> Rows]
    BY DEF RaceInv, RaceTypeOK, TypeOK
  <1>3. t \in WriteTxs
    BY <1>1, <1>2 DEF WriteTxs
  <1>4. tx' = [tx EXCEPT ![i] = t] /\ UNCHANGED vars
    BY <1>1 DEF Begin
  <1>5. t.new = N /\ DOMAIN N = S
    BY <1>1
  <1> QED
    BY <1>3, <1>4, <1>5, SlotStep

LEMMA BeginStepInv ==
  ASSUME RaceInv, NEW i \in Slots, BeginStep(i)
  PROVE  RaceInv'
  <1>1. TypeOK /\ \A g \in Granules : granule[g] \in Rows
    BY DEF RaceInv, RaceTypeOK, TypeOK
  <1>a. /\ "pending" \in GranuleStateSet \ LeasedStates /\ "uploaded" \in GranuleStateSet \ LeasedStates
        /\ "blacklisted" \in GranuleStateSet \ LeasedStates
    BY DEF GranuleStateSet, LeasedStates, RetryableStates
  <1>2. ASSUME BeginRequeue(i) PROVE RaceInv'
    <2>1. Undeliverable \subseteq Granules
      BY DEF Undeliverable, InState
    <2>2. PICK N : N = [g \in Undeliverable |-> Restarted(granule[g])]
      OBVIOUS
    <2>3. N \in [Undeliverable -> Rows] /\ \A g \in Undeliverable : N[g].state # "deleted"
      BY <1>1, <2>1, <2>2, RestartedRow
    <2>4. Begin(i, [kind |-> "write", snap |-> [g \in Undeliverable |-> granule[g]], new |-> N,
                    uploader |-> NoWorker, drop |-> TRUE])
      BY <1>2, <2>2 DEF BeginRequeue, Write
    <2> QED
      BY <2>1, <2>3, <2>4, BeginWriteStep
  <1>3. ASSUME NEW g \in Granules, BeginCancel(i, g) PROVE RaceInv'
    <2>1. PICK N : N = [h \in {g} |-> CancelledRow(granule[h])]
      OBVIOUS
    <2>2. N \in [{g} -> Rows] /\ \A h \in {g} : N[h].state # "deleted"
      BY <1>1, <1>a, <2>1, ReleasedRow DEF CancelledRow
    <2>3. Begin(i, [kind |-> "write", snap |-> [h \in {g} |-> granule[h]], new |-> N,
                    uploader |-> NoWorker, drop |-> FALSE])
      BY <1>3, <2>1 DEF BeginCancel, Write
    <2> QED
      BY <2>2, <2>3, BeginWriteStep
  <1>4. ASSUME NEW g \in Granules, BeginRetry(i, g) PROVE RaceInv'
    <2>1. PICK N : N = [h \in {g} |-> Restarted(granule[h])]
      OBVIOUS
    <2>2. N \in [{g} -> Rows] /\ \A h \in {g} : N[h].state # "deleted"
      BY <1>1, <2>1, RestartedRow
    <2>3. Begin(i, [kind |-> "write", snap |-> [h \in {g} |-> granule[h]], new |-> N,
                    uploader |-> NoWorker, drop |-> FALSE])
      BY <1>4, <2>1 DEF BeginRetry, Write
    <2> QED
      BY <2>2, <2>3, BeginWriteStep
  <1>5. ASSUME NEW w \in Workers, BeginRevoke(i, w) PROVE RaceInv'
    <2>1. HeldGranules(w) \subseteq Granules
      BY DEF HeldGranules
    <2>2. PICK N : N = [g \in HeldGranules(w) |-> Revoked(granule[g])]
      OBVIOUS
    <2>3. N \in [HeldGranules(w) -> Rows] /\ \A g \in HeldGranules(w) : N[g].state # "deleted"
      BY <1>1, <2>1, <2>2, RevokedRow
    <2>4. Begin(i, [kind |-> "write", snap |-> [g \in HeldGranules(w) |-> granule[g]], new |-> N,
                    uploader |-> NoWorker, drop |-> FALSE])
      BY <1>5, <2>2 DEF BeginRevoke, Write
    <2> QED
      BY <2>1, <2>3, <2>4, BeginWriteStep
  <1>6. ASSUME NEW w \in Workers, NEW g \in Granules, BeginEvent(i, w, g) PROVE RaceInv'
    <2>1. ASSUME NEW to \in Reported,
                 Begin(i, Write({g}, LAMBDA row : Advanced(row, to), NoWorker, FALSE))
          PROVE  RaceInv'
      <3>1. PICK N : N = [h \in {g} |-> Advanced(granule[h], to)]
        OBVIOUS
      <3>2. to \in StageTargets /\ to \in LeasedStates
        BY ReportedAssumption, StageStates
      <3>3. to # "deleted"
        BY <3>2 DEF LeasedStates
      <3>4. N \in [{g} -> Rows] /\ \A h \in {g} : N[h].state # "deleted"
        BY <1>1, <3>1, <3>2, <3>3, AdvancedRow
      <3>5. Begin(i, [kind |-> "write", snap |-> [h \in {g} |-> granule[h]], new |-> N,
                      uploader |-> NoWorker, drop |-> FALSE])
        BY <2>1, <3>1 DEF Write
      <3> QED
        BY <3>4, <3>5, BeginWriteStep
    <2>2. ASSUME Begin(i, Write({g}, UploadedRow, w, FALSE)) PROVE RaceInv'
      <3>1. PICK N : N = [h \in {g} |-> UploadedRow(granule[h])]
        OBVIOUS
      <3>2. N \in [{g} -> Rows] /\ \A h \in {g} : N[h].state # "deleted"
        BY <1>1, <1>a, <3>1, ReleasedRow DEF UploadedRow
      <3>3. Begin(i, [kind |-> "write", snap |-> [h \in {g} |-> granule[h]], new |-> N,
                      uploader |-> w, drop |-> FALSE])
        BY <2>2, <3>1 DEF Write
      <3> QED
        BY <3>2, <3>3, BeginWriteStep
    <2>3. ASSUME Begin(i, Write({g}, FailedRow, NoWorker, FALSE)) PROVE RaceInv'
      <3>1. PICK N : N = [h \in {g} |-> FailedRow(granule[h])]
        OBVIOUS
      <3>2. N \in [{g} -> Rows] /\ \A h \in {g} : N[h].state # "deleted"
        BY <1>1, <3>1, FailedRowResult
      <3>3. Begin(i, [kind |-> "write", snap |-> [h \in {g} |-> granule[h]], new |-> N,
                      uploader |-> NoWorker, drop |-> FALSE])
        BY <2>3, <3>1 DEF Write
      <3> QED
        BY <3>2, <3>3, BeginWriteStep
    <2> QED
      BY <1>6, <2>1, <2>2, <2>3 DEF BeginEvent
  <1>7. ASSUME NEW o \in Objects, BeginAck(i, o) PROVE RaceInv'
    <2>1. PICK g \in Granules :
             Begin(i, [kind |-> "ack", object |-> o, g |-> g, state |-> granule[g].state,
                       seen |-> o \in acked])
      BY <1>7 DEF BeginAck
    <2>2. PICK t : t = [kind |-> "ack", object |-> o, g |-> g, state |-> granule[g].state,
                        seen |-> o \in acked]
      OBVIOUS
    <2>3. granule[g].state \in RowStates
      BY <1>1 DEF Rows
    <2>4. t \in AckTxs /\ t.kind # "write"
      BY <2>2, <2>3 DEF AckTxs
    <2> QED
      BY <2>1, <2>2, <2>4, SlotStep DEF Begin
  <1>8. ASSUME NEW w \in Workers, NEW A \in SUBSET Granules, BeginBeat(i, w, A) PROVE RaceInv'
    <2>1. PICK t : t = [kind |-> "beat", w |-> w, active |-> A, doomed |-> Reclaimable(w, A)]
      OBVIOUS
    <2>2. Reclaimable(w, A) \in SUBSET Granules
      BY DEF Reclaimable, HeldGranules
    <2>3. t \in BeatTxs /\ t.kind # "write"
      BY <2>1, <2>2 DEF BeatTxs
    <2> QED
      BY <1>8, <2>1, <2>3, SlotStep DEF BeginBeat, Begin
  <1>9. ASSUME NEW w \in Workers, BeginLease(i, w) PROVE RaceInv'
    <2>1. PICK t : t = [kind |-> "lease", w |-> w]
      OBVIOUS
    <2>2. t \in LeaseTxs /\ t.kind # "write"
      BY <2>1 DEF LeaseTxs
    <2> QED
      BY <1>9, <2>1, <2>2, SlotStep DEF BeginLease, Begin
  <1> QED
    BY <1>2, <1>3, <1>4, <1>5, <1>6, <1>7, <1>8, <1>9 DEF BeginStep

-----------------------------------------------------------------------------
(* The commits.                                                              *)

LEMMA FreedSlot ==
  ASSUME RaceInv, TypeOK', BatchOwnsRows', NotBehind', NEW i \in Slots, tx' = [tx EXCEPT ![i] = Idle]
  PROVE  RaceInv'
  <1>1. \A j \in Slots : tx'[j] = tx[j] \/ tx'[j] = Idle
    OBVIOUS
  <1>2. RaceTypeOK'
    BY <1>1 DEF RaceInv, RaceTypeOK
  <1>3. WritesKeep'
    BY <1>1 DEF RaceInv, WritesKeep, InFlight, Idle
  <1> QED
    BY <1>2, <1>3 DEF RaceInv

\* Nothing was written: the commit failed, or the client had given up.
LEMMA NothingWritten ==
  ASSUME RaceInv, NEW i \in Slots, tx' = [tx EXCEPT ![i] = Idle], UNCHANGED vars
  PROVE  RaceInv'
  <1>1. Idle.kind # "write"
    BY DEF Idle
  <1> QED
    BY <1>1, SlotStep

LEMMA CommitWriteStep ==
  ASSUME RaceInv, NEW i \in Slots, CommitWrite(i)
  PROVE  RaceInv'
  <1> USE DEF objVars, batchVars, ledgerVars, procVars
  <1>1. TypeOK /\ BatchOwnsRows /\ NotBehind /\ RaceTypeOK
    BY DEF RaceInv, RaceTypeOK
  <1>2. PICK t : t = tx[i]
    OBVIOUS
  <1>3. t \in WriteTxs /\ tx' = [tx EXCEPT ![i] = Idle]
    BY <1>1, <1>2, KindOf DEF CommitWrite
  <1> DEFINE S == DOMAIN t.snap
  <1>4. /\ S \in SUBSET Granules /\ t.snap \in [S -> Rows] /\ t.new \in [S -> Rows]
        /\ t.uploader \in Workers \cup {NoWorker}
    BY <1>3 DEF WriteTxs
  <1>5. CASE Stale(t)
    BY <1>2, <1>3, <1>5, NothingWritten DEF CommitWrite
  <1>6. CASE ~ Stale(t)
    <2>1. \A g \in S : granule[g].state # "absent"
      BY <1>6 DEF Stale
    <2>2. /\ granule' = [g \in Granules |-> IF g \in S THEN Flushed(granule[g], t.snap[g], t.new[g])
                                                       ELSE granule[g]]
          /\ \/ t.uploader = NoWorker /\ ~ t.drop /\ UNCHANGED objVars
             \/ t.drop /\ DropObjects(UNION {rows[g] : g \in S})
             \/ /\ t.uploader # NoWorker
                /\ \E os \in SUBSET {o \in Objects : host[o] = NoWorker} \ {{}} :
                     /\ rows' = [g \in Granules |-> IF g \in S THEN rows[g] \cup os ELSE rows[g]]
                     /\ host' = [o \in Objects |-> IF o \in os THEN t.uploader ELSE host[o]]
                /\ UNCHANGED <<acked, deleted, exhausted>>
          /\ UNCHANGED <<batchVars, ledgerVars, worker, procVars>>
      BY <1>2, <1>6 DEF CommitWrite
    <2>3. ASSUME NEW g \in Granules
          PROVE  /\ granule'[g] \in Rows
                 /\ granule[g].state = "absent" => granule'[g].state = "absent"
                 /\ granule'[g].state = "deleted" => granule[g].state = "deleted"
      <3>1. granule[g] \in Rows
        BY <1>1 DEF TypeOK
      <3>2. CASE g \in S
        <4>1. granule'[g] = Flushed(granule[g], t.snap[g], t.new[g])
          BY <2>2, <3>2
        <4>2. t.new[g].state # "deleted"
          <5>1. g \in DOMAIN tx[i].new /\ InFlight(i, "write")
            BY <1>2, <1>4, <3>2 DEF CommitWrite
          <5> QED
            BY <1>2, <5>1 DEF RaceInv, WritesKeep
        <4>3. t.snap[g] \in Rows /\ t.new[g] \in Rows
          BY <1>4, <3>2
        <4> QED
          BY <2>1, <3>1, <3>2, <4>1, <4>2, <4>3, FlushedRow
      <3>3. CASE g \notin S
        BY <2>2, <3>1, <3>3
      <3> QED
        BY <3>2, <3>3
    <2>4. granule' = [g \in Granules |-> granule'[g]]
      BY <2>2
    <2>5. granule' \in [Granules -> Rows]
      BY <2>3, <2>4
    <2>6. /\ rows' \in [Granules -> SUBSET Objects] /\ host' \in [Objects -> Workers \cup {NoWorker}]
          /\ acked' \subseteq Objects /\ deleted' \subseteq Objects /\ exhausted' \subseteq Objects
      <3>1. CASE UNCHANGED objVars
        BY <1>1, <3>1 DEF TypeOK
      <3>2. CASE DropObjects(UNION {rows[g] : g \in S})
        <4>1. host' = host
          BY <3>2 DEF DropObjects
        <4> QED
          BY <1>1, <3>2, <4>1, TypedDrop DEF TypeOK
      <3>3. ASSUME NEW os \in SUBSET {o \in Objects : host[o] = NoWorker},
                   rows' = [g \in Granules |-> IF g \in S THEN rows[g] \cup os ELSE rows[g]],
                   host' = [o \in Objects |-> IF o \in os THEN t.uploader ELSE host[o]],
                   UNCHANGED <<acked, deleted, exhausted>>
            PROVE  /\ rows' \in [Granules -> SUBSET Objects]
                   /\ host' \in [Objects -> Workers \cup {NoWorker}]
                   /\ acked' \subseteq Objects /\ deleted' \subseteq Objects /\ exhausted' \subseteq Objects
        BY <1>1, <1>4, <3>3 DEF TypeOK
      <3> QED
        BY <2>2, <3>1, <3>2, <3>3
    <2>7. TypeOK'
      BY <1>1, <2>2, <2>5, <2>6 DEF TypeOK
    <2>8. BatchOwnsRows' /\ NotBehind'
      BY <1>1, <2>2, <2>3, QuietSteps
    <2> QED
      BY <1>3, <2>7, <2>8, FreedSlot
  <1> QED
    BY <1>5, <1>6

LEMMA CommitAckStep ==
  ASSUME RaceInv, NEW i \in Slots, CommitAck(i)
  PROVE  RaceInv'
  <1> USE DEF objVars, batchVars, ledgerVars, procVars
  <1>1. TypeOK /\ BatchOwnsRows /\ NotBehind /\ RaceTypeOK
    BY DEF RaceInv, RaceTypeOK
  <1>2. PICK t : t = tx[i]
    OBVIOUS
  <1>3. t \in AckTxs /\ tx' = [tx EXCEPT ![i] = Idle]
    BY <1>1, <1>2, KindOf DEF CommitAck
  <1>4. t.object \in Objects /\ t.g \in Granules
    BY <1>3 DEF AckTxs
  <1>5. \/ UNCHANGED vars
        \/ /\ acked' = acked \cup ({t.object} \cap rows[t.g])
           /\ receipts' = receipts \cup Archived(t, acked')
           /\ \/ granule' = granule
              \/ /\ granule[t.g].state # "absent"
                 /\ granule' = [granule EXCEPT ![t.g] = [granule[t.g] EXCEPT !.state = "acked",
                                                                             !.fresh = FALSE]]
           /\ UNCHANGED <<rows, host, deleted, exhausted, batchVars, received, worker, procVars>>
    BY <1>2 DEF CommitAck
  <1>6. CASE UNCHANGED vars
    BY <1>3, <1>6, NothingWritten
  <1>7. CASE /\ acked' = acked \cup ({t.object} \cap rows[t.g])
             /\ receipts' = receipts \cup Archived(t, acked')
             /\ \/ granule' = granule
                \/ /\ granule[t.g].state # "absent"
                   /\ granule' = [granule EXCEPT ![t.g] = [granule[t.g] EXCEPT !.state = "acked",
                                                                               !.fresh = FALSE]]
             /\ UNCHANGED <<rows, host, deleted, exhausted, batchVars, received, worker, procVars>>
    <2>1. /\ granule' \in [Granules -> Rows]
          /\ \A g \in Granules : /\ granule[g].state = "absent" => granule'[g].state = "absent"
                                 /\ granule'[g].state = "deleted" => granule[g].state = "deleted"
      <3>1. CASE granule' = granule
        BY <1>1, <3>1 DEF TypeOK
      <3>2. CASE /\ granule[t.g].state # "absent"
                 /\ granule' = [granule EXCEPT ![t.g] = [granule[t.g] EXCEPT !.state = "acked",
                                                                             !.fresh = FALSE]]
        <4>1. PICK r : r = [granule[t.g] EXCEPT !.state = "acked", !.fresh = FALSE]
          OBVIOUS
        <4>2. granule[t.g] \in Rows /\ "acked" \in RowStates
          BY <1>1, <1>4 DEF TypeOK, RowStates, GranuleStateSet
        <4>3. r \in Rows /\ r.state = "acked"
          BY <4>1, <4>2 DEF Rows
        <4>4. granule' = [granule EXCEPT ![t.g] = r]
          BY <3>2, <4>1
        <4> QED
          BY <1>1, <1>4, <3>2, <4>3, <4>4 DEF TypeOK
      <3> QED
        BY <1>7, <3>1, <3>2
    <2>2. acked' \subseteq Objects /\ receipts' \subseteq Objects
      BY <1>1, <1>4, <1>7 DEF TypeOK, Archived
    <2>3. TypeOK'
      BY <1>1, <1>7, <2>1, <2>2 DEF TypeOK
    <2>4. BatchOwnsRows' /\ NotBehind'
      BY <1>1, <1>7, <2>1, QuietSteps
    <2> QED
      BY <1>3, <2>3, <2>4, FreedSlot
  <1> QED
    BY <1>5, <1>6, <1>7

\* A heartbeat that commits late changes only rows its worker still holds.
LEMMA CommitBeatRows ==
  ASSUME RaceInv, NEW i \in Slots, NEW arrives \in BOOLEAN, CommitBeat(i, arrives)
  PROVE  /\ granule' \in [Granules -> Rows]
         /\ \A g \in Granules : Quiet(g)
         /\ TypeOK'
  <1> USE DEF objVars, batchVars, ledgerVars, procVars
  <1>1. TypeOK /\ RaceTypeOK
    BY DEF RaceInv, RaceTypeOK
  <1>2. PICK t : t = tx[i]
    OBVIOUS
  <1>3. t \in BeatTxs
    BY <1>1, <1>2, KindOf DEF CommitBeat
  <1>4. t.w \in Workers /\ t.active \in SUBSET Granules
    BY <1>3 DEF BeatTxs
  <1>5. granule' = [g \in Granules |-> IF g \in StillDoomed(t) THEN Released(granule[g], "pending")
                                       ELSE IF g \in Kept(t) THEN [granule[g] EXCEPT !.lease = "live"]
                                       ELSE granule[g]]
    BY <1>2 DEF CommitBeat
  <1>6. ASSUME NEW g \in Granules
        PROVE  granule'[g] \in Rows /\ Quiet(g)
    <2>1. granule[g] \in Rows /\ "pending" \in GranuleStateSet \ LeasedStates
      BY <1>1 DEF TypeOK, GranuleStateSet, LeasedStates
    <2>2. g \in StillDoomed(t) \cup Kept(t) => IsLeased(granule[g]) /\ granule[g].state # "absent"
      BY DEF StillDoomed, Kept, HeldGranules, HeldBy, IsLeased, LeasedStates
    <2>3. CASE g \in StillDoomed(t)
      BY <1>5, <2>1, <2>2, <2>3, ReleasedRow DEF Quiet
    <2>4. CASE g \in Kept(t) /\ g \notin StillDoomed(t)
      <3>1. granule'[g] = [granule[g] EXCEPT !.lease = "live"]
        BY <1>5, <2>4
      <3> QED
        BY <2>1, <2>2, <2>4, <3>1, TimedRow DEF Quiet, Rows, Disciplined, IsLeased
    <2>5. CASE g \notin StillDoomed(t) \cup Kept(t)
      BY <1>5, <2>1, <2>5 DEF Quiet
    <2> QED
      BY <2>3, <2>4, <2>5
  <1>7. granule' = [g \in Granules |-> granule'[g]]
    BY <1>5
  <1>8. granule' \in [Granules -> Rows]
    BY <1>6, <1>7
  <1>9. handlers' \in [Workers -> SUBSET Granules] /\ beats' \subseteq Workers \X SUBSET Granules
    BY <1>1, <1>2 DEF CommitBeat, TypeOK
  <1>10. TypeOK'
    BY <1>1, <1>8, <1>9 DEF CommitBeat, TypeOK
  <1> QED
    BY <1>6, <1>8, <1>10

LEMMA CommitLeaseRows ==
  ASSUME RaceInv, NEW i \in Slots, NEW g \in Granules, CommitLease(i, g)
  PROVE  /\ granule' \in [Granules -> Rows]
         /\ \A h \in Granules : Quiet(h)
         /\ TypeOK'
  <1> USE DEF objVars, batchVars, ledgerVars, procVars
  <1>1. TypeOK /\ RaceTypeOK
    BY DEF RaceInv, RaceTypeOK
  <1>2. PICK w \in Workers : w = tx[i].w
    BY <1>1, KindOf DEF CommitLease, LeaseTxs
  <1>3. granule' = [granule EXCEPT ![g] = Claimed(granule[g], w)]
    BY <1>2 DEF CommitLease
  <1>4. granule[g] \in Rows /\ granule[g].state # "absent"
    BY <1>1 DEF CommitLease, Claimable, TypeOK
  <1>5. Claimed(granule[g], w) \in Rows
    BY <1>4, ClaimedRow
  <1>6. /\ granule' \in [Granules -> Rows] /\ granule'[g] = Claimed(granule[g], w)
        /\ \A h \in Granules \ {g} : granule'[h] = granule[h]
    BY <1>1, <1>3, <1>5 DEF TypeOK
  <1>7. \A h \in Granules : Quiet(h)
    BY <1>4, <1>6, ClaimedRow DEF Quiet
  <1>8. offers' \subseteq Workers \X Granules
    BY <1>1, <1>2 DEF CommitLease, TypeOK
  <1>9. TypeOK'
    BY <1>1, <1>6, <1>8 DEF CommitLease, TypeOK
  <1> QED
    BY <1>6, <1>7, <1>9

LEMMA CommitStepInv ==
  ASSUME RaceInv, NEW i \in Slots, CommitStep(i)
  PROVE  RaceInv'
  <1> USE DEF objVars, batchVars, ledgerVars, procVars
  <1>1. TypeOK /\ BatchOwnsRows /\ NotBehind
    BY DEF RaceInv, RaceTypeOK
  <1>2. ASSUME NEW arrives \in BOOLEAN, CommitBeat(i, arrives) PROVE RaceInv'
    <2>1. TypeOK' /\ \A g \in Granules : Quiet(g)
      BY <1>2, CommitBeatRows
    <2>2. BatchOwnsRows' /\ NotBehind'
      BY <1>1, <1>2, <2>1, QuietSteps DEF CommitBeat, Quiet
    <2>3. tx' = [tx EXCEPT ![i] = Idle]
      BY <1>2 DEF CommitBeat
    <2> QED
      BY <2>1, <2>2, <2>3, FreedSlot
  <1>3. ASSUME NEW g \in Granules, CommitLease(i, g) PROVE RaceInv'
    <2>1. TypeOK' /\ \A h \in Granules : Quiet(h)
      BY <1>3, CommitLeaseRows
    <2>2. BatchOwnsRows' /\ NotBehind'
      BY <1>1, <1>3, <2>1, QuietSteps DEF CommitLease, Quiet
    <2>3. tx' = [tx EXCEPT ![i] = Idle]
      BY <1>3 DEF CommitLease
    <2> QED
      BY <2>1, <2>2, <2>3, FreedSlot
  <1> QED
    BY <1>2, <1>3, CommitWriteStep, CommitAckStep DEF CommitStep

-----------------------------------------------------------------------------
(* The theorems.                                                             *)

LEMMA InitRace == RaceInit => RaceInv
  <1> SUFFICES ASSUME RaceInit PROVE RaceInv
    OBVIOUS
  <1>1. TypeOK
    BY InitTyped DEF RaceInit
  <1>2. InState("deleted") \cup retired = {} /\ delivered = 0
    BY DEF RaceInit, Init, InState, NoRow
  <1>3. NotBehind
    BY <1>2, FS_EmptySet DEF NotBehind
  <1>4. BatchOwnsRows
    BY DEF RaceInit, Init, BatchOwnsRows, NoRow
  <1>5. RaceTypeOK /\ WritesKeep
    BY <1>1 DEF RaceInit, RaceTypeOK, WritesKeep, InFlight, Idle
  <1> QED
    BY <1>3, <1>4, <1>5 DEF RaceInv

LEMMA StepRace == RaceInv /\ [RaceNext]_raceVars => RaceInv'
  <1> SUFFICES ASSUME RaceInv, [RaceNext]_raceVars PROVE RaceInv'
    OBVIOUS
  <1>1. TypeOK /\ BatchOwnsRows /\ NotBehind
    BY DEF RaceInv, RaceTypeOK
  <1>2. CASE [Next]_vars /\ tx' = tx
    <2>1. TypeOK'
      BY <1>1, <1>2, StepTyped
    <2>2. BatchOwnsRows' /\ NotBehind'
      <3>1. CASE AllQuiet
        BY <1>1, <3>1, QuietSteps DEF AllQuiet, Quiet
      <3>2. CASE Exceptional
        BY <1>1, <3>2, ExceptionalSteps
      <3> QED
        BY <1>1, <1>2, <3>1, <3>2, StepQuiet
    <2>3. RaceTypeOK' /\ WritesKeep'
      BY <1>2, <2>1 DEF RaceInv, RaceTypeOK, WritesKeep, InFlight
    <2> QED
      BY <2>2, <2>3 DEF RaceInv
  <1>3. ASSUME NEW i \in Slots, BeginStep(i) \/ CommitStep(i) \/ Abort(i) PROVE RaceInv'
    <2>1. CASE Abort(i)
      BY <2>1, NothingWritten DEF Abort
    <2> QED
      BY <1>3, <2>1, BeginStepInv, CommitStepInv
  <1>4. CASE UNCHANGED raceVars
    BY <1>2, <1>4 DEF raceVars
  <1> QED
    BY <1>2, <1>3, <1>4 DEF RaceNext

\* Types, and that nothing is left of a batch that is deleted, hold whatever requests overlap.
THEOREM RacesInvariant == RaceSpec => [](RaceTypeOK /\ BatchOwnsRows)
  <1>1. RaceSpec => []RaceInv
    BY InitRace, StepRace, PTL DEF RaceSpec
  <1> QED
    BY <1>1, PTL DEF RaceInv

\* However requests interleave, no delivery escapes delivered_count (delivery_ledger.py), for
\* every choice of the handlers that are split and of the requests that are in flight at once.
THEOREM NoDeliveryLost == RaceSpec => []NeverUndercounted
  <1>1. RaceSpec => []RaceInv
    BY InitRace, StepRace, PTL DEF RaceSpec
  <1>2. RaceInv => NeverUndercounted
    BY DEF RaceInv, NotBehind, NeverUndercounted
  <1> QED
    BY <1>1, <1>2, PTL

-----------------------------------------------------------------------------
(* Heartbeats and lease requests may overlap anything.                       *)

\* Only requests that re-assert what they rely on are split.
OnlyReasserting == \A i \in Slots : tx[i].kind \in {"idle", "beat", "lease"}

LEMMA CommitBeatDelivery ==
  ASSUME RaceInv, DeliveryInv, NEW i \in Slots, NEW arrives \in BOOLEAN, CommitBeat(i, arrives)
  PROVE  DeliveryInv' /\ (DeliveredExactly => DeliveredExactly')
  <1> USE DEF objVars, batchVars, ledgerVars, procVars
  <1>1. TypeOK /\ \A g \in Granules : Quiet(g)
    BY CommitBeatRows DEF RaceInv, RaceTypeOK
  <1>2. PICK t : t = tx[i]
    OBVIOUS
  <1>3. granule' = [g \in Granules |-> IF g \in StillDoomed(t) THEN Released(granule[g], "pending")
                                       ELSE IF g \in Kept(t) THEN [granule[g] EXCEPT !.lease = "live"]
                                       ELSE granule[g]]
    BY <1>2 DEF CommitBeat
  <1>4. ASSUME NEW g \in Granules
        PROVE  /\ Keeps(g) \/ Works(g)
               /\ granule'[g].state = "deleted" <=> granule[g].state = "deleted"
    <2>1. granule[g] \in Rows /\ "pending" \in GranuleStateSet \ LeasedStates
      BY <1>1 DEF TypeOK, GranuleStateSet, LeasedStates
    <2>2. Disciplined(granule[g])
      BY DEF DeliveryInv, LeaseDiscipline, Disciplined
    <2>3. g \in StillDoomed(t) \cup Kept(t) => /\ granule[g].state \in LeasedStates
                                               /\ granule[g].state # "deleted"
      BY DEF StillDoomed, Kept, HeldGranules, HeldBy, IsLeased, LeasedStates
    <2>4. CASE g \in StillDoomed(t)
      BY <1>3, <2>1, <2>3, <2>4, ReleasedRow DEF Works, WorkStates
    <2>5. CASE g \in Kept(t) /\ g \notin StillDoomed(t)
      <3>1. granule'[g] = [granule[g] EXCEPT !.lease = "live"]
        BY <1>3, <2>5
      <3>2. granule'[g].state = granule[g].state
        BY <2>1, <3>1 DEF Rows
      <3>3. Disciplined(granule'[g])
        BY <1>1, <2>2 DEF Quiet
      <3> QED
        BY <2>3, <2>5, <3>2, <3>3 DEF Works, WorkStates
    <2>6. CASE g \notin StillDoomed(t) \cup Kept(t)
      BY <1>3, <2>6 DEF Keeps
    <2> QED
      BY <2>4, <2>5, <2>6
  <1>5. DeliveryInv'
    BY <1>1, <1>4, WorkMoves DEF CommitBeat
  <1>6. DeliveredExactly => DeliveredExactly'
    BY <1>4, CountUntouched DEF CommitBeat
  <1> QED
    BY <1>5, <1>6

LEMMA CommitLeaseDelivery ==
  ASSUME RaceInv, DeliveryInv, NEW i \in Slots, NEW g \in Granules, CommitLease(i, g)
  PROVE  DeliveryInv' /\ (DeliveredExactly => DeliveredExactly')
  <1> USE DEF objVars, batchVars, ledgerVars, procVars
  <1>1. TypeOK /\ RaceTypeOK
    BY DEF RaceInv, RaceTypeOK
  <1>2. PICK w \in Workers : w = tx[i].w
    BY <1>1, KindOf DEF CommitLease, LeaseTxs
  <1>3. /\ granule' = [granule EXCEPT ![g] = Claimed(granule[g], w)]
        /\ granule[g] \in Rows /\ granule[g].state = "pending"
    BY <1>1, <1>2 DEF CommitLease, Claimable, TypeOK
  <1>4. /\ Disciplined(Claimed(granule[g], w)) /\ Claimed(granule[g], w).state = "queued"
    BY <1>3, ClaimedRow
  <1>5. \A h \in Granules : /\ Keeps(h) \/ Works(h)
                            /\ granule'[h].state = "deleted" <=> granule[h].state = "deleted"
    BY <1>1, <1>3, <1>4 DEF TypeOK, Keeps, Works, WorkStates, LeasedStates
  <1>6. DeliveryInv'
    BY <1>1, <1>5, WorkMoves DEF CommitLease
  <1>7. DeliveredExactly => DeliveredExactly'
    BY <1>5, CountUntouched DEF CommitLease
  <1> QED
    BY <1>6, <1>7

LEMMA StepReasserting ==
  ASSUME ReuseIds = FALSE, Overlapping \subseteq {"beat", "lease"},
         RaceInv, DeliveryInv, DeliveredExactly, OnlyReasserting, [RaceNext]_raceVars
  PROVE  DeliveryInv' /\ DeliveredExactly' /\ OnlyReasserting'
  <1>1. TypeOK
    BY DEF RaceInv, RaceTypeOK
  <1>2. CASE [Next]_vars /\ tx' = tx
    BY <1>1, <1>2, StepDelivery, StepCounts DEF OnlyReasserting
  <1>3. ASSUME NEW i \in Slots, BeginStep(i) PROVE DeliveryInv' /\ DeliveredExactly' /\ OnlyReasserting'
    <2>1. \/ \E w \in Workers : BeginLease(i, w)
          \/ \E w \in Workers, A \in SUBSET Granules : BeginBeat(i, w, A)
      BY <1>3 DEF BeginStep, BeginRequeue, BeginCancel, BeginRetry, BeginAck, BeginRevoke, BeginEvent
    <2>2. PICK t : Begin(i, t) /\ t.kind \in {"beat", "lease"}
      <3>1. ASSUME NEW w \in Workers, BeginLease(i, w)
            PROVE  \E t : Begin(i, t) /\ t.kind \in {"beat", "lease"}
        <4>1. PICK t : t = [kind |-> "lease", w |-> w]
          OBVIOUS
        <4>2. Begin(i, t) /\ t.kind = "lease"
          BY <3>1, <4>1 DEF BeginLease
        <4> QED
          BY <4>2
      <3>2. ASSUME NEW w \in Workers, NEW A \in SUBSET Granules, BeginBeat(i, w, A)
            PROVE  \E t : Begin(i, t) /\ t.kind \in {"beat", "lease"}
        <4>1. PICK t : t = [kind |-> "beat", w |-> w, active |-> A, doomed |-> Reclaimable(w, A)]
          OBVIOUS
        <4>2. Begin(i, t) /\ t.kind = "beat"
          BY <3>2, <4>1 DEF BeginBeat
        <4> QED
          BY <4>2
      <3> QED
        BY <2>1, <3>1, <3>2
    <2>3. UNCHANGED vars /\ \A j \in Slots : tx'[j] = tx[j] \/ tx'[j] = t
      BY <2>2 DEF Begin
    <2>4. OnlyReasserting'
      BY <2>2, <2>3 DEF OnlyReasserting
    <2> QED
      BY <1>1, <2>3, <2>4, StepDelivery, StepCounts
  <1>4. ASSUME NEW i \in Slots, CommitStep(i) PROVE DeliveryInv' /\ DeliveredExactly' /\ OnlyReasserting'
    <2>1. tx[i].kind \notin {"write", "ack"}
      BY DEF OnlyReasserting
    <2>2. \/ \E arrives \in BOOLEAN : CommitBeat(i, arrives)
          \/ \E g \in Granules : CommitLease(i, g)
      BY <1>4, <2>1 DEF CommitStep, CommitWrite, CommitAck, InFlight
    <2>3. DeliveryInv' /\ DeliveredExactly'
      BY <2>2, CommitBeatDelivery, CommitLeaseDelivery
    <2>4. tx' = [tx EXCEPT ![i] = Idle]
      BY <2>2 DEF CommitBeat, CommitLease
    <2>5. OnlyReasserting'
      BY <2>4 DEF OnlyReasserting, Idle
    <2> QED
      BY <2>3, <2>5
  <1>5. ASSUME NEW i \in Slots, Abort(i) PROVE DeliveryInv' /\ DeliveredExactly' /\ OnlyReasserting'
    <2>1. UNCHANGED vars /\ tx' = [tx EXCEPT ![i] = Idle]
      BY <1>5 DEF Abort
    <2>2. OnlyReasserting'
      BY <2>1 DEF OnlyReasserting, Idle
    <2> QED
      BY <1>1, <2>1, <2>2, StepDelivery, StepCounts
  <1>6. CASE UNCHANGED raceVars
    BY <1>2, <1>6 DEF raceVars
  <1> QED
    BY <1>2, <1>3, <1>4, <1>5, <1>6 DEF RaceNext

\* Heartbeats and lease requests may overlap each other and every other request: their UPDATEs
\* (worker_leases.py) re-assert what they rely on, so that leases stay in order, and with them all
\* the invariants of the delivery and the exact count.
THEOREM ClaimsRaceSafely ==
  ASSUME ReuseIds = FALSE, Overlapping \subseteq {"beat", "lease"}
  PROVE  RaceSpec => [](LeaseDiscipline /\ DeliveryInv /\ DeliveredExactly)
  <1> DEFINE All == RaceInv /\ DeliveryInv /\ DeliveredExactly /\ OnlyReasserting
  <1>1. RaceInit => All
    <2> SUFFICES ASSUME RaceInit PROVE All
      OBVIOUS
    <2>1. InState("deleted") \cup retired = {} /\ delivered = 0
      BY DEF RaceInit, Init, InState, NoRow
    <2>2. OnlyReasserting
      BY DEF RaceInit, OnlyReasserting, Idle
    <2> QED
      BY <2>1, <2>2, InitRace, InitDelivery, FS_EmptySet DEF RaceInit, DeliveredExactly
  <1>2. All /\ [RaceNext]_raceVars => All'
    BY StepRace, StepReasserting
  <1>3. All => LeaseDiscipline /\ DeliveryInv /\ DeliveredExactly
    BY DEF DeliveryInv
  <1> QED
    BY <1>1, <1>2, <1>3, PTL DEF RaceSpec
=============================================================================
