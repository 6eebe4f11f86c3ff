----------------------------- MODULE GranuleRaces -----------------------------
(***************************************************************************)
(* GranuleProtocol with requests that overlap.  A handler reads its rows    *)
(* first (a SELECT opens no transaction on SQLite), decides on what it      *)
(* read, and commits at the end: the ORM writes only the columns that       *)
(* differ from what was read, under WHERE granule_id = ..., and a row that  *)
(* is gone makes the commit fail.  Several handlers may be between their    *)
(* read and their commit; every request may also still run alone.           *)
(* The lease claim, the two sweeps and the delete path re-assert their      *)
(* predicate in the UPDATE itself and stay atomic.                          *)
(***************************************************************************)
EXTENDS GranuleProtocol

CONSTANTS Slots,       \* bound: requests that may be in flight at once
          Overlapping, \* bound: handlers that are split: event cancel retry
                       \* requeue revoke ack beat lease
          MaxCounted   \* bound: deliveries counted after which no request overlaps

ASSUME MaxCountedAssumption == MaxCounted \in Nat

VARIABLE tx  \* slot -> what the handler in it has read and means to write

raceVars == <<vars, tx>>

Idle == [kind |-> "idle"]
InFlight(i, kind) == tx[i].kind = kind

\* An ORM unit of work: the rows read, what apply() made of them, the worker whose
\* uploaded objects it inserts (NoWorker: none), and whether it deletes the objects.
Write(S, F(_), uploader, drop) ==
  [kind |-> "write", snap |-> [g \in S |-> granule[g]],
   new |-> [g \in S |-> F(granule[g])], uploader |-> uploader, drop |-> drop]

WriteTxs ==
  UNION {[kind : {"write"}, snap : [S -> Rows], new : [S -> Rows],
          uploader : Workers \cup {NoWorker}, drop : BOOLEAN] : S \in SUBSET Granules}
AckTxs == [kind : {"ack"}, object : Objects, g : Granules, state : RowStates, seen : BOOLEAN]
BeatTxs == [kind : {"beat"}, w : Workers, active : SUBSET Granules, doomed : SUBSET Granules]
LeaseTxs == [kind : {"lease"}, w : Workers]

RaceTypeOK ==
  /\ TypeOK
  /\ \A i \in Slots :
       tx[i] \in {Idle} \cup WriteTxs \cup AckTxs \cup BeatTxs \cup LeaseTxs

RaceInit == Init /\ tx = [i \in Slots |-> Idle]

-----------------------------------------------------------------------------
(* The reads.                                                                *)

Begin(i, t) ==
  /\ tx[i] = Idle /\ delivered < MaxCounted
  /\ tx' = [tx EXCEPT ![i] = t]
  /\ UNCHANGED vars

UploadedRow(row) == Released(row, "uploaded")
CancelledRow(row) == Released(row, "blacklisted")

BeginEvent(i, w, g) ==
  /\ "event" \in Overlapping
  /\ MayReport(w, g)
  /\ \/ \E to \in Reported :
          /\ granule[g].state \in AcceptedFrom[to]
          /\ Begin(i, Write({g}, LAMBDA row : Advanced(row, to), NoWorker, FALSE))
     \/ /\ granule[g].state \in AcceptedFrom["uploaded"]
        /\ Begin(i, Write({g}, UploadedRow, w, FALSE))
     \/ /\ IsLeased(granule[g])
        /\ Begin(i, Write({g}, FailedRow, NoWorker, FALSE))

BeginCancel(i, g) ==
  /\ "cancel" \in Overlapping
  /\ granule[g].state \in CancellableStates
  /\ Begin(i, Write({g}, CancelledRow, NoWorker, FALSE))

BeginRetry(i, g) ==
  /\ "retry" \in Overlapping
  /\ granule[g].state \in RetryableStates
  /\ Begin(i, Write({g}, Restarted, NoWorker, FALSE))

BeginRequeue(i) ==
  /\ "requeue" \in Overlapping
  /\ Undeliverable # {}
  /\ Begin(i, Write(Undeliverable, Restarted, NoWorker, TRUE))

BeginRevoke(i, w) ==
  /\ "revoke" \in Overlapping
  /\ worker[w] # "absent" /\ HeldGranules(w) # {}
  /\ Begin(i, Write(HeldGranules(w), Revoked, NoWorker, FALSE))

BeginAck(i, o) ==
  /\ "ack" \in Overlapping
  /\ o \in received
  /\ \E g \in Granules :
       /\ o \in rows[g]
       /\ Begin(i, [kind |-> "ack", object |-> o, g |-> g, state |-> granule[g].state,
                    seen |-> o \in acked])

\* reclaim_inactive_leases has selected the ids it will reclaim.
BeginBeat(i, w, A) ==
  /\ "beat" \in Overlapping
  /\ <<w, A>> \in beats /\ worker[w] \in Registered
  /\ Begin(i, [kind |-> "beat", w |-> w, active |-> A, doomed |-> Reclaimable(w, A)])

BeginLease(i, w) ==
  /\ "lease" \in Overlapping
  /\ w \in up /\ worker[w] = "active" /\ UnderCap(w)
  /\ Begin(i, [kind |-> "lease", w |-> w])

-----------------------------------------------------------------------------
(* The commits.                                                              *)

\* UPDATE granules SET <columns that changed> WHERE granule_id = ...; updated_at is
\* always among them.
Flushed(row, snap, new) ==
  LET merged == [c \in DOMAIN row |-> IF new[c] # snap[c] THEN new[c] ELSE row[c]]
  IN [merged EXCEPT !.fresh = IsLeased(merged)]

\* A row read and now gone matches no UPDATE: StaleDataError, all rolled back.
Stale(t) == \E g \in DOMAIN t.snap : granule[g].state = "absent"

CommitWrite(i) ==
  LET t == tx[i]
  IN /\ InFlight(i, "write")
     /\ tx' = [tx EXCEPT ![i] = Idle]
     /\ IF Stale(t) THEN UNCHANGED vars
        ELSE /\ granule' = [g \in Granules |->
                              IF g \in DOMAIN t.snap
                              THEN Flushed(granule[g], t.snap[g], t.new[g]) ELSE granule[g]]
             /\ \/ /\ t.uploader = NoWorker /\ ~ t.drop
                   /\ UNCHANGED objVars
                \/ /\ t.drop
                   /\ DropObjects(UNION {rows[g] : g \in DOMAIN t.snap})
                \/ /\ t.uploader # NoWorker
                   /\ \E os \in SUBSET {o \in Objects : host[o] = NoWorker} \ {{}} :
                        /\ rows' = [g \in Granules |->
                                      IF g \in DOMAIN t.snap THEN rows[g] \cup os ELSE rows[g]]
                        /\ host' = [o \in Objects |-> IF o \in os THEN t.uploader ELSE host[o]]
                   /\ UNCHANGED <<acked, deleted, exhausted>>
             /\ UNCHANGED <<batchVars, ledgerVars, worker, procVars>>

\* archive_confirmed, in the ack's own transaction.
Archived(t, os) == {t.object} \cap os

\* /ack: mark the object, archive, count what the table holds now, and move the
\* granule on if the row read at the start was UPLOADED.
CommitAck(i) ==
  LET t == tx[i]
      marked == acked \cup ({t.object} \cap rows[t.g])
      moves == rows[t.g] \subseteq marked /\ t.state = "uploaded"
      stale == (~ t.seen /\ t.object \notin rows[t.g])
                 \/ (moves /\ granule[t.g].state = "absent")
  IN /\ InFlight(i, "ack")
     /\ tx' = [tx EXCEPT ![i] = Idle]
     /\ IF stale THEN UNCHANGED vars
        ELSE /\ acked' = marked
             /\ receipts' = receipts \cup Archived(t, marked)
             /\ granule' = IF moves
                           THEN [granule EXCEPT ![t.g] = [granule[t.g] EXCEPT !.state = "acked",
                                                                              !.fresh = FALSE]]
                           ELSE granule
             /\ UNCHANGED <<rows, host, deleted, exhausted, batchVars, received, worker,
                            procVars>>

\* The UPDATE re-asserts the owner and the band, not the grace.
StillDoomed(t) == t.doomed \cap HeldGranules(t.w)

\* renew_worker_leases, by what the table holds now.
\* Mutant: by what the worker reported.
KeptAsReported(t) == t.active \ StillDoomed(t)
Kept(t) == HeldGranules(t.w) \ StillDoomed(t)

CommitBeat(i, arrives) ==
  LET t == tx[i]
  IN /\ InFlight(i, "beat")
     /\ tx' = [tx EXCEPT ![i] = Idle]
     /\ beats' = beats \ {<<t.w, t.active>>}
     /\ granule' = [g \in Granules |->
                      IF g \in StillDoomed(t) THEN Released(granule[g], "pending")
                      ELSE IF g \in Kept(t) THEN [granule[g] EXCEPT !.lease = "live"]
                      ELSE granule[g]]
     /\ handlers' = IF arrives THEN [handlers EXCEPT ![t.w] = @ \ (t.active \ Kept(t))]
                               ELSE handlers
     /\ UNCHANGED <<objVars, batchVars, ledgerVars, worker, up, offers, confirms>>

\* The claim no longer looks at the worker's row.
CommitLease(i, g) ==
  /\ InFlight(i, "lease")
  /\ tx' = [tx EXCEPT ![i] = Idle]
  /\ Claimable(g)
  /\ granule' = [granule EXCEPT ![g] = Claimed(granule[g], tx[i].w)]
  /\ offers' = IF tx[i].w \in up THEN offers \cup {<<tx[i].w, g>>} ELSE offers
  /\ UNCHANGED <<objVars, batchVars, ledgerVars, worker, up, handlers, beats, confirms>>

\* The client has given up and its request dies before it writes.
Abort(i) == tx[i] # Idle /\ tx' = [tx EXCEPT ![i] = Idle] /\ UNCHANGED vars

-----------------------------------------------------------------------------

BeginStep(i) ==
  \/ BeginRequeue(i)
  \/ \E g \in Granules : BeginCancel(i, g) \/ BeginRetry(i, g)
  \/ \E o \in Objects : BeginAck(i, o)
  \/ \E w \in Workers :
       \/ BeginRevoke(i, w) \/ BeginLease(i, w)
       \/ \E g \in Granules : BeginEvent(i, w, g)
       \/ \E A \in SUBSET Granules : BeginBeat(i, w, A)

CommitStep(i) ==
  \/ CommitWrite(i) \/ CommitAck(i)
  \/ \E arrives \in BOOLEAN : CommitBeat(i, arrives)
  \/ \E g \in Granules : CommitLease(i, g)

RaceNext ==
  \/ Next /\ UNCHANGED tx
  \/ \E i \in Slots : BeginStep(i) \/ CommitStep(i) \/ Abort(i)

RaceSpec == RaceInit /\ [][RaceNext]_raceVars

-----------------------------------------------------------------------------
(* Safety.                                                                   *)

\* However requests interleave, no delivery escapes delivered_count: the counter may
\* run ahead (a counted granule can be resurrected and counted again), never behind.
NeverUndercounted ==
  ReuseIds \/ Cardinality(InState("deleted") \cup retired) <= delivered

\* "The data already reached the receiver (ACKED => acked)": an ACKED granule has
\* objects and all of them are acknowledged.
AckedMeansAcked ==
  \A g \in InState("acked") : rows[g] # {} /\ rows[g] \subseteq acked

-----------------------------------------------------------------------------
(* Liveness.                                                                 *)

\* Only the sweeper has to run: no other request repairs an ownerless row.
RaceLiveSpec == RaceSpec /\ WF_raceVars(SweepExpiredLeases /\ UNCHANGED tx)

\* A granule left in flight without an owner by overlapping requests does not strand:
\* the sweeper puts it back.
OwnerlessIsHealed ==
  \A g \in Granules :
    IsLeased(granule[g]) /\ granule[g].leased_by = NoWorker
      ~> ~ (IsLeased(granule[g]) /\ granule[g].leased_by = NoWorker)
=============================================================================
