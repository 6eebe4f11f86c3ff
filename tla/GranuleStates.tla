---------------------------- MODULE GranuleStates ----------------------------
(***************************************************************************)
(* The pure granule state machine of shared/state_machine.py: the state    *)
(* table, what each event accepts, and the granule row each event leaves.  *)
(* A row keeps the columns apply() reads or writes and the lease policy    *)
(* reads: state, leased_by, lease_expires_at (as a phase), retry_count and *)
(* updated_at (as one bit: has the reclaim grace window passed?).  Error   *)
(* texts, output tails and stage timings decide nothing and are left out.  *)
(***************************************************************************)
EXTENDS Naturals

CONSTANTS Workers,     \* worker ids
          NoWorker,    \* leased_by IS NULL
          MaxRetries   \* settings.max_retries

ASSUME NoWorkerAssumption == NoWorker \notin Workers
ASSUME MaxRetriesAssumption == MaxRetries \in Nat \ {0}

LeasedStates == {"queued", "downloading", "downloaded", "processing",
                 "processed", "uploading"}
CancellableStates == LeasedStates \cup {"pending"}
RetryableStates == {"failed", "blacklisted"}
GranuleStateSet == LeasedStates \cup RetryableStates
                     \cup {"pending", "uploaded", "acked", "deleted"}

\* "absent" stands for a granule that has no row.
RowStates == GranuleStateSet \cup {"absent"}

\* lease_expires_at: NULL, in the future, or in the past.
LeasePhases == {"none", "live", "expired"}

\* fresh: updated_at is younger than the reclaim grace window.  It is read for
\* leased rows only, so a row outside the leased band keeps it FALSE.
Rows == [state : RowStates, leased_by : Workers \cup {NoWorker},
         lease : LeasePhases, retry : 0..MaxRetries, fresh : BOOLEAN]

NoRow == [state |-> "absent", leased_by |-> NoWorker, lease |-> "none",
          retry |-> 0, fresh |-> FALSE]
NewRow == [NoRow EXCEPT !.state = "pending"]

IsLeased(row) == row.state \in LeasedStates
HeldBy(row, w) == IsLeased(row) /\ row.leased_by = w

-----------------------------------------------------------------------------
(* Worker events: the states each one accepts.  Two of them accept several,  *)
(* for the fast and the collapsed reporting modes.                           *)

AcceptedFrom ==
  [downloading |-> {"queued"},
   downloaded  |-> {"downloading"},
   processing  |-> {"downloading", "downloaded"},
   processed   |-> {"processing"},
   uploading   |-> {"processed"},
   uploaded    |-> {"queued", "processing", "uploading"}]

\* What DownloadStarted .. UploadStarted move a row to.
StageTargets == {"downloading", "downloaded", "processing", "processed",
                 "uploading"}

Advanced(row, to) == [row EXCEPT !.state = to, !.fresh = TRUE]

Claimed(row, w) == [row EXCEPT !.state = "queued", !.leased_by = w,
                               !.lease = "live", !.fresh = TRUE]

\* Every transition out of the leased band clears the lease with the state.
Released(row, to) == [row EXCEPT !.state = to, !.leased_by = NoWorker,
                                 !.lease = "none", !.fresh = FALSE]

\* retry_count is compared with max_retries only, so it saturates there.
Bumped(n) == IF n < MaxRetries THEN n + 1 ELSE n

\* RevokedByOperator: back to pending, one retry spent.
Revoked(row) == [Released(row, "pending") EXCEPT !.retry = Bumped(row.retry)]

\* ProcessingFailed: one retry spent, blacklisted when none is left.
FailedRow(row) ==
  [Released(row, IF row.retry + 1 >= MaxRetries THEN "blacklisted" ELSE "pending")
     EXCEPT !.retry = Bumped(row.retry)]

\* RetryGranule and RequeueGranule: back to pending with a full budget.
Restarted(row) == [Released(row, "pending") EXCEPT !.retry = 0]
=============================================================================
