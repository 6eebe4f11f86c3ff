------------------------------- MODULE Pulling -------------------------------
(***************************************************************************)
(* How the receivers fetch the objects of one granule: the soft claims of    *)
(* /pull, the producer, queue and pullers of receiver/runtime.py, and the    *)
(* buffered reports of /ack/batch.  Claims expire while their object is still*)
(* pulled, replies and posts get lost, processes drain, exit and crash, the  *)
(* worker loses its files, and the operator resets failures or requeues the  *)
(* granule, whose next attempt writes other bytes under the same keys.       *)
(*                                                                           *)
(* The batch has no target receiver (with one, Receivers is that one).  The  *)
(* bytes of an attempt are its number; 0 stands for no file.                 *)
(***************************************************************************)
EXTENDS Integers, Sequences, FiniteSets

CONSTANTS Receivers,
          NoReceiver,
          Keys,        \* object keys of the granule, numbers in the order of the row ids
          MaxFailures, \* settings.max_pull_failures
          Pullers,     \* SATHOP_CONCURRENT_PULLS
          MaxAttempts, \* bound: attempts at the granule that are uploaded
          MaxReports,  \* bound: reports in the ack buffer
          Requests,    \* operator requests taken up
          Faults,      \* what goes wrong
          MaxTrouble   \* bound: requests and faults ever

ASSUME ReceiversAssumption == IsFiniteSet(Receivers) /\ NoReceiver \notin Receivers
ASSUME KeysAssumption == Keys \subseteq Nat /\ IsFiniteSet(Keys)
ASSUME BoundsAssumption ==
  /\ MaxFailures \in Nat \ {0} /\ Pullers \in Nat \ {0}
  /\ MaxAttempts \in Nat \ {0} /\ MaxReports \in Nat /\ MaxTrouble \in Nat

VARIABLES
  granule,  \* the granule's state: uploaded, acked or (requeued) pending
  attempt,  \* the attempt the rows come from; its number is their sha256
  row,      \* key -> granule_objects row: id, acked_by, failed_pulls, and who holds a running claim (by);
            \* history: whether nobody is behind the claim since a reply or a process was lost (orphan)
  host,     \* key -> bytes the worker serves under the key
  receiver, \* receivers row: absent, enabled, disabled
  restart,  \* receivers with restart_requested_at
  proc,     \* the receiver's process
  disk,     \* receiver -> key -> bytes under storage_dir
  overtaken, \* history: receiver and key of items on hand when the next attempt was uploaded
  trouble   \* number of requests and faults so far

tables == <<granule, attempt, row>>
vars == <<tables, host, receiver, restart, proc, disk, overtaken, trouble>>

Ids == 1..MaxAttempts
Bytes == 0..MaxAttempts
Items == [key : Keys, id : Ids, bytes : Bytes]
Rows == [id : Ids, acked : Receivers \cup {NoReceiver}, failed : 0..MaxFailures,
         by : Receivers \cup {NoReceiver}, orphan : BOOLEAN]
Procs == [up : BOOLEAN, draining : BOOLEAN,
          offered : SUBSET Items,                     \* the reply to a /pull under way
          queued : SUBSET Items,                      \* the queue, without its order
          pulling : SUBSET [item : Items, got : Bytes],
          acks : Seq([item : Items, ok : BOOLEAN])]   \* the AckBuffer

Room == 2 * Pullers

TypeOK ==
  /\ granule \in {"uploaded", "acked", "pending"}
  /\ attempt \in 1..MaxAttempts
  /\ row \in [Keys -> Rows]
  /\ host \in [Keys -> Bytes]
  /\ receiver \in [Receivers -> {"absent", "enabled", "disabled"}]
  /\ restart \subseteq Receivers
  /\ proc \in [Receivers -> Procs]
  /\ \A r \in Receivers : Cardinality(proc[r].pulling) <= Pullers /\ Len(proc[r].acks) <= MaxReports
  /\ disk \in [Receivers -> [Keys -> Bytes]]
  /\ overtaken \subseteq Receivers \X Keys
  /\ trouble \in 0..MaxTrouble

NewRow(id) == [id |-> id, acked |-> NoReceiver, failed |-> 0, by |-> NoReceiver, orphan |-> FALSE]
Down == [up |-> FALSE, draining |-> FALSE, offered |-> {}, queued |-> {},
         pulling |-> {}, acks |-> <<>>]

Init ==
  /\ granule = "uploaded" /\ attempt = 1
  /\ row = [k \in Keys |-> NewRow(1)]
  /\ host = [k \in Keys |-> 1]
  /\ receiver = [r \in Receivers |-> "absent"]
  /\ restart = {}
  /\ proc = [r \in Receivers |-> Down]
  /\ disk = [r \in Receivers |-> [k \in Keys |-> 0]]
  /\ overtaken = {} /\ trouble = 0

\* One more request or fault of this kind.
Trouble(kinds, kind) ==
  /\ kind \in kinds /\ trouble < MaxTrouble
  /\ trouble' = trouble + 1

-----------------------------------------------------------------------------
(* What a process has in flight.                                             *)

Handled(p) == {x.item : x \in p.pulling}
\* self._inflight
InFlight(p) == p.queued \cup Handled(p)
SameObject(i, j) == i.key = j.key /\ i.id = j.id

OnHand(p) == p.offered \cup InFlight(p)
InReports(p) == {p.acks[n].item : n \in DOMAIN p.acks}

\* The room for more: everything in flight takes a place.
Free(p) == Room - Cardinality(InFlight(p))

-----------------------------------------------------------------------------
(* The orchestrator.                                                         *)

Exhausted(k) == row[k].acked = NoReceiver /\ row[k].failed >= MaxFailures
Pullable(k) == row[k].acked = NoReceiver /\ row[k].failed < MaxFailures

\* object_pull_claimable
Claimable(k) == granule = "uploaded" /\ Pullable(k) /\ row[k].by = NoReceiver

\* The claimable rows a /pull with this limit takes, lowest ids first.
Taken(limit) ==
  LET ready == {k \in Keys : Claimable(k)}
  IN  {k \in ready : Cardinality({j \in ready : j < k}) < limit}

\* The producer sends a /pull, and it is handled: refused, or a claim on each object it
\* returns.  The limit was the room when it was sent; pulls that end only make more of it.
Pull(r) ==
  /\ proc[r].up /\ ~proc[r].draining /\ proc[r].offered = {}
  /\ receiver[r] = "enabled"
  /\ \E limit \in 1..Free(proc[r]) :
       LET taken == Taken(limit)
       IN /\ taken # {}
          /\ row' = [k \in Keys |->
                       IF k \in taken THEN [row[k] EXCEPT !.by = r, !.orphan = FALSE] ELSE row[k]]
          /\ proc' = [proc EXCEPT ![r].offered =
                        {[key |-> k, id |-> row[k].id, bytes |-> attempt] : k \in taken}]
  /\ UNCHANGED <<granule, attempt, host, receiver, restart, disk, overtaken, trouble>>

Freed(o) == [o EXCEPT !.by = NoReceiver, !.orphan = FALSE]

\* Mutant: the expiry of a claim is not looked at.
LapsedNever(o) == o
Lapsed(o) == Freed(o)

\* A claim's time runs out, whatever its holder is doing; an expired claim is like none.
ClaimExpires(k) ==
  /\ row[k].by # NoReceiver
  /\ IF row[k].orphan THEN UNCHANGED trouble ELSE Trouble(Faults, "slow")
  /\ row' = [row EXCEPT ![k] = Lapsed(@)]
  /\ UNCHANGED <<granule, attempt, host, receiver, restart, proc, disk, overtaken>>

Bumped(o) == [Freed(o) EXCEPT !.failed = IF @ < MaxFailures THEN @ + 1 ELSE @]

\* _record_pull_failure: the claim is cleared, whoever holds it.  Counts beyond the cap
\* make no difference.
Failed(o) == IF o.acked # NoReceiver THEN o ELSE Bumped(o)

\* _apply_ack on the row its id finds.
Reported(r, o, rep) ==
  IF o.id # rep.item.id THEN o
  ELSE IF ~rep.ok THEN Failed(o)
  ELSE IF rep.item.bytes # attempt \/ o.acked # NoReceiver THEN o
  ELSE [Freed(o) EXCEPT !.acked = r]   \* nothing reads the claim any more

Applied(r, t, rep) == [t EXCEPT ![rep.item.key] = Reported(r, @, rep)]
\* The rows after none, one, ... all of the reports of one receiver, in their order.
RowsAfter(r, reports) ==
  LET after[n \in 0..Len(reports)] == IF n = 0 THEN row ELSE Applied(r, after[n - 1], reports[n])
  IN after

\* /ack/batch: what it leaves of the granule and its rows.
AckBatch(r) ==
  LET after == IF granule = "pending" THEN row ELSE RowsAfter(r, proc[r].acks)[Len(proc[r].acks)]
  IN [row |-> after,
      granule |-> IF \A k \in Keys : after[k].acked # NoReceiver THEN "acked" ELSE granule]

-----------------------------------------------------------------------------
(* The receiver's process.                                                   *)

\* A container starts: register creates the row or leaves it enabled or disabled.
Boot(r) ==
  /\ ~proc[r].up
  /\ proc' = [proc EXCEPT ![r] = [Down EXCEPT !.up = TRUE]]
  /\ receiver' = [receiver EXCEPT ![r] = IF @ = "absent" THEN "enabled" ELSE @]
  /\ UNCHANGED <<tables, host, restart, disk, overtaken, trouble>>

\* Mutant: only one item of a reply is queued.
FreshFirst(p) ==
  {i \in p.offered : (\A j \in InFlight(p) : ~SameObject(i, j)) /\ \A j \in p.offered : i.key <= j.key}
\* Mutant: an item that is being pulled is queued once more.
FreshAll(p) == p.offered
\* The items of a reply that are not being pulled already.
Fresh(p) == {i \in p.offered : \A j \in InFlight(p) : ~SameObject(i, j)}

\* Nobody is behind the claims of r on these keys any more.
Orphaned(table, r, keys) ==
  [k \in Keys |-> IF k \in keys /\ table[k].by = r THEN [table[k] EXCEPT !.orphan = TRUE] ELSE table[k]]

Queueing(p) == [p EXCEPT !.queued = @ \cup Fresh(p), !.offered = {}]

\* The reply arrives; queueing its items takes no wait.  A reused id hides the new item
\* behind the old one.
Receive(r) ==
  /\ proc[r].offered # {}
  /\ proc' = [proc EXCEPT ![r] = Queueing(proc[r])]
  /\ LET hidden == {i \in proc[r].offered : \E j \in InFlight(proc[r]) : SameObject(i, j) /\ i # j}
     IN row' = Orphaned(row, r, {i.key : i \in hidden})
  /\ UNCHANGED <<granule, attempt, host, receiver, restart, disk, overtaken, trouble>>

\* The reply is lost.
PullLost(r) ==
  /\ Trouble(Faults, "reply")
  /\ proc[r].offered # {}
  /\ row' = Orphaned(row, r, {i.key : i \in proc[r].offered})
  /\ proc' = [proc EXCEPT ![r].offered = {}]
  /\ UNCHANGED <<granule, attempt, host, receiver, restart, disk, overtaken>>

PullerFree(p) == Cardinality(p.pulling) < Pullers

\* What the ranges or the stream of a pull of i are of: what the key holds now, or the bytes
\* of the item's own attempt when that was on another worker.
Served(i) == {host[i.key]} \cup ({i.bytes} \ {attempt})

Opening(p, i, got) == [p EXCEPT !.queued = @ \ {i}, !.pulling = @ \cup {[item |-> i, got |-> got]}]

\* A puller takes an item and opens its url.
StartPull(r, i) ==
  /\ i \in proc[r].queued /\ PullerFree(proc[r])
  /\ \E got \in Served(i) : proc' = [proc EXCEPT ![r] = Opening(proc[r], i, got)]
  /\ UNCHANGED <<tables, host, receiver, restart, disk, overtaken, trouble>>

\* Mutant: a pull that breaks off counts as one that ended.
SucceededInPart(x, transported) == x.got = x.item.bytes
\* PullOutcome: all of it arrived, with the digest of the row.
Succeeded(x, transported) == transported /\ x.got = x.item.bytes

\* The file under the key: replaced once all of the new one has arrived, before that is
\* verified, and removed when it does not match; no await in between.
Landed(x) == IF x.got = x.item.bytes THEN x.got ELSE 0

Reporting(p, x, ok) ==
  [p EXCEPT !.pulling = @ \ {x}, !.acks = Append(@, [item |-> x.item, ok |-> ok])]

\* _pull_one and the report of its outcome.
PullEnds(r, x, transported) ==
  /\ x \in proc[r].pulling /\ Len(proc[r].acks) < MaxReports
  /\ transported => x.got # 0
  /\ disk' = IF transported THEN [disk EXCEPT ![r][x.item.key] = Landed(x)] ELSE disk
  /\ proc' = [proc EXCEPT ![r] = Reporting(proc[r], x, Succeeded(x, transported))]
  /\ UNCHANGED <<tables, host, receiver, restart, overtaken, trouble>>

\* The ack buffer posts; without an answer it keeps the batch and posts it again.
PostAcks(r, answered) ==
  /\ proc[r].acks # <<>>
  /\ IF answered THEN UNCHANGED trouble ELSE Trouble(Faults, "answer")
  /\ granule' = AckBatch(r).granule /\ row' = AckBatch(r).row
  /\ proc' = IF answered THEN [proc EXCEPT ![r].acks = <<>>] ELSE proc
  /\ UNCHANGED <<attempt, host, receiver, restart, disk, overtaken>>

\* The heartbeat consumes the restart signal; its reply may be lost.
Heartbeat(r) ==
  /\ proc[r].up /\ receiver[r] # "absent" /\ r \in restart
  /\ restart' = restart \ {r}
  /\ \E drain \in {TRUE, proc[r].draining} : proc' = [proc EXCEPT ![r].draining = drain]
  /\ UNCHANGED <<tables, host, receiver, disk, overtaken, trouble>>

\* SIGTERM.
Terminated(r) ==
  /\ Trouble(Faults, "sigterm") /\ proc[r].up /\ ~proc[r].draining
  /\ proc' = [proc EXCEPT ![r].draining = TRUE]
  /\ UNCHANGED <<tables, host, receiver, restart, disk, overtaken>>

\* The watchdog ends the process, when nothing is in flight or at its deadline: the pulls
\* are cancelled, the reports get out or not.  A crash is no worse than a deadline.
Exit(r) ==
  /\ proc[r].draining
  /\ \E after \in {AckBatch(r), [granule |-> granule, row |-> row]} :
       /\ granule' = after.granule
       /\ row' = Orphaned(after.row, r, Keys)
  /\ proc' = [proc EXCEPT ![r] = Down]
  /\ UNCHANGED <<attempt, host, receiver, restart, disk, overtaken, trouble>>

-----------------------------------------------------------------------------
(* The operator and the worker.                                              *)

RequestRestart(r) ==
  /\ Trouble(Requests, "restart") /\ receiver[r] # "absent"
  /\ restart' = restart \cup {r}
  /\ UNCHANGED <<tables, host, receiver, proc, disk, overtaken>>

SetEnabled(r, enabled) ==
  /\ Trouble(Requests, "disable") /\ receiver[r] # "absent"
  /\ receiver' = [receiver EXCEPT ![r] = IF enabled THEN "enabled" ELSE "disabled"]
  /\ UNCHANGED <<tables, host, restart, proc, disk, overtaken>>

ForgetReceiver(r) ==
  /\ Trouble(Requests, "forget") /\ receiver[r] = "disabled"
  /\ receiver' = [receiver EXCEPT ![r] = "absent"]
  /\ restart' = restart \ {r}
  /\ UNCHANGED <<tables, host, proc, disk, overtaken>>

ResetPullFailures ==
  /\ Trouble(Requests, "reset") /\ granule # "pending"
  /\ \E k \in Keys : Exhausted(k)
  /\ row' = [k \in Keys |-> IF Exhausted(k) THEN [row[k] EXCEPT !.failed = 0] ELSE row[k]]
  /\ UNCHANGED <<granule, attempt, host, receiver, restart, proc, disk, overtaken>>

\* requeue-undeliverable: the rows are dropped.
RequeueUndeliverable ==
  /\ Trouble(Requests, "requeue") /\ granule = "uploaded"
  /\ \A k \in Keys : ~Pullable(k)
  /\ granule' = "pending"
  /\ row' = [k \in Keys |-> NewRow(row[k].id)]
  /\ UNCHANGED <<attempt, host, receiver, restart, proc, disk, overtaken>>

\* The next attempt is uploaded; SQLite gives the largest ids out again.
Uploaded ==
  /\ granule = "pending" /\ attempt < MaxAttempts
  /\ granule' = "uploaded" /\ attempt' = attempt + 1
  /\ \E reused \in BOOLEAN :
       row' = [k \in Keys |-> NewRow(IF reused THEN row[k].id ELSE attempt + 1)]
  /\ host' = [k \in Keys |-> attempt + 1]
  /\ overtaken' = overtaken \cup
       {x \in Receivers \X Keys : \E i \in OnHand(proc[x[1]]) : i.key = x[2]}
  /\ UNCHANGED <<receiver, restart, proc, disk, trouble>>

\* The worker restarts without its output files.
FileLost(k) ==
  /\ Trouble(Faults, "host") /\ host[k] # 0
  /\ host' = [host EXCEPT ![k] = 0]
  /\ UNCHANGED <<tables, receiver, restart, proc, disk, overtaken>>

-----------------------------------------------------------------------------

Operator ==
  \/ ResetPullFailures \/ RequeueUndeliverable
  \/ \E r \in Receivers :
       RequestRestart(r) \/ ForgetReceiver(r) \/ \E enabled \in BOOLEAN : SetEnabled(r, enabled)

Process(r) ==
  \/ Boot(r) \/ Pull(r) \/ Receive(r) \/ PullLost(r)
  \/ \E i \in proc[r].queued : StartPull(r, i)
  \/ \E x \in proc[r].pulling : \E transported \in BOOLEAN : PullEnds(r, x, transported)
  \/ \E answered \in BOOLEAN : PostAcks(r, answered)
  \/ Heartbeat(r) \/ Terminated(r) \/ Exit(r)

Next ==
  \/ Operator
  \/ \E r \in Receivers : Process(r)
  \/ Uploaded
  \/ \E k \in Keys : ClaimExpires(k) \/ FileLost(k)

Spec == Init /\ [][Next]_vars

-----------------------------------------------------------------------------
(* Properties.                                                               *)

\* A receiver never fetches an object twice at a time, and what it has in flight fits
\* its queue, so that queueing a reply never blocks: through expired claims that it takes
\* again and ids that are given out again.
OnePullEach ==
  \A r \in Receivers :
    /\ \A i, j \in InFlight(proc[r]) : SameObject(i, j) => i = j
    /\ proc[r].queued \cap Handled(proc[r]) = {}
    /\ Cardinality(InFlight(proc[r])) <= Room

\* "No claimed-but-unqueued orphans": behind a running claim stands its receiver, with the
\* reply, the queue, a pull or a report under way, unless a reply or a process was lost.
ClaimIsPursued ==
  \A k \in Keys : Pullable(k) /\ row[k].by # NoReceiver /\ ~row[k].orphan =>
    LET p == proc[row[k].by]
    IN \E i \in OnHand(p) \cup InReports(p) : i.key = k /\ i.id = row[k].id

\* What is acknowledged is on the disk of the receiver that acknowledged it, though the
\* same file is pulled twice, over failing reports, lost answers and crashes.  The one way
\* around it: an item of an earlier attempt ends later and replaces or removes the file.
AckedIsHeld ==
  \A k \in Keys : granule # "pending" /\ row[k].acked # NoReceiver /\ <<row[k].acked, k>> \notin overtaken =>
    disk[row[k].acked][k] = attempt

\* An acknowledgement stands: late and repeated reports of failed pulls neither count nor
\* free a claim on the object afterwards, until its granule is requeued.
AckIsFinal ==
  [][\A k \in Keys : row[k].acked # NoReceiver /\ granule' # "pending" => row'[k] = row[k]]_vars

-----------------------------------------------------------------------------
(* What the properties rest on.                                              *)

DownIsEmpty == \A r \in Receivers : ~proc[r].up => proc[r] = Down

\* A reply has one item for a key, and there was room for it and for all that is in flight.
OffersFit ==
  \A r \in Receivers :
    LET p == proc[r]
    IN /\ \A i, j \in p.offered : i.key = j.key => i = j
       /\ IsFiniteSet(p.offered) /\ IsFiniteSet(p.queued) /\ IsFiniteSet(p.pulling)
       /\ Cardinality(InFlight(p)) + Cardinality(p.offered) <= Room

\* Nobody has an item of an attempt still to come, an item of an earlier attempt was on
\* hand when the next one was uploaded, and the worker serves the last attempt or nothing.
AttemptsKnown ==
  /\ \A r \in Receivers :
       LET p == proc[r]
       IN /\ \A i \in OnHand(p) \cup InReports(p) : i.bytes <= attempt
          /\ \A i \in OnHand(p) : i.bytes = attempt \/ <<r, i.key>> \in overtaken
          /\ \A x \in p.pulling : x.item.bytes = attempt => x.got \in {0, attempt}
  /\ \A k \in Keys : host[k] \in {0, attempt}

\* A success that is not reported yet is on the disk.
ReportsAreTrue ==
  \A r \in Receivers : \A n \in DOMAIN proc[r].acks :
    LET rep == proc[r].acks[n]
    IN rep.ok /\ rep.item.bytes = attempt /\ <<r, rep.item.key>> \notin overtaken
         => disk[r][rep.item.key] = attempt

\* Only objects that may be pulled are claimed, and nothing of a requeued granule is.
ClaimsAreOpen ==
  /\ \A k \in Keys : row[k].by # NoReceiver => Pullable(k)
  /\ granule = "pending" => \A k \in Keys : row[k] = NewRow(row[k].id)

\* What pursues a claim is the item of this attempt: an older one under a reused id does
\* not free the claim with its report.
ClaimsPursued ==
  \A k \in Keys : row[k].by # NoReceiver /\ ~row[k].orphan =>
    [key |-> k, id |-> row[k].id, bytes |-> attempt]
      \in OnHand(proc[row[k].by]) \cup InReports(proc[row[k].by])

PullInv ==
  /\ OnePullEach /\ AckedIsHeld
  /\ DownIsEmpty /\ OffersFit /\ AttemptsKnown /\ ReportsAreTrue /\ ClaimsAreOpen /\ ClaimsPursued

-----------------------------------------------------------------------------
(* Liveness.                                                                 *)

\* The receivers' loops run, claims expire, and what is retried gets through some day.
Fairness ==
  /\ \A k \in Keys : WF_vars(ClaimExpires(k))
  /\ \A r \in Receivers :
       /\ WF_vars(Boot(r)) /\ SF_vars(Pull(r)) /\ WF_vars(Receive(r))
       /\ \A i \in Items : WF_vars(StartPull(r, i))
       /\ WF_vars(\E x \in proc[r].pulling : \E transported \in BOOLEAN : PullEnds(r, x, transported))
       /\ WF_vars(PostAcks(r, TRUE)) /\ WF_vars(Exit(r))

LiveSpec == Spec /\ Fairness

SomeoneServes == \E r \in Receivers : <>[](receiver[r] = "enabled")

\* No sweeper is needed: an object that is offered is acknowledged or given up in the end,
\* whichever claims were orphaned, as long as some receiver is enabled.
EveryObjectSettles ==
  SomeoneServes =>
    \A k \in Keys : granule = "uploaded" ~> granule # "uploaded" \/ ~Pullable(k)
=============================================================================
