---------------------------- MODULE WorkerRuntime ----------------------------
(***************************************************************************)
(* One worker process: the lease pipeline, the handler tasks and their       *)
(* semaphores, the heartbeat that reports the active granules and brings     *)
(* revocations and settings, the live reconfiguration, and the drain         *)
(* (worker/runtime.py, handler.py, stages.py).  The orchestrator is what its *)
(* lease, heartbeat, event and register handlers do with this worker's       *)
(* leases.  Only what a reply or a report may be late for takes two steps.   *)
(* The buffer of events is a set: FlushBuffer has its order and its bounds.  *)
(***************************************************************************)
EXTENDS Integers, Sequences, FiniteSets, Functions

CONSTANTS Granules,
          Tasks,     \* bound: handler tasks alive at once, numbers from 1
          Configured,\* concurrency from the environment
          Asked,     \* concurrency the operator set for an earlier process
          Settings,  \* concurrencies the operator may ask for
          Uploads,   \* upload_concurrency
          Followed,  \* bound: of granules all alike, those whose lease may lapse and that are followed
          Troubles,  \* requests and faults taken up
          MaxTrouble \* bound: how many of them ever

ASSUME GranulesAssumption == IsFiniteSet(Granules) /\ Followed \subseteq Granules
ASSUME LimitsAssumption ==
  /\ Tasks \in Nat \ {0} /\ Uploads \in Nat \ {0} /\ MaxTrouble \in Nat
  /\ {Configured, Asked} \subseteq Settings
  /\ Settings \subseteq [download : Nat \ {0}, process : Nat \ {0}]

VARIABLES
  lease,    \* granule -> pending, held (leased to this worker) or off (any other state)
  young,    \* granules whose updated_at is within the grace of the reconcile
  worker,   \* the workers row: absent, active, paused, removed
  wanted,   \* the concurrency the operator asks for
  up,       \* the process runs
  task,     \* alive handler tasks, by number
  entry,    \* self._handlers: granule -> number of a task
  permits,  \* free permits of the semaphores, per handler object; the last one is in use
  live,     \* _live_download, _live_process
  target,   \* settings a reconfiguration is under way to; {} when there is none
  pipe,     \* the pipeline loop: the room it asks for, the items of the reply,
            \* and, while it waits for a slot, the ceiling it waits below
  slotFree, \* _slot_free, while the loop waits for a slot: it clears the event before it looks
  beat,     \* the heartbeat under way
  paused,   \* _remote_pause
  draining, \* _draining
  owed,     \* granules with a terminal event in the buffer
  orphan,   \* history: held granules whose task or reply was lost
  relapsed, \* history: granules leased again while a task of theirs was alive
  overdue,  \* history: a rebuild did not wait for all tasks, and some are still alive
  trouble   \* number of requests and faults so far

orchVars == <<lease, young, worker, wanted>>
taskVars == <<task, entry, permits, slotFree, relapsed, overdue>>
loopVars == <<up, live, target, pipe, beat, paused, draining>>
vars == <<orchVars, taskVars, loopVars, owed, orphan, trouble>>

Sections == {"download", "process", "upload"}
Waiting == [download |-> "pending_download", process |-> "pending_processing", upload |-> "pending_upload"]
Active == [download |-> "downloading", process |-> "processing", upload |-> "uploading"]
Stages == Range(Waiting) \cup Range(Active)

Idle == [at |-> "loop", room |-> 0, ceiling |-> 0, items |-> {}]
NoBeat == [at |-> "none", active |-> {}, revoked |-> {}]
NewPermits(s) == [download |-> s.download, process |-> s.process, upload |-> Uploads]

TaskTypeOK ==
  /\ DOMAIN task \subseteq 1..Tasks
  /\ \A t \in DOMAIN task :
       task[t] \in [gid : Granules, obj : 1..Len(permits), at : Stages, cancelled : BOOLEAN]
  /\ DOMAIN entry \subseteq Granules /\ \A g \in DOMAIN entry : entry[g] \in DOMAIN task
  /\ permits \in Seq([Sections -> Nat]) /\ Len(permits) > 0
  /\ live \in Settings
TypeOK ==
  /\ lease \in [Granules -> {"pending", "held", "off"}] /\ young \subseteq Granules
  /\ worker \in {"absent", "active", "paused", "removed"} /\ wanted \in Settings
  /\ TaskTypeOK
  /\ target \subseteq Settings /\ Cardinality(target) <= 1
  /\ pipe \in [at : {"loop", "asking", "answered"}, room : Nat, ceiling : Nat,
               items : SUBSET Granules]
  /\ beat \in [at : {"none", "sent", "answered"}, active : SUBSET Granules, revoked : SUBSET Granules]
  /\ {up, slotFree, paused, draining, overdue} \subseteq BOOLEAN
  /\ owed \subseteq Granules /\ orphan \subseteq Granules /\ relapsed \subseteq Granules
  /\ trouble \in 0..MaxTrouble

Empty == <<>>  \* the function with no argument

Init ==
  /\ lease = [g \in Granules |-> "pending"] /\ young = {}
  /\ worker = "active" /\ wanted = Asked
  /\ up = FALSE /\ task = Empty /\ entry = Empty
  /\ permits = <<NewPermits(Configured)>> /\ live = Configured /\ target = {}
  /\ pipe = Idle /\ slotFree = FALSE /\ beat = NoBeat
  /\ paused = FALSE /\ draining = FALSE /\ owed = {}
  /\ orphan = {} /\ relapsed = {} /\ overdue = FALSE /\ trouble = 0

Trouble(kind) ==
  /\ kind \in Troubles /\ trouble < MaxTrouble
  /\ trouble' = trouble + 1

Held == {g \in Granules : lease[g] = "held"}
AliveOf(g) == {t \in DOMAIN task : task[t].gid = g}
\* Granules some task or event of the process still works for.
Worked == {task[t].gid : t \in {u \in DOMAIN task : ~ task[u].cancelled}} \cup owed
Untracked == DOMAIN task \ Range(entry)

-----------------------------------------------------------------------------
(* The process starts and ends.                                              *)

\* register: a known worker's leases go back, a fresh process holds none.
Boot ==
  /\ ~ up /\ worker # "removed"
  /\ up' = TRUE
  /\ worker' = IF worker = "absent" THEN "active" ELSE worker
  /\ lease' = IF worker = "absent" THEN lease
              ELSE [g \in Granules |-> IF lease[g] = "held" THEN "pending" ELSE lease[g]]
  /\ orphan' = IF worker = "absent" THEN orphan ELSE {}
  /\ UNCHANGED <<young, wanted, taskVars, live, target, pipe, beat, paused, draining, owed, trouble>>

\* The process is gone; of its events these landed first.
Gone(landed) ==
  /\ up' = FALSE /\ task' = Empty /\ entry' = Empty
  /\ permits' = <<NewPermits(Configured)>> /\ live' = Configured /\ target' = {}
  /\ pipe' = Idle /\ slotFree' = FALSE /\ beat' = NoBeat
  /\ paused' = FALSE /\ draining' = FALSE /\ owed' = {}
  /\ relapsed' = {} /\ overdue' = FALSE
  /\ lease' = [g \in Granules |-> IF g \in landed /\ lease[g] = "held" THEN "off" ELSE lease[g]]
  /\ orphan' = Held \ landed
  /\ UNCHANGED <<young, wanted>>

Crash == up /\ Trouble("crash") /\ Gone({}) /\ UNCHANGED worker

\* _start_drain, by a signal or a heartbeat's answer.
StartDrain ==
  /\ up /\ ~ draining /\ Trouble("drain")
  /\ draining' = TRUE
  /\ UNCHANGED <<orchVars, taskVars, up, live, target, pipe, beat, paused, owed, orphan>>

\* Mutant: the watchdog waits for the deadline only.
DrainedLate(deadline) ==
  /\ up /\ draining /\ deadline
  /\ \E landed \in SUBSET owed : Gone(landed)
  /\ UNCHANGED <<worker, trouble>>
\* The watchdog ends the process when no handler is left, or at its deadline; the buffer
\* loop gets to send what it holds, or not.
Drained(deadline) ==
  /\ up /\ draining
  /\ deadline = (entry # Empty)
  /\ \E landed \in SUBSET owed : Gone(landed)
  /\ UNCHANGED <<worker, trouble>>

-----------------------------------------------------------------------------
(* The pipeline loop.                                                        *)

Ceiling == live.download + live.process
Gated == paused \/ draining \/ target # {}

\* From the top of the loop to its await: wait for a slot, or for the gates to open, or
\* send a /lease for the free slots.  The wait is also over after a poll interval.
Poll ==
  /\ up /\ pipe.at = "loop"
  /\ LET free == Ceiling - Cardinality(DOMAIN entry)
     IN  pipe' = IF free <= 0 THEN [Idle EXCEPT !.ceiling = Ceiling]
                 ELSE IF Gated THEN Idle
                 ELSE [Idle EXCEPT !.at = "asking", !.room = free]
  /\ slotFree' = FALSE
  /\ UNCHANGED <<orchVars, task, entry, permits, relapsed, overdue,
                 up, live, target, beat, paused, draining, owed, orphan, trouble>>

\* The request is refused, finds nothing, or claims as many granules as it asked for.
Lease ==
  /\ pipe.at = "asking"
  /\ \E S \in SUBSET {g \in Granules : lease[g] = "pending"} :
       /\ worker # "active" => S = {}
       /\ worker = "active" =>
            \/ Cardinality(S) = pipe.room
            \/ Cardinality(S) < pipe.room /\ \A g \in Granules \ S : lease[g] # "pending"
       /\ lease' = [g \in Granules |-> IF g \in S THEN "held" ELSE lease[g]]
       /\ young' = young \cup S
       /\ orphan' = orphan \ S
       /\ pipe' = IF S = {} THEN Idle ELSE [Idle EXCEPT !.at = "answered", !.items = S]
  /\ UNCHANGED <<worker, wanted, taskVars, up, live, target, beat, paused, draining, owed, trouble>>

\* The reply is lost: a failed lease for the worker.
LeaseReplyLost ==
  /\ pipe.at = "answered" /\ Trouble("reply")
  /\ pipe' = Idle
  /\ orphan' = orphan \cup {g \in pipe.items \ Worked : lease[g] = "held"}
  /\ UNCHANGED <<orchVars, taskVars, up, live, target, beat, paused, draining, owed>>

FreeTasks == 1..Tasks \ DOMAIN task
\* The number of the task for g, when S is started.
NumberOf(S) == CHOOSE f \in [S -> FreeTasks] : IsInjective(f)

\* _start_handler for each item.  A second task of a granule within a second of the first
\* finds its work directory there: it raises before its try, and its callback takes the
\* entry away (C).
StartHandlers(C) ==
  /\ pipe.at = "answered" /\ Cardinality(pipe.items) <= Cardinality(FreeTasks)
  /\ C \subseteq {g \in pipe.items : AliveOf(g) # {}}
  /\ LET S == pipe.items
         n == NumberOf(S)
         started == {n[g] : g \in S \ C}
     IN  /\ task' = [t \in DOMAIN task \cup started |->
                       IF t \in DOMAIN task THEN task[t]
                       ELSE [gid |-> CHOOSE g \in S : n[g] = t, obj |-> Len(permits),
                             at |-> "pending_download", cancelled |-> FALSE]]
         /\ entry' = [g \in (DOMAIN entry \cup S) \ C |-> IF g \in S THEN n[g] ELSE entry[g]]
         /\ relapsed' = relapsed \cup {g \in S : AliveOf(g) # {}}
         /\ orphan' = orphan \cup {g \in C : lease[g] = "held" /\ g \notin Worked}
  /\ pipe' = Idle
  /\ UNCHANGED <<orchVars, permits, slotFree, overdue, up, live, target, beat, paused, draining, owed, trouble>>

-----------------------------------------------------------------------------
(* The handler tasks.                                                        *)

\* The semaphores' permits once t has left the section it is in.
Released(t) ==
  LET held == {s \in Sections : Active[s] = task[t].at}
  IN  [o \in DOMAIN permits |-> [s \in Sections |->
         permits[o][s] + IF o = task[t].obj /\ s \in held THEN 1 ELSE 0]]

\* async with sem
Enter(t, s) ==
  /\ t \in DOMAIN task /\ task[t].at = Waiting[s] /\ ~ task[t].cancelled
  /\ permits[task[t].obj][s] > 0
  /\ permits' = [permits EXCEPT ![task[t].obj][s] = @ - 1]
  /\ task' = [task EXCEPT ![t].at = Active[s]]
  /\ UNCHANGED <<orchVars, entry, slotFree, relapsed, overdue, loopVars, owed, orphan, trouble>>

Following == [downloading |-> "pending_processing", processing |-> "pending_upload"]

\* A section ends well; the bundle is fetched between the first two, like a wait for the second.
Advance(t) ==
  /\ t \in DOMAIN task /\ ~ task[t].cancelled /\ task[t].at \in DOMAIN Following
  /\ task' = [task EXCEPT ![t].at = Following[@]]
  /\ permits' = Released(t)
  /\ UNCHANGED <<orchVars, entry, slotFree, relapsed, overdue, loopVars, owed, orphan, trouble>>

\* Mutant: the callback wakes nobody.
EndedQuietly(t) ==
  /\ task' = Restrict(task, DOMAIN task \ {t})
  /\ entry' = Restrict(entry, DOMAIN entry \ {task[t].gid})
  /\ permits' = Released(t)
  /\ UNCHANGED <<slotFree, relapsed, overdue>>
\* The task's coroutine is over, and so is its done-callback.
Ended(t) ==
  LET g == task[t].gid
      rest == DOMAIN task \ {t}
  IN  /\ task' = Restrict(task, rest)
      /\ entry' = Restrict(entry, DOMAIN entry \ {g})
      /\ slotFree' = (pipe.ceiling > 0)
      /\ permits' = Released(t)
      /\ UNCHANGED relapsed
      /\ overdue' = (overdue /\ \E u \in rest : task[u].obj # Len(permits))

\* Mutant: an error is only logged.
FinishSilently(t) ==
  /\ t \in DOMAIN task /\ ~ task[t].cancelled
  /\ task[t].at \in Range(Active)
  /\ Ended(t)
  /\ owed' \in {owed, owed \cup {task[t].gid}}
  /\ UNCHANGED <<orchVars, loopVars, orphan, trouble>>
\* It uploads, or fails in a section or after it: either way it owes an event.
Finish(t) ==
  /\ t \in DOMAIN task /\ ~ task[t].cancelled
  /\ task[t].at \in Range(Active)
  /\ Ended(t)
  /\ owed' = owed \cup {task[t].gid}
  /\ UNCHANGED <<orchVars, loopVars, orphan, trouble>>

\* A cancelled task ends without an event, when its subprocess is dead.
Unwind(t) ==
  /\ t \in DOMAIN task /\ task[t].cancelled
  /\ Ended(t)
  /\ UNCHANGED <<orchVars, loopVars, owed, orphan, trouble>>

\* The buffer's post for g: applied if the lease is this worker's, ignored if not.  When
\* the answer is lost it is sent again.
Deliver(g, again) ==
  /\ g \in owed
  /\ IF again THEN Trouble("answer") ELSE UNCHANGED trouble
  /\ lease' = [lease EXCEPT ![g] = IF @ = "held" THEN "off" ELSE @]
  /\ owed' = IF again THEN owed ELSE owed \ {g}
  /\ orphan' = orphan \ {g}
  /\ UNCHANGED <<young, worker, wanted, taskVars, loopVars>>

-----------------------------------------------------------------------------
(* The heartbeat.                                                            *)

\* Mutant: only what has a handler.
HandledGranules == DOMAIN entry
\* _active_granule_ids
ActiveGranules == DOMAIN entry \cup owed

SendBeat ==
  /\ up /\ beat.at = "none"
  /\ beat' = [NoBeat EXCEPT !.at = "sent", !.active = ActiveGranules]
  /\ UNCHANGED <<orchVars, taskVars, up, live, target, pipe, paused, draining, owed, orphan, trouble>>

\* Mutant: an empty report passes for no report.
InactiveIfReported == {g \in Held \ young : beat.active # {} /\ g \notin beat.active}
\* Leases the report does not cover, past the grace.
Inactive == {g \in Held \ young : g \notin beat.active}

HandleBeat ==
  /\ beat.at = "sent" /\ worker \in {"active", "paused"}
  /\ lease' = [g \in Granules |-> IF g \in Inactive THEN "pending" ELSE lease[g]]
  /\ orphan' = orphan \ Inactive
  /\ beat' = [beat EXCEPT !.at = "answered", !.revoked = beat.active \ Held]
  /\ UNCHANGED <<young, worker, wanted, taskVars, up, live, target, pipe, paused, draining, owed, trouble>>

\* 404: the worker registers again and keeps its tasks; removed: it exits.
HandleBeatUnknown ==
  /\ beat.at = "sent" /\ worker = "absent"
  /\ worker' = "active" /\ beat' = NoBeat
  /\ UNCHANGED <<lease, young, wanted, taskVars, up, live, target, pipe, paused, draining,
                 owed, orphan, trouble>>
HandleBeatRemoved ==
  /\ beat.at = "sent" /\ worker = "removed"
  /\ \E landed \in SUBSET owed : Gone(landed)
  /\ UNCHANGED <<worker, trouble>>

LoseBeat ==
  /\ beat.at # "none" /\ Trouble("beat")
  /\ beat' = NoBeat
  /\ UNCHANGED <<orchVars, taskVars, up, live, target, pipe, paused, draining, owed, orphan>>

Grown(s) == s.download >= live.download /\ s.process >= live.process

\* Mutant: a growth releases all of the new limit, not what it adds.
ReconcileWhole ==
  IF target # {} \/ wanted = live THEN UNCHANGED <<target, live, permits>>
  ELSE IF ~ Grown(wanted) THEN target' = {wanted} /\ UNCHANGED <<live, permits>>
  ELSE /\ live' = wanted
       /\ permits' = [permits EXCEPT ![Len(permits)] =
                        [s \in Sections |-> IF s = "upload" THEN @[s] ELSE @[s] + wanted[s]]]
       /\ UNCHANGED target
\* Mutant: a shrink is left for later.
ReconcileGrowthOnly ==
  IF target # {} \/ ~ Grown(wanted) THEN UNCHANGED <<target, live, permits>>
  ELSE /\ live' = wanted
       /\ permits' = [permits EXCEPT ![Len(permits)] =
                        [s \in Sections |-> IF s = "upload" THEN @[s] ELSE @[s] + wanted[s] - live[s]]]
       /\ UNCHANGED target
\* _reconcile_concurrency: nothing to do, or a reconfiguration under way; a shrink starts
\* one; a growth releases permits at once.
Reconcile ==
  IF target # {} \/ wanted = live THEN UNCHANGED <<target, live, permits>>
  ELSE IF ~ Grown(wanted) THEN target' = {wanted} /\ UNCHANGED <<live, permits>>
  ELSE /\ live' = wanted
       /\ permits' = [permits EXCEPT ![Len(permits)] =
                        [s \in Sections |-> IF s = "upload" THEN @[s] ELSE @[s] + wanted[s] - live[s]]]
       /\ UNCHANGED target

\* What the answer brings: the pause, the revocations, the settings.
AnswerBeat ==
  /\ beat.at = "answered"
  /\ beat' = NoBeat
  /\ paused' = (worker = "paused")
  /\ LET cancelled == {entry[g] : g \in beat.revoked \cap DOMAIN entry}
     IN  /\ task' = [t \in DOMAIN task |-> IF t \in cancelled THEN [task[t] EXCEPT !.cancelled = TRUE]
                                           ELSE task[t]]
         /\ orphan' = orphan \cup
              {g \in beat.revoked \cap DOMAIN entry :
                 lease[g] = "held" /\ g \notin pipe.items /\ g \notin owed
                 /\ \A t \in AliveOf(g) : task[t].cancelled \/ t \in cancelled}
  /\ Reconcile
  /\ UNCHANGED <<orchVars, entry, slotFree, relapsed, overdue, up, pipe, draining, owed, trouble>>

\* _apply_reconfig past its wait for the handlers, or past its deadline: a new handler
\* object with new semaphores for the tasks to come.
Rebuild(deadline) ==
  /\ target # {}
  /\ deadline = (entry # Empty)
  /\ \E s \in target : live' = s /\ permits' = Append(permits, NewPermits(s))
  /\ target' = {}
  /\ overdue' = (overdue \/ deadline \/ Untracked # {})
  /\ UNCHANGED <<orchVars, task, entry, slotFree, relapsed, up, pipe, beat, paused, draining, owed, orphan, trouble>>

-----------------------------------------------------------------------------
(* What happens at the orchestrator meanwhile.                               *)

\* The grace outlasts a reply or a report under way.
GraceElapses(g) ==
  /\ g \in young /\ g \notin pipe.items /\ beat.at # "sent"
  /\ young' = young \ {g}
  /\ UNCHANGED <<lease, worker, wanted, taskVars, loopVars, owed, orphan, trouble>>

\* The lease expires or is cancelled; a granule is available (again).
LeaseLapses(g) ==
  /\ g \in Held \cap Followed /\ Trouble("lapse")
  /\ \E to \in {"pending", "off"} : lease' = [lease EXCEPT ![g] = to]
  /\ orphan' = orphan \ {g}
  /\ UNCHANGED <<young, worker, wanted, taskVars, loopVars, owed>>
Again(g) ==
  /\ g \in Followed /\ lease[g] = "off" /\ Trouble("again")
  /\ lease' = [lease EXCEPT ![g] = "pending"]
  /\ UNCHANGED <<young, worker, wanted, taskVars, loopVars, owed, orphan>>

\* Half an hour without a heartbeat to renew it.
LeaseExpires(g) ==
  /\ g \in Held /\ ~ up
  /\ lease' = [lease EXCEPT ![g] = "pending"]
  /\ orphan' = orphan \ {g}
  /\ UNCHANGED <<young, worker, wanted, taskVars, loopVars, owed, trouble>>

PauseOrResume ==
  /\ worker \in {"active", "paused"} /\ Trouble("pause")
  /\ worker' = IF worker = "active" THEN "paused" ELSE "active"
  /\ UNCHANGED <<lease, young, wanted, taskVars, loopVars, owed, orphan>>
\* Removed, its leases revoked at once (force) or left to expire; purged.
Remove ==
  /\ worker \in {"active", "paused"} /\ Trouble("remove")
  /\ worker' = "removed"
  /\ \/ UNCHANGED <<lease, orphan>>
     \/ lease' = [g \in Granules |-> IF lease[g] = "held" THEN "pending" ELSE lease[g]] /\ orphan' = {}
  /\ UNCHANGED <<young, wanted, taskVars, loopVars, owed>>
\* Bound: taken up only when the process, if there is one, has nothing in hand and no lease is left.
Purge ==
  /\ worker = "removed"
  /\ task = Empty /\ pipe.items = {} /\ owed = {} /\ Held = {}
  /\ worker' = "absent" /\ wanted' = Configured
  /\ UNCHANGED <<lease, young, taskVars, loopVars, owed, orphan, trouble>>
SetWanted ==
  /\ Trouble("settings")
  /\ \E s \in Settings \ {wanted} : wanted' = s
  /\ UNCHANGED <<lease, young, worker, taskVars, loopVars, owed, orphan>>

-----------------------------------------------------------------------------

Pipeline == Poll \/ Lease \/ LeaseReplyLost \/ \E C \in SUBSET Granules : StartHandlers(C)
Handlers ==
  \E t \in DOMAIN task : (\E s \in Sections : Enter(t, s)) \/ Advance(t) \/ Finish(t) \/ Unwind(t)
Beats ==
  \/ SendBeat \/ HandleBeat \/ HandleBeatUnknown \/ HandleBeatRemoved \/ LoseBeat \/ AnswerBeat
  \/ \E deadline \in BOOLEAN : Rebuild(deadline)
Lifecycle == Boot \/ Crash \/ StartDrain \/ \E deadline \in BOOLEAN : Drained(deadline)
Orchestrator ==
  \/ PauseOrResume \/ Remove \/ Purge \/ SetWanted
  \/ \E g \in Granules : GraceElapses(g) \/ LeaseLapses(g) \/ LeaseExpires(g) \/ Again(g)
  \/ \E g \in Granules, again \in BOOLEAN : Deliver(g, again)

Next == Pipeline \/ Handlers \/ Beats \/ Lifecycle \/ Orchestrator

Spec == Init /\ [][Next]_vars

-----------------------------------------------------------------------------
(* Safety.                                                                   *)

\* _on_handler_done and the top of _pipeline_loop: the loop never sleeps on with a slot
\* freed since it looked.
NoLostWakeup ==
  Cardinality(DOMAIN entry) < pipe.ceiling => slotFree

\* handle and the buffer: whatever the orchestrator thinks this worker holds is on its way
\* to it, being worked on, or about to be reported - unless a reply or a task was lost.
HeldIsAccounted ==
  Held \subseteq pipe.items \cup Worked \cup orphan

\* _apply_reconfig: after a shrink as after a growth no more tasks are in a section than
\* the operator's limit, across handler objects, once every task was waited for.
WithinLimits ==
  overdue \/ \A s \in {"download", "process"} :
    Cardinality({t \in DOMAIN task : task[t].at = Active[s]}) <= live[s]

\* _active_granule_ids and reclaim_inactive_leases: the reconcile never takes a lease whose
\* task runs or whose event is owed, however late the report is handled - unless it was
\* granted again while a task of the previous lease was alive.
ReclaimSparesWork ==
  [][HandleBeat => Inactive \cap Worked \subseteq relapsed]_vars

\* What makes them inductive.  Only an answered request has a reply, and what it grants is
\* young: the grace outlasts it.
ReplyShaped == (pipe.at # "answered" => pipe.items = {}) /\ pipe.items \subseteq young

\* An entry is a task of its granule, and every task has its entry, but after a second lease.
EntriesFit == \A g \in DOMAIN entry : task[entry[g]].gid = g
TasksTracked ==
  \A t \in DOMAIN task :
    LET g == task[t].gid IN g \in relapsed \/ (g \in DOMAIN entry /\ entry[g] = t)

\* A report on its way covers the work there is now.
ReportCovers == beat.at = "sent" => (Held \ young) \cap Worked \subseteq (beat.active \cup relapsed)

\* The limit is what is free and what is taken of the semaphores in use.
Within(s) == {t \in DOMAIN task : task[t].obj = Len(permits) /\ task[t].at = Active[s]}
PermitsAdd ==
  \A s \in {"download", "process"} : permits[Len(permits)][s] + Cardinality(Within(s)) = live[s]
OthersAwaited == overdue \/ \A t \in DOMAIN task : task[t].obj = Len(permits)

RuntimeInv ==
  /\ ReplyShaped /\ EntriesFit /\ TasksTracked /\ ReportCovers /\ PermitsAdd /\ OthersAwaited
  /\ NoLostWakeup /\ HeldIsAccounted

-----------------------------------------------------------------------------
(* Liveness.                                                                 *)

\* Loops go on, requests are answered or given up, bundles have a timeout, subprocesses
\* can be killed, the container is restarted.
Fairness ==
  /\ WF_vars(Lease \/ \E C \in SUBSET Granules : StartHandlers(C))
  /\ \A t \in 1..Tasks : WF_vars(Finish(t) \/ Unwind(t) \/ \E s \in Sections : Enter(t, s))
  /\ \A g \in Granules :
       WF_vars(Deliver(g, FALSE) \/ LeaseExpires(g)) /\ SF_vars(GraceElapses(g))
  /\ WF_vars(SendBeat \/ HandleBeat \/ HandleBeatUnknown \/ HandleBeatRemoved \/ AnswerBeat)
  /\ WF_vars(Rebuild(FALSE)) /\ WF_vars(Drained(FALSE) \/ Boot)

LiveSpec == Spec /\ Fairness

\* Every lease of this worker ends: by an event, or by the reconcile, the registration or
\* the expiry when nothing works for it.
LeaseEnds == \A g \in Followed : lease[g] = "held" ~> lease[g] # "held"

\* _reconcile_concurrency: the operator's settings are in force in the end, and a
\* reconfiguration under way does not block the next one for ever.
SettingsArrive == <>[](up => live = wanted)

\* drain_watchdog_loop: a process told to drain ends.
DrainEnds == draining ~> ~ up
=============================================================================
