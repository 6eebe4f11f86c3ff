------------------------------- MODULE Rollout -------------------------------
(***************************************************************************)
(* A staged upgrade of the workers: api/rollout.py and the leader's tick of *)
(* background.py, the update one-shot on the workers' rows that a heartbeat  *)
(* consumes, and on each worker the process with the entrypoint that installs*)
(* a version, gates it and falls back.  Every request and every tick is one  *)
(* transaction; requests, replies and processes fail in between.  Heartbeats *)
(* the worker gave up on may be handled later (stray).                       *)
(***************************************************************************)
EXTENDS Integers, FiniteSets

CONSTANTS Workers,          \* worker ids: numbers, in the order of the ids
          Versions,         \* releases not newer than the orchestrator's
          First,            \* the release every worker runs at the start
          Flaky,            \* releases that come up but die inside the health gate
          Targets,          \* versions a rollout is started for
          OperatorAsks,     \* what the operator asks of single workers
          NoVersion,        \* no version: no signal, no stamp, no request
          Restart,          \* an update signal without a version
          CanaryCount,      \* canary_count
          BatchPct,         \* batch_pct, in percent
          MaxRollouts,      \* bound: rollouts ever started
          MaxStray,         \* bound: workers with a heartbeat under way that nobody waits for
          MaxParked,        \* bound: workers the operator ever pauses or removes
          Requests,         \* operator requests taken up: "abort", "pause", "remove"
          Faults            \* what goes wrong: "crash", "container", "install"

Asks == Versions \cup {Restart}

ASSUME WorkersAssumption == Workers \subseteq Nat /\ IsFiniteSet(Workers)
ASSUME VersionsAssumption ==
  /\ First \in Versions \ Flaky /\ Flaky \subseteq Versions /\ Targets \subseteq Versions
  /\ OperatorAsks \subseteq Asks
  /\ NoVersion \notin Asks /\ Restart \notin Versions
ASSUME SizesAssumption == CanaryCount \in Nat \ {0} /\ BatchPct \in 0..100 
  /\ MaxRollouts \in Nat /\ MaxStray \in Nat /\ MaxParked \in Nat

VARIABLES
  rolls,  \* the rollouts table; phase "none" is an id not used yet
  row,    \* of each worker's row: paused, removed, version and the update signal (ask)
  node,   \* of each worker's host: the process (up), its version (runs), and the files of the
          \* entrypoint: .pending-version, intent (a version inside its gate), committed
  stray,  \* versions in heartbeats the process no longer waits for
  tried,  \* history: the versions each worker has registered with
  parked  \* history: workers the operator has paused or removed at some time

workerVars == <<node, stray>>
vars == <<rolls, row, node, stray, tried, parked>>

Ids == 1..MaxRollouts
Active == {"pending", "running", "halted"}

Rollouts == [target : Versions, wave : -1..2, members : SUBSET Workers, due : BOOLEAN,
             phase : Active \cup {"none", "done", "aborted"}]
Rows == [paused : BOOLEAN, removed : BOOLEAN, version : Versions, ask : Asks \cup {NoVersion}]
Hosts == [up : {"down", "starting", "up", "draining", "gone"}, runs : Versions, committed : Versions,
          pending : Versions \cup {NoVersion}, intent : Versions \cup {NoVersion}]

TypeOK ==
  /\ rolls \in [Ids -> Rollouts]
  /\ row \in [Workers -> Rows]
  /\ node \in [Workers -> Hosts]
  /\ stray \in [Workers -> SUBSET Versions]
  /\ tried \in [Workers -> SUBSET Versions]
  /\ parked \subseteq Workers

Init ==
  /\ rolls = [i \in Ids |-> [target |-> First, wave |-> -1, members |-> {}, due |-> FALSE, phase |-> "none"]]
  /\ row = [w \in Workers |-> [paused |-> FALSE, removed |-> FALSE, version |-> First, ask |-> NoVersion]]
  /\ node = [w \in Workers |-> [up |-> "up", runs |-> First, committed |-> First,
                                pending |-> NoVersion, intent |-> NoVersion]]
  /\ stray = [w \in Workers |-> {}]
  /\ tried = [w \in Workers |-> {First}]
  /\ parked = {}

-----------------------------------------------------------------------------
(* Reading the tables.                                                       *)

\* The newest rollout in one of the phases.
IsLatest(i, phases) ==
  /\ rolls[i].phase \in phases
  /\ \A j \in Ids : rolls[j].phase \in phases => j <= i

Eligible(t) == {w \in Workers : ~row[w].removed /\ ~row[w].paused /\ row[w].version # t}

Smaller(a, b) == IF a < b THEN a ELSE b

WaveSize(k, n) ==
  CASE n = 0 -> 0
    [] n > 0 /\ k = 0 -> Smaller(CanaryCount, n)
    [] n > 0 /\ k = 1 -> Smaller(n, IF n * BatchPct <= 100 THEN 1 ELSE (n * BatchPct + 99) \div 100)
    [] OTHER -> n

\* The first of the eligible workers in the order of their ids.
Cohort(k, t) ==
  LET size == WaveSize(k, Cardinality(Eligible(t)))
  IN  {w \in Eligible(t) : Cardinality({x \in Eligible(t) : x < w}) < size}

\* Mutant: a member that has been told of its signal no longer counts.
PendingUntilTold(r) == {w \in r.members \cap Eligible(r.target) : row[w].ask # NoVersion}
\* rollout_member_breakdown: the members that hold the wave up.
Pending(r) == r.members \cap Eligible(r.target)

Signalled(ws, t) == [w \in Workers |-> IF w \in ws THEN [row[w] EXCEPT !.ask = t] ELSE row[w]]

-----------------------------------------------------------------------------
(* The operator.                                                             *)

\* Mutant: a halted rollout does not count as active.
InProgressUnlessHalted == \E i \in Ids : rolls[i].phase \in Active \ {"halted"}
InProgress == \E i \in Ids : rolls[i].phase \in Active

Insert(t) ==
  \E i \in Ids :
    /\ rolls[i].phase = "none" /\ \A j \in Ids : j < i => rolls[j].phase # "none"
    /\ rolls' = [rolls EXCEPT ![i].target = t, ![i].phase = "pending"]

StartRollout(t) ==
  /\ ~InProgress
  /\ Insert(t)
  /\ UNCHANGED <<row, workerVars, tried, parked>>

AbortRollout ==
  /\ "abort" \in Requests
  /\ \E i \in Ids : IsLatest(i, Active) /\ rolls' = [rolls EXCEPT ![i].phase = "aborted"]
  /\ UNCHANGED <<row, workerVars, tried, parked>>

\* Mutant: only the deadline is extended.
RetriedNone(r) == row
\* Resuming signals the pending members again.
Retried(r) == Signalled(Pending(r), r.target)

ResumeRollout ==
  /\ \E i \in Ids :
       /\ IsLatest(i, {"halted"})
       /\ row' = Retried(rolls[i])
       /\ rolls' = [rolls EXCEPT ![i].phase = "running", ![i].due = FALSE]
  /\ UNCHANGED <<workerVars, tried, parked>>

RequestUpdate(ws, ask) ==
  /\ row' = Signalled(ws, ask)
  /\ UNCHANGED <<rolls, workerVars, tried, parked>>

\* The endpoint of one worker looks at nothing; update-all skips the removed and paused.
RequestUpdates ==
  \E ask \in OperatorAsks :
    \/ \E w \in Workers : RequestUpdate({w}, ask)
    \/ RequestUpdate({w \in Workers : ~row[w].removed /\ ~row[w].paused}, ask)

SetPaused(w, paused) ==
  /\ "pause" \in Requests /\ Cardinality(parked \cup {w}) <= MaxParked
  /\ row' = [row EXCEPT ![w].paused = paused]
  /\ parked' = IF paused THEN parked \cup {w} ELSE parked
  /\ UNCHANGED <<rolls, workerVars, tried>>

RemoveWorker(w) ==
  /\ "remove" \in Requests /\ ~row[w].removed /\ Cardinality(parked \cup {w}) <= MaxParked
  /\ row' = [row EXCEPT ![w].removed = TRUE, ![w].paused = TRUE]
  /\ parked' = parked \cup {w}
  /\ UNCHANGED <<rolls, workerVars, tried>>

-----------------------------------------------------------------------------
(* The leader's tick: advance_rollout.                                       *)

Finish(i) ==
  /\ rolls' = [rolls EXCEPT ![i].phase = "done"]
  /\ UNCHANGED row

EnterWave(i, k) ==
  LET cohort == Cohort(k, rolls[i].target) IN
  IF cohort = {} THEN Finish(i)
  ELSE /\ rolls' = [rolls EXCEPT ![i].phase = "running", ![i].wave = k,
                                 ![i].members = cohort, ![i].due = FALSE]
       /\ row' = Signalled(cohort, rolls[i].target)

\* Mutant: wave index 0 reads as false.
TimedOutLater(r) == r.due /\ r.wave # 0 /\ Pending(r) # {}
TimedOut(r) == r.due /\ Pending(r) # {}

IsLast(r) == r.wave >= 2

AdvanceRollout ==
  /\ \E i \in Ids :
       /\ IsLatest(i, {"pending", "running"})
       /\ \/ rolls[i].phase = "pending" /\ EnterWave(i, 0)
          \/ /\ rolls[i].phase = "running" /\ Pending(rolls[i]) = {}
             /\ IF IsLast(rolls[i]) THEN Finish(i) ELSE EnterWave(i, rolls[i].wave + 1)
          \/ /\ rolls[i].phase = "running" /\ TimedOut(rolls[i])
             /\ rolls' = [rolls EXCEPT ![i].phase = "halted"]
             /\ UNCHANGED row
  /\ UNCHANGED <<workerVars, tried, parked>>

\* The wave's deadline passes, whatever the workers are doing.
DeadlinePasses(i) ==
  /\ rolls[i].phase = "running" /\ ~rolls[i].due
  /\ rolls' = [rolls EXCEPT ![i].due = TRUE]
  /\ UNCHANGED <<row, workerVars, tried, parked>>

-----------------------------------------------------------------------------
(* Heartbeats.                                                               *)

\* Mutant: a signal counts as installed once it is delivered.
BeatenInAdvance(w, v) ==
  IF row[w].removed THEN row
  ELSE [row EXCEPT ![w].version = IF row[w].ask \in Versions THEN row[w].ask ELSE v, ![w].ask = NoVersion]
\* The row after a heartbeat: a removed worker's is left alone, a signal is consumed.
Beaten(w, v) ==
  IF row[w].removed THEN row ELSE [row EXCEPT ![w].version = v, ![w].ask = NoVersion]

\* The process ends while the entrypoint runs on: a version inside its gate is given up,
\* whether it crashed or was asked to restart.
Ended(w) == [node EXCEPT ![w].up = "down", ![w].intent = NoVersion]

\* A removed worker's process that runs exits, and with it the container unless it was in its gate.
Leaves(w) == IF node[w].intent # NoVersion THEN Ended(w) ELSE [node EXCEPT ![w].up = "gone"]

\* A process that is told of a signal stamps the version and drains.
Told(w, ask) ==
  IF ask = NoVersion THEN node
  ELSE [node EXCEPT ![w].up = "draining", ![w].pending = IF ask = Restart THEN @ ELSE ask]

\* What the process does with the reply.
Reply(w) == IF row[w].removed THEN Leaves(w) ELSE Told(w, row[w].ask)

\* A heartbeat is handled and its reply arrives.
Heartbeat(w) ==
  /\ node[w].up \in {"up", "draining"}
  /\ row' = Beaten(w, node[w].runs)
  /\ node' = Reply(w)
  /\ UNCHANGED <<rolls, stray, tried, parked>>

\* The process gives a heartbeat up: it is still on its way, or its reply is lost.
HeartbeatGivenUp(w) ==
  /\ Cardinality({x \in Workers \ {w} : stray[x] # {}}) < MaxStray
  /\ node[w].up \in {"up", "draining"}
  /\ stray' = [stray EXCEPT ![w] = @ \cup {node[w].runs}]
  /\ UNCHANGED <<rolls, row, node, tried, parked>>

\* A heartbeat nobody waits for is handled all the same.
StrayHandled(w, v) ==
  /\ v \in stray[w]
  /\ row' = Beaten(w, v)
  /\ stray' = [stray EXCEPT ![w] = @ \ {v}]
  /\ UNCHANGED <<rolls, node, tried, parked>>

-----------------------------------------------------------------------------
(* The worker's host: the entrypoint's loop around the process.              *)

Alive(w) == node[w].up \in {"starting", "up", "draining"}

Drained(w) ==
  /\ node[w].up = "draining"
  /\ node' = Ended(w)
  /\ UNCHANGED <<rolls, row, stray, tried, parked>>

Crash(w) ==
  /\ "crash" \in Faults /\ Alive(w)
  /\ node' = Ended(w)
  /\ UNCHANGED <<rolls, row, stray, tried, parked>>

\* The container is stopped and later started again: the intent survives.
ContainerStops(w) ==
  /\ "container" \in Faults /\ Alive(w)
  /\ node' = [node EXCEPT ![w].up = "down"]
  /\ UNCHANGED <<rolls, row, stray, tried, parked>>

\* select_version: the stamp goes before the intent, the intent before the committed.
Chosen(w) ==
  IF node[w].pending # NoVersion THEN node[w].pending
  ELSE IF node[w].intent # NoVersion THEN node[w].intent
  ELSE node[w].committed

\* A version other than the committed one starts inside the health gate.
Boot(w) ==
  /\ node[w].up = "down"
  /\ node' = [node EXCEPT ![w].up = "starting", ![w].runs = Chosen(w), ![w].pending = NoVersion,
       ![w].intent = IF Chosen(w) = node[w].committed THEN NoVersion ELSE Chosen(w)]
  /\ UNCHANGED <<rolls, row, stray, tried, parked>>

\* The chosen version cannot be installed: back to the committed one.
InstallFails(w) ==
  /\ "install" \in Faults
  /\ node[w].up = "down" /\ Chosen(w) # node[w].committed
  /\ node' = [node EXCEPT ![w].up = "starting", ![w].runs = node[w].committed,
                          ![w].pending = NoVersion, ![w].intent = NoVersion]
  /\ UNCHANGED <<rolls, row, stray, tried, parked>>

\* A removed worker is refused: its process fails at once, and is started again for ever.
Register(w) ==
  /\ node[w].up = "starting"
  /\ IF row[w].removed
     THEN node' = Ended(w) /\ UNCHANGED <<row, tried>>
     ELSE /\ node' = [node EXCEPT ![w].up = "up"]
          /\ row' = [row EXCEPT ![w].version = node[w].runs]
          /\ tried' = [tried EXCEPT ![w] = @ \cup {node[w].runs}]
  /\ UNCHANGED <<rolls, stray, parked>>

\* The process is still alive at the end of the window.
GatePasses(w) ==
  /\ Alive(w) /\ node[w].intent # NoVersion /\ node[w].runs \notin Flaky
  /\ node' = [node EXCEPT ![w].committed = node[w].runs, ![w].intent = NoVersion]
  /\ UNCHANGED <<rolls, row, stray, tried, parked>>

-----------------------------------------------------------------------------

Operator ==
  \/ \E t \in Targets : StartRollout(t)
  \/ AbortRollout \/ ResumeRollout \/ RequestUpdates
  \/ \E w \in Workers : RemoveWorker(w) \/ \E paused \in BOOLEAN : SetPaused(w, paused)

Host(w) ==
  \/ Heartbeat(w) \/ HeartbeatGivenUp(w) \/ \E v \in Versions : StrayHandled(w, v)
  \/ Drained(w) \/ Crash(w) \/ ContainerStops(w)
  \/ Boot(w) \/ InstallFails(w) \/ Register(w) \/ GatePasses(w)

Next ==
  \/ Operator
  \/ AdvanceRollout
  \/ \E i \in Ids : DeadlinePasses(i)
  \/ \E w \in Workers : Host(w)

Spec == Init /\ [][Next]_vars

-----------------------------------------------------------------------------
(* Properties.                                                               *)

\* "One active rollout at a time": start is refused while one is pending, running or
\* halted, so neither a resume nor a tick makes a second one active.
OneActiveRollout ==
  \A i, j \in Ids : rolls[i].phase \in Active /\ rolls[j].phase \in Active => i = j

\* Where a release has got to: signalled, stamped, being brought up, running or committed.
Exposed(w, t) ==
  t \in {row[w].ask, node[w].pending, node[w].intent, node[w].runs, node[w].committed}

\* A release reaches a worker outside the current wave only when it has come up there, or
\* the operator took the worker out: no wave starts before the previous one is settled,
\* through lost and late heartbeats, restarts, fall-backs, halts and resumes.
OneWaveAtATime ==
  \A t \in Targets \ OperatorAsks, w \in Workers :
    Exposed(w, t) =>
      t \in tried[w] \/ w \in parked \/ \E i \in Ids : rolls[i].target = t /\ w \in rolls[i].members

\* What makes it inductive.  A version comes from a process that registered with it.
ReportsAreTrue ==
  \A w \in Workers :
    /\ row[w].version \in tried[w] /\ stray[w] \subseteq tried[w]
    /\ node[w].up \in {"up", "draining"} => node[w].runs \in tried[w]

\* A member is only excused when the operator took it out.
ExcusedWereParked == \A w \in Workers : row[w].paused \/ row[w].removed => w \in parked

\* A rollout has no members before its first wave.
NoMembersYet == \A i \in Ids : rolls[i].phase \in {"none", "pending"} => rolls[i].members = {}

WaveInv == ReportsAreTrue /\ ExcusedWereParked /\ NoMembersYet /\ OneWaveAtATime

\* A finished rollout has brought its release up on every worker that was never taken out.
NobodyForgotten ==
  \A i \in Ids, w \in Workers \ parked : rolls[i].phase = "done" => rolls[i].target \in tried[w]

\* What makes it inductive.  The last wave takes everybody who is left.
LastWaveWhole ==
  \A i \in Ids, w \in Workers \ parked :
    rolls[i].wave = 2 => w \in rolls[i].members \/ rolls[i].target \in tried[w]

\* No wave is counted before the first.
NoWaveYet == \A i \in Ids : rolls[i].phase \in {"none", "pending"} => rolls[i].wave = -1

ForgetInv == NobodyForgotten /\ LastWaveWhole /\ NoWaveYet

\* "A crash-looping worker that L1 rolled back stays on the old version, never confirms,
\* the wave times out and halts": a release no worker keeps does not get past the canary.
FlakyStaysCanary ==
  parked = {} => \A i \in Ids : rolls[i].target \in Flaky => rolls[i].wave <= 0

\* The leader ticks and the clock runs.
LeaderFairness == WF_vars(AdvanceRollout) /\ \A i \in Ids : WF_vars(DeadlinePasses(i))

\* The processes and the entrypoint go on and a heartbeat gets through now and then.
HostFairness ==
  \A w \in Workers :
    /\ WF_vars(Heartbeat(w))
    /\ WF_vars(Drained(w)) /\ WF_vars(Boot(w)) /\ WF_vars(Register(w)) /\ WF_vars(GatePasses(w))

LiveSpec == Spec /\ LeaderFairness /\ HostFairness

\* No rollout is left to the leader for good: it finishes, halts for the operator or is
\* aborted, whatever the workers do.
RolloutSettles ==
  \A i \in Ids :
    rolls[i].phase \in {"pending", "running"} ~> rolls[i].phase \in {"done", "halted", "aborted"}

\* What undoes an installation, or takes a worker in and out.
Disturbance ==
  \/ RequestUpdates
  \/ \E w \in Workers :
       \/ InstallFails(w) \/ Crash(w) \/ ContainerStops(w)
       \/ \E paused \in BOOLEAN : SetPaused(w, paused)

\* The operator resumes what halts, a signal stamped again and again is delivered, and
\* from some time on nothing undoes an installation and nobody pauses a worker.
Delivered(w) == row[w].ask # NoVersion /\ Heartbeat(w)
Persistence ==
  /\ WF_vars(ResumeRollout) /\ \A w \in Workers : SF_vars(Delivered(w))
  /\ <>[][~Disturbance]_vars

\* A sound release gets through by resuming, though signals and replies are lost and the
\* deadline may pass at any time: every resume signals the members still pending.
ResumedToTheEnd ==
  Persistence =>
    \A i \in Ids : rolls[i].phase = "running" /\ rolls[i].target \notin Flaky
                     ~> rolls[i].phase \in {"done", "aborted"}
=============================================================================
