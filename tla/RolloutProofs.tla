---------------------------- MODULE RolloutProofs ----------------------------
(***************************************************************************)
(* Proofs about Rollout and RolloutRaces for every set of workers and       *)
(* versions, every size of the waves and every number of rollouts.          *)
(***************************************************************************)
EXTENDS RolloutRaces, FiniteSetTheorems, WellFoundedInduction, TLAPS

LEMMA NoVersionIsNone == NoVersion \notin Versions /\ NoVersion # Restart /\ Restart \notin Versions
  BY VersionsAssumption DEF Asks

-----------------------------------------------------------------------------
(* The parts of a step.                                                      *)

\* A signal changes nothing but the ask of the workers it is for.
LEMMA SignalledRows ==
  ASSUME TypeOK, NEW ws \in SUBSET Workers, NEW t \in Asks, NEW w \in Workers
  PROVE  /\ Signalled(ws, t) \in [Workers -> Rows]
         /\ Signalled(ws, t)[w].paused = row[w].paused
         /\ Signalled(ws, t)[w].removed = row[w].removed
         /\ Signalled(ws, t)[w].version = row[w].version
         /\ Signalled(ws, t)[w].ask \in {row[w].ask, t}
         /\ w \notin ws => Signalled(ws, t)[w].ask = row[w].ask
  BY DEF TypeOK, Signalled, Rows

\* The record of a rollout or a host after some of its fields were set.
LEMMA RolloutRecord ==
  ASSUME NEW r \in Rollouts, NEW p \in Active, NEW k \in -1..2, NEW ms \in SUBSET Workers
  PROVE  /\ [r EXCEPT !.phase = p, !.wave = k, !.members = ms, !.due = FALSE] \in Rollouts
         /\ [r EXCEPT !.phase = p, !.due = FALSE] \in Rollouts
  BY DEF Rollouts

LEMMA HostRecord ==
  ASSUME NEW h \in Hosts, NEW v \in Versions, NEW intent \in Versions \cup {NoVersion}
  PROVE  /\ [h EXCEPT !.up = "starting", !.runs = v, !.pending = NoVersion, !.intent = intent] \in Hosts
         /\ [h EXCEPT !.up = "down", !.intent = NoVersion] \in Hosts
         /\ [h EXCEPT !.up = "gone"] \in Hosts
         /\ [h EXCEPT !.up = "up"] \in Hosts
  BY DEF Hosts

LEMMA CohortMembers == ASSUME NEW k, NEW t PROVE Cohort(k, t) \subseteq Workers
  BY DEF Cohort, Eligible

\* A heartbeat writes the version it carries and consumes the signal.
LEMMA BeatenRows ==
  ASSUME TypeOK, NEW w \in Workers, NEW v \in Versions, NEW x \in Workers
  PROVE  /\ Beaten(w, v) \in [Workers -> Rows]
         /\ Beaten(w, v)[x].paused = row[x].paused
         /\ Beaten(w, v)[x].removed = row[x].removed
         /\ Beaten(w, v)[x].version \in {row[x].version, v}
         /\ x # w => Beaten(w, v)[x].version = row[x].version
         /\ Beaten(w, v)[x].ask \in {row[x].ask, NoVersion}
  BY DEF TypeOK, Beaten, Rows

\* A reply may stamp the version that was asked for; nothing else comes to the host.
LEMMA RepliedNodes ==
  ASSUME TypeOK, NEW w \in Workers, NEW x \in Workers, node[w].up \in {"up", "draining"}
  PROVE  /\ Reply(w) \in [Workers -> Hosts]
         /\ Reply(w)[x].runs = node[x].runs
         /\ Reply(w)[x].committed = node[x].committed
         /\ Reply(w)[x].intent \in {node[x].intent, NoVersion}
         /\ Reply(w)[x].pending \in {node[x].pending, row[x].ask}
         /\ Reply(w)[x].up \in {"up", "draining"} => node[x].up \in {"up", "draining"}
  <1>1. row[w].ask \in Versions \cup {Restart, NoVersion}
    BY DEF TypeOK, Rows, Asks
  <1>2. CASE row[w].removed
    BY <1>2 DEF Reply, Told, Leaves, Ended, TypeOK, Hosts
  <1>3. CASE ~row[w].removed /\ row[w].ask = NoVersion
    BY <1>3 DEF Reply, Told, TypeOK, Hosts
  <1>4. CASE ~row[w].removed /\ row[w].ask # NoVersion
    BY <1>1, <1>4 DEF Reply, Told, TypeOK, Hosts
  <1> QED
    BY <1>2, <1>3, <1>4

LEMMA ChosenVersion ==
  ASSUME TypeOK, NEW w \in Workers
  PROVE  Chosen(w) \in Versions \cap {node[w].pending, node[w].intent, node[w].committed}
  BY DEF TypeOK, Chosen, Hosts

-----------------------------------------------------------------------------
(* Types.                                                                    *)

LEMMA InitType == Init => TypeOK
  BY VersionsAssumption DEF Init, TypeOK, Ids, Active, Rollouts, Rows, Hosts

LEMMA RequestedWorkers ==
  RequestUpdates => \E ask \in OperatorAsks, ws \in SUBSET Workers : RequestUpdate(ws, ask)
  <1> SUFFICES ASSUME NEW ask \in OperatorAsks,
                      \/ \E w \in Workers : RequestUpdate({w}, ask)
                      \/ RequestUpdate({w \in Workers : ~row[w].removed /\ ~row[w].paused}, ask)
               PROVE  \E ws \in SUBSET Workers : RequestUpdate(ws, ask)
    BY DEF RequestUpdates
  <1>1. ASSUME NEW w \in Workers, RequestUpdate({w}, ask)
        PROVE  \E ws \in SUBSET Workers : RequestUpdate(ws, ask)
    <2>1. {w} \in SUBSET Workers
      OBVIOUS
    <2> QED
      BY <1>1, <2>1
  <1>2. {w \in Workers : ~row[w].removed /\ ~row[w].paused} \in SUBSET Workers
    OBVIOUS
  <1> QED
    BY <1>1, <1>2

LEMMA OperatorType == TypeOK /\ Operator => TypeOK'
  <1> SUFFICES ASSUME TypeOK, Operator PROVE TypeOK'
    OBVIOUS
  <1>1. ASSUME NEW t \in Targets, StartRollout(t) PROVE TypeOK'
    BY <1>1, VersionsAssumption DEF StartRollout, Insert, TypeOK, workerVars, Active, Rollouts
  <1>2. CASE AbortRollout
    BY <1>2 DEF AbortRollout, TypeOK, workerVars, Active, Rollouts
  <1>3. CASE ResumeRollout
    <2>1. PICK i \in Ids :
            /\ row' = Signalled(Pending(rolls[i]), rolls[i].target)
            /\ rolls' = [rolls EXCEPT ![i].phase = "running", ![i].due = FALSE]
      BY <1>3 DEF ResumeRollout, Retried
    <2>2. Pending(rolls[i]) \subseteq Workers /\ rolls[i].target \in Asks
      BY DEF Pending, Eligible, TypeOK, Asks, Rollouts
    <2>3. row' \in [Workers -> Rows]
      BY <2>1, <2>2 DEF Signalled, TypeOK, Rows
    <2>4. rolls' = [rolls EXCEPT ![i] = [rolls[i] EXCEPT !.phase = "running", !.due = FALSE]]
      BY <2>1 DEF TypeOK, Rollouts
    <2>5. [rolls[i] EXCEPT !.phase = "running", !.due = FALSE] \in Rollouts
      BY DEF TypeOK, Rollouts, Active
    <2>6. rolls' \in [Ids -> Rollouts]
      BY <2>4, <2>5 DEF TypeOK
    <2> QED
      BY <1>3, <2>3, <2>6 DEF ResumeRollout, TypeOK, workerVars
  <1>4. CASE RequestUpdates
    <2>1. PICK ask \in OperatorAsks : \E ws \in SUBSET Workers : RequestUpdate(ws, ask)
      BY <1>4, RequestedWorkers
    <2>2. ask \in Asks
      BY VersionsAssumption
    <2> QED
      BY <2>1, <2>2 DEF RequestUpdate, Signalled, TypeOK, workerVars, Rows
  <1>5. ASSUME NEW w \in Workers, RemoveWorker(w) PROVE TypeOK'
    BY <1>5 DEF RemoveWorker, TypeOK, workerVars, Rows
  <1>6. ASSUME NEW w \in Workers, NEW paused \in BOOLEAN, SetPaused(w, paused) PROVE TypeOK'
    BY <1>6 DEF SetPaused, TypeOK, workerVars, Rows
  <1> QED
    BY <1>1, <1>2, <1>3, <1>4, <1>5, <1>6 DEF Operator

LEMMA EnterWaveType ==
  ASSUME TypeOK, NEW i \in Ids, NEW k \in 0..2, EnterWave(i, k)
  PROVE  /\ rolls' \in [Ids -> Rollouts]
         /\ row' \in [Workers -> Rows]
  <1> DEFINE cohort == Cohort(k, rolls[i].target)
  <1>1. cohort \subseteq Workers
    BY CohortMembers
  <1>2. rolls[i].target \in Asks
    BY DEF TypeOK, Asks, Rollouts
  <1>3. CASE cohort = {}
    BY <1>3 DEF EnterWave, Finish, TypeOK, Rollouts
  <1>4. CASE cohort # {}
    <2>1. /\ rolls' = [rolls EXCEPT ![i].phase = "running", ![i].wave = k,
                                    ![i].members = cohort, ![i].due = FALSE]
          /\ row' = Signalled(cohort, rolls[i].target)
      BY <1>4 DEF EnterWave
    <2>2. row' \in [Workers -> Rows]
      BY <1>1, <1>2, <2>1 DEF Signalled, TypeOK, Rows
    <2>3. k \in -1..2 /\ "running" \in Active
      BY DEF Active
    <2>4. rolls[i] \in Rollouts
      BY DEF TypeOK
    <2> HIDE DEF cohort
    <2>5. [rolls[i] EXCEPT !.phase = "running", !.wave = k, !.members = cohort, !.due = FALSE] \in Rollouts
      BY <1>1, <2>3, <2>4, RolloutRecord
    <2>6. rolls' = [rolls EXCEPT ![i] = [rolls[i] EXCEPT !.phase = "running", !.wave = k,
                                                         !.members = cohort, !.due = FALSE]]
      BY <2>1 DEF TypeOK, Rollouts
    <2> QED
      BY <2>2, <2>5, <2>6 DEF TypeOK
  <1> QED
    BY <1>3, <1>4

LEMMA AdvanceType == TypeOK /\ AdvanceRollout => TypeOK'
  <1> SUFFICES ASSUME TypeOK, AdvanceRollout PROVE TypeOK'
    OBVIOUS
  <1>1. PICK i \in Ids :
          \/ EnterWave(i, 0)
          \/ IF IsLast(rolls[i]) THEN Finish(i) ELSE EnterWave(i, rolls[i].wave + 1)
          \/ rolls' = [rolls EXCEPT ![i].phase = "halted"] /\ UNCHANGED row
    BY DEF AdvanceRollout
  <1>2. ~IsLast(rolls[i]) => rolls[i].wave + 1 \in 0..2
    BY DEF IsLast, TypeOK, Rollouts
  <1>3. /\ rolls' \in [Ids -> Rollouts]
        /\ row' \in [Workers -> Rows]
    <2>1. CASE \E k \in 0..2 : EnterWave(i, k)
      BY <2>1, EnterWaveType
    <2>2. CASE Finish(i)
      BY <2>2 DEF Finish, TypeOK, Rollouts
    <2>3. CASE rolls' = [rolls EXCEPT ![i].phase = "halted"] /\ UNCHANGED row
      BY <2>3 DEF TypeOK, Active, Rollouts
    <2> QED
      BY <1>1, <1>2, <2>1, <2>2, <2>3
  <1> QED
    BY <1>3 DEF AdvanceRollout, TypeOK, workerVars

LEMMA HostType == ASSUME TypeOK, NEW w \in Workers, Host(w) PROVE TypeOK'
  <1>0. node[w] \in Hosts
    BY DEF TypeOK
  <1>1. CASE Heartbeat(w)
    <2>1. node[w].runs \in Versions
      BY DEF TypeOK, Hosts
    <2>2. /\ row' \in [Workers -> Rows]
          /\ node' \in [Workers -> Hosts]
      BY <1>1, <2>1, BeatenRows, RepliedNodes DEF Heartbeat
    <2> QED
      BY <1>1, <2>2 DEF Heartbeat, TypeOK
  <1>2. CASE HeartbeatGivenUp(w)
    BY <1>2 DEF HeartbeatGivenUp, TypeOK, Hosts
  <1>3. ASSUME NEW v \in Versions, StrayHandled(w, v) PROVE TypeOK'
    <2>1. row' \in [Workers -> Rows]
      BY <1>3, BeatenRows DEF StrayHandled
    <2> QED
      BY <1>3, <2>1 DEF StrayHandled, TypeOK
  <1>4. CASE Drained(w) \/ Crash(w)
    BY <1>4 DEF Drained, Crash, Ended, TypeOK, Hosts
  <1>5. CASE ContainerStops(w)
    BY <1>5 DEF ContainerStops, TypeOK, Hosts
  <1>6. CASE Boot(w)
    <2> DEFINE i == IF Chosen(w) = node[w].committed THEN NoVersion ELSE Chosen(w)
               h == [node[w] EXCEPT !.up = "starting", !.runs = Chosen(w), !.pending = NoVersion,
                                    !.intent = i]
    <2>1. Chosen(w) \in Versions /\ i \in Versions \cup {NoVersion}
      BY ChosenVersion
    <2>2. node' = [node EXCEPT ![w] = h]
      BY <1>6 DEF Boot, TypeOK, Hosts
    <2> HIDE DEF i
    <2>3. h \in Hosts
      BY <1>0, <2>1, HostRecord
    <2>4. node' \in [Workers -> Hosts]
      BY <2>2, <2>3 DEF TypeOK
    <2> QED
      BY <1>6, <2>4 DEF Boot, TypeOK
  <1>7. CASE InstallFails(w)
    <2> DEFINE h == [node[w] EXCEPT !.up = "starting", !.runs = node[w].committed,
                                    !.pending = NoVersion, !.intent = NoVersion]
    <2>1. node' = [node EXCEPT ![w] = h]
      BY <1>7 DEF InstallFails, TypeOK, Hosts
    <2>2. node[w].committed \in Versions
      BY <1>0 DEF Hosts
    <2>3. h \in Hosts
      BY <1>0, <2>2, HostRecord
    <2> QED
      BY <1>7, <2>1, <2>3 DEF InstallFails, TypeOK
  <1>8. CASE Register(w)
    <2>1. node[w].runs \in Versions
      BY <1>0 DEF Hosts
    <2>2. CASE row[w].removed
      <3>1. node' \in [Workers -> Hosts]
        BY <1>8, <2>2 DEF Register, Ended, TypeOK, Hosts
      <3> QED
        BY <1>8, <2>2, <3>1 DEF Register, TypeOK
    <2>3. CASE ~row[w].removed
      <3>1. node' \in [Workers -> Hosts]
        BY <1>8, <2>3 DEF Register, TypeOK, Hosts
      <3>2. row' \in [Workers -> Rows]
        BY <1>8, <2>1, <2>3 DEF Register, TypeOK, Rows
      <3>3. tried' \in [Workers -> SUBSET Versions]
        BY <1>8, <2>1, <2>3 DEF Register, TypeOK
      <3> QED
        BY <1>8, <3>1, <3>2, <3>3 DEF Register, TypeOK
    <2> QED
      BY <2>2, <2>3
  <1>9. CASE GatePasses(w)
    BY <1>9 DEF GatePasses, TypeOK, Hosts
  <1> QED
    BY <1>1, <1>2, <1>3, <1>4, <1>5, <1>6, <1>7, <1>8, <1>9 DEF Host

LEMMA NextType == TypeOK /\ [Next]_vars => TypeOK'
  <1> SUFFICES ASSUME TypeOK, [Next]_vars PROVE TypeOK'
    OBVIOUS
  <1>1. ASSUME NEW i \in Ids, DeadlinePasses(i) PROVE TypeOK'
    BY <1>1 DEF DeadlinePasses, TypeOK, workerVars, Rollouts
  <1>2. CASE UNCHANGED vars
    BY <1>2 DEF vars, TypeOK
  <1> QED
    BY <1>1, <1>2, OperatorType, AdvanceType, HostType DEF Next

\* Tables, hosts and messages stay well formed: no wave beyond the fleet, no version but
\* a release.
THEOREM TypeCorrect == Spec => []TypeOK
  BY InitType, NextType, PTL DEF Spec

-----------------------------------------------------------------------------
(* One active rollout.                                                       *)

\* What advance_rollout may do to the table: only a running wave gets other members,
\* those of a rollout with nobody pending, and nobody else is signalled.
LEMMA AdvanceCases ==
  ASSUME TypeOK, AdvanceRollout
  PROVE  \E i \in Ids :
           /\ rolls[i].phase \in {"pending", "running"}
           /\ \/ /\ \E p \in {"done", "halted"} : rolls' = [rolls EXCEPT ![i].phase = p]
                 /\ row' = row
              \/ \E k \in 0..2, ms \in SUBSET Workers :
                   /\ rolls[i].phase = "pending" \/ Pending(rolls[i]) = {}
                   /\ rolls' = [rolls EXCEPT ![i].phase = "running", ![i].wave = k,
                                             ![i].members = ms, ![i].due = FALSE]
                   /\ row' = Signalled(ms, rolls[i].target)
  <1>1. PICK i \in Ids :
          /\ rolls[i].phase \in {"pending", "running"}
          /\ \/ rolls[i].phase = "pending" /\ EnterWave(i, 0)
             \/ /\ Pending(rolls[i]) = {}
                /\ IF IsLast(rolls[i]) THEN Finish(i) ELSE EnterWave(i, rolls[i].wave + 1)
             \/ rolls' = [rolls EXCEPT ![i].phase = "halted"] /\ UNCHANGED row
    BY DEF AdvanceRollout, IsLatest
  <1>2. ~IsLast(rolls[i]) => rolls[i].wave + 1 \in 0..2
    BY DEF IsLast, TypeOK, Rollouts
  <1>3. ASSUME NEW k \in 0..2, EnterWave(i, k)
        PROVE  \/ Finish(i)
               \/ \E ms \in SUBSET Workers :
                    /\ rolls' = [rolls EXCEPT ![i].phase = "running", ![i].wave = k,
                                              ![i].members = ms, ![i].due = FALSE]
                    /\ row' = Signalled(ms, rolls[i].target)
    <2>1. Cohort(k, rolls[i].target) \in SUBSET Workers
      BY CohortMembers
    <2> QED
      BY <1>3, <2>1 DEF EnterWave
  <1>4. CASE Finish(i)
    BY <1>1, <1>4 DEF Finish
  <1>5. CASE rolls' = [rolls EXCEPT ![i].phase = "halted"] /\ UNCHANGED row
    BY <1>1, <1>5
  <1>6. CASE \E k \in 0..2 : EnterWave(i, k) /\ (rolls[i].phase = "pending" \/ Pending(rolls[i]) = {})
    BY <1>1, <1>3, <1>4, <1>6
  <1>7. \/ Finish(i)
        \/ rolls' = [rolls EXCEPT ![i].phase = "halted"] /\ UNCHANGED row
        \/ \E k \in 0..2 : EnterWave(i, k) /\ (rolls[i].phase = "pending" \/ Pending(rolls[i]) = {})
    <2>1. ASSUME rolls[i].phase = "pending", EnterWave(i, 0)
          PROVE  \E k \in 0..2 : EnterWave(i, k) /\ (rolls[i].phase = "pending" \/ Pending(rolls[i]) = {})
      <3>1. 0 \in 0..2
        OBVIOUS
      <3> QED
        BY <2>1, <3>1
    <2>2. ASSUME Pending(rolls[i]) = {}, ~IsLast(rolls[i]), EnterWave(i, rolls[i].wave + 1)
          PROVE  \E k \in 0..2 : EnterWave(i, k) /\ (rolls[i].phase = "pending" \/ Pending(rolls[i]) = {})
      BY <1>2, <2>2
    <2>3. CASE rolls[i].phase = "pending" /\ EnterWave(i, 0)
      BY <2>1, <2>3
    <2>4. CASE Pending(rolls[i]) = {} /\ IF IsLast(rolls[i]) THEN Finish(i) ELSE EnterWave(i, rolls[i].wave + 1)
      BY <2>2, <2>4
    <2> QED
      BY <1>1, <2>3, <2>4
  <1> QED
    BY <1>4, <1>5, <1>6, <1>7

\* Only StartRollout makes a rollout active that was not.
LEMMA NoneBecomesActive ==
  ASSUME TypeOK, [Next]_vars, \A t \in Targets : ~StartRollout(t), NEW j \in Ids
  PROVE  rolls'[j].phase \in Active => rolls[j].phase \in Active
  <1>1. CASE UNCHANGED rolls
    BY <1>1
  <1>2. CASE AbortRollout \/ ResumeRollout
    BY <1>2 DEF AbortRollout, ResumeRollout, IsLatest, Active, TypeOK, Rollouts
  <1>3. CASE AdvanceRollout
    <2>1. PICK i \in Ids :
            /\ rolls[i].phase \in {"pending", "running"}
            /\ \/ \E p \in {"done", "halted"} : rolls' = [rolls EXCEPT ![i].phase = p]
               \/ \E k \in 0..2, ms \in SUBSET Workers :
                    rolls' = [rolls EXCEPT ![i].phase = "running", ![i].wave = k,
                                           ![i].members = ms, ![i].due = FALSE]
      BY <1>3, AdvanceCases
    <2>2. rolls[i].phase \in Active
      BY <2>1 DEF Active
    <2>3. j # i => rolls'[j] = rolls[j]
      BY <2>1 DEF TypeOK
    <2> QED
      BY <2>2, <2>3
  <1>4. ASSUME NEW i \in Ids, DeadlinePasses(i) PROVE rolls'[j].phase \in Active => rolls[j].phase \in Active
    BY <1>4 DEF DeadlinePasses, TypeOK, Rollouts
  <1>5. ASSUME NEW w \in Workers, Host(w) PROVE UNCHANGED rolls
    BY <1>5 DEF Host, Heartbeat, HeartbeatGivenUp, StrayHandled, Drained, Crash,
                ContainerStops, Boot, InstallFails, Register, GatePasses
  <1>6. Operator => AbortRollout \/ ResumeRollout \/ UNCHANGED rolls
    BY DEF Operator, RequestUpdates, RequestUpdate, RemoveWorker, SetPaused
  <1> QED
    BY <1>1, <1>2, <1>3, <1>4, <1>5, <1>6 DEF Next, vars

LEMMA OneActiveStep == TypeOK /\ OneActiveRollout /\ [Next]_vars => OneActiveRollout'
  <1> SUFFICES ASSUME TypeOK, OneActiveRollout, [Next]_vars PROVE OneActiveRollout'
    OBVIOUS
  <1>1. CASE \A t \in Targets : ~StartRollout(t)
    BY <1>1, NoneBecomesActive DEF OneActiveRollout
  <1>2. ASSUME NEW t \in Targets, StartRollout(t) PROVE OneActiveRollout'
    <2>1. PICK i \in Ids : rolls' = [rolls EXCEPT ![i].target = t, ![i].phase = "pending"]
      BY <1>2 DEF StartRollout, Insert
    <2>2. \A j \in Ids : j # i => rolls'[j] = rolls[j]
      BY <2>1 DEF TypeOK
    <2>3. \A j \in Ids : rolls[j].phase \notin Active
      BY <1>2 DEF StartRollout, Insert, InProgress
    <2> QED
      BY <2>2, <2>3 DEF OneActiveRollout
  <1> QED
    BY <1>1, <1>2

\* "One active rollout at a time": whatever is started, resumed, aborted and ticked, at
\* most one rollout is pending, running or halted.
THEOREM OneActive == Spec => []OneActiveRollout
  <1>1. Init => OneActiveRollout
    BY DEF Init, OneActiveRollout, Active
  <1> QED
    BY <1>1, TypeCorrect, OneActiveStep, PTL DEF Spec

-----------------------------------------------------------------------------
(* One wave at a time: WaveInv is inductive.                                 *)

\* Releases that only a rollout brings to the workers.
Rolled == Targets \ OperatorAsks

LEMMA RolledVersions == \A t \in Rolled : t \in Versions /\ t # NoVersion /\ t # Restart
  BY VersionsAssumption, NoVersionIsNone DEF Rolled

\* Nothing new is exposed, no rollout changes its target or members, and the histories
\* only grow: the wave property is kept.
LEMMA OneWaveKept ==
  ASSUME OneWaveAtATime,
         \A t \in Rolled, w \in Workers : Exposed(w, t)' => Exposed(w, t),
         \A i \in Ids : rolls'[i].target = rolls[i].target /\ rolls'[i].members = rolls[i].members,
         \A w \in Workers : tried[w] \subseteq tried'[w],
         parked \subseteq parked'
  PROVE  OneWaveAtATime'
  <1> SUFFICES ASSUME NEW t \in Rolled, NEW w \in Workers, Exposed(w, t)'
               PROVE  \/ t \in tried'[w] \/ w \in parked'
                      \/ \E i \in Ids : rolls'[i].target = t /\ w \in rolls'[i].members
    BY DEF OneWaveAtATime, Rolled
  <1>1. Exposed(w, t)
    OBVIOUS
  <1>2. t \in tried[w] \/ w \in parked \/ \E i \in Ids : rolls[i].target = t /\ w \in rolls[i].members
    BY <1>1 DEF OneWaveAtATime, Rolled
  <1> QED
    BY <1>2

LEMMA InitWave == Init => WaveInv
  <1> SUFFICES ASSUME Init PROVE WaveInv
    OBVIOUS
  <1>1. \A t \in Rolled, w \in Workers : Exposed(w, t) => t = First
    BY RolledVersions DEF Init, Exposed
  <1>2. OneWaveAtATime
    BY <1>1 DEF Init, OneWaveAtATime, Rolled
  <1>3. ReportsAreTrue
    BY DEF Init, ReportsAreTrue
  <1>4. ExcusedWereParked /\ NoMembersYet
    BY DEF Init, ExcusedWereParked, NoMembersYet
  <1> QED
    BY <1>2, <1>3, <1>4 DEF WaveInv

\* A step exposes no worker to a release it was not exposed to, and leaves the
\* operator's flags alone.
Quiet ==
  /\ \A t \in Rolled, x \in Workers : Exposed(x, t)' => Exposed(x, t)
  /\ \A x \in Workers : tried[x] \subseteq tried'[x]
  /\ \A x \in Workers : row'[x].paused = row[x].paused /\ row'[x].removed = row[x].removed

\* The worker side: a release moves from the signal to the stamp, the gate and the
\* committed version of the same worker, and comes from nowhere else.
LEMMA HostQuiet ==
  ASSUME TypeOK, ReportsAreTrue, NEW w \in Workers, Host(w)
  PROVE  Quiet /\ ReportsAreTrue'
  <1> USE DEF Quiet
  <1>1. node[w] \in Hosts /\ node[w].runs \in Versions
    BY DEF TypeOK, Hosts
  <1>2. CASE Heartbeat(w)
    <2>1. \A x \in Workers :
            /\ row'[x].paused = row[x].paused
            /\ row'[x].removed = row[x].removed
            /\ row'[x].version \in {row[x].version, node[w].runs}
            /\ x # w => row'[x].version = row[x].version
            /\ row'[x].ask \in {row[x].ask, NoVersion}
      BY <1>1, <1>2, BeatenRows DEF Heartbeat
    <2>2. \A x \in Workers :
            /\ node'[x].runs = node[x].runs
            /\ node'[x].committed = node[x].committed
            /\ node'[x].intent \in {node[x].intent, NoVersion}
            /\ node'[x].pending \in {node[x].pending, row[x].ask}
            /\ node'[x].up \in {"up", "draining"} => node[x].up \in {"up", "draining"}
      BY <1>2, RepliedNodes DEF Heartbeat
    <2>3. UNCHANGED <<stray, tried>>
      BY <1>2 DEF Heartbeat
    <2>4. \A t \in Rolled, x \in Workers : Exposed(x, t)' => Exposed(x, t)
      BY <2>1, <2>2, RolledVersions DEF Exposed
    <2>5. node[w].runs \in tried[w]
      BY <1>2 DEF Heartbeat, ReportsAreTrue
    <2>6. ReportsAreTrue'
      BY <2>1, <2>2, <2>3, <2>5 DEF ReportsAreTrue
    <2> QED
      BY <2>1, <2>3, <2>4, <2>6
  <1>3. CASE HeartbeatGivenUp(w)
    BY <1>3 DEF HeartbeatGivenUp, Exposed, ReportsAreTrue, TypeOK
  <1>4. ASSUME NEW v \in Versions, StrayHandled(w, v) PROVE Quiet /\ ReportsAreTrue'
    <2>1. \A x \in Workers :
            /\ row'[x].paused = row[x].paused
            /\ row'[x].removed = row[x].removed
            /\ row'[x].version \in {row[x].version, v}
            /\ x # w => row'[x].version = row[x].version
            /\ row'[x].ask \in {row[x].ask, NoVersion}
      BY <1>4, BeatenRows DEF StrayHandled
    <2>2. UNCHANGED <<node, tried>> /\ v \in tried[w] /\ \A x \in Workers : stray'[x] \subseteq stray[x]
      BY <1>4 DEF StrayHandled, ReportsAreTrue, TypeOK
    <2>3. ReportsAreTrue'
      BY <2>1, <2>2 DEF ReportsAreTrue
    <2>4. \A t \in Rolled, x \in Workers : Exposed(x, t)' => Exposed(x, t)
      BY <2>1, <2>2, RolledVersions DEF Exposed
    <2> QED
      BY <2>1, <2>2, <2>3, <2>4
  <1>5. ASSUME UNCHANGED <<row, stray, tried>>,
               \A x \in Workers : /\ node'[x].up \in {"up", "draining"} => /\ node[x].up \in {"up", "draining"}
                                                                         /\ node'[x].runs = node[x].runs
                                  /\ {node'[x].runs, node'[x].committed, node'[x].pending, node'[x].intent}
                                       \subseteq {node[x].runs, node[x].committed, node[x].pending,
                                                  node[x].intent, NoVersion}
        PROVE  Quiet /\ ReportsAreTrue'
    <2>1. ReportsAreTrue'
      BY <1>5 DEF ReportsAreTrue
    <2>2. \A t \in Rolled, x \in Workers : Exposed(x, t)' => Exposed(x, t)
      BY <1>5, RolledVersions DEF Exposed
    <2> QED
      BY <1>5, <2>1, <2>2
  <1>6. CASE Drained(w) \/ Crash(w) \/ ContainerStops(w)
    BY <1>1, <1>5, <1>6 DEF Drained, Crash, ContainerStops, Ended, TypeOK, Hosts
  <1>7. CASE Boot(w)
    BY <1>1, <1>5, <1>7, ChosenVersion DEF Boot, TypeOK, Hosts
  <1>8. CASE InstallFails(w) \/ GatePasses(w)
    BY <1>1, <1>5, <1>8 DEF InstallFails, GatePasses, TypeOK, Hosts
  <1>9. CASE Register(w)
    <2>1. CASE row[w].removed
      BY <1>1, <1>5, <1>9, <2>1 DEF Register, Ended, TypeOK, Hosts
    <2>2. CASE ~row[w].removed
      <3>1. \A x \in Workers :
              /\ row'[x].paused = row[x].paused /\ row'[x].removed = row[x].removed
              /\ row'[x].version = IF x = w THEN node[w].runs ELSE row[x].version
              /\ row'[x].ask = row[x].ask
        BY <1>9, <2>2 DEF Register, TypeOK, Rows
      <3>2. \A x \in Workers :
              /\ node'[x].runs = node[x].runs /\ node'[x].committed = node[x].committed
              /\ node'[x].pending = node[x].pending /\ node'[x].intent = node[x].intent
              /\ x # w => node'[x].up = node[x].up
        BY <1>9, <2>2 DEF Register, TypeOK, Hosts
      <3>3. \A x \in Workers : tried'[x] = IF x = w THEN tried[x] \cup {node[w].runs} ELSE tried[x]
        BY <1>9, <2>2 DEF Register, TypeOK
      <3>4. UNCHANGED stray
        BY <1>9 DEF Register
      <3>5. ReportsAreTrue'
        <4> SUFFICES ASSUME NEW x \in Workers
                     PROVE  /\ row'[x].version \in tried'[x] /\ stray[x] \subseteq tried'[x]
                            /\ node'[x].up \in {"up", "draining"} => node'[x].runs \in tried'[x]
          BY <3>4 DEF ReportsAreTrue
        <4>1. /\ row[x].version \in tried[x] /\ stray[x] \subseteq tried[x]
              /\ node[x].up \in {"up", "draining"} => node[x].runs \in tried[x]
          BY DEF ReportsAreTrue
        <4>2. CASE x = w
          <5>1. row'[w].version = node[w].runs /\ node'[w].runs = node[w].runs
                /\ tried'[w] = tried[w] \cup {node[w].runs}
            BY <3>1, <3>2, <3>3
          <5> QED
            BY <4>1, <4>2, <5>1
        <4>3. CASE x # w
          <5>1. row'[x].version = row[x].version /\ tried'[x] = tried[x]
                /\ node'[x].up = node[x].up /\ node'[x].runs = node[x].runs
            BY <3>1, <3>2, <3>3, <4>3
          <5> QED
            BY <4>1, <5>1
        <4> QED
          BY <4>2, <4>3
      <3>6. \A t \in Rolled, x \in Workers : Exposed(x, t)' => Exposed(x, t)
        BY <3>1, <3>2 DEF Exposed
      <3> QED
        BY <3>1, <3>3, <3>5, <3>6
    <2> QED
      BY <2>1, <2>2
  <1> QED
    BY <1>2, <1>3, <1>4, <1>6, <1>7, <1>8, <1>9 DEF Host

LEMMA HostWave ==
  ASSUME TypeOK, WaveInv, NEW w \in Workers, Host(w)
  PROVE  WaveInv'
  <1>1. rolls' = rolls /\ parked' = parked
    BY DEF Host, Heartbeat, HeartbeatGivenUp, StrayHandled, Drained, Crash,
           ContainerStops, Boot, InstallFails, Register, GatePasses
  <1>2. Quiet /\ ReportsAreTrue'
    BY HostQuiet DEF WaveInv
  <1>3. NoMembersYet'
    BY <1>1 DEF WaveInv, NoMembersYet
  <1>4. OneWaveAtATime'
    BY <1>1, <1>2, OneWaveKept DEF WaveInv, Quiet
  <1>5. ExcusedWereParked'
    BY <1>1, <1>2 DEF WaveInv, Quiet, ExcusedWereParked
  <1> QED
    BY <1>2, <1>3, <1>4, <1>5 DEF WaveInv

\* The operator's side: the only rollout started has no members yet, a resume signals
\* members, and the signals of single workers are for other versions.
LEMMA OperatorWave == TypeOK /\ WaveInv /\ Operator => WaveInv'
  <1> SUFFICES ASSUME TypeOK, WaveInv, Operator PROVE WaveInv'
    OBVIOUS
  <1>1. UNCHANGED <<node, stray, tried>>
    BY DEF Operator, StartRollout, Insert, AbortRollout, ResumeRollout, RequestUpdates, RequestUpdate,
           RemoveWorker, SetPaused, workerVars
  <1>2. ASSUME NEW t \in Targets, StartRollout(t) PROVE WaveInv'
    <2>1. PICK i \in Ids :
            /\ rolls[i].phase = "none"
            /\ rolls' = [rolls EXCEPT ![i].target = t, ![i].phase = "pending"]
      BY <1>2 DEF StartRollout, Insert
    <2>2. row' = row /\ parked' = parked
      BY <1>2 DEF StartRollout, Insert
    <2>3. rolls[i].members = {}
      BY <2>1 DEF WaveInv, NoMembersYet
    <2>4. \A j \in Ids : rolls'[j].members = rolls[j].members /\ (j # i => rolls'[j] = rolls[j])
      BY <2>1 DEF TypeOK, Rollouts
    <2>5. NoMembersYet'
      BY <2>3, <2>4 DEF WaveInv, NoMembersYet
    <2>6. OneWaveAtATime'
      BY <1>1, <2>2, <2>3, <2>4 DEF WaveInv, OneWaveAtATime, Exposed
    <2> QED
      BY <1>1, <2>2, <2>5, <2>6 DEF WaveInv, ReportsAreTrue, ExcusedWereParked
  <1>3. CASE AbortRollout
    <2>1. PICK i \in Ids : rolls' = [rolls EXCEPT ![i].phase = "aborted"]
      BY <1>3 DEF AbortRollout
    <2>2. row' = row /\ parked' = parked
      BY <1>3 DEF AbortRollout
    <2>3. \A j \in Ids : /\ rolls'[j].target = rolls[j].target /\ rolls'[j].members = rolls[j].members
                         /\ rolls'[j].phase \in {rolls[j].phase, "aborted"}
      BY <2>1 DEF TypeOK, Rollouts
    <2>4. NoMembersYet'
      BY <2>3 DEF WaveInv, NoMembersYet
    <2>5. OneWaveAtATime'
      BY <1>1, <2>2, <2>3, OneWaveKept DEF WaveInv, Exposed
    <2> QED
      BY <1>1, <2>2, <2>4, <2>5 DEF WaveInv, ReportsAreTrue, ExcusedWereParked
  <1>4. CASE ResumeRollout
    <2>1. PICK i \in Ids :
            /\ row' = Signalled(Pending(rolls[i]), rolls[i].target)
            /\ rolls' = [rolls EXCEPT ![i].phase = "running", ![i].due = FALSE]
      BY <1>4 DEF ResumeRollout, Retried
    <2>2. Pending(rolls[i]) \in SUBSET Workers /\ Pending(rolls[i]) \subseteq rolls[i].members
          /\ rolls[i].target \in Asks
      BY DEF Pending, Eligible, TypeOK, Asks, Rollouts
    <2>3. \A x \in Workers :
            /\ row'[x].paused = row[x].paused /\ row'[x].removed = row[x].removed
            /\ row'[x].version = row[x].version
            /\ row'[x].ask \in {row[x].ask, rolls[i].target}
            /\ x \notin rolls[i].members => row'[x].ask = row[x].ask
      BY <2>1, <2>2, SignalledRows
    <2>4. parked' = parked
      BY <1>4 DEF ResumeRollout
    <2>5. \A j \in Ids : /\ rolls'[j].target = rolls[j].target /\ rolls'[j].members = rolls[j].members
                         /\ rolls'[j].phase \in {rolls[j].phase, "running"}
      BY <2>1 DEF TypeOK, Rollouts
    <2>6. NoMembersYet'
      BY <2>5 DEF WaveInv, NoMembersYet
    <2>7. OneWaveAtATime'
      <3> SUFFICES ASSUME NEW t \in Rolled, NEW w \in Workers, Exposed(w, t)'
                   PROVE  \/ t \in tried[w] \/ w \in parked
                          \/ \E j \in Ids : rolls[j].target = t /\ w \in rolls[j].members
        BY <1>1, <2>4, <2>5 DEF OneWaveAtATime, Rolled
      <3>1. Exposed(w, t) \/ (t = rolls[i].target /\ w \in rolls[i].members)
        BY <1>1, <2>3 DEF Exposed
      <3> QED
        BY <3>1 DEF WaveInv, OneWaveAtATime, Rolled
    <2> QED
      BY <1>1, <2>3, <2>4, <2>6, <2>7 DEF WaveInv, ReportsAreTrue, ExcusedWereParked
  <1>5. ASSUME UNCHANGED rolls, parked \subseteq parked',
               \A x \in Workers : /\ row'[x].version = row[x].version
                                  /\ row'[x].ask \in {row[x].ask} \cup OperatorAsks
                                  /\ row'[x].paused \/ row'[x].removed
                                       => row[x].paused \/ row[x].removed \/ x \in parked'
        PROVE  WaveInv'
    <2>1. OneWaveAtATime'
      <3>1. \A t \in Rolled, x \in Workers : Exposed(x, t)' => Exposed(x, t)
        BY <1>1, <1>5 DEF Exposed, Rolled
      <3> QED
        BY <1>1, <1>5, <3>1, OneWaveKept DEF WaveInv
    <2> QED
      BY <1>1, <1>5, <2>1 DEF WaveInv, ReportsAreTrue, ExcusedWereParked, NoMembersYet
  <1>6. CASE RequestUpdates
    <2>1. PICK ask \in OperatorAsks, ws \in SUBSET Workers : RequestUpdate(ws, ask)
      BY <1>6, RequestedWorkers
    <2>2. ask \in Asks
      BY VersionsAssumption
    <2>3. \A x \in Workers : /\ row'[x].paused = row[x].paused /\ row'[x].removed = row[x].removed
                             /\ row'[x].version = row[x].version
                             /\ row'[x].ask \in {row[x].ask, ask}
      BY <2>1, <2>2, SignalledRows DEF RequestUpdate
    <2>4. UNCHANGED <<rolls, parked>>
      BY <2>1 DEF RequestUpdate
    <2> QED
      BY <1>5, <2>3, <2>4
  <1>7. ASSUME NEW w \in Workers, RemoveWorker(w) PROVE WaveInv'
    BY <1>5, <1>7 DEF RemoveWorker, TypeOK, Rows
  <1>8. ASSUME NEW w \in Workers, NEW paused \in BOOLEAN, SetPaused(w, paused) PROVE WaveInv'
    BY <1>5, <1>8 DEF SetPaused, TypeOK, Rows
  <1> QED
    BY <1>2, <1>3, <1>4, <1>6, <1>7, <1>8 DEF Operator

\* The leader's tick: nobody of the wave before is pending, so its members came up with the
\* release or were taken out, and only the new members are signalled.
LEMMA AdvanceWave == TypeOK /\ WaveInv /\ AdvanceRollout => WaveInv'
  <1> SUFFICES ASSUME TypeOK, WaveInv, AdvanceRollout PROVE WaveInv'
    OBVIOUS
  <1>1. UNCHANGED <<node, stray, tried, parked>>
    BY DEF AdvanceRollout, workerVars
  <1>2. PICK i \in Ids :
          /\ rolls[i].phase \in {"pending", "running"}
          /\ \/ /\ \E p \in {"done", "halted"} : rolls' = [rolls EXCEPT ![i].phase = p]
                /\ row' = row
             \/ \E k \in 0..2, ms \in SUBSET Workers :
                  /\ rolls[i].phase = "pending" \/ Pending(rolls[i]) = {}
                  /\ rolls' = [rolls EXCEPT ![i].phase = "running", ![i].wave = k,
                                            ![i].members = ms, ![i].due = FALSE]
                  /\ row' = Signalled(ms, rolls[i].target)
    BY AdvanceCases
  <1>3. ASSUME NEW p \in {"done", "halted"}, rolls' = [rolls EXCEPT ![i].phase = p], row' = row
        PROVE  WaveInv'
    <2>1. \A j \in Ids : /\ rolls'[j].target = rolls[j].target /\ rolls'[j].members = rolls[j].members
                         /\ rolls'[j].phase \in {rolls[j].phase, "done", "halted"}
      BY <1>3 DEF TypeOK, Rollouts
    <2>2. NoMembersYet'
      BY <2>1 DEF WaveInv, NoMembersYet
    <2>3. OneWaveAtATime'
      BY <1>1, <1>3, <2>1, OneWaveKept DEF WaveInv, Exposed
    <2> QED
      BY <1>1, <1>3, <2>2, <2>3 DEF WaveInv, ReportsAreTrue, ExcusedWereParked
  <1>4. ASSUME NEW k \in 0..2, NEW ms \in SUBSET Workers,
               rolls[i].phase = "pending" \/ Pending(rolls[i]) = {},
               rolls' = [rolls EXCEPT ![i].phase = "running", ![i].wave = k,
                                      ![i].members = ms, ![i].due = FALSE],
               row' = Signalled(ms, rolls[i].target)
        PROVE  WaveInv'
    <2>1. rolls[i].target \in Asks /\ rolls[i].members \subseteq Workers
      BY DEF TypeOK, Rollouts, Asks
    <2>2. \A x \in Workers :
            /\ row'[x].paused = row[x].paused /\ row'[x].removed = row[x].removed
            /\ row'[x].version = row[x].version
            /\ row'[x].ask \in {row[x].ask, rolls[i].target}
            /\ x \notin ms => row'[x].ask = row[x].ask
      BY <1>4, <2>1, SignalledRows
    <2>3. \A j \in Ids : j # i => rolls'[j] = rolls[j]
      BY <1>4 DEF TypeOK
    <2>4. rolls'[i].phase = "running" /\ rolls'[i].members = ms /\ rolls'[i].target = rolls[i].target
      BY <1>4 DEF TypeOK, Rollouts
    <2>5. NoMembersYet'
      BY <2>3, <2>4 DEF WaveInv, NoMembersYet
    \* A member of the wave before.
    <2>6. ASSUME NEW w \in rolls[i].members PROVE rolls[i].target \in tried[w] \/ w \in parked
      <3>1. w \in Workers /\ Pending(rolls[i]) = {}
        BY <1>4, <2>1 DEF WaveInv, NoMembersYet
      <3>2. row[w].removed \/ row[w].paused \/ row[w].version = rolls[i].target
        BY <3>1 DEF Pending, Eligible
      <3> QED
        BY <3>1, <3>2 DEF WaveInv, ReportsAreTrue, ExcusedWereParked
    <2>7. OneWaveAtATime'
      <3> SUFFICES ASSUME NEW t \in Rolled, NEW w \in Workers, Exposed(w, t)'
                   PROVE  \/ t \in tried[w] \/ w \in parked
                          \/ \E j \in Ids : rolls'[j].target = t /\ w \in rolls'[j].members
        BY <1>1 DEF OneWaveAtATime, Rolled
      <3>1. Exposed(w, t) \/ (t = rolls[i].target /\ w \in ms)
        BY <1>1, <2>2 DEF Exposed
      <3>2. CASE t = rolls[i].target /\ w \in ms
        BY <2>4, <3>2
      <3>3. CASE Exposed(w, t)
        <4>1. t \in tried[w] \/ w \in parked \/ \E j \in Ids : rolls[j].target = t /\ w \in rolls[j].members
          BY <3>3 DEF WaveInv, OneWaveAtATime, Rolled
        <4>2. ASSUME NEW j \in Ids, rolls[j].target = t, w \in rolls[j].members
              PROVE  \/ t \in tried[w] \/ w \in parked
                     \/ rolls'[j].target = t /\ w \in rolls'[j].members
          BY <2>3, <2>6, <4>2
        <4> QED
          BY <4>1, <4>2
      <3> QED
        BY <3>1, <3>2, <3>3
    <2> QED
      BY <1>1, <2>2, <2>5, <2>7 DEF WaveInv, ReportsAreTrue, ExcusedWereParked
  <1> QED
    BY <1>2, <1>3, <1>4

LEMMA NextWave == TypeOK /\ WaveInv /\ [Next]_vars => WaveInv'
  <1> SUFFICES ASSUME TypeOK, WaveInv, [Next]_vars PROVE WaveInv'
    OBVIOUS
  <1>1. ASSUME NEW i \in Ids, DeadlinePasses(i) PROVE WaveInv'
    <2>1. rolls[i].phase = "running" /\ rolls' = [rolls EXCEPT ![i].due = TRUE]
          /\ UNCHANGED <<row, node, stray, tried, parked>>
      BY <1>1 DEF DeadlinePasses, workerVars
    <2>2. \A j \in Ids : /\ rolls'[j].target = rolls[j].target /\ rolls'[j].members = rolls[j].members
                         /\ rolls'[j].phase = rolls[j].phase
      BY <2>1 DEF TypeOK, Rollouts
    <2>3. OneWaveAtATime'
      BY <2>1, <2>2, OneWaveKept DEF WaveInv, Exposed
    <2> QED
      BY <2>1, <2>2, <2>3 DEF WaveInv, ReportsAreTrue, ExcusedWereParked, NoMembersYet
  <1>2. CASE UNCHANGED vars
    BY <1>2 DEF vars, workerVars, WaveInv, ReportsAreTrue, ExcusedWereParked, NoMembersYet,
                OneWaveAtATime, Exposed
  <1> QED
    BY <1>1, <1>2, OperatorWave, AdvanceWave, HostWave DEF Next

\* No wave starts before the one before it is settled: a release that only a rollout brings
\* is nowhere on a worker outside the current wave on which it has not come up, unless the
\* operator took that worker out.
THEOREM OneWave == Spec => []OneWaveAtATime
  <1>1. WaveInv => OneWaveAtATime
    BY DEF WaveInv
  <1> QED
    BY <1>1, InitWave, TypeCorrect, NextWave, PTL DEF Spec

-----------------------------------------------------------------------------
(* The waves: none is empty while someone is left, the last one is everybody. *)

LEMMA LeastOf ==
  ASSUME NEW S \in SUBSET Nat, S # {}
  PROVE  \E m \in S : \A x \in S : ~(x < m)
  <1> DEFINE R == OpToRel(<, Nat)
  <1>1. IsWellFoundedOn(R, Nat)
    BY NatLessThanWellFounded
  <1>2. PICK m \in S : \A x \in S : ~(<<x, m>> \in R)
    BY <1>1, WFMin
  <1>3. \A x \in S : <<x, m>> \in R <=> x < m
    BY DEF OpToRel
  <1> QED
    BY <1>2, <1>3

LEMMA WaveSizes ==
  ASSUME NEW k \in 0..2, NEW n \in Nat \ {0}
  PROVE  /\ WaveSize(k, n) \in Nat \ {0}
         /\ k = 2 => WaveSize(k, n) = n
  <1>1. CASE k = 0
    BY <1>1, SizesAssumption DEF WaveSize, Smaller
  <1>2. CASE k = 1
    <2>1. PICK p \in Nat : p = n * BatchPct
      BY SizesAssumption
    <2>2. p > 100 => (p + 99) \div 100 \in Nat \ {0}
      OBVIOUS
    <2>3. WaveSize(k, n) = Smaller(n, IF p <= 100 THEN 1 ELSE (p + 99) \div 100)
      BY <1>2, <2>1 DEF WaveSize
    <2> QED
      BY <1>2, <2>2, <2>3 DEF Smaller
  <1>3. CASE k = 2
    BY <1>3 DEF WaveSize
  <1> QED
    BY <1>1, <1>2, <1>3

LEMMA Cohorts ==
  ASSUME NEW k \in 0..2, NEW t
  PROVE  /\ Cohort(k, t) = {} => Eligible(t) = {}
         /\ k = 2 => Cohort(k, t) = Eligible(t)
  <1> DEFINE E == Eligible(t)
             Before(w) == {x \in E : x < w}
             n == Cardinality(E)
  <1>1. E \in SUBSET Nat /\ IsFiniteSet(E)
    BY WorkersAssumption, FS_Subset DEF Eligible
  <1>2. n \in Nat /\ (n = 0 <=> E = {})
    BY <1>1, FS_CardinalityType, FS_EmptySet
  <1>3. Cohort(k, t) = {w \in E : Cardinality(Before(w)) < WaveSize(k, n)}
    BY DEF Cohort
  <1>4. CASE E = {}
    BY <1>3, <1>4
  <1>5. CASE E # {}
    <2>1. WaveSize(k, n) \in Nat \ {0} /\ (k = 2 => WaveSize(k, n) = n)
      BY <1>2, <1>5, WaveSizes
    <2>2. PICK m \in E : \A x \in E : ~(x < m)
      BY <1>1, <1>5, LeastOf
    <2>3. Cardinality(Before(m)) = 0
      BY <2>2, FS_EmptySet
    <2>4. m \in Cohort(k, t)
      BY <1>3, <2>1, <2>2, <2>3
    <2>5. \A w \in E : Cardinality(Before(w)) < n
      <3> TAKE w \in E
      <3>1. Before(w) \subseteq E /\ Before(w) # E
        BY <1>1
      <3> QED
        BY <1>1, <3>1, FS_Subset, FS_CardinalityType
    <2> QED
      BY <1>3, <2>1, <2>4, <2>5
  <1> QED
    BY <1>4, <1>5

\* Whoever is not waited for has come up with the release, or was taken out.
LEMMA NotEligible ==
  ASSUME ReportsAreTrue, ExcusedWereParked, NEW t, NEW w \in Workers \ parked, w \notin Eligible(t)
  PROVE  t \in tried[w]
  BY DEF Eligible, ReportsAreTrue, ExcusedWereParked

-----------------------------------------------------------------------------
(* ForgetInv is inductive.                                                   *)

\* The histories only grow.
Grown == parked \subseteq parked' /\ \A w \in Workers : tried[w] \subseteq tried'[w]

LEMMA HistoriesGrow == TypeOK /\ ReportsAreTrue /\ [Next]_vars => Grown
  <1> SUFFICES ASSUME TypeOK, ReportsAreTrue, [Next]_vars PROVE Grown
    OBVIOUS
  <1>1. CASE Operator
    BY <1>1 DEF Operator, StartRollout, AbortRollout, ResumeRollout, RequestUpdates, RequestUpdate,
                RemoveWorker, SetPaused, Grown, TypeOK
  <1>2. ASSUME NEW w \in Workers, Host(w) PROVE Grown
    <2>1. parked' = parked
      BY <1>2 DEF Host, Heartbeat, HeartbeatGivenUp, StrayHandled, Drained, Crash,
                  ContainerStops, Boot, InstallFails, Register, GatePasses
    <2> QED
      BY <1>2, <2>1, HostQuiet DEF Quiet, Grown
  <1>3. CASE AdvanceRollout
    BY <1>3 DEF AdvanceRollout, Grown
  <1>4. ASSUME NEW i \in Ids, DeadlinePasses(i) PROVE Grown
    BY <1>4 DEF DeadlinePasses, Grown
  <1>5. CASE UNCHANGED vars
    BY <1>5 DEF vars, Grown
  <1> QED
    BY <1>1, <1>2, <1>3, <1>4, <1>5 DEF Next

\* Rollout j stays what it is, except for its phase, and does not finish.
Held(j) ==
  /\ rolls'[j].wave = rolls[j].wave /\ rolls'[j].members = rolls[j].members
  /\ rolls'[j].target = rolls[j].target
  /\ rolls'[j].phase = "done" => rolls[j].phase = "done"
  /\ rolls'[j].phase \in {"none", "pending"} => rolls[j].phase \in {"none", "pending"}

\* What ForgetInv says of one rollout.
ForgetInvOf(j) ==
  /\ rolls[j].phase = "done" => \A w \in Workers \ parked : rolls[j].target \in tried[w]
  /\ rolls[j].wave = 2 =>
       \A w \in Workers \ parked : w \in rolls[j].members \/ rolls[j].target \in tried[w]
  /\ rolls[j].phase \in {"none", "pending"} => rolls[j].wave = -1

LEMMA ForgetSplit == ForgetInv <=> \A j \in Ids : ForgetInvOf(j)
  BY DEF ForgetInv, NobodyForgotten, LastWaveWhole, NoWaveYet, ForgetInvOf

LEMMA ForgetSplitNext == ForgetInv' <=> \A j \in Ids : ForgetInvOf(j)'
  BY DEF ForgetInv, NobodyForgotten, LastWaveWhole, NoWaveYet, ForgetInvOf

LEMMA HeldKept ==
  ASSUME Grown, NEW j \in Ids, Held(j), ForgetInvOf(j)
  PROVE  ForgetInvOf(j)'
  BY DEF Grown, Held, ForgetInvOf

\* The operator starts a rollout that has no wave yet, or touches phases and rows only.
LEMMA OperatorForget ==
  ASSUME TypeOK, Grown, ForgetInv, Operator
  PROVE  ForgetInv'
  <1> SUFFICES ASSUME NEW j \in Ids PROVE ForgetInvOf(j)'
    BY ForgetSplitNext
  <1>1. ForgetInvOf(j)
    BY ForgetSplit
  <1>2. ASSUME NEW t \in Targets, StartRollout(t) PROVE ForgetInvOf(j)'
    <2>1. PICK i \in Ids :
            /\ rolls[i].phase = "none"
            /\ rolls' = [rolls EXCEPT ![i].target = t, ![i].phase = "pending"]
      BY <1>2 DEF StartRollout, Insert
    <2>2. CASE j = i
      <3>1. rolls'[j].phase = "pending" /\ rolls'[j].wave = rolls[j].wave
        BY <2>1, <2>2 DEF TypeOK, Rollouts
      <3>2. rolls[j].wave = -1
        BY <1>1, <2>1, <2>2 DEF ForgetInvOf
      <3> QED
        BY <3>1, <3>2 DEF ForgetInvOf
    <2>3. CASE j # i
      <3>1. Held(j)
        BY <2>1, <2>3 DEF TypeOK, Held
      <3> QED
        BY <1>1, <3>1, HeldKept
    <2> QED
      BY <2>2, <2>3
  <1>3. CASE AbortRollout
    <2>1. PICK i \in Ids : rolls' = [rolls EXCEPT ![i].phase = "aborted"]
      BY <1>3 DEF AbortRollout
    <2>2. Held(j)
      BY <2>1 DEF TypeOK, Rollouts, Held
    <2> QED
      BY <1>1, <2>2, HeldKept
  <1>4. CASE ResumeRollout
    <2>1. PICK i \in Ids : rolls' = [rolls EXCEPT ![i].phase = "running", ![i].due = FALSE]
      BY <1>4 DEF ResumeRollout
    <2>2. Held(j)
      BY <2>1 DEF TypeOK, Rollouts, Held
    <2> QED
      BY <1>1, <2>2, HeldKept
  <1>5. CASE rolls' = rolls
    <2>1. Held(j)
      BY <1>5 DEF Held
    <2> QED
      BY <1>1, <2>1, HeldKept
  <1> QED
    BY <1>2, <1>3, <1>4, <1>5 DEF Operator, RequestUpdates, RequestUpdate, RemoveWorker, SetPaused

\* A wave begins with everybody it is for, or nobody is left.
LEMMA WaveForget ==
  ASSUME TypeOK, WaveInv, ForgetInv, UNCHANGED <<tried, parked>>,
         NEW i \in Ids, NEW k \in 0..2, EnterWave(i, k)
  PROVE  ForgetInvOf(i)'
  <1> DEFINE t == rolls[i].target
             cohort == Cohort(k, t)
  <1>1. ForgetInvOf(i)
    BY ForgetSplit
  <1>2. \A w \in Workers \ parked : w \in Eligible(t) \/ t \in tried[w]
    BY NotEligible DEF WaveInv
  <1>3. CASE cohort = {}
    <2>1. rolls' = [rolls EXCEPT ![i].phase = "done"]
      BY <1>3 DEF EnterWave, Finish
    <2>2. /\ rolls'[i].target = t /\ rolls'[i].phase = "done"
      BY <2>1 DEF TypeOK, Rollouts
    <2>3. \A w \in Workers \ parked : t \in tried[w]
      BY <1>2, <1>3, Cohorts
    <2> QED
      BY <2>2, <2>3 DEF ForgetInvOf
  <1>4. CASE cohort # {}
    <2>1. rolls' = [rolls EXCEPT ![i].phase = "running", ![i].wave = k,
                                 ![i].members = cohort, ![i].due = FALSE]
      BY <1>4 DEF EnterWave
    <2> HIDE DEF cohort
    <2>2. /\ rolls'[i].target = t /\ rolls'[i].phase = "running"
          /\ rolls'[i].wave = k /\ rolls'[i].members = cohort
      BY <2>1 DEF TypeOK, Rollouts
    <2>3. k = 2 => \A w \in Workers \ parked : w \in cohort \/ t \in tried[w]
      BY <1>2, Cohorts DEF cohort
    <2> QED
      BY <2>2, <2>3 DEF ForgetInvOf
  <1> QED
    BY <1>3, <1>4

\* The leader's tick finishes a rollout when nobody is left to be put into a wave, or when
\* the wave of everybody has settled.
LEMMA AdvanceForget ==
  ASSUME TypeOK, WaveInv, ForgetInv, Grown, AdvanceRollout
  PROVE  ForgetInv'
  <1>1. UNCHANGED <<tried, parked>>
    BY DEF AdvanceRollout
  <1>2. PICK i \in Ids :
          \/ EnterWave(i, 0)
          \/ /\ Pending(rolls[i]) = {}
             /\ IF IsLast(rolls[i]) THEN Finish(i) ELSE EnterWave(i, rolls[i].wave + 1)
          \/ rolls[i].phase = "running" /\ rolls' = [rolls EXCEPT ![i].phase = "halted"]
    BY DEF AdvanceRollout
  <1>3. rolls[i].wave \in -1..2 /\ \E r : rolls' = [rolls EXCEPT ![i] = r]
    <2>1. rolls[i].wave \in -1..2
      BY DEF TypeOK, Rollouts
    <2>2. \E r : rolls' = [rolls EXCEPT ![i] = r]
      <3>1. \A k : EnterWave(i, k) \/ Finish(i) => \E r : rolls' = [rolls EXCEPT ![i] = r]
        BY DEF EnterWave, Finish
      <3> QED
        BY <1>2, <3>1
    <2> QED
      BY <2>1, <2>2
  <1>4. ForgetInvOf(i)'
    <2>1. CASE \E k \in 0..2 : EnterWave(i, k)
      BY <1>1, <2>1, WaveForget
    <2>2. CASE Pending(rolls[i]) = {} /\ IsLast(rolls[i]) /\ Finish(i)
      <3>1. rolls[i].wave = 2
        BY <1>3, <2>2 DEF IsLast
      <3>2. \A w \in Workers \ parked : w \in rolls[i].members \/ rolls[i].target \in tried[w]
        BY <3>1 DEF ForgetInv, LastWaveWhole
      <3>3. \A w \in Workers \ parked : rolls[i].target \in tried[w]
        <4> TAKE w \in Workers \ parked
        <4>1. ASSUME w \in rolls[i].members PROVE rolls[i].target \in tried[w]
          <5>1. w \notin Eligible(rolls[i].target)
            BY <2>2, <4>1 DEF Pending
          <5> QED
            BY <5>1, NotEligible DEF WaveInv
        <4> QED
          BY <3>2, <4>1
      <3>4. /\ rolls'[i].phase = "done" /\ rolls'[i].target = rolls[i].target
        BY <2>2 DEF Finish, TypeOK, Rollouts
      <3> QED
        BY <1>1, <3>3, <3>4 DEF ForgetInvOf
    <2>3. CASE rolls[i].phase = "running" /\ rolls' = [rolls EXCEPT ![i].phase = "halted"]
      <3>1. Held(i)
        BY <2>3 DEF TypeOK, Rollouts, Held
      <3> QED
        BY <3>1, ForgetSplit, HeldKept
    <2>4. ASSUME ~IsLast(rolls[i]) PROVE rolls[i].wave + 1 \in 0..2
      BY <1>3, <2>4 DEF IsLast
    <2>5. 0 \in 0..2
      OBVIOUS
    <2> QED
      BY <1>2, <2>1, <2>2, <2>3, <2>4, <2>5
  <1>5. ASSUME NEW j \in Ids, j # i PROVE ForgetInvOf(j)'
    <2>1. Held(j)
      BY <1>3, <1>5 DEF TypeOK, Held
    <2> QED
      BY <2>1, ForgetSplit, HeldKept
  <1> QED
    BY <1>4, <1>5, ForgetSplitNext

LEMMA InitForget == Init => ForgetInv
  BY DEF Init, ForgetInv, NobodyForgotten, LastWaveWhole, NoWaveYet

LEMMA NextForget == TypeOK /\ WaveInv /\ ForgetInv /\ [Next]_vars => ForgetInv'
  <1> SUFFICES ASSUME TypeOK, WaveInv, ForgetInv, [Next]_vars PROVE ForgetInv'
    OBVIOUS
  <1>1. Grown
    BY HistoriesGrow DEF WaveInv
  <1>2. ASSUME \A j \in Ids : Held(j) PROVE ForgetInv'
    BY <1>1, <1>2, HeldKept, ForgetSplit, ForgetSplitNext
  <1>3. ASSUME NEW w \in Workers, Host(w) PROVE ForgetInv'
    <2>1. rolls' = rolls
      BY <1>3 DEF Host, Heartbeat, HeartbeatGivenUp, StrayHandled, Drained, Crash,
                  ContainerStops, Boot, InstallFails, Register, GatePasses
    <2> QED
      BY <1>2, <2>1 DEF Held
  <1>4. ASSUME NEW i \in Ids, DeadlinePasses(i) PROVE ForgetInv'
    <2>1. rolls' = [rolls EXCEPT ![i].due = TRUE]
      BY <1>4 DEF DeadlinePasses
    <2>2. \A j \in Ids : Held(j)
      BY <2>1 DEF TypeOK, Rollouts, Held
    <2> QED
      BY <1>2, <2>2
  <1>5. CASE UNCHANGED vars
    BY <1>2, <1>5 DEF vars, Held
  <1> QED
    BY <1>1, <1>3, <1>4, <1>5, OperatorForget, AdvanceForget DEF Next

\* No worker is left on an old release by a rollout that is over: once a rollout is done, its
\* release has come up on every worker that the operator never took out, however many waves
\* timed out and were resumed on the way and whatever became of the heartbeats.
THEOREM NothingForgotten == Spec => []NobodyForgotten
  <1>1. ForgetInv => NobodyForgotten
    BY DEF ForgetInv
  <1> QED
    BY <1>1, InitWave, InitForget, TypeCorrect, NextWave, NextForget, PTL DEF Spec

-----------------------------------------------------------------------------
(* What goes on while a handler is under way are steps of Rollout.           *)

LEMMA MeanwhileNext == Meanwhile => Next
  BY DEF Meanwhile, Expected, Unexpected, Next, Operator, Host

\* Rollout j stays what it is, except for its phase and its deadline, and a wave does not begin.
Steady(j) ==
  /\ rolls'[j].wave = rolls[j].wave /\ rolls'[j].members = rolls[j].members
  /\ rolls'[j].target = rolls[j].target
  /\ rolls'[j].phase \in {"none", "pending"} => rolls'[j].phase = rolls[j].phase
  /\ rolls'[j].phase = "done" => rolls[j].phase = "done"

\* Steps that are not the leader's.
NoTick ==
  Operator \/ (\E i \in Ids : DeadlinePasses(i)) \/ (\E w \in Workers : Host(w)) \/ UNCHANGED vars

LEMMA TickOrNot == [Next]_vars => AdvanceRollout \/ NoTick
  BY DEF Next, NoTick

LEMMA SteadySteps ==
  ASSUME TypeOK, NoTick, NEW j \in Ids, rolls[j].phase # "none"
  PROVE  Steady(j)
  <1>1. CASE UNCHANGED rolls
    BY <1>1 DEF Steady
  <1>2. ASSUME NEW t \in Targets, StartRollout(t) PROVE Steady(j)
    <2>1. PICK i \in Ids :
            /\ rolls[i].phase = "none"
            /\ rolls' = [rolls EXCEPT ![i].target = t, ![i].phase = "pending"]
      BY <1>2 DEF StartRollout, Insert
    <2>2. rolls'[j] = rolls[j]
      BY <2>1 DEF TypeOK
    <2> QED
      BY <2>2 DEF Steady
  <1>3. CASE AbortRollout
    <2>1. PICK i \in Ids : rolls' = [rolls EXCEPT ![i].phase = "aborted"]
      BY <1>3 DEF AbortRollout
    <2> QED
      BY <2>1 DEF TypeOK, Rollouts, Steady
  <1>4. CASE ResumeRollout
    <2>1. PICK i \in Ids : rolls' = [rolls EXCEPT ![i].phase = "running", ![i].due = FALSE]
      BY <1>4 DEF ResumeRollout
    <2> QED
      BY <2>1 DEF TypeOK, Rollouts, Steady
  <1>5. ASSUME NEW i \in Ids, DeadlinePasses(i) PROVE Steady(j)
    <2>1. rolls' = [rolls EXCEPT ![i].due = TRUE]
      BY <1>5 DEF DeadlinePasses
    <2> QED
      BY <2>1 DEF TypeOK, Rollouts, Steady
  <1>6. ASSUME NEW w \in Workers, Host(w) PROVE UNCHANGED rolls
    BY <1>6 DEF Host, Heartbeat, HeartbeatGivenUp, StrayHandled, Drained, Crash,
                ContainerStops, Boot, InstallFails, Register, GatePasses
  <1>7. CASE Operator
    <2>1. UNCHANGED rolls \/ AbortRollout \/ ResumeRollout \/ \E t \in Targets : StartRollout(t)
      BY <1>7 DEF Operator, RequestUpdates, RequestUpdate, RemoveWorker, SetPaused
    <2> QED
      BY <2>1, <1>1, <1>2, <1>3, <1>4
  <1> QED
    BY <1>1, <1>5, <1>6, <1>7 DEF NoTick, vars

\* A rollout that was started keeps its release, and is never an unused id again.
LEMMA TargetKept ==
  ASSUME TypeOK, [Next]_vars, NEW j \in Ids, rolls[j].phase # "none"
  PROVE  rolls'[j].phase # "none" /\ rolls'[j].target = rolls[j].target
  <1>1. CASE Steady(j)
    BY <1>1 DEF Steady
  <1>2. CASE AdvanceRollout
    <2>1. PICK i \in Ids :
            \/ \E p \in {"done", "halted"} : rolls' = [rolls EXCEPT ![i].phase = p]
            \/ \E k \in 0..2, ms \in SUBSET Workers :
                 rolls' = [rolls EXCEPT ![i].phase = "running", ![i].wave = k,
                                        ![i].members = ms, ![i].due = FALSE]
      BY <1>2, AdvanceCases
    <2>2. CASE \E p \in {"done", "halted"} : rolls' = [rolls EXCEPT ![i].phase = p]
      BY <2>2 DEF TypeOK, Rollouts
    <2>3. ASSUME NEW k \in 0..2, NEW ms \in SUBSET Workers,
                 rolls' = [rolls EXCEPT ![i].phase = "running", ![i].wave = k,
                                        ![i].members = ms, ![i].due = FALSE]
          PROVE  rolls'[j].phase # "none" /\ rolls'[j].target = rolls[j].target
      BY <2>3 DEF TypeOK, Rollouts
    <2> QED
      BY <2>1, <2>2, <2>3
  <1> QED
    BY <1>1, <1>2, SteadySteps, TickOrNot

\* What is covered stays covered: a wave that ends has come up.
LEMMA CoveredKept ==
  ASSUME TypeOK, WaveInv, [Next]_vars, NEW w \in Workers, NEW t, Covered(w, t)
  PROVE  Covered(w, t)'
  <1>1. Grown
    BY HistoriesGrow DEF WaveInv
  <1>2. CASE t \in tried[w] \/ w \in parked
    BY <1>1, <1>2 DEF Grown, Covered
  <1>3. ASSUME NEW j \in Ids, rolls[j].target = t, w \in rolls[j].members
        PROVE  Covered(w, t)'
    <2>1. rolls[j].phase \notin {"none", "pending"}
      BY <1>3 DEF WaveInv, NoMembersYet
    <2>2. CASE Steady(j)
      BY <1>3, <2>2 DEF Steady, Covered
    <2>3. CASE AdvanceRollout
      <3>1. PICK i \in Ids :
              \/ \E p \in {"done", "halted"} : rolls' = [rolls EXCEPT ![i].phase = p]
              \/ \E k \in 0..2, ms \in SUBSET Workers :
                   /\ rolls[i].phase = "pending" \/ Pending(rolls[i]) = {}
                   /\ rolls' = [rolls EXCEPT ![i].phase = "running", ![i].wave = k,
                                             ![i].members = ms, ![i].due = FALSE]
        BY <2>3, AdvanceCases
      <3>2. CASE rolls'[j].target = rolls[j].target /\ rolls'[j].members = rolls[j].members
        BY <1>3, <3>2 DEF Covered
      <3>3. CASE \E p \in {"done", "halted"} : rolls' = [rolls EXCEPT ![i].phase = p]
        <4>1. rolls'[j].target = rolls[j].target /\ rolls'[j].members = rolls[j].members
          BY <3>3 DEF TypeOK, Rollouts
        <4> QED
          BY <3>2, <4>1
      <3>5. CASE j # i
        <4>1. rolls'[j] = rolls[j]
          BY <3>1, <3>5 DEF TypeOK
        <4> QED
          BY <3>2, <4>1
      <3>4. CASE j = i /\ Pending(rolls[j]) = {}
        <4>1. w \notin Eligible(rolls[j].target)
          BY <1>3, <3>4 DEF Pending
        <4>2. t \in tried[w] \/ w \in parked
          BY <1>3, <4>1, NotEligible DEF WaveInv
        <4> QED
          BY <1>2, <4>2
      <3> QED
        BY <2>1, <3>1, <3>3, <3>4, <3>5
    <2> QED
      BY <2>1, <2>2, <2>3, SteadySteps, TickOrNot
  <1> QED
    BY <1>2, <1>3 DEF Covered

-----------------------------------------------------------------------------
(* Types.                                                                    *)

\* Meanwhile a handler keeps what it has read, but a reply may no longer be awaited.
LEMMA TxKept ==
  ASSUME RaceTypeOK, Meanwhile
  PROVE  /\ tx'.job = tx.job
         /\ tx.job # "beat" => tx' = tx
         /\ tx.job = "beat" =>
              /\ tx' \in Beats
              /\ tx'.w = tx.w /\ tx'.v = tx.v /\ tx'.ask = tx.ask
              /\ tx'.awaited => tx.awaited /\ node'[tx.w].up \in {"up", "draining"}
  <1>1. tx' = StillAwaited(tx)
    BY DEF Meanwhile
  <1>2. CASE tx.job # "beat"
    BY <1>1, <1>2 DEF StillAwaited
  <1>3. CASE tx.job = "beat"
    <2>1. tx \in Beats
      BY <1>3 DEF RaceTypeOK
    <2>2. PICK a \in BOOLEAN : a = (tx.awaited /\ node'[tx.w].up \in {"up", "draining"})
      OBVIOUS
    <2>3. tx' = [tx EXCEPT !.awaited = a]
      BY <1>1, <1>3, <2>1, <2>2 DEF StillAwaited, Beats
    <2>4. tx'.awaited = a
      BY <2>1, <2>3 DEF Beats
    <2>5. /\ tx' \in Beats /\ tx'.job = tx.job
          /\ tx'.w = tx.w /\ tx'.v = tx.v /\ tx'.ask = tx.ask
      BY <2>1, <2>3 DEF Beats
    <2> QED
      BY <1>3, <2>2, <2>4, <2>5
  <1> QED
    BY <1>2, <1>3

LEMMA MeanwhileType ==
  ASSUME RaceTypeOK, Meanwhile
  PROVE  RaceTypeOK'
  <1>1. TypeOK'
    BY MeanwhileNext, NextType DEF RaceTypeOK
  <1>2. left' \in [Workers -> Versions \cup {NoVersion}]
    BY DEF RaceTypeOK, Meanwhile
  <1>3. CASE tx.job = "beat"
    BY <1>1, <1>2, <1>3, TxKept DEF RaceTypeOK
  <1>4. CASE tx.job # "beat"
    <2>1. tx' = tx
      BY <1>4, TxKept
    <2> QED
      BY <1>1, <1>2, <1>4, <2>1 DEF RaceTypeOK, WorkShaped
  <1> QED
    BY <1>3, <1>4

LEMMA StoredVersion ==
  ASSUME RaceTypeOK, NEW w \in Workers
  PROVE  Stored(w) \in Versions \cup {NoVersion}
  BY DEF RaceTypeOK, Stored, Column

LEMMA ChangedColumns ==
  ASSUME NEW old, NEW new, NEW cols, cols = Changed(old, new), NEW c \in DOMAIN new
  PROVE  /\ DOMAIN cols \subseteq DOMAIN new
         /\ c \in DOMAIN cols => cols[c] = new[c]
         /\ c \in DOMAIN cols /\ c # "due" => old[c] # new[c]
         /\ c \notin DOMAIN cols => c # "due" /\ old[c] = new[c]
  BY DEF Changed

\* The unit of work of a request or a tick on rollout i.
LEMMA BeginWorkType ==
  ASSUME RaceTypeOK, NEW job \in {"abort", "resume", "tick"}, NEW i \in Ids, NEW ws \in SUBSET Workers,
         NEW new, OnRollout(job, i, new, ws),
         DOMAIN new \subseteq {"phase", "wave", "members", "due"},
         "phase" \in DOMAIN new => new.phase \in {"running", "halted", "done", "aborted"},
         "wave" \in DOMAIN new => new.wave \in 0..2,
         "members" \in DOMAIN new => new.members \subseteq Workers,
         "due" \in DOMAIN new => new.due = FALSE
  PROVE  /\ RaceTypeOK' /\ UNCHANGED <<vars, left>>
         /\ tx'.job = job /\ tx'.id = i /\ tx'.ask = rolls[i].target
         /\ DOMAIN tx'.read = ws
         /\ tx'.cols = Changed(rolls[i], new)
  <1>1. PICK cols : cols = Changed(rolls[i], new)
    OBVIOUS
  <1>2. /\ DOMAIN cols \subseteq DOMAIN new
        /\ \A c \in DOMAIN new : /\ c \in DOMAIN cols => cols[c] = new[c]
                                 /\ c \in DOMAIN cols /\ c # "due" => rolls[i][c] # new[c]
                                 /\ c \notin DOMAIN cols => c # "due" /\ rolls[i][c] = new[c]
    BY <1>1 DEF Changed
  <1>3. PICK read : read = [w \in ws |-> Stored(w)]
    OBVIOUS
  <1>4. tx' = [job |-> job, id |-> i, cols |-> cols, read |-> read, ask |-> rolls[i].target]
    BY <1>1, <1>3 DEF OnRollout, Begin, Work
  <1>5. /\ tx'.job = job /\ tx'.id = i /\ tx'.ask = rolls[i].target /\ tx'.cols = cols
        /\ DOMAIN tx'.read = ws
    BY <1>3, <1>4
  <1>6. UNCHANGED <<vars, left>>
    BY DEF OnRollout, Begin, vars, workerVars
  <1>7. rolls[i].target \in Asks
    BY DEF RaceTypeOK, TypeOK, Rollouts, Asks
  <1>8. WorkShaped'
    <2>1. /\ "phase" \in DOMAIN cols => cols.phase \in {"running", "halted", "done", "aborted"}
          /\ "wave" \in DOMAIN cols => cols.wave \in 0..2
          /\ "members" \in DOMAIN cols => cols.members \subseteq Workers
          /\ "due" \in DOMAIN cols => cols.due = FALSE
      BY <1>2
    <2> QED
      BY <1>2, <1>5, <1>7, <2>1 DEF WorkShaped
  <1>9. TypeOK'
    BY <1>6 DEF RaceTypeOK, TypeOK, vars, workerVars
  <1>10. RaceTypeOK'
    BY <1>5, <1>6, <1>8, <1>9 DEF RaceTypeOK
  <1> QED
    BY <1>1, <1>2, <1>5, <1>6, <1>10

LEMMA MergedRow ==
  ASSUME NEW r \in Rollouts, NEW cols,
         DOMAIN cols \subseteq {"phase", "wave", "members", "due"},
         "phase" \in DOMAIN cols => cols.phase \in {"running", "halted", "done", "aborted"},
         "wave" \in DOMAIN cols => cols.wave \in 0..2,
         "members" \in DOMAIN cols => cols.members \subseteq Workers,
         "due" \in DOMAIN cols => cols.due = FALSE
  PROVE  /\ Merged(r, cols) \in Rollouts
         /\ Merged(r, cols).target = r.target
         /\ Merged(r, cols).phase = IF "phase" \in DOMAIN cols THEN cols.phase ELSE r.phase
         /\ Merged(r, cols).wave = IF "wave" \in DOMAIN cols THEN cols.wave ELSE r.wave
         /\ Merged(r, cols).members = IF "members" \in DOMAIN cols THEN cols.members ELSE r.members
  <1>1. PICK s : s = [c \in DOMAIN r |-> IF c \in DOMAIN cols THEN cols[c] ELSE r[c]]
    OBVIOUS
  <1>2. DOMAIN r = {"target", "wave", "members", "due", "phase"}
    BY DEF Rollouts
  <1>3. /\ s.target = r.target
        /\ s.phase = IF "phase" \in DOMAIN cols THEN cols.phase ELSE r.phase
        /\ s.wave = IF "wave" \in DOMAIN cols THEN cols.wave ELSE r.wave
        /\ s.members = IF "members" \in DOMAIN cols THEN cols.members ELSE r.members
        /\ s.due = IF "due" \in DOMAIN cols THEN cols.due ELSE r.due
    BY <1>1, <1>2
  <1>4. /\ s.phase \in Active \cup {"none", "done", "aborted"} /\ s.wave \in -1..2
        /\ s.members \in SUBSET Workers /\ s.due \in BOOLEAN /\ s.target \in Versions
    <2>1. /\ r.phase \in Active \cup {"none", "done", "aborted"} /\ r.wave \in -1..2
          /\ r.members \in SUBSET Workers /\ r.due \in BOOLEAN /\ r.target \in Versions
      BY DEF Rollouts
    <2>2. s.phase \in Active \cup {"none", "done", "aborted"}
      BY <1>3, <2>1 DEF Active
    <2>3. s.wave \in -1..2
      BY <1>3, <2>1
    <2> QED
      BY <1>3, <2>1, <2>2, <2>3
  <1>5. s = [target |-> s.target, wave |-> s.wave, members |-> s.members, due |-> s.due, phase |-> s.phase]
    BY <1>1, <1>2
  <1>6. s \in Rollouts
    BY <1>4, <1>5 DEF Rollouts
  <1>7. Merged(r, cols) = s
    BY <1>1 DEF Merged
  <1> QED
    BY <1>3, <1>6, <1>7

\* The row after the commit of a unit of work.
LEMMA MergedWork ==
  ASSUME RaceTypeOK, WorkShaped, NEW r \in Rollouts
  PROVE  /\ Merged(r, tx.cols) \in Rollouts
         /\ Merged(r, tx.cols).target = r.target
         /\ Merged(r, tx.cols).phase = IF "phase" \in DOMAIN tx.cols THEN tx.cols.phase ELSE r.phase
         /\ Merged(r, tx.cols).wave = IF "wave" \in DOMAIN tx.cols THEN tx.cols.wave ELSE r.wave
         /\ Merged(r, tx.cols).members = IF "members" \in DOMAIN tx.cols THEN tx.cols.members ELSE r.members
  <1>1. PICK cols : cols = tx.cols
    OBVIOUS
  <1>2. /\ DOMAIN cols \subseteq {"phase", "wave", "members", "due"}
        /\ "phase" \in DOMAIN cols => cols.phase \in {"running", "halted", "done", "aborted"}
        /\ "wave" \in DOMAIN cols => cols.wave \in 0..2
        /\ "members" \in DOMAIN cols => cols.members \subseteq Workers
        /\ "due" \in DOMAIN cols => cols.due = FALSE
    BY <1>1 DEF WorkShaped
  <1> QED
    BY <1>1, <1>2, MergedRow

-----------------------------------------------------------------------------
(* Handlers that begin.                                                      *)

LEMMA BeginKeeps ==
  ASSUME RaceInv, UNCHANGED <<rolls, row, node, tried, parked>>,
         \A w \in Workers : stray'[w] \subseteq stray[w]
  PROVE  WaveInv' /\ ForgetInv'
  <1>1. WaveInv'
    BY DEF RaceInv, WaveInv, ReportsAreTrue, ExcusedWereParked, NoMembersYet, OneWaveAtATime, Exposed
  <1>2. ForgetInv'
    BY DEF RaceInv, ForgetInv, NobodyForgotten, LastWaveWhole, NoWaveYet
  <1> QED
    BY <1>1, <1>2

\* What a new unit of work has in hand is covered, if it stamps members.
LEMMA BeginCovered ==
  ASSUME RaceInv, UNCHANGED <<rolls, tried, parked, left>>,
         \A w \in Workers, t \in Rolled :
           \/ tx'.job = "beat" /\ tx'.w = w /\ tx'.ask = t
           \/ tx'.job = "resume" /\ w \in DOMAIN tx'.read /\ tx'.ask = t
           => Covered(w, t)
  PROVE  InHandIsCovered'
  <1> SUFFICES ASSUME NEW t \in Rolled, NEW w \in Workers, InHand(w, t)'
               PROVE  Covered(w, t)'
    BY DEF InHandIsCovered, Rolled
  <1>1. CASE left[w] = t
    <2>1. Covered(w, t)
      BY <1>1 DEF RaceInv, TxInv, InHandIsCovered, InHand, Rolled
    <2> QED
      BY <2>1 DEF Covered
  <1>2. CASE left[w] # t
    <2>1. Covered(w, t)
      BY <1>2 DEF InHand
    <2> QED
      BY <2>1 DEF Covered
  <1> QED
    BY <1>1, <1>2

LEMMA BeginStartInv ==
  ASSUME RaceTypeOK, RaceInv, NEW t \in Targets, BeginStart(t)
  PROVE  RaceTypeOK' /\ RaceInv'
  <1>1. tx'.job = "start" /\ tx'.target = t /\ UNCHANGED <<vars, left>>
    BY DEF BeginStart, Begin, vars, workerVars
  <1>2. RaceTypeOK'
    BY <1>1, VersionsAssumption DEF RaceTypeOK, TypeOK, vars, workerVars
  <1>3. WaveInv' /\ ForgetInv'
    BY <1>1, BeginKeeps DEF vars, workerVars
  <1>4. InHandIsCovered'
    BY <1>1, BeginCovered DEF vars
  <1> QED
    BY <1>1, <1>2, <1>3, <1>4 DEF RaceInv, TxInv, BeatHolds, WorkHolds, TickHolds

LEMMA BeginUpdateInv ==
  ASSUME RaceTypeOK, RaceInv, NEW w \in Workers, NEW ask \in OperatorAsks, BeginUpdate(w, ask)
  PROVE  RaceTypeOK' /\ RaceInv'
  <1>1. PICK read : read = [x \in {w} |-> Stored(x)]
    OBVIOUS
  <1>2. /\ tx' = [job |-> "update", id |-> 1, cols |-> <<>>, read |-> read, ask |-> ask]
        /\ UNCHANGED <<vars, left>>
    BY <1>1 DEF BeginUpdate, Begin, Work, vars, workerVars
  <1>3. /\ tx'.job = "update" /\ tx'.cols = <<>> /\ tx'.ask = ask /\ DOMAIN tx'.read = {w}
    BY <1>1, <1>2
  <1>4. WorkShaped'
    BY <1>3, VersionsAssumption DEF WorkShaped
  <1>5. RaceTypeOK'
    BY <1>2, <1>3, <1>4 DEF RaceTypeOK, TypeOK, vars, workerVars
  <1>6. WaveInv' /\ ForgetInv'
    BY <1>2, BeginKeeps DEF vars, workerVars
  <1>7. InHandIsCovered'
    BY <1>2, <1>3, BeginCovered DEF vars
  <1> QED
    BY <1>3, <1>5, <1>6, <1>7 DEF RaceInv, TxInv, BeatHolds, WorkHolds, TickHolds

\* A heartbeat brings the version that its process registered with, and takes the signal along.
LEMMA ReadByInv ==
  ASSUME RaceTypeOK, RaceInv, NEW w \in Workers, NEW v \in Versions, NEW awaited \in BOOLEAN,
         ReadBy(w, v, awaited), v \in tried[w], awaited => node[w].up \in {"up", "draining"},
         \A x \in Workers : stray'[x] \subseteq stray[x], stray' \in [Workers -> SUBSET Versions]
  PROVE  RaceTypeOK' /\ RaceInv'
  <1>1. /\ tx' = [job |-> "beat", w |-> w, v |-> v, version |-> row[w].version, ask |-> row[w].ask,
                  awaited |-> awaited]
        /\ UNCHANGED <<rolls, row, node, tried, parked, left>>
    BY DEF ReadBy, Begin
  <1>2. row[w].version \in Versions /\ row[w].ask \in Asks \cup {NoVersion}
    BY DEF RaceTypeOK, TypeOK, Rows
  <1>3. tx' \in Beats /\ tx'.job = "beat" /\ tx'.w = w /\ tx'.v = v /\ tx'.ask = row[w].ask
        /\ tx'.awaited = awaited
    BY <1>1, <1>2 DEF Beats
  <1>4. RaceTypeOK'
    BY <1>1, <1>3 DEF RaceTypeOK, TypeOK
  <1>5. WaveInv' /\ ForgetInv'
    BY <1>1, BeginKeeps
  <1>6. \A t \in Rolled : row[w].ask = t => Covered(w, t)
    BY DEF RaceInv, WaveInv, OneWaveAtATime, Exposed, Covered, Rolled
  <1>7. InHandIsCovered'
    BY <1>1, <1>3, <1>6, BeginCovered
  <1>8. BeatHolds'
    BY <1>1, <1>3 DEF BeatHolds
  <1> QED
    BY <1>3, <1>4, <1>5, <1>7, <1>8 DEF RaceInv, TxInv, WorkHolds, TickHolds

LEMMA BeginBeatInv ==
  ASSUME RaceTypeOK, RaceInv, NEW w \in Workers, BeginBeat(w)
  PROVE  RaceTypeOK' /\ RaceInv'
  <1>1. node[w].runs \in Versions /\ node[w].runs \in tried[w]
    BY DEF BeginBeat, RaceTypeOK, TypeOK, Hosts, RaceInv, WaveInv, ReportsAreTrue
  <1>2. stray' = stray /\ stray \in [Workers -> SUBSET Versions]
    BY DEF BeginBeat, RaceTypeOK, TypeOK
  <1> QED
    BY <1>1, <1>2, ReadByInv DEF BeginBeat

LEMMA BeginStrayInv ==
  ASSUME RaceTypeOK, RaceInv, NEW w \in Workers, NEW v \in Versions, BeginStray(w, v)
  PROVE  RaceTypeOK' /\ RaceInv'
  <1>1. v \in tried[w]
    BY DEF BeginStray, RaceInv, WaveInv, ReportsAreTrue
  <1>2. /\ stray' \in [Workers -> SUBSET Versions]
        /\ \A x \in Workers : stray'[x] \subseteq stray[x]
    BY DEF BeginStray, RaceTypeOK, TypeOK
  <1> QED
    BY <1>1, <1>2, ReadByInv DEF BeginStray

LEMMA BeginAbortInv ==
  ASSUME RaceTypeOK, RaceInv, BeginAbort
  PROVE  RaceTypeOK' /\ RaceInv'
  <1>1. PICK i \in Ids : IsLatest(i, Active) /\ OnRollout("abort", i, [phase |-> "aborted"], {})
    BY DEF BeginAbort
  <1>2. PICK new : new = [phase |-> "aborted"]
    OBVIOUS
  <1>3. /\ DOMAIN new = {"phase"} /\ new.phase = "aborted"
    BY <1>2
  <1>4. /\ RaceTypeOK' /\ UNCHANGED <<vars, left>>
        /\ tx'.job = "abort" /\ tx'.id = i /\ tx'.ask = rolls[i].target
        /\ DOMAIN tx'.read = {}
        /\ DOMAIN tx'.cols \subseteq {"phase"}
        /\ "phase" \in DOMAIN tx'.cols => tx'.cols.phase = "aborted"
        /\ "phase" \notin DOMAIN tx'.cols => rolls[i].phase = "aborted"
    <2>h. /\ DOMAIN new \subseteq {"phase", "wave", "members", "due"}
          /\ "phase" \in DOMAIN new => new.phase \in {"running", "halted", "done", "aborted"}
          /\ "wave" \in DOMAIN new => new.wave \in 0..2
          /\ "members" \in DOMAIN new => new.members \subseteq Workers
          /\ "due" \in DOMAIN new => new.due = FALSE
      BY <1>3
    <2>1. OnRollout("abort", i, new, {}) /\ "abort" \in {"abort", "resume", "tick"}
      BY <1>1, <1>2
    <2>2. {} \in SUBSET Workers
      OBVIOUS
    <2>3. /\ RaceTypeOK' /\ UNCHANGED <<vars, left>>
          /\ tx'.job = "abort" /\ tx'.id = i /\ tx'.ask = rolls[i].target
          /\ DOMAIN tx'.read = {}
          /\ tx'.cols = Changed(rolls[i], new)
      BY <2>h, <2>1, <2>2, BeginWorkType
    <2>4. PICK cols : cols = tx'.cols
      OBVIOUS
    <2>5. cols = Changed(rolls[i], new) /\ "phase" \in DOMAIN new
      BY <1>3, <2>3, <2>4
    <2>6. /\ DOMAIN cols \subseteq DOMAIN new
          /\ "phase" \in DOMAIN cols => cols["phase"] = new["phase"]
          /\ "phase" \notin DOMAIN cols => rolls[i]["phase"] = new["phase"]
      BY <2>5, ChangedColumns
    <2> QED
      BY <1>3, <2>3, <2>4, <2>6
  <1>5. rolls[i].phase # "none" /\ rolls[i].phase # "aborted"
    BY <1>1 DEF IsLatest, Active
  <1>6. WaveInv' /\ ForgetInv'
    BY <1>4, BeginKeeps DEF vars, workerVars
  <1>7. InHandIsCovered'
    BY <1>4, BeginCovered DEF vars
  <1>8. WorkHolds'
    BY <1>4, <1>5 DEF WorkHolds, vars
  <1> QED
    BY <1>4, <1>6, <1>7, <1>8 DEF RaceInv, TxInv, BeatHolds, TickHolds

LEMMA BeginResumeInv ==
  ASSUME RaceTypeOK, RaceInv, BeginResume
  PROVE  RaceTypeOK' /\ RaceInv'
  <1>1. PICK i \in Ids :
          /\ IsLatest(i, {"halted"})
          /\ OnRollout("resume", i, [phase |-> "running", due |-> FALSE], Pending(rolls[i]))
    BY DEF BeginResume
  <1>2. PICK new : new = [phase |-> "running", due |-> FALSE]
    OBVIOUS
  <1>3. /\ DOMAIN new = {"phase", "due"} /\ new.phase = "running" /\ new.due = FALSE
    BY <1>2
  <1>4. Pending(rolls[i]) \in SUBSET Workers /\ Pending(rolls[i]) \subseteq rolls[i].members
    BY DEF Pending, Eligible
  <1>5. /\ RaceTypeOK' /\ UNCHANGED <<vars, left>>
        /\ tx'.job = "resume" /\ tx'.id = i /\ tx'.ask = rolls[i].target
        /\ DOMAIN tx'.read = Pending(rolls[i])
        /\ DOMAIN tx'.cols \subseteq {"phase", "due"}
        /\ "phase" \in DOMAIN tx'.cols => tx'.cols.phase = "running"
        /\ "phase" \notin DOMAIN tx'.cols => rolls[i].phase = "running"
    <2>h. /\ DOMAIN new \subseteq {"phase", "wave", "members", "due"}
          /\ "phase" \in DOMAIN new => new.phase \in {"running", "halted", "done", "aborted"}
          /\ "wave" \in DOMAIN new => new.wave \in 0..2
          /\ "members" \in DOMAIN new => new.members \subseteq Workers
          /\ "due" \in DOMAIN new => new.due = FALSE
      BY <1>3
    <2>1. OnRollout("resume", i, new, Pending(rolls[i])) /\ "resume" \in {"abort", "resume", "tick"}
      BY <1>1, <1>2
    <2>2. /\ RaceTypeOK' /\ UNCHANGED <<vars, left>>
          /\ tx'.job = "resume" /\ tx'.id = i /\ tx'.ask = rolls[i].target
          /\ DOMAIN tx'.read = Pending(rolls[i])
          /\ tx'.cols = Changed(rolls[i], new)
      BY <2>h, <1>4, <2>1, BeginWorkType
    <2>4. PICK cols : cols = tx'.cols
      OBVIOUS
    <2>5. cols = Changed(rolls[i], new) /\ "phase" \in DOMAIN new
      BY <1>3, <2>2, <2>4
    <2>6. /\ DOMAIN cols \subseteq DOMAIN new
          /\ "phase" \in DOMAIN cols => cols["phase"] = new["phase"]
          /\ "phase" \notin DOMAIN cols => rolls[i]["phase"] = new["phase"]
      BY <2>5, ChangedColumns
    <2> QED
      BY <1>3, <2>2, <2>4, <2>6
  <1>6. rolls[i].phase = "halted"
    BY <1>1 DEF IsLatest
  <1>7. WaveInv' /\ ForgetInv'
    BY <1>5, BeginKeeps DEF vars, workerVars
  <1>8. InHandIsCovered'
    BY <1>4, <1>5, BeginCovered DEF vars, Covered
  <1>9. WorkHolds'
    BY <1>5, <1>6 DEF WorkHolds, vars
  <1> QED
    BY <1>5, <1>7, <1>8, <1>9 DEF RaceInv, TxInv, BeatHolds, TickHolds

\* Whoever the wave or the release is through with.
Through(w, t) == t \in tried[w] \/ w \in parked

LEMMA ThroughIfNotEligible ==
  ASSUME WaveInv, NEW t, NEW w \in Workers, w \notin Eligible(t)
  PROVE  Through(w, t)
  BY NotEligible DEF WaveInv, Through

\* A tick that begins leaves everything as it is; what it found makes TickHolds.
LEMMA TickBegun ==
  ASSUME RaceTypeOK', RaceInv, NEW i \in Ids, rolls[i].phase \in {"pending", "running"},
         UNCHANGED <<vars, left>>, tx'.job = "tick", tx'.id = i, tx'.ask = rolls[i].target,
         TickHolds'
  PROVE  RaceInv'
  <1>1. WaveInv' /\ ForgetInv'
    BY BeginKeeps DEF vars, workerVars
  <1>2. InHandIsCovered'
    BY BeginCovered DEF vars
  <1>3. WorkHolds'
    BY DEF WorkHolds, vars
  <1> QED
    BY <1>1, <1>2, <1>3 DEF RaceInv, TxInv, BeatHolds

LEMMA TickWithType ==
  ASSUME RaceTypeOK, NEW i \in Ids, NEW new, TickWith(i, new),
         DOMAIN new \subseteq {"phase", "wave", "members", "due"},
         "phase" \in DOMAIN new => new.phase \in {"running", "halted", "done", "aborted"},
         "wave" \in DOMAIN new => new.wave \in 0..2,
         "members" \in DOMAIN new => new.members \subseteq Workers,
         "due" \in DOMAIN new => new.due = FALSE
  PROVE  /\ RaceTypeOK' /\ UNCHANGED <<vars, left>>
         /\ tx'.job = "tick" /\ tx'.id = i /\ tx'.ask = rolls[i].target
         /\ DOMAIN tx'.read = IF "members" \in DOMAIN new THEN new.members ELSE {}
         /\ tx'.cols = Changed(rolls[i], new)
         /\ WorkShaped'
  <1>1. PICK ws \in SUBSET Workers : ws = IF "members" \in DOMAIN new THEN new.members ELSE {}
    OBVIOUS
  <1>2. OnRollout("tick", i, new, ws) /\ "tick" \in {"abort", "resume", "tick"}
    BY <1>1 DEF TickWith
  <1>3. /\ RaceTypeOK' /\ UNCHANGED <<vars, left>>
        /\ tx'.job = "tick" /\ tx'.id = i /\ tx'.ask = rolls[i].target
        /\ DOMAIN tx'.read = ws
        /\ tx'.cols = Changed(rolls[i], new)
    BY <1>2, BeginWorkType
  <1>4. WorkShaped'
    BY <1>3 DEF RaceTypeOK
  <1> QED
    BY <1>1, <1>3, <1>4

\* A tick that begins a wave: the members of the one before are through with it.
LEMMA BeginWaveInv ==
  ASSUME RaceTypeOK, RaceInv, NEW i \in Ids, NEW k \in 0..2,
         \/ rolls[i].phase = "pending" /\ k = 0
         \/ rolls[i].phase = "running" /\ Pending(rolls[i]) = {},
         Cohort(k, rolls[i].target) # {},
         TickWith(i, Entered(i, k))
  PROVE  RaceTypeOK' /\ RaceInv'
  <1> DEFINE t == rolls[i].target
  <1>1. PICK ms \in SUBSET Workers : ms = Cohort(k, t)
    BY CohortMembers
  <1>2. PICK new : new = [phase |-> "running", wave |-> k, members |-> ms, due |-> FALSE]
    OBVIOUS
  <1>3. /\ DOMAIN new = {"phase", "wave", "members", "due"}
        /\ new.phase = "running" /\ new.wave = k /\ new.members = ms /\ new.due = FALSE
    BY <1>2
  <1>4. TickWith(i, new)
    BY <1>1, <1>2 DEF Entered
  <1>5. /\ RaceTypeOK' /\ UNCHANGED <<vars, left>>
        /\ tx'.job = "tick" /\ tx'.id = i /\ tx'.ask = t
        /\ DOMAIN tx'.read = ms
        /\ tx'.cols = Changed(rolls[i], new)
        /\ WorkShaped'
    <2>1. /\ DOMAIN new \subseteq {"phase", "wave", "members", "due"}
          /\ "phase" \in DOMAIN new => new.phase \in {"running", "halted", "done", "aborted"}
          /\ "wave" \in DOMAIN new => new.wave \in 0..2
          /\ "members" \in DOMAIN new => new.members \subseteq Workers
          /\ "due" \in DOMAIN new => new.due = FALSE
          /\ "members" \in DOMAIN new
      BY <1>3
    <2> QED
      BY <1>3, <1>4, <2>1, TickWithType
  <1>6. PICK cols : cols = tx'.cols
    OBVIOUS
  <1>7. /\ "phase" \in DOMAIN cols => cols["phase"] = "running" /\ rolls[i]["phase"] # "running"
        /\ "phase" \notin DOMAIN cols => rolls[i]["phase"] = "running"
        /\ "wave" \in DOMAIN cols => cols["wave"] = k
        /\ "wave" \notin DOMAIN cols => rolls[i]["wave"] = k
        /\ "members" \in DOMAIN cols => cols["members"] = ms
        /\ "members" \notin DOMAIN cols => rolls[i]["members"] = ms
    <2>1. cols = Changed(rolls[i], new)
      BY <1>5, <1>6
    <2>2. "phase" \in DOMAIN new /\ "wave" \in DOMAIN new /\ "members" \in DOMAIN new
      BY <1>3
    <2>3. /\ "phase" \in DOMAIN cols => cols["phase"] = new["phase"] /\ rolls[i]["phase"] # new["phase"]
          /\ "phase" \notin DOMAIN cols => rolls[i]["phase"] = new["phase"]
      BY <2>1, <2>2, ChangedColumns
    <2>4. /\ "wave" \in DOMAIN cols => cols["wave"] = new["wave"]
          /\ "wave" \notin DOMAIN cols => rolls[i]["wave"] = new["wave"]
      BY <2>1, <2>2, ChangedColumns
    <2>5. /\ "members" \in DOMAIN cols => cols["members"] = new["members"]
          /\ "members" \notin DOMAIN cols => rolls[i]["members"] = new["members"]
      BY <2>1, <2>2, ChangedColumns
    <2> QED
      BY <1>3, <2>3, <2>4, <2>5
  <1>8. PICK s : s = Merged(rolls[i], cols)
    OBVIOUS
  <1>9. s.phase = "running" /\ s.wave = k /\ s.members = ms
    <2>1. rolls[i] \in Rollouts
      BY DEF RaceTypeOK, TypeOK
    <2>2. /\ DOMAIN cols \subseteq {"phase", "wave", "members", "due"}
          /\ "phase" \in DOMAIN cols => cols.phase \in {"running", "halted", "done", "aborted"}
          /\ "wave" \in DOMAIN cols => cols.wave \in 0..2
          /\ "members" \in DOMAIN cols => cols.members \subseteq Workers
          /\ "due" \in DOMAIN cols => cols.due = FALSE
      BY <1>5, <1>6 DEF WorkShaped
    <2>3. /\ s.phase = IF "phase" \in DOMAIN cols THEN cols.phase ELSE rolls[i].phase
          /\ s.wave = IF "wave" \in DOMAIN cols THEN cols.wave ELSE rolls[i].wave
          /\ s.members = IF "members" \in DOMAIN cols THEN cols.members ELSE rolls[i].members
      BY <1>8, <2>1, <2>2, MergedRow
    <2> QED
      BY <1>7, <2>3
  <1>10. ASSUME NEW w \in rolls[i].members PROVE Through(w, t)
    <2>1. rolls[i].phase = "running" /\ Pending(rolls[i]) = {}
      BY <1>10 DEF RaceInv, WaveInv, NoMembersYet
    <2>2. w \in Workers /\ w \notin Eligible(t)
      BY <1>10, <2>1 DEF Pending, RaceTypeOK, TypeOK, Rollouts
    <2> QED
      BY <2>2, ThroughIfNotEligible DEF RaceInv
  <1>11. k = 2 => \A w \in Workers : w \in ms \/ Through(w, t)
    BY <1>1, Cohorts, ThroughIfNotEligible DEF RaceInv
  <1>12. "phase" \in DOMAIN cols => rolls[i].wave = -1
    BY <1>7 DEF RaceInv, ForgetInv, NoWaveYet
  <1>13. TickHolds'
    <2>1. UNCHANGED <<rolls, tried, parked>>
      BY <1>5 DEF vars
    <2> QED
      BY <1>5, <1>6, <1>8, <1>9, <1>10, <1>11, <1>12, <2>1 DEF TickHolds, Through
  <1> QED
    BY <1>5, <1>13, TickBegun

\* A tick that sets the phase only: nobody is left when it finishes a rollout.
LEMMA BeginPhaseInv ==
  ASSUME RaceTypeOK, RaceInv, NEW i \in Ids, NEW p \in {"done", "halted"},
         rolls[i].phase \in {"pending", "running"},
         p = "done" => \A w \in Workers : Through(w, rolls[i].target),
         TickWith(i, [phase |-> p])
  PROVE  RaceTypeOK' /\ RaceInv'
  <1> DEFINE t == rolls[i].target
  <1>1. PICK new : new = [phase |-> p]
    OBVIOUS
  <1>2. DOMAIN new = {"phase"} /\ new.phase = p
    BY <1>1
  <1>3. TickWith(i, new)
    BY <1>1
  <1>4. /\ RaceTypeOK' /\ UNCHANGED <<vars, left>>
        /\ tx'.job = "tick" /\ tx'.id = i /\ tx'.ask = t
        /\ DOMAIN tx'.read = {}
        /\ tx'.cols = Changed(rolls[i], new)
        /\ WorkShaped'
    <2>1. /\ DOMAIN new \subseteq {"phase", "wave", "members", "due"}
          /\ "phase" \in DOMAIN new => new.phase \in {"running", "halted", "done", "aborted"}
          /\ "wave" \in DOMAIN new => new.wave \in 0..2
          /\ "members" \in DOMAIN new => new.members \subseteq Workers
          /\ "due" \in DOMAIN new => new.due = FALSE
          /\ "members" \notin DOMAIN new
      BY <1>2
    <2> QED
      BY <1>2, <1>3, <2>1, TickWithType
  <1>5. PICK cols : cols = tx'.cols
    OBVIOUS
  <1>6. DOMAIN cols \subseteq {"phase"} /\ ("phase" \in DOMAIN cols => cols["phase"] = p)
        /\ ("phase" \notin DOMAIN cols => rolls[i]["phase"] = p)
    <2>1. cols = Changed(rolls[i], new) /\ "phase" \in DOMAIN new
      BY <1>2, <1>4, <1>5
    <2>2. /\ DOMAIN cols \subseteq DOMAIN new
          /\ "phase" \in DOMAIN cols => cols["phase"] = new["phase"]
          /\ "phase" \notin DOMAIN cols => rolls[i]["phase"] = new["phase"]
      BY <2>1, ChangedColumns
    <2> QED
      BY <1>2, <2>2
  <1>7. PICK s : s = Merged(rolls[i], cols)
    OBVIOUS
  <1>8. s.phase = p /\ s.wave = rolls[i].wave /\ s.members = rolls[i].members
    <2>1. rolls[i] \in Rollouts
      BY DEF RaceTypeOK, TypeOK
    <2>2. /\ DOMAIN cols \subseteq {"phase", "wave", "members", "due"}
          /\ "phase" \in DOMAIN cols => cols.phase \in {"running", "halted", "done", "aborted"}
          /\ "wave" \notin DOMAIN cols /\ "members" \notin DOMAIN cols /\ "due" \notin DOMAIN cols
      BY <1>6
    <2>3. /\ s.phase = IF "phase" \in DOMAIN cols THEN cols.phase ELSE rolls[i].phase
          /\ s.wave = IF "wave" \in DOMAIN cols THEN cols.wave ELSE rolls[i].wave
          /\ s.members = IF "members" \in DOMAIN cols THEN cols.members ELSE rolls[i].members
      BY <1>7, <2>1, <2>2, MergedRow
    <2> QED
      BY <1>6, <2>2, <2>3
  <1>9. rolls[i].wave = 2 => \A w \in Workers : w \in rolls[i].members \/ Through(w, t)
    BY DEF RaceInv, ForgetInv, LastWaveWhole, Through
  <1>10. TickHolds'
    <2>1. UNCHANGED <<rolls, tried, parked>>
      BY <1>4 DEF vars
    <2>2. "phase" \in DOMAIN cols => cols.phase # "running"
      BY <1>6
    <2> QED
      BY <1>4, <1>5, <1>7, <1>8, <1>9, <2>1, <2>2 DEF TickHolds, Through
  <1> QED
    BY <1>4, <1>10, TickBegun

LEMMA BeginTickInv ==
  ASSUME RaceTypeOK, RaceInv, BeginTick
  PROVE  RaceTypeOK' /\ RaceInv'
  <1>1. PICK i \in Ids :
          /\ IsLatest(i, {"pending", "running"})
          /\ \/ rolls[i].phase = "pending" /\ TickWith(i, Entered(i, 0))
             \/ /\ rolls[i].phase = "running" /\ Pending(rolls[i]) = {}
                /\ TickWith(i, IF IsLast(rolls[i]) THEN [phase |-> "done"]
                               ELSE Entered(i, rolls[i].wave + 1))
             \/ rolls[i].phase = "running" /\ TimedOut(rolls[i]) /\ TickWith(i, [phase |-> "halted"])
    BY DEF BeginTick
  <1> DEFINE t == rolls[i].target
  <1>2. rolls[i].phase \in {"pending", "running"} /\ rolls[i].wave \in -1..2
    BY <1>1 DEF IsLatest, RaceTypeOK, TypeOK, Rollouts
  <1>3. ASSUME NEW k \in 0..2, TickWith(i, Entered(i, k)),
               \/ rolls[i].phase = "pending" /\ k = 0
               \/ rolls[i].phase = "running" /\ Pending(rolls[i]) = {}
        PROVE  RaceTypeOK' /\ RaceInv'
    <2>1. CASE Cohort(k, t) # {}
      BY <1>3, <2>1, BeginWaveInv
    <2>2. CASE Cohort(k, t) = {}
      <3>1. TickWith(i, [phase |-> "done"])
        BY <1>3, <2>2 DEF Entered
      <3>2. \A w \in Workers : Through(w, t)
        BY <2>2, Cohorts, ThroughIfNotEligible DEF RaceInv
      <3> QED
        BY <1>2, <3>1, <3>2, BeginPhaseInv
    <2> QED
      BY <2>1, <2>2
  <1>4. CASE rolls[i].phase = "pending" /\ TickWith(i, Entered(i, 0))
    <2>1. 0 \in 0..2
      OBVIOUS
    <2> QED
      BY <1>3, <1>4, <2>1
  <1>5. CASE Pending(rolls[i]) = {} /\ IsLast(rolls[i]) /\ TickWith(i, [phase |-> "done"])
    <2>1. rolls[i].wave = 2
      BY <1>2, <1>5 DEF IsLast
    <2>2. ASSUME NEW w \in Workers PROVE Through(w, t)
      <3>1. CASE w \in rolls[i].members
        <4>1. w \notin Eligible(t)
          BY <1>5, <3>1 DEF Pending
        <4> QED
          BY <4>1, ThroughIfNotEligible DEF RaceInv
      <3>2. CASE w \notin rolls[i].members
        BY <2>1, <3>2 DEF RaceInv, ForgetInv, LastWaveWhole, Through
      <3> QED
        BY <3>1, <3>2
    <2> QED
      BY <1>2, <1>5, <2>2, BeginPhaseInv
  <1>6. CASE /\ rolls[i].phase = "running" /\ Pending(rolls[i]) = {} /\ ~IsLast(rolls[i])
             /\ TickWith(i, Entered(i, rolls[i].wave + 1))
    <2>1. rolls[i].wave + 1 \in 0..2
      BY <1>2, <1>6 DEF IsLast
    <2> QED
      BY <1>3, <1>6, <2>1
  <1>7. CASE TickWith(i, [phase |-> "halted"])
    BY <1>2, <1>7, BeginPhaseInv
  <1> QED
    BY <1>1, <1>4, <1>5, <1>6, <1>7

LEMMA BeginStepInv == RaceTypeOK /\ RaceInv /\ BeginStep => RaceTypeOK' /\ RaceInv'
  BY BeginStartInv, BeginAbortInv, BeginResumeInv, BeginTickInv, BeginUpdateInv, BeginBeatInv, BeginStrayInv
     DEF BeginStep

-----------------------------------------------------------------------------
(* What goes on meanwhile.                                                   *)

LEMMA MeanwhileTick ==
  ASSUME RaceTypeOK, RaceInv, Meanwhile, tx.job = "tick", RaceTypeOK'
  PROVE  TickHolds'
  <1> DEFINE i == tx.id
             t == rolls[i].target
  <1>1. tx' = tx /\ WorkShaped /\ i \in Ids
    BY TxKept DEF RaceTypeOK, WorkShaped
  <1>2. Grown
    BY MeanwhileNext, HistoriesGrow DEF RaceTypeOK, RaceInv, WaveInv
  <1>3. Steady(i)
    <2>1. NoTick
      BY DEF Meanwhile, Expected, Unexpected, NoTick, Operator, Host
    <2>2. rolls[i].phase # "none"
      BY DEF RaceInv, TxInv, WorkHolds
    <2> QED
      BY <1>1, <2>1, <2>2, SteadySteps DEF RaceTypeOK
  <1>4. rolls[i] \in Rollouts /\ rolls'[i] \in Rollouts
    BY <1>1 DEF RaceTypeOK, TypeOK
  <1>5. PICK s : s = Merged(rolls[i], tx.cols)
    OBVIOUS
  <1>6. PICK u : u = Merged(rolls'[i], tx.cols)
    OBVIOUS
  <1>7. /\ s.phase \notin {"none", "pending"}
        /\ DOMAIN tx.read \subseteq s.members
        /\ \A w \in rolls[i].members : w \in s.members \/ Through(w, t)
        /\ s.phase = "done" => \A w \in Workers : Through(w, t)
        /\ s.wave = 2 => \A w \in Workers : w \in s.members \/ Through(w, t)
        /\ "phase" \in DOMAIN tx.cols /\ tx.cols.phase = "running" => rolls[i].wave = -1
    BY <1>5 DEF RaceInv, TxInv, TickHolds, Through
  <1>8. /\ s.phase = IF "phase" \in DOMAIN tx.cols THEN tx.cols.phase ELSE rolls[i].phase
        /\ s.wave = IF "wave" \in DOMAIN tx.cols THEN tx.cols.wave ELSE rolls[i].wave
        /\ s.members = IF "members" \in DOMAIN tx.cols THEN tx.cols.members ELSE rolls[i].members
    BY <1>1, <1>4, <1>5, MergedWork
  <1>9. /\ u.phase = IF "phase" \in DOMAIN tx.cols THEN tx.cols.phase ELSE rolls'[i].phase
        /\ u.wave = IF "wave" \in DOMAIN tx.cols THEN tx.cols.wave ELSE rolls'[i].wave
        /\ u.members = IF "members" \in DOMAIN tx.cols THEN tx.cols.members ELSE rolls'[i].members
    BY <1>1, <1>4, <1>6, MergedWork
  <1>10. /\ u.wave = s.wave /\ u.members = s.members
         /\ u.phase \notin {"none", "pending"} /\ (u.phase = "done" => s.phase = "done")
         /\ rolls'[i].target = t /\ rolls'[i].members = rolls[i].members /\ rolls'[i].wave = rolls[i].wave
    BY <1>3, <1>7, <1>8, <1>9 DEF Steady
  <1>11. ASSUME NEW w \in Workers, Through(w, t) PROVE t \in tried'[w] \/ w \in parked'
    BY <1>2, <1>11 DEF Through, Grown
  <1>12. rolls[i].members \subseteq Workers
    BY <1>4 DEF Rollouts
  <1> QED
    BY <1>1, <1>6, <1>7, <1>10, <1>11, <1>12 DEF TickHolds

LEMMA MeanwhileInv == RaceTypeOK /\ RaceInv /\ Meanwhile => RaceTypeOK' /\ RaceInv'
  <1> SUFFICES ASSUME RaceTypeOK, RaceInv, Meanwhile PROVE RaceTypeOK' /\ RaceInv'
    OBVIOUS
  <1>1. TypeOK /\ WaveInv /\ ForgetInv /\ [Next]_vars
    BY MeanwhileNext DEF RaceTypeOK, RaceInv
  <1>2. WaveInv' /\ ForgetInv' /\ Grown
    BY <1>1, NextWave, NextForget, HistoriesGrow DEF WaveInv
  <1>3. RaceTypeOK'
    BY MeanwhileType
  <1>4. BeatHolds'
    <2>1. CASE tx.job = "beat"
      <3>1. tx.w \in Workers /\ tx.v \in tried[tx.w]
        BY <2>1 DEF RaceTypeOK, Beats, RaceInv, TxInv, BeatHolds
      <3> QED
        BY <1>2, <2>1, <3>1, TxKept DEF BeatHolds, Grown
    <2>2. CASE tx.job # "beat"
      BY <2>2, TxKept DEF BeatHolds
    <2> QED
      BY <2>1, <2>2
  <1>5. InHandIsCovered'
    <2> SUFFICES ASSUME NEW t \in Rolled, NEW w \in Workers, InHand(w, t)' PROVE Covered(w, t)'
      BY DEF InHandIsCovered, Rolled
    <2>1. left'[w] \in {left[w], NoVersion} /\ t # NoVersion
      BY RolledVersions DEF Meanwhile
    <2>2. InHand(w, t)
      <3>1. CASE left'[w] = t
        BY <2>1, <3>1 DEF InHand
      <3>2. CASE tx'.job = "beat" /\ tx'.w = w /\ tx'.ask = t
        BY <3>2, TxKept DEF InHand
      <3>3. CASE tx'.job = "resume" /\ w \in DOMAIN tx'.read /\ tx'.ask = t
        BY <3>3, TxKept DEF InHand
      <3> QED
        BY <3>1, <3>2, <3>3 DEF InHand
    <2>3. Covered(w, t)
      BY <2>2 DEF RaceInv, TxInv, InHandIsCovered, Rolled
    <2> QED
      BY <1>1, <2>3, CoveredKept
  <1>6. WorkHolds'
    <2>1. CASE tx.job = "beat"
      BY <2>1, TxKept DEF WorkHolds
    <2>2. CASE tx.job \in {"abort", "resume", "tick"}
      <3>1. tx' = tx /\ tx.id \in Ids
        BY <2>2, TxKept DEF RaceTypeOK, WorkShaped
      <3>2. rolls[tx.id].phase # "none"
        BY <2>2 DEF RaceInv, TxInv, WorkHolds
      <3>3. rolls'[tx.id].phase # "none" /\ rolls'[tx.id].target = rolls[tx.id].target
        BY <1>1, <3>1, <3>2, TargetKept
      <3> QED
        BY <2>2, <3>1, <3>3 DEF RaceInv, TxInv, WorkHolds
    <2>3. CASE tx.job \in {"idle", "start", "update"}
      BY <2>3, TxKept DEF WorkHolds
    <2> QED
      BY <2>1, <2>2, <2>3 DEF RaceTypeOK
  <1>7. TickHolds'
    <2>1. CASE tx.job = "tick"
      BY <1>3, <2>1, MeanwhileTick
    <2>2. CASE tx.job # "tick"
      BY <2>2, TxKept DEF TickHolds
    <2> QED
      BY <2>1, <2>2
  <1> QED
    BY <1>2, <1>3, <1>4, <1>5, <1>6, <1>7 DEF RaceInv, TxInv

-----------------------------------------------------------------------------
(* The commits.                                                              *)

LEMMA CommitDone ==
  ASSUME tx' = Idle, WaveInv', ForgetInv', \A t \in Rolled, w \in Workers : left'[w] = t => Covered(w, t)'
  PROVE  RaceInv'
  <1>1. tx'.job = "idle"
    BY DEF Idle
  <1>2. InHandIsCovered'
    BY <1>1 DEF InHandIsCovered, InHand, Rolled
  <1> QED
    BY <1>1, <1>2 DEF RaceInv, TxInv, BeatHolds, WorkHolds, TickHolds

LEMMA IdleType ==
  ASSUME tx' = Idle, TypeOK', left' \in [Workers -> Versions \cup {NoVersion}]
  PROVE  RaceTypeOK'
  BY DEF Idle, RaceTypeOK

\* A second rollout that is started has no wave either.
LEMMA CommitStartInv ==
  ASSUME RaceTypeOK, RaceInv, CommitStart
  PROVE  RaceTypeOK' /\ RaceInv'
  <1>1. tx.target \in Versions
    BY DEF CommitStart, RaceTypeOK
  <1>2. PICK i \in Ids :
          /\ rolls[i].phase = "none"
          /\ rolls' = [rolls EXCEPT ![i].target = tx.target, ![i].phase = "pending"]
    BY DEF CommitStart, Insert
  <1>3. tx' = Idle /\ UNCHANGED <<row, node, stray, tried, parked, left>>
    BY DEF CommitStart, workerVars
  <1>4. rolls'[i].phase = "pending" /\ rolls'[i].wave = rolls[i].wave /\ rolls'[i].members = rolls[i].members
        /\ rolls' \in [Ids -> Rollouts] /\ \A j \in Ids : j # i => rolls'[j] = rolls[j]
    BY <1>1, <1>2 DEF RaceTypeOK, TypeOK, Rollouts, Active
  <1>5. rolls[i].members = {} /\ rolls[i].wave = -1
    BY <1>2 DEF RaceInv, WaveInv, NoMembersYet, ForgetInv, NoWaveYet
  <1>6. RaceTypeOK'
    BY <1>3, <1>4, IdleType DEF RaceTypeOK, TypeOK
  <1>7. ASSUME NEW w \in Workers, NEW t, Covered(w, t) PROVE Covered(w, t)'
    BY <1>3, <1>4, <1>5, <1>7 DEF Covered
  <1>8. OneWaveAtATime'
    <2> SUFFICES ASSUME NEW t \in Rolled, NEW w \in Workers, Exposed(w, t) PROVE Covered(w, t)'
      BY <1>3 DEF OneWaveAtATime, Exposed, Covered, Rolled
    <2>1. Covered(w, t)
      BY DEF RaceInv, WaveInv, OneWaveAtATime, Covered, Rolled
    <2> QED
      BY <1>7, <2>1
  <1>9. WaveInv'
    <2>1. NoMembersYet'
      BY <1>4, <1>5 DEF RaceInv, WaveInv, NoMembersYet
    <2> QED
      BY <1>3, <1>8, <2>1 DEF RaceInv, WaveInv, ReportsAreTrue, ExcusedWereParked
  <1>10. ForgetInv'
    <2> SUFFICES ASSUME NEW j \in Ids PROVE ForgetInvOf(j)'
      BY ForgetSplitNext
    <2>1. CASE j = i
      BY <1>4, <1>5, <2>1 DEF ForgetInvOf
    <2>2. CASE j # i
      <3>1. ForgetInvOf(j)
        BY ForgetSplit DEF RaceInv
      <3> QED
        BY <1>3, <1>4, <2>2, <3>1 DEF ForgetInvOf
    <2> QED
      BY <2>1, <2>2
  <1>11. \A t \in Rolled, w \in Workers : left'[w] = t => Covered(w, t)'
    BY <1>3, <1>7 DEF RaceInv, TxInv, InHandIsCovered, InHand, Rolled
  <1> QED
    BY <1>3, <1>6, <1>9, <1>10, <1>11, CommitDone

\* The workers' rows after the commit of a unit of work.
LEMMA WorkRows ==
  ASSUME RaceTypeOK, WorkShaped, CommitWork
  PROVE  /\ row' \in [Workers -> Rows] /\ left' \in [Workers -> Versions \cup {NoVersion}]
         /\ \A w \in Workers :
              /\ row'[w].paused = row[w].paused /\ row'[w].removed = row[w].removed
              /\ row'[w].version = row[w].version
              /\ row'[w].ask \in {left[w], row[w].ask, Restart, tx.ask}
              /\ w \notin DOMAIN tx.read => row'[w].ask = row[w].ask
              /\ left'[w] \in {left[w], NoVersion}
  <1> DEFINE S == DOMAIN tx.read
             ask(w) == IF Stamped(w) = NoVersion THEN Restart ELSE Stamped(w)
  <1>1. /\ row' = [w \in Workers |-> IF w \notin S THEN row[w] ELSE [row[w] EXCEPT !.ask = ask(w)]]
        /\ left' = [w \in Workers |-> IF w \in S THEN NoVersion ELSE left[w]]
    BY DEF CommitWork
  <1>2. left' \in [Workers -> Versions \cup {NoVersion}]
    BY <1>1 DEF RaceTypeOK
  <1>3. ASSUME NEW w \in Workers
        PROVE  ask(w) \in Asks /\ ask(w) \in {left[w], row[w].ask, Restart, tx.ask}
    <2>1. Column(tx.ask) \in Versions \cup {NoVersion} /\ Column(tx.ask) \in {tx.ask, NoVersion}
      BY DEF Column
    <2>2. Stored(w) \in Versions \cup {NoVersion} /\ Stored(w) \in {left[w], row[w].ask, NoVersion}
      BY StoredVersion DEF Stored, Column
    <2>3. Stamped(w) \in Versions \cup {NoVersion} /\ Stamped(w) \in {left[w], row[w].ask, tx.ask, NoVersion}
      BY <2>1, <2>2 DEF Stamped
    <2> QED
      BY <2>3 DEF Asks
  <1> HIDE DEF ask, S
  <1>4. ASSUME NEW w \in Workers
        PROVE  /\ row'[w] \in Rows
               /\ row'[w].paused = row[w].paused /\ row'[w].removed = row[w].removed
               /\ row'[w].version = row[w].version
               /\ row'[w].ask \in {row[w].ask, ask(w)}
               /\ w \notin S => row'[w].ask = row[w].ask
    <2>1. row[w] \in Rows
      BY DEF RaceTypeOK, TypeOK
    <2> QED
      BY <1>1, <1>3, <2>1 DEF Rows
  <1>5. row' \in [Workers -> Rows]
    BY <1>1, <1>4
  <1>6. \A w \in Workers : row'[w].ask \in {left[w], row[w].ask, Restart, tx.ask}
    BY <1>3, <1>4
  <1>7. \A w \in Workers : left'[w] \in {left[w], NoVersion}
    BY <1>1
  <1> QED
    BY <1>2, <1>4, <1>5, <1>6, <1>7 DEF S

\* The rollouts after the commit of a unit of work.
LEMMA WorkTable ==
  ASSUME RaceTypeOK, WorkShaped, CommitWork
  PROVE  /\ rolls' \in [Ids -> Rollouts]
         /\ \A j \in Ids : IF j = tx.id THEN rolls'[j] = Merged(rolls[j], tx.cols) ELSE rolls'[j] = rolls[j]
  <1>1. rolls' = [rolls EXCEPT ![tx.id] = Merged(rolls[tx.id], tx.cols)] /\ rolls \in [Ids -> Rollouts]
    BY DEF CommitWork, RaceTypeOK, TypeOK
  <1>2. \A j \in Ids : Merged(rolls[j], tx.cols) \in Rollouts
    BY <1>1, MergedWork
  <1> QED
    BY <1>1, <1>2

\* What all units of work leave, if the table keeps what is covered.
LEMMA WorkDone ==
  ASSUME RaceTypeOK, RaceInv, WorkShaped, CommitWork,
         ForgetInv', NoMembersYet',
         \A w \in Workers, t \in Rolled : Covered(w, t) => Covered(w, t)',
         \A w \in DOMAIN tx.read, t \in Rolled : tx.ask = t => Covered(w, t)'
  PROVE  RaceTypeOK' /\ RaceInv'
  <1>1. tx' = Idle /\ UNCHANGED <<node, stray, tried, parked>>
    BY DEF CommitWork, workerVars
  <1>2. TypeOK'
    BY <1>1, WorkRows, WorkTable DEF RaceTypeOK, TypeOK
  <1>3. RaceTypeOK'
    BY <1>1, <1>2, WorkRows, IdleType
  <1>4. ASSUME NEW t \in Rolled, NEW w \in Workers, left[w] = t \/ Exposed(w, t) PROVE Covered(w, t)'
    <2>1. Covered(w, t)
      BY <1>4 DEF RaceInv, TxInv, InHandIsCovered, InHand, WaveInv, OneWaveAtATime, Covered, Rolled
    <2> QED
      BY <2>1
  <1>5. OneWaveAtATime'
    <2> SUFFICES ASSUME NEW t \in Rolled, NEW w \in Workers, Exposed(w, t)' PROVE Covered(w, t)'
      BY DEF OneWaveAtATime, Covered, Rolled
    <2>1. t # Restart
      BY RolledVersions
    <2>2. Exposed(w, t) \/ left[w] = t \/ (w \in DOMAIN tx.read /\ tx.ask = t)
      BY <1>1, <2>1, WorkRows DEF Exposed
    <2> QED
      BY <1>4, <2>2
  <1>6. WaveInv'
    BY <1>1, <1>5, WorkRows DEF RaceInv, WaveInv, ReportsAreTrue, ExcusedWereParked
  <1>7. \A t \in Rolled, w \in Workers : left'[w] = t => Covered(w, t)'
    BY <1>4, WorkRows, RolledVersions
  <1> QED
    BY <1>1, <1>3, <1>6, <1>7, CommitDone

\* An abort, a resume and an update touch no wave.
LEMMA CommitPhaseInv ==
  ASSUME RaceTypeOK, RaceInv, CommitWork, tx.job \in {"abort", "resume", "update"}
  PROVE  RaceTypeOK' /\ RaceInv'
  <1>1. WorkShaped /\ UNCHANGED <<tried, parked>>
    BY DEF RaceTypeOK, CommitWork
  <1>2. /\ DOMAIN tx.cols \subseteq {"phase", "due"}
        /\ "phase" \in DOMAIN tx.cols => tx.cols.phase \in {"running", "aborted"}
    BY <1>1 DEF RaceInv, TxInv, WorkHolds, WorkShaped
  <1>3. ASSUME NEW j \in Ids
        PROVE  /\ Held(j)
               /\ rolls'[j].phase \in {"none", "pending"} => rolls[j].phase \in {"none", "pending"}
    <2>1. CASE j # tx.id
      BY <2>1, <1>1, WorkTable DEF Held
    <2>2. CASE j = tx.id
      <3>1. rolls[j] \in Rollouts /\ rolls'[j] = Merged(rolls[j], tx.cols)
        BY <2>2, <1>1, WorkTable DEF RaceTypeOK, TypeOK
      <3>2. /\ rolls'[j].target = rolls[j].target
            /\ rolls'[j].phase = IF "phase" \in DOMAIN tx.cols THEN tx.cols.phase ELSE rolls[j].phase
            /\ rolls'[j].wave = rolls[j].wave
            /\ rolls'[j].members = rolls[j].members
        BY <1>1, <1>2, <3>1, MergedWork
      <3> QED
        BY <1>2, <3>2 DEF Held
    <2> QED
      BY <2>1, <2>2
  <1>4. ForgetInv'
    <2>1. Grown
      BY <1>1 DEF Grown
    <2>2. \A j \in Ids : ForgetInvOf(j)
      BY ForgetSplit DEF RaceInv
    <2> QED
      BY <1>3, <2>1, <2>2, HeldKept, ForgetSplitNext
  <1>5. NoMembersYet'
    BY <1>3 DEF Held, RaceInv, WaveInv, NoMembersYet
  <1>6. \A w \in Workers, t \in Rolled : Covered(w, t) => Covered(w, t)'
    BY <1>1, <1>3 DEF Held, Covered
  <1>7. ASSUME NEW w \in DOMAIN tx.read, NEW t \in Rolled, tx.ask = t PROVE Covered(w, t)'
    <2>1. w \in Workers
      BY <1>1 DEF WorkShaped
    <2>2. CASE tx.job = "resume"
      <3>1. Covered(w, t)
        BY <1>7, <2>1, <2>2 DEF RaceInv, TxInv, InHandIsCovered, InHand, Rolled
      <3> QED
        BY <1>6, <2>1, <3>1
    <2>3. CASE tx.job = "abort"
      <3>1. tx.id \in Ids /\ w \in DOMAIN tx.read
        BY <1>1, <2>3 DEF WorkShaped
      <3>2. DOMAIN tx.read = {}
        BY <2>3 DEF RaceInv, TxInv, WorkHolds
      <3> QED
        BY <3>1, <3>2
    <2>4. CASE tx.job = "update"
      BY <1>1, <1>7, <2>4 DEF WorkShaped, Rolled
    <2> QED
      BY <2>2, <2>3, <2>4
  <1> QED
    BY <1>1, <1>4, <1>5, <1>6, <1>7, WorkDone

\* A tick writes the wave that it found next; what it found still holds.
LEMMA CommitTickInv ==
  ASSUME RaceTypeOK, RaceInv, CommitWork, tx.job = "tick"
  PROVE  RaceTypeOK' /\ RaceInv'
  <1> DEFINE i == tx.id
             t == rolls[i].target
  <1>1. WorkShaped /\ UNCHANGED <<tried, parked>> /\ i \in Ids /\ tx.ask = t
    BY DEF RaceTypeOK, CommitWork, WorkShaped, RaceInv, TxInv, WorkHolds
  <1>2. PICK s : s = Merged(rolls[i], tx.cols)
    OBVIOUS
  <1>3. /\ s.phase \notin {"none", "pending"}
        /\ DOMAIN tx.read \subseteq s.members
        /\ \A w \in rolls[i].members : w \in s.members \/ Through(w, t)
        /\ s.phase = "done" => \A w \in Workers : Through(w, t)
        /\ s.wave = 2 => \A w \in Workers : w \in s.members \/ Through(w, t)
    BY <1>2 DEF RaceInv, TxInv, TickHolds, Through
  <1>4. rolls'[i] = s /\ s.target = t /\ \A j \in Ids : j # i => rolls'[j] = rolls[j]
    <2>1. rolls[i] \in Rollouts
      BY <1>1 DEF RaceTypeOK, TypeOK
    <2> QED
      BY <1>1, <1>2, <2>1, WorkTable, MergedWork
  <1>5. ForgetInv'
    <2> SUFFICES ASSUME NEW j \in Ids PROVE ForgetInvOf(j)'
      BY ForgetSplitNext
    <2>1. CASE j = i
      BY <1>1, <1>3, <1>4, <2>1 DEF ForgetInvOf, Through
    <2>2. CASE j # i
      <3>1. ForgetInvOf(j)
        BY ForgetSplit DEF RaceInv
      <3> QED
        BY <1>1, <1>4, <2>2, <3>1 DEF ForgetInvOf
    <2> QED
      BY <2>1, <2>2
  <1>6. NoMembersYet'
    BY <1>3, <1>4 DEF RaceInv, WaveInv, NoMembersYet
  <1>7. ASSUME NEW w \in Workers, NEW v \in Rolled, Covered(w, v) PROVE Covered(w, v)'
    <2>1. CASE v \in tried[w] \/ w \in parked
      BY <1>1, <2>1 DEF Covered
    <2>2. ASSUME NEW j \in Ids, rolls[j].target = v, w \in rolls[j].members PROVE Covered(w, v)'
      <3>1. CASE j # i
        BY <1>4, <2>2, <3>1 DEF Covered
      <3>2. CASE j = i /\ w \in s.members
        BY <1>1, <1>4, <2>2, <3>2 DEF Covered
      <3>3. CASE j = i /\ Through(w, t)
        BY <2>1, <2>2, <3>3 DEF Through
      <3> QED
        BY <1>3, <2>2, <3>1, <3>2, <3>3
    <2> QED
      BY <1>7, <2>1, <2>2 DEF Covered
  <1>8. ASSUME NEW w \in DOMAIN tx.read, NEW v \in Rolled, tx.ask = v PROVE Covered(w, v)'
    BY <1>1, <1>3, <1>4, <1>8 DEF Covered
  <1> QED
    BY <1>1, <1>5, <1>6, <1>7, <1>8, WorkDone

\* A heartbeat that commits late brings a version that came up, and the process is told of a
\* release that its worker may have.
LEMMA CommitBeatInv ==
  ASSUME RaceTypeOK, RaceInv, NEW arrives \in BOOLEAN, CommitBeat(arrives)
  PROVE  RaceTypeOK' /\ RaceInv'
  <1> DEFINE w == tx.w
  <1>1. tx \in Beats /\ w \in Workers /\ tx.v \in Versions /\ tx.ask \in Asks \cup {NoVersion}
    BY DEF CommitBeat, RaceTypeOK, Beats
  <1>2. tx' = Idle /\ UNCHANGED <<rolls, stray, tried, parked>>
    BY DEF CommitBeat
  <1>3. tx.v \in tried[w] /\ (arrives => node[w].up \in {"up", "draining"})
    BY DEF CommitBeat, RaceInv, TxInv, BeatHolds
  <1>4. /\ row' \in [Workers -> Rows]
        /\ \A x \in Workers :
             /\ row'[x].paused = row[x].paused /\ row'[x].removed = row[x].removed
             /\ row'[x].version = row[x].version \/ (x = w /\ row'[x].version = tx.v)
             /\ row'[x].ask \in {row[x].ask, NoVersion}
    <2>1. PICK v \in Versions, a \in Asks \cup {NoVersion} :
            /\ row' = [row EXCEPT ![w].version = v, ![w].ask = a]
            /\ v \in {row[w].version, tx.v} /\ a \in {row[w].ask, NoVersion}
      <3>1. row[w].version \in Versions /\ row[w].ask \in Asks \cup {NoVersion} /\ w \in DOMAIN row
        BY <1>1 DEF RaceTypeOK, TypeOK, Rows
      <3>2. row' = [row EXCEPT ![w].version = IF tx.v = tx.version THEN @ ELSE tx.v,
                               ![w].ask = IF tx.ask = NoVersion THEN @ ELSE NoVersion]
        BY DEF CommitBeat
      <3>3. row' = [row EXCEPT ![w].version = IF tx.v = tx.version THEN row[w].version ELSE tx.v,
                               ![w].ask = IF tx.ask = NoVersion THEN row[w].ask ELSE NoVersion]
        BY <1>1, <3>2 DEF RaceTypeOK, TypeOK, Rows
      <3> QED
        BY <1>1, <3>1, <3>3
    <2> QED
      BY <1>1, <2>1 DEF RaceTypeOK, TypeOK, Rows
  <1>5. /\ left' \in [Workers -> Versions \cup {NoVersion}]
        /\ \A x \in Workers : left'[x] \in {left[x], row[x].ask, NoVersion}
    <2>1. CASE tx.ask = NoVersion
      BY <2>1 DEF CommitBeat, RaceTypeOK
    <2>2. CASE tx.ask # NoVersion
      <3>1. PICK l \in Versions \cup {NoVersion} :
              l \in {left[w], row[w].ask, NoVersion} /\ left' = [left EXCEPT ![w] = l]
        <4>1. Stored(w) \in Versions \cup {NoVersion} /\ Stored(w) \in {left[w], row[w].ask, NoVersion}
          BY <1>1, StoredVersion DEF Stored, Column
        <4>2. left' = [left EXCEPT ![w] = IF Column(tx.ask) = NoVersion THEN Stored(w) ELSE NoVersion]
          BY <2>2 DEF CommitBeat
        <4> QED
          BY <4>1, <4>2
      <3> QED
        BY <1>1, <3>1 DEF RaceTypeOK
    <2> QED
      BY <2>1, <2>2
  <1>6. /\ node' \in [Workers -> Hosts]
        /\ \A x \in Workers :
             /\ node'[x].runs = node[x].runs /\ node'[x].committed = node[x].committed
             /\ node'[x].intent = node[x].intent
             /\ node'[x].pending = node[x].pending \/ (x = w /\ node'[x].pending = tx.ask)
             /\ node'[x].up \in {"up", "draining"} => node[x].up \in {"up", "draining"}
    <2>1. CASE ~arrives \/ tx.ask = NoVersion
      <3>1. node' = node
        BY <2>1 DEF CommitBeat, Told
      <3> QED
        BY <3>1 DEF RaceTypeOK, TypeOK
    <2>2. CASE arrives /\ tx.ask # NoVersion
      <3>1. node' = [node EXCEPT ![w].up = "draining", ![w].pending = IF tx.ask = Restart THEN @ ELSE tx.ask]
        BY <2>2 DEF CommitBeat, Told
      <3>2. tx.ask = Restart \/ tx.ask \in Versions
        BY <1>1, <2>2 DEF Asks
      <3>3. node[w].up \in {"up", "draining"}
        BY <1>3, <2>2
      <3> QED
        BY <1>1, <3>1, <3>2, <3>3 DEF RaceTypeOK, TypeOK, Hosts
    <2> QED
      BY <2>1, <2>2
  <1>7. RaceTypeOK'
    <2>1. TypeOK'
      BY <1>2, <1>4, <1>6 DEF RaceTypeOK, TypeOK
    <2> QED
      BY <1>2, <1>5, <2>1, IdleType
  <1>8. ASSUME NEW t \in Rolled, NEW x \in Workers,
               \/ Exposed(x, t) \/ left[x] = t \/ (x = w /\ tx.ask = t)
        PROVE  Covered(x, t)'
    <2>1. tx.job = "beat"
      BY DEF CommitBeat
    <2>2. Covered(x, t)
      BY <1>8, <2>1 DEF RaceInv, TxInv, InHandIsCovered, InHand, WaveInv, OneWaveAtATime, Covered, Rolled
    <2> QED
      BY <1>2, <2>2 DEF Covered
  <1>9. OneWaveAtATime'
    <2> SUFFICES ASSUME NEW t \in Rolled, NEW x \in Workers, Exposed(x, t)' PROVE Covered(x, t)'
      BY DEF OneWaveAtATime, Covered, Rolled
    <2>1. t # NoVersion
      BY RolledVersions
    <2>2. Exposed(x, t) \/ (x = w /\ tx.ask = t)
      BY <1>4, <1>6, <2>1 DEF Exposed
    <2> QED
      BY <1>8, <2>2
  <1>10. WaveInv'
    <2>1. ReportsAreTrue'
      BY <1>2, <1>3, <1>4, <1>6 DEF RaceInv, WaveInv, ReportsAreTrue
    <2>2. ExcusedWereParked' /\ NoMembersYet'
      BY <1>2, <1>4 DEF RaceInv, WaveInv, ExcusedWereParked, NoMembersYet
    <2> QED
      BY <1>9, <2>1, <2>2 DEF WaveInv
  <1>11. ForgetInv'
    BY <1>2 DEF RaceInv, ForgetInv, NobodyForgotten, LastWaveWhole, NoWaveYet
  <1>12. \A t \in Rolled, x \in Workers : left'[x] = t => Covered(x, t)'
    <2> TAKE t \in Rolled, x \in Workers
    <2>1. t # NoVersion
      BY RolledVersions
    <2>2. left'[x] = t => left[x] = t \/ Exposed(x, t)
      BY <1>5, <2>1 DEF Exposed
    <2> QED
      BY <1>8, <2>2
  <1> QED
    BY <1>2, <1>7, <1>10, <1>11, <1>12, CommitDone

LEMMA CommitStepInv == RaceTypeOK /\ RaceInv /\ CommitStep => RaceTypeOK' /\ RaceInv'
  BY CommitStartInv, CommitPhaseInv, CommitTickInv, CommitBeatInv DEF CommitStep, CommitWork

-----------------------------------------------------------------------------
(* The theorems.                                                             *)

LEMMA InitRace == RaceInit => RaceTypeOK /\ RaceInv
  <1> SUFFICES ASSUME RaceInit PROVE RaceTypeOK /\ RaceInv
    OBVIOUS
  <1>1. TypeOK /\ WaveInv /\ ForgetInv
    BY InitType, InitWave, InitForget DEF RaceInit
  <1>2. tx.job = "idle" /\ \A w \in Workers : left[w] = NoVersion
    BY DEF RaceInit, Idle
  <1>3. RaceTypeOK
    BY <1>1, <1>2 DEF RaceInit, RaceTypeOK
  <1>4. InHandIsCovered
    BY <1>2, RolledVersions DEF InHandIsCovered, InHand, Rolled
  <1> QED
    BY <1>1, <1>2, <1>3, <1>4 DEF RaceInv, TxInv, BeatHolds, WorkHolds, TickHolds

LEMMA StepRace == RaceTypeOK /\ RaceInv /\ [RaceNext]_raceVars => RaceTypeOK' /\ RaceInv'
  <1> SUFFICES ASSUME RaceTypeOK, RaceInv, UNCHANGED raceVars PROVE RaceTypeOK' /\ RaceInv'
    BY MeanwhileInv, BeginStepInv, CommitStepInv DEF RaceNext
  <1>1. UNCHANGED <<rolls, row, node, stray, tried, parked, tx, left>>
    BY DEF raceVars, vars, workerVars
  <1>2. RaceTypeOK'
    BY <1>1 DEF RaceTypeOK, TypeOK, WorkShaped
  <1>3. WaveInv' /\ ForgetInv'
    BY <1>1, BeginKeeps
  <1>4. TxInv'
    BY <1>1 DEF RaceInv, TxInv, BeatHolds, InHandIsCovered, InHand, Covered, WorkHolds, TickHolds
  <1> QED
    BY <1>2, <1>3, <1>4 DEF RaceInv

\* Whatever requests, heartbeats and ticks go on while a handler has read and not committed yet
\* (api/rollout.py, api/workers.py, background.py): what it relies on still holds when it commits.
THEOREM RacesInvariant == RaceSpec => [](RaceTypeOK /\ RaceInv)
  BY InitRace, StepRace, PTL DEF RaceSpec

\* One wave at a time, whichever handler (api/rollout.py, api/workers.py, background.py) is the
\* one between its read and its commit, and if an overlap leaves two rollouts active at once.
THEOREM OneWaveInRaces == RaceSpec => []OneWaveAtATime
  <1>1. RaceInv => OneWaveAtATime
    BY DEF RaceInv, WaveInv
  <1> QED
    BY <1>1, RacesInvariant, PTL

\* A rollout that is done has brought its release up on every worker the operator never took
\* out, though a tick, an abort or a resume (api/rollout.py) was decided on rows that requests
\* and heartbeats changed before it committed.
THEOREM NothingForgottenInRaces == RaceSpec => []NobodyForgotten
  <1>1. RaceInv => NobodyForgotten
    BY DEF RaceInv, ForgetInv
  <1> QED
    BY <1>1, RacesInvariant, PTL

-----------------------------------------------------------------------------
(* What an abort stops.                                                      *)

\* Only requests and the clock: how the phase of a rollout may change without a tick.
LEMMA PhaseSteps ==
  ASSUME TypeOK, NoTick, NEW j \in Ids
  PROVE  \/ rolls'[j].phase = rolls[j].phase
         \/ rolls[j].phase = "none" /\ rolls'[j].phase = "pending"
         \/ rolls[j].phase \in Active /\ rolls'[j].phase = "aborted"
         \/ rolls[j].phase = "halted" /\ rolls'[j].phase = "running"
  <1> DEFINE Goal == \/ rolls'[j].phase = rolls[j].phase
                     \/ rolls[j].phase = "none" /\ rolls'[j].phase = "pending"
                     \/ rolls[j].phase \in Active /\ rolls'[j].phase = "aborted"
                     \/ rolls[j].phase = "halted" /\ rolls'[j].phase = "running"
  <1>1. CASE UNCHANGED rolls
    BY <1>1
  <1>2. ASSUME NEW t \in Targets, StartRollout(t) PROVE Goal
    <2>1. PICK i \in Ids :
            /\ rolls[i].phase = "none"
            /\ rolls' = [rolls EXCEPT ![i].target = t, ![i].phase = "pending"]
      BY <1>2 DEF StartRollout, Insert
    <2> QED
      BY <2>1 DEF TypeOK, Rollouts
  <1>3. CASE AbortRollout
    <2>1. PICK i \in Ids : rolls[i].phase \in Active /\ rolls' = [rolls EXCEPT ![i].phase = "aborted"]
      BY <1>3 DEF AbortRollout, IsLatest
    <2> QED
      BY <2>1 DEF TypeOK, Rollouts
  <1>4. CASE ResumeRollout
    <2>1. PICK i \in Ids :
            rolls[i].phase = "halted" /\ rolls' = [rolls EXCEPT ![i].phase = "running", ![i].due = FALSE]
      BY <1>4 DEF ResumeRollout, IsLatest
    <2> QED
      BY <2>1 DEF TypeOK, Rollouts
  <1>5. ASSUME NEW i \in Ids, DeadlinePasses(i) PROVE Goal
    <2>1. rolls' = [rolls EXCEPT ![i].due = TRUE]
      BY <1>5 DEF DeadlinePasses
    <2> QED
      BY <2>1 DEF TypeOK, Rollouts
  <1>6. ASSUME NEW w \in Workers, Host(w) PROVE UNCHANGED rolls
    BY <1>6 DEF Host, Heartbeat, HeartbeatGivenUp, StrayHandled, Drained, Crash,
                ContainerStops, Boot, InstallFails, Register, GatePasses
  <1>7. CASE Operator
    <2>1. UNCHANGED rolls \/ AbortRollout \/ ResumeRollout \/ \E t \in Targets : StartRollout(t)
      BY <1>7 DEF Operator, RequestUpdates, RequestUpdate, RemoveWorker, SetPaused
    <2> QED
      BY <2>1, <1>1, <1>2, <1>3, <1>4
  <1> QED
    BY <1>1, <1>5, <1>6, <1>7 DEF NoTick, vars

\* A tick that begins means to begin the next wave, of a rollout that nobody has stopped.
LEMMA TickNext ==
  ASSUME RaceTypeOK, RaceInv, BeginTick
  PROVE  /\ rolls[tx'.id].phase \in {"pending", "running"}
         /\ "wave" \in DOMAIN tx'.cols => tx'.cols.wave = rolls[tx'.id].wave + 1
  <1>1. PICK i \in Ids :
          /\ rolls[i].phase \in {"pending", "running"}
          /\ \/ rolls[i].phase = "pending" /\ TickWith(i, Entered(i, 0))
             \/ TickWith(i, [phase |-> "done"])
             \/ TickWith(i, Entered(i, rolls[i].wave + 1))
             \/ TickWith(i, [phase |-> "halted"])
    BY DEF BeginTick, IsLatest
  <1>2. ASSUME NEW new, TickWith(i, new), "wave" \in DOMAIN new => new.wave = rolls[i].wave + 1
        PROVE  tx'.id = i /\ ("wave" \in DOMAIN tx'.cols => tx'.cols.wave = rolls[i].wave + 1)
    <2>1. tx'.id = i /\ tx'.cols = Changed(rolls[i], new)
      BY <1>2 DEF TickWith, OnRollout, Begin, Work
    <2>2. PICK cols : cols = Changed(rolls[i], new)
      OBVIOUS
    <2>3. "wave" \in DOMAIN cols => "wave" \in DOMAIN new /\ cols["wave"] = new["wave"]
      BY <2>2 DEF Changed
    <2> QED
      BY <1>2, <2>1, <2>2, <2>3
  <1>3. ASSUME NEW p, TickWith(i, [phase |-> p])
        PROVE  tx'.id = i /\ ("wave" \in DOMAIN tx'.cols => tx'.cols.wave = rolls[i].wave + 1)
    <2>1. PICK new : new = [phase |-> p]
      OBVIOUS
    <2>2. "wave" \notin DOMAIN new
      BY <2>1
    <2> QED
      BY <1>2, <1>3, <2>1, <2>2
  <1>4. ASSUME NEW k, k = rolls[i].wave + 1, TickWith(i, Entered(i, k))
        PROVE  tx'.id = i /\ ("wave" \in DOMAIN tx'.cols => tx'.cols.wave = rolls[i].wave + 1)
    <2>1. CASE Cohort(k, rolls[i].target) = {}
      BY <1>3, <1>4, <2>1 DEF Entered
    <2>2. CASE Cohort(k, rolls[i].target) # {}
      <3>1. PICK new : new = [phase |-> "running", wave |-> k, members |-> Cohort(k, rolls[i].target), due |-> FALSE]
        OBVIOUS
      <3>2. TickWith(i, new) /\ new.wave = k
        BY <1>4, <2>2, <3>1 DEF Entered
      <3> QED
        BY <1>2, <1>4, <3>2
    <2> QED
      BY <2>1, <2>2
  <1>5. rolls[i].phase = "pending" => rolls[i].wave + 1 = 0
    BY DEF RaceInv, ForgetInv, NoWaveYet
  <1>6. tx'.id = i /\ ("wave" \in DOMAIN tx'.cols => tx'.cols.wave = rolls[i].wave + 1)
    <2>1. CASE rolls[i].phase = "pending" /\ TickWith(i, Entered(i, 0))
      BY <1>4, <1>5, <2>1
    <2>2. CASE TickWith(i, [phase |-> "done"]) \/ TickWith(i, [phase |-> "halted"])
      BY <1>3, <2>2
    <2>3. CASE TickWith(i, Entered(i, rolls[i].wave + 1))
      BY <1>4, <2>3
    <2> QED
      BY <1>1, <2>1, <2>2, <2>3
  <1> QED
    BY <1>1, <1>6

\* What StopInv says of rollout j, and of the tick under way.
StoppedWell(j) ==
  stopped[j] # -1 =>
    /\ rolls[j].phase \in {"halted", "done", "aborted"}
    /\ rolls[j].wave = stopped[j] \/ rolls[j].wave = stopped[j] + 1
    /\ tx.job = "tick" /\ tx.id = j /\ "wave" \in DOMAIN tx.cols => rolls[j].wave = stopped[j]
NextWaveOnly == tx.job = "tick" /\ "wave" \in DOMAIN tx.cols => tx.cols.wave = rolls[tx.id].wave + 1

LEMMA StopSplit ==
  StopInv <=> stopped \in [Ids -> -1..2] /\ NextWaveOnly /\ \A j \in Ids : StoppedWell(j)
  BY DEF StopInv, StoppedWell, NextWaveOnly
LEMMA StopSplitNext ==
  StopInv' <=> stopped' \in [Ids -> -1..2] /\ NextWaveOnly' /\ \A j \in Ids : StoppedWell(j)'
  BY DEF StopInv, StoppedWell, NextWaveOnly

\* The history after a step, for one rollout.
LEMMA AnsweredOne ==
  ASSUME Answered, NEW j \in Ids
  PROVE  stopped'[j] = IF Resumed(j) THEN -1 ELSE IF Aborted(j) THEN rolls[j].wave ELSE stopped[j]
  BY DEF Answered

LEMMA StopType ==
  ASSUME RaceTypeOK, stopped \in [Ids -> -1..2], Answered
  PROVE  stopped' \in [Ids -> -1..2]
  <1>1. \A j \in Ids : rolls[j].wave \in -1..2
    BY DEF RaceTypeOK, TypeOK, Rollouts
  <1> QED
    BY <1>1 DEF Answered

\* Requests, heartbeats and ticks that go on meanwhile.
LEMMA MeanwhileStop ==
  ASSUME RaceTypeOK, RaceInv, StopInv, Meanwhile, Answered
  PROVE  NextWaveOnly' /\ \A j \in Ids : StoppedWell(j)'
  <1>1. TypeOK /\ [Next]_vars
    BY MeanwhileNext DEF RaceTypeOK
  <1>2. tx'.job = tx.job /\ (tx.job = "tick" => tx' = tx /\ tx.id \in Ids /\ rolls[tx.id].phase # "none")
    BY TxKept DEF RaceTypeOK, WorkShaped, RaceInv, TxInv, WorkHolds
  <1>3. NoTick \/ (AdvanceRollout /\ tx.job # "tick")
    BY DEF Meanwhile, Expected, Unexpected, NoTick, Operator, Host
  <1>4. NextWaveOnly'
    <2>1. CASE tx.job = "tick"
      <3>1. Steady(tx.id)
        BY <1>1, <1>2, <1>3, <2>1, SteadySteps
      <3> QED
        BY <1>2, <2>1, <3>1 DEF NextWaveOnly, StopInv, Steady
    <2>2. CASE tx.job # "tick"
      BY <1>2, <2>2 DEF NextWaveOnly
    <2> QED
      BY <2>1, <2>2
  <1>5. ASSUME NEW j \in Ids, stopped'[j] # -1
        PROVE  /\ rolls'[j].phase \in {"halted", "done", "aborted"}
               /\ rolls'[j].wave = stopped'[j] \/ rolls'[j].wave = stopped'[j] + 1
               /\ tx.job = "tick" /\ tx.id = j /\ "wave" \in DOMAIN tx.cols => rolls'[j].wave = stopped'[j]
    <2>1. /\ ~Resumed(j)
          /\ stopped'[j] = IF Aborted(j) THEN rolls[j].wave ELSE stopped[j]
      BY <1>5, AnsweredOne
    <2>2. StoppedWell(j)
      BY StopSplit
    <2>3. CASE NoTick /\ rolls[j].phase # "none"
      <3>1. rolls'[j].wave = rolls[j].wave
        BY <1>1, <2>3, SteadySteps DEF Steady
      <3>2. \/ rolls'[j].phase = rolls[j].phase /\ ~Aborted(j)
            \/ rolls'[j].phase = "aborted" /\ Aborted(j)
        BY <1>1, <2>1, <2>3, PhaseSteps DEF Resumed, Aborted, Active
      <3> QED
        BY <1>5, <2>1, <2>2, <3>1, <3>2 DEF StoppedWell
    <2>4. CASE NoTick /\ rolls[j].phase = "none"
      <3>1. ~Aborted(j)
        BY <1>1, <2>4, PhaseSteps DEF Aborted, Active
      <3> QED
        BY <1>5, <2>1, <2>2, <2>4, <3>1 DEF StoppedWell
    <2>5. CASE AdvanceRollout /\ tx.job # "tick"
      <3>1. PICK i \in Ids :
              /\ rolls[i].phase \in {"pending", "running"}
              /\ \/ \E p \in {"done", "halted"} : rolls' = [rolls EXCEPT ![i].phase = p]
                 \/ \E k \in 0..2, ms \in SUBSET Workers :
                      rolls' = [rolls EXCEPT ![i].phase = "running", ![i].wave = k,
                                             ![i].members = ms, ![i].due = FALSE]
        BY <1>1, <2>5, AdvanceCases
      <3>2. i # j => rolls'[j] = rolls[j]
        BY <1>1, <3>1 DEF TypeOK
      <3>3. rolls'[i].phase # "aborted"
        <4>1. ASSUME NEW p \in {"done", "halted"}, rolls' = [rolls EXCEPT ![i].phase = p]
              PROVE  rolls'[i].phase # "aborted"
          BY <1>1, <4>1 DEF TypeOK, Rollouts
        <4>2. ASSUME NEW k \in 0..2, NEW ms \in SUBSET Workers,
                     rolls' = [rolls EXCEPT ![i].phase = "running", ![i].wave = k,
                                            ![i].members = ms, ![i].due = FALSE]
              PROVE  rolls'[i].phase # "aborted"
          BY <1>1, <4>2 DEF TypeOK, Rollouts
        <4> QED
          BY <3>1, <4>1, <4>2
      <3>4. ~Aborted(j)
        BY <3>2, <3>3 DEF Aborted
      <3>5. i # j
        BY <1>5, <2>1, <2>2, <3>1, <3>4 DEF StoppedWell
      <3> QED
        BY <1>5, <2>1, <2>2, <2>5, <3>2, <3>4, <3>5 DEF StoppedWell
    <2> QED
      BY <1>3, <2>3, <2>4, <2>5
  <1>6. ASSUME NEW j \in Ids PROVE StoppedWell(j)'
    BY <1>2, <1>5 DEF StoppedWell
  <1> QED
    BY <1>4, <1>6

\* A handler that begins: a tick takes up no rollout that was stopped.
LEMMA BeginStop ==
  ASSUME RaceTypeOK, RaceInv, StopInv, BeginStep, Answered
  PROVE  NextWaveOnly' /\ \A j \in Ids : StoppedWell(j)'
  <1> DEFINE Begun == UNCHANGED rolls /\ tx = Idle /\ tx'.job # "tick"
  <1>0. ASSUME NEW t, Begin(t) PROVE UNCHANGED rolls /\ tx = Idle /\ tx' = t
    BY <1>0 DEF Begin
  <1>1. ASSUME NEW job, NEW cols, NEW i, NEW ws, NEW ask, Begin(Work(job, cols, i, ws, ask))
        PROVE  UNCHANGED rolls /\ tx = Idle /\ tx'.job = job
    <2>1. PICK read : read = [w \in ws |-> Stored(w)]
      OBVIOUS
    <2>2. PICK t : t = [job |-> job, id |-> i, cols |-> cols, read |-> read, ask |-> ask]
      OBVIOUS
    <2>3. t.job = job
      BY <2>2
    <2>4. Begin(t)
      BY <1>1, <2>1, <2>2 DEF Work
    <2> QED
      BY <1>0, <2>3, <2>4
  <1>a. ASSUME NEW job, NEW i, NEW new, NEW ws, OnRollout(job, i, new, ws)
        PROVE  UNCHANGED rolls /\ tx = Idle /\ tx'.job = job
    <2>1. PICK cols : cols = Changed(rolls[i], new)
      OBVIOUS
    <2> QED
      BY <1>1, <1>a, <2>1 DEF OnRollout
  <1>b. ASSUME BeginAbort \/ BeginResume
        PROVE  Begun
    BY <1>a, <1>b DEF BeginAbort, BeginResume
  <1>c. ASSUME \E t \in Targets : BeginStart(t)
        PROVE  Begun
    <2>1. PICK t \in Targets : Begin([job |-> "start", target |-> t])
      BY <1>c DEF BeginStart
    <2>2. PICK u : u = [job |-> "start", target |-> t]
      OBVIOUS
    <2> QED
      BY <1>0, <2>1, <2>2
  <1>d. ASSUME \E w \in Workers, ask \in OperatorAsks : BeginUpdate(w, ask)
        PROVE  Begun
    <2>1. PICK w \in Workers, ask \in OperatorAsks : Begin(Work("update", <<>>, 1, {w}, ask))
      BY <1>d DEF BeginUpdate
    <2> QED
      BY <1>1, <2>1
  <1>e. ASSUME \E w \in Workers : BeginBeat(w) \/ \E v \in Versions : BeginStray(w, v)
        PROVE  Begun
    <2>1. PICK w, v, awaited : ReadBy(w, v, awaited)
      BY <1>e DEF BeginBeat, BeginStray
    <2>2. PICK u : u = [job |-> "beat", w |-> w, v |-> v, version |-> row[w].version,
                        ask |-> row[w].ask, awaited |-> awaited]
      OBVIOUS
    <2>3. u.job = "beat"
      BY <2>2
    <2> QED
      BY <1>0, <2>1, <2>2, <2>3 DEF ReadBy
  <1>f. BeginTick => UNCHANGED rolls /\ tx = Idle
    BY <1>a DEF BeginTick, TickWith
  <1>g. Begun \/ BeginTick
    BY <1>b, <1>c, <1>d, <1>e DEF BeginStep
  <1>h. UNCHANGED rolls /\ tx.job = "idle"
    BY <1>f, <1>g DEF Idle
  <1>2. tx'.job = "tick" => BeginTick
    BY <1>g
  <1>3. tx'.job = "tick" =>
          /\ rolls[tx'.id].phase \in {"pending", "running"}
          /\ "wave" \in DOMAIN tx'.cols => tx'.cols.wave = rolls[tx'.id].wave + 1
    BY <1>2, TickNext
  <1>4. NextWaveOnly'
    BY <1>h, <1>3 DEF NextWaveOnly
  <1>5. ASSUME NEW j \in Ids PROVE StoppedWell(j)'
    <2>1. stopped'[j] = IF Resumed(j) THEN -1 ELSE IF Aborted(j) THEN rolls[j].wave ELSE stopped[j]
      BY AnsweredOne
    <2>2. ~Resumed(j) /\ ~Aborted(j)
      BY <1>h DEF Resumed, Aborted
    <2>3. StoppedWell(j)
      BY StopSplit
    <2> QED
      BY <1>h, <1>3, <2>1, <2>2, <2>3 DEF StoppedWell
  <1> QED
    BY <1>4, <1>5

\* A unit of work that commits: an abort stops the rollout in its wave, a resume takes it up, and
\* a tick that read it before writes the next wave or an end.
LEMMA CommitStop ==
  ASSUME RaceTypeOK, RaceInv, StopInv, CommitStep, Answered
  PROVE  NextWaveOnly' /\ \A j \in Ids : StoppedWell(j)'
  <1>1. tx' = Idle /\ tx'.job = "idle"
    BY DEF CommitStep, CommitStart, CommitWork, CommitBeat, Idle
  <1>2. NextWaveOnly'
    BY <1>1 DEF NextWaveOnly
  <1>3. ASSUME NEW j \in Ids, stopped'[j] # -1
        PROVE  /\ rolls'[j].phase \in {"halted", "done", "aborted"}
               /\ rolls'[j].wave = stopped'[j] \/ rolls'[j].wave = stopped'[j] + 1
    <2>1. /\ ~Resumed(j)
          /\ stopped'[j] = IF Aborted(j) THEN rolls[j].wave ELSE stopped[j]
      BY <1>3, AnsweredOne
    <2>2. StoppedWell(j) /\ rolls[j] \in Rollouts /\ stopped[j] \in -1..2
      BY StopSplit DEF RaceTypeOK, TypeOK
    <2>3. CASE rolls'[j] = rolls[j]
      BY <1>3, <2>1, <2>2, <2>3 DEF StoppedWell, Aborted
    <2>4. CASE CommitStart
      <3>1. PICK i \in Ids :
              /\ rolls[i].phase = "none"
              /\ rolls' = [rolls EXCEPT ![i].target = tx.target, ![i].phase = "pending"]
        BY <2>4 DEF CommitStart, Insert
      <3>2. i # j => rolls'[j] = rolls[j]
        BY <3>1 DEF RaceTypeOK, TypeOK
      <3>3. i = j => rolls'[j].phase = "pending"
        BY <2>2, <3>1 DEF RaceTypeOK, TypeOK, Rollouts
      <3>4. i = j => stopped[j] = -1 /\ ~Aborted(j)
        BY <2>2, <3>1, <3>3 DEF StoppedWell, Aborted
      <3> QED
        BY <1>3, <2>1, <2>3, <3>2, <3>4
    <2>5. CASE CommitWork
      <3>1. WorkShaped
        BY <2>5 DEF CommitWork, RaceTypeOK
      <3>2. IF j = tx.id THEN rolls'[j] = Merged(rolls[j], tx.cols) ELSE rolls'[j] = rolls[j]
        BY <2>5, <3>1, WorkTable
      <3>3. CASE j = tx.id
        <4>1. /\ rolls'[j].phase = IF "phase" \in DOMAIN tx.cols THEN tx.cols.phase ELSE rolls[j].phase
              /\ rolls'[j].wave = IF "wave" \in DOMAIN tx.cols THEN tx.cols.wave ELSE rolls[j].wave
          BY <2>2, <3>1, <3>2, <3>3, MergedWork
        <4>2. CASE tx.job = "resume"
          BY <1>1, <2>1, <3>3, <4>2 DEF Resumed
        <4>3. CASE tx.job = "abort"
          <5>1. "phase" \in DOMAIN tx.cols /\ tx.cols.phase = "aborted" /\ "wave" \notin DOMAIN tx.cols
            BY <4>3 DEF RaceInv, TxInv, WorkHolds
          <5>2. rolls'[j].phase = "aborted" /\ rolls'[j].wave = rolls[j].wave
            BY <4>1, <5>1
          <5> QED
            BY <1>3, <2>1, <2>2, <5>2 DEF StoppedWell, Aborted
        <4>4. CASE tx.job = "update"
          <5>1. DOMAIN tx.cols = {}
            BY <3>1, <4>4 DEF WorkShaped
          <5>2. rolls'[j].phase = rolls[j].phase /\ rolls'[j].wave = rolls[j].wave
            BY <4>1, <5>1
          <5> QED
            BY <1>3, <2>1, <2>2, <5>2 DEF StoppedWell, Aborted
        <4>5. CASE tx.job = "tick"
          <5>1. "phase" \in DOMAIN tx.cols /\ tx.cols.phase = "running" => rolls[j].wave = -1
            BY <3>3, <4>5 DEF RaceInv, TxInv, TickHolds
          <5>2. "phase" \in DOMAIN tx.cols => tx.cols.phase \in {"running", "halted", "done", "aborted"}
            BY <3>1 DEF WorkShaped
          <5>3. "wave" \in DOMAIN tx.cols => tx.cols.wave = rolls[j].wave + 1
            BY <3>3, <4>5 DEF StopInv
          <5>4. rolls[j].wave \in -1..2
            BY <2>2 DEF Rollouts
          <5>5. CASE Aborted(j)
            <6>1. stopped'[j] = rolls[j].wave /\ rolls'[j].phase = "aborted"
              BY <2>1, <5>5 DEF Aborted
            <6> QED
              BY <4>1, <5>3, <6>1
          <5>6. CASE ~Aborted(j)
            <6>1. stopped'[j] = stopped[j] /\ stopped[j] # -1
              BY <1>3, <2>1, <5>6
            <6>2. /\ rolls[j].phase \in {"halted", "done", "aborted"}
                  /\ rolls[j].wave = stopped[j] \/ rolls[j].wave = stopped[j] + 1
                  /\ "wave" \in DOMAIN tx.cols => rolls[j].wave = stopped[j]
              BY <2>2, <3>3, <4>5, <6>1 DEF StoppedWell
            <6>3. rolls[j].wave # -1
              BY <2>2, <6>1, <6>2
            <6>4. rolls'[j].phase \in {"halted", "done", "aborted"}
              BY <4>1, <5>1, <5>2, <6>2, <6>3
            <6>5. rolls'[j].wave = stopped[j] \/ rolls'[j].wave = stopped[j] + 1
              BY <4>1, <5>3, <6>2
            <6> QED
              BY <6>1, <6>4, <6>5
          <5> QED
            BY <5>5, <5>6
        <4> QED
          BY <2>5, <4>2, <4>3, <4>4, <4>5 DEF CommitWork
      <3>4. CASE j # tx.id
        BY <2>3, <3>2, <3>4
      <3> QED
        BY <3>3, <3>4
    <2>6. ASSUME NEW arrives \in BOOLEAN, CommitBeat(arrives)
          PROVE  /\ rolls'[j].phase \in {"halted", "done", "aborted"}
                 /\ rolls'[j].wave = stopped'[j] \/ rolls'[j].wave = stopped'[j] + 1
      <3>1. rolls' = rolls
        BY <2>6 DEF CommitBeat
      <3> QED
        BY <2>3, <3>1
    <2> QED
      BY <2>4, <2>5, <2>6 DEF CommitStep
  <1>4. ASSUME NEW j \in Ids PROVE StoppedWell(j)'
    BY <1>1, <1>3 DEF StoppedWell
  <1> QED
    BY <1>2, <1>4

LEMMA StepStop == RaceTypeOK /\ RaceInv /\ StopInv /\ [RaceNext]_raceVars => StopInv'
  <1>1. ASSUME RaceTypeOK, RaceInv, StopInv, RaceNext PROVE StopInv'
    <2>1. stopped' \in [Ids -> -1..2]
      BY <1>1, StopType DEF RaceNext, StopInv
    <2>2. NextWaveOnly' /\ \A j \in Ids : StoppedWell(j)'
      BY <1>1, MeanwhileStop, BeginStop, CommitStop DEF RaceNext
    <2> QED
      BY <2>1, <2>2, StopSplitNext
  <1>2. ASSUME StopInv, UNCHANGED raceVars PROVE StopInv'
    BY <1>2 DEF StopInv, raceVars, vars
  <1> QED
    BY <1>1, <1>2

\* An abort in a wave (api/rollout.py) ends the rollout until it is resumed: the leader does not
\* take it up again, whatever the tick under way (background.py) writes over the abort, and this
\* tick's is the last wave that begins.
THEOREM AbortsHold == RaceSpec => []AbortHolds
  <1>1. RaceInit => StopInv
    BY DEF RaceInit, StopInv, Idle
  <1>2. RaceSpec => []StopInv
    BY <1>1, StepStop, RacesInvariant, PTL DEF RaceSpec
  <1>3. RaceTypeOK /\ StopInv => AbortHolds
    <2> SUFFICES ASSUME RaceTypeOK, StopInv, NEW i \in Ids, stopped[i] # -1
                 PROVE  rolls[i].phase \notin {"pending", "running"} /\ rolls[i].wave <= stopped[i] + 1
      BY DEF AbortHolds
    <2> QED
      BY DEF StopInv
  <1> QED
    BY <1>2, <1>3, RacesInvariant, PTL
=============================================================================
