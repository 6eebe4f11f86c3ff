----------------------------- MODULE RolloutRaces -----------------------------
(***************************************************************************)
(* Rollout with requests, heartbeats and ticks that overlap.  A handler      *)
(* reads its rows, decides on what it read and commits at the end: the ORM   *)
(* writes only the columns that differ from what was read.  One handler may  *)
(* be between its read and its commit; all other requests run meanwhile, but  *)
(* no second tick, which has one leader, and no second heartbeat of a process *)
(* that waits for the first.  A handler that dies before its commit leaves    *)
(* nothing, and a heartbeat with nothing to write is left to Rollout.         *)
(***************************************************************************)
EXTENDS Rollout

CONSTANTS Overlapping,  \* handlers that are split: start abort resume update tick beat
          MaxTroubles   \* bound: handlers that are split, faults and interventions

ASSUME TroublesAssumption == MaxTroubles \in Nat

VARIABLES
  tx,       \* what the handler under way has read and means to write
  troubles, \* how many of them there have been
  left,     \* update_to_version of the rows whose update_requested_at is NULL
  stopped   \* history: the wave in which each rollout was aborted, if it had one and nobody has
            \* resumed it since; -1 otherwise

raceVars == <<vars, tx, troubles, left, stopped>>

Idle == [job |-> "idle"]

\* What column update_to_version holds for a signal, and what is in a row.
Column(ask) == IF ask \in Versions THEN ask ELSE NoVersion
Stored(w) == IF row[w].ask = NoVersion THEN left[w] ELSE Column(row[w].ask)

RaceInit ==
  /\ Init
  /\ tx = Idle /\ troubles = 0
  /\ left = [w \in Workers |-> NoVersion]
  /\ stopped = [i \in Ids |-> -1]

-----------------------------------------------------------------------------
(* The reads.                                                                *)

Trouble == troubles < MaxTroubles /\ troubles' = troubles + 1

Begin(t) ==
  /\ tx = Idle /\ t.job \in Overlapping /\ Trouble
  /\ tx' = t
  /\ UNCHANGED <<rolls, row, node, tried, parked, left>>

\* Mutant: every column that is set is written.
ChangedOrNot(old, new) == new
\* The columns that a handler changes; a deadline is a new time whenever it is set.
Changed(old, new) == [c \in {c \in DOMAIN new : c = "due" \/ new[c] # old[c]} |-> new[c]]

\* A unit of work on rollout i, if any, that stamps the signal ask on the workers of ws.
Work(job, cols, i, ws, ask) ==
  [job |-> job, id |-> i, cols |-> cols, read |-> [w \in ws |-> Stored(w)], ask |-> ask]

OnRollout(job, i, new, ws) ==
  Begin(Work(job, Changed(rolls[i], new), i, ws, rolls[i].target)) /\ UNCHANGED stray

BeginStart(t) == ~InProgress /\ Begin([job |-> "start", target |-> t]) /\ UNCHANGED stray

BeginAbort ==
  /\ "abort" \in Requests
  /\ \E i \in Ids : IsLatest(i, Active) /\ OnRollout("abort", i, [phase |-> "aborted"], {})

BeginResume ==
  \E i \in Ids :
    /\ IsLatest(i, {"halted"})
    /\ OnRollout("resume", i, [phase |-> "running", due |-> FALSE], Pending(rolls[i]))

BeginUpdate(w, ask) == Begin(Work("update", <<>>, 1, {w}, ask)) /\ UNCHANGED stray

\* _enter_wave, as the columns it sets.
Entered(i, k) ==
  LET cohort == Cohort(k, rolls[i].target) IN
  IF cohort = {} THEN [phase |-> "done"]
  ELSE [phase |-> "running", wave |-> k, members |-> cohort, due |-> FALSE]

TickWith(i, new) ==
  OnRollout("tick", i, new, IF "members" \in DOMAIN new THEN new.members ELSE {})

BeginTick ==
  \E i \in Ids :
    /\ IsLatest(i, {"pending", "running"})
    /\ \/ rolls[i].phase = "pending" /\ TickWith(i, Entered(i, 0))
       \/ /\ rolls[i].phase = "running" /\ Pending(rolls[i]) = {}
          /\ TickWith(i, IF IsLast(rolls[i]) THEN [phase |-> "done"]
                         ELSE Entered(i, rolls[i].wave + 1))
       \/ rolls[i].phase = "running" /\ TimedOut(rolls[i]) /\ TickWith(i, [phase |-> "halted"])

\* A heartbeat with version v reads its worker's row; awaited: the process waits for it.
ReadBy(w, v, awaited) ==
  /\ ~row[w].removed /\ (row[w].ask # NoVersion \/ row[w].version # v)
  /\ Begin([job |-> "beat", w |-> w, v |-> v, version |-> row[w].version, ask |-> row[w].ask,
            awaited |-> awaited])

BeginBeat(w) ==
  /\ node[w].up \in {"up", "draining"}
  /\ ReadBy(w, node[w].runs, TRUE)
  /\ UNCHANGED stray

BeginStray(w, v) ==
  /\ v \in stray[w]
  /\ ReadBy(w, v, FALSE)
  /\ stray' = [stray EXCEPT ![w] = @ \ {v}]

-----------------------------------------------------------------------------
(* The commits.                                                              *)

CommitStart ==
  /\ tx.job = "start"
  /\ Insert(tx.target)
  /\ tx' = Idle
  /\ UNCHANGED <<row, workerVars, tried, parked, left>>

\* A row after the columns cols are written.
Merged(r, cols) == [c \in DOMAIN r |-> IF c \in DOMAIN cols THEN cols[c] ELSE r[c]]

\* The version that a row has after the stamp: it is not written if it was there when read.
Stamped(w) == IF tx.read[w] = Column(tx.ask) THEN Stored(w) ELSE Column(tx.ask)

CommitWork ==
  /\ tx.job \in {"abort", "resume", "update", "tick"}
  /\ rolls' = [rolls EXCEPT ![tx.id] = Merged(@, tx.cols)]
  /\ row' = [w \in Workers |->
               IF w \notin DOMAIN tx.read THEN row[w]
               ELSE [row[w] EXCEPT !.ask = IF Stamped(w) = NoVersion THEN Restart ELSE Stamped(w)]]
  /\ left' = [w \in Workers |-> IF w \in DOMAIN tx.read THEN NoVersion ELSE left[w]]
  /\ tx' = Idle
  /\ UNCHANGED <<workerVars, tried, parked>>

\* The signal that was read is consumed, with whatever has been stamped since.
CommitBeat(arrives) ==
  LET w == tx.w IN
  /\ tx.job = "beat"
  /\ arrives => tx.awaited
  /\ row' = [row EXCEPT ![w].version = IF tx.v = tx.version THEN @ ELSE tx.v,
                        ![w].ask = IF tx.ask = NoVersion THEN @ ELSE NoVersion]
  /\ left' = IF tx.ask = NoVersion THEN left
             ELSE [left EXCEPT ![w] = IF Column(tx.ask) = NoVersion THEN Stored(w) ELSE NoVersion]
  /\ node' = IF arrives THEN Told(w, tx.ask) ELSE node
  /\ tx' = Idle
  /\ UNCHANGED <<rolls, stray, tried, parked>>

-----------------------------------------------------------------------------

BeginStep ==
  \/ \E t \in Targets : BeginStart(t)
  \/ BeginAbort \/ BeginResume \/ BeginTick
  \/ \E w \in Workers :
       \/ \E ask \in OperatorAsks : BeginUpdate(w, ask)
       \/ BeginBeat(w) \/ \E v \in Versions : BeginStray(w, v)

CommitStep ==
  /\ CommitStart \/ CommitWork \/ \E arrives \in BOOLEAN : CommitBeat(arrives)
  /\ UNCHANGED troubles

Awaits(w) == tx.job = "beat" /\ tx.awaited /\ tx.w = w

\* A process that is restarted waits for no reply.
StillAwaited(t) ==
  IF t.job = "beat" THEN [t EXCEPT !.awaited = @ /\ node'[t.w].up \in {"up", "draining"}] ELSE t

\* What goes on meanwhile, each in one step.
Expected ==
  \/ \E t \in Targets : StartRollout(t)
  \/ ResumeRollout
  \/ tx.job # "tick" /\ AdvanceRollout
  \/ \E i \in Ids : DeadlinePasses(i)
  \/ \E w \in Workers :
       \/ ~Awaits(w) /\ Heartbeat(w)
       \/ \E v \in Versions : StrayHandled(w, v)
       \/ Drained(w) \/ Boot(w) \/ Register(w) \/ GatePasses(w)

Unexpected ==
  \/ AbortRollout \/ RequestUpdates
  \/ \E w \in Workers :
       \/ RemoveWorker(w) \/ \E paused \in BOOLEAN : SetPaused(w, paused)
       \/ ~Awaits(w) /\ HeartbeatGivenUp(w)
       \/ Crash(w) \/ ContainerStops(w) \/ InstallFails(w)

Meanwhile ==
  /\ \/ Expected /\ UNCHANGED troubles
     \/ Unexpected /\ Trouble
  /\ left' = [w \in Workers |-> IF row'[w].ask = NoVersion THEN left[w] ELSE NoVersion]
  /\ tx' = StillAwaited(tx)

\* What the operator has been told of a rollout last: a resume, or an abort in some wave.
Resumed(i) ==
  \/ rolls[i].phase = "halted" /\ rolls'[i].phase = "running"
  \/ tx.job = "resume" /\ tx.id = i /\ tx' = Idle
Aborted(i) == rolls[i].phase # "aborted" /\ rolls'[i].phase = "aborted"
Answered ==
  stopped' = [i \in Ids |-> IF Resumed(i) THEN -1 ELSE IF Aborted(i) THEN rolls[i].wave ELSE stopped[i]]

RaceNext == (Meanwhile \/ BeginStep \/ CommitStep) /\ Answered

RaceSpec == RaceInit /\ [][RaceNext]_raceVars

-----------------------------------------------------------------------------
(* Properties, beside those of Rollout that need no atomic requests.         *)

\* An abort in the middle of a wave ends the rollout, unless it is resumed: whatever a tick that
\* read it before writes over the abort, the leader does not take the rollout up again, and at
\* most the one wave begins that this tick had decided on.
AbortHolds ==
  \A i \in Ids : stopped[i] # -1 =>
    rolls[i].phase \notin {"pending", "running"} /\ rolls[i].wave <= stopped[i] + 1

\* "pending -> running -> (done | halted -> running | aborted)" (db.py:138) does not hold: a tick
\* that read the rollout before writes the canary, "halted" or "done" over an abort, and a resume
\* writes "running".
AbortIsFinal == [][\A i \in Ids : rolls[i].phase = "aborted" => rolls'[i].phase = "aborted"]_raceVars

\* What has been read and is to be written has its type.
WorkShaped ==
  /\ DOMAIN tx.read \subseteq Workers /\ tx.ask \in Asks
  /\ IF tx.job = "update" THEN DOMAIN tx.cols = {} /\ tx.ask \in OperatorAsks ELSE tx.id \in Ids
  /\ DOMAIN tx.cols \subseteq {"phase", "wave", "members", "due"}
  /\ "phase" \in DOMAIN tx.cols => tx.cols.phase \in {"running", "halted", "done", "aborted"}
  /\ "wave" \in DOMAIN tx.cols => tx.cols.wave \in 0..2
  /\ "members" \in DOMAIN tx.cols => tx.cols.members \subseteq Workers
  /\ "due" \in DOMAIN tx.cols => tx.cols.due = FALSE

Beats == [job : {"beat"}, w : Workers, v : Versions, version : Versions,
          ask : Asks \cup {NoVersion}, awaited : BOOLEAN]

RaceTypeOK ==
  /\ TypeOK
  /\ left \in [Workers -> Versions \cup {NoVersion}]
  /\ tx.job \in {"idle", "start", "abort", "resume", "update", "tick", "beat"}
  /\ tx.job = "start" => tx.target \in Versions
  /\ tx.job \in {"abort", "resume", "update", "tick"} => WorkShaped
  /\ tx.job = "beat" => tx \in Beats

\* What makes the properties of Rollout inductive here.  A heartbeat under way brings a version
\* that came up, and whoever waits for its reply has not stopped since.
BeatHolds ==
  tx.job = "beat" =>
    tx.v \in tried[tx.w] /\ (tx.awaited => node[tx.w].up \in {"up", "draining"})

\* A release that is about to be stamped, or that a column still names, is where it may be.
Covered(w, t) ==
  t \in tried[w] \/ w \in parked \/ \E i \in Ids : rolls[i].target = t /\ w \in rolls[i].members
InHand(w, t) ==
  \/ left[w] = t
  \/ tx.job = "beat" /\ tx.w = w /\ tx.ask = t
  \/ tx.job = "resume" /\ w \in DOMAIN tx.read /\ tx.ask = t
InHandIsCovered == \A t \in Targets \ OperatorAsks, w \in Workers : InHand(w, t) => Covered(w, t)

\* The rollout that is written has been started and stamps its own release; only a tick
\* touches waves.
WorkHolds ==
  /\ tx.job \in {"abort", "resume", "tick"} =>
       rolls[tx.id].phase # "none" /\ tx.ask = rolls[tx.id].target
  /\ tx.job \in {"abort", "resume"} =>
       /\ "phase" \in DOMAIN tx.cols /\ tx.cols.phase \in {"running", "aborted"}
       /\ DOMAIN tx.cols \subseteq {"phase", "due"}
  /\ tx.job = "abort" => DOMAIN tx.read = {} /\ tx.cols.phase = "aborted"

\* What a tick found still holds when it commits: nobody is pending in the wave that it ends,
\* nobody is left out of the wave that it begins if that is the last, nobody is left when it
\* finishes, and the phase is written only over that of a rollout without a wave.
TickHolds ==
  tx.job = "tick" =>
    LET r == rolls[tx.id]
        s == Merged(r, tx.cols)
        Through(w) == r.target \in tried[w] \/ w \in parked
    IN /\ s.phase \notin {"none", "pending"}
       /\ DOMAIN tx.read \subseteq s.members
       /\ \A w \in r.members : w \in s.members \/ Through(w)
       /\ s.phase = "done" => \A w \in Workers : Through(w)
       /\ s.wave = 2 => \A w \in Workers : w \in s.members \/ Through(w)
       /\ "phase" \in DOMAIN tx.cols /\ tx.cols.phase = "running" => r.wave = -1

TxInv == BeatHolds /\ InHandIsCovered /\ WorkHolds /\ TickHolds
RaceInv == WaveInv /\ ForgetInv /\ TxInv

\* A tick begins the next wave.  One that is under way when a rollout is stopped is the last.
StopInv ==
  /\ stopped \in [Ids -> -1..2]
  /\ tx.job = "tick" /\ "wave" \in DOMAIN tx.cols => tx.cols.wave = rolls[tx.id].wave + 1
  /\ \A i \in Ids : stopped[i] # -1 =>
       /\ rolls[i].phase \in {"halted", "done", "aborted"}
       /\ rolls[i].wave = stopped[i] \/ rolls[i].wave = stopped[i] + 1
       /\ tx.job = "tick" /\ tx.id = i /\ "wave" \in DOMAIN tx.cols => rolls[i].wave = stopped[i]
=============================================================================
