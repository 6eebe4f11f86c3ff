------------------------- MODULE WorkerRuntimeProofs -------------------------
(***************************************************************************)
(* Proofs about WorkerRuntime: the inductive invariant of a worker process,  *)
(* and what follows from it.                                                 *)
(***************************************************************************)
EXTENDS WorkerRuntime, FiniteSetTheorems, TLAPS

IInv == TypeOK /\ RuntimeInv

-----------------------------------------------------------------------------
(* Stages, finite sets, numbers for new tasks, permits.                      *)

LEMMA SectionNames ==
  /\ Active["download"] = "downloading" /\ Active["process"] = "processing" /\ Active["upload"] = "uploading"
  /\ Waiting["download"] = "pending_download" /\ Waiting["process"] = "pending_processing"
  /\ Waiting["upload"] = "pending_upload"
  BY DEF Active, Waiting

LEMMA StageNames ==
  Stages = {"pending_download", "pending_processing", "pending_upload", "downloading", "processing", "uploading"}
<1>1. DOMAIN Waiting = Sections /\ DOMAIN Active = Sections  BY DEF Waiting, Active, Sections
<1>2. Range(Waiting) = {Waiting[s] : s \in Sections}  BY <1>1 DEF Range
<1>3. Range(Active) = {Active[s] : s \in Sections}  BY <1>1 DEF Range
<1>4. Range(Waiting) = {"pending_download", "pending_processing", "pending_upload"}
  BY <1>2, SectionNames DEF Sections
<1>5. Range(Active) = {"downloading", "processing", "uploading"}  BY <1>3, SectionNames DEF Sections
<1> QED BY <1>4, <1>5 DEF Stages

LEMMA FollowingNames ==
  /\ DOMAIN Following = {"downloading", "processing"}
  /\ Following["downloading"] = "pending_processing" /\ Following["processing"] = "pending_upload"
  BY DEF Following

LEMMA EmptyFunction == DOMAIN Empty = {}  BY DEF Empty

LEMMA Finite ==
  ASSUME TypeOK
  PROVE  /\ IsFiniteSet(DOMAIN entry) /\ Cardinality(DOMAIN entry) \in Nat
         /\ IsFiniteSet(DOMAIN task) /\ Cardinality(DOMAIN task) \in Nat
         /\ IsFiniteSet(FreeTasks)
<1>1. IsFiniteSet(Granules) /\ Tasks \in Nat  BY GranulesAssumption, LimitsAssumption
<1>2. IsFiniteSet(1..Tasks)  BY <1>1, FS_Interval
<1>3. IsFiniteSet(DOMAIN entry)  BY <1>1, FS_Subset DEF TypeOK, TaskTypeOK
<1>4. IsFiniteSet(DOMAIN task)  BY <1>2, FS_Subset DEF TypeOK, TaskTypeOK
<1>5. IsFiniteSet(FreeTasks)  BY <1>2, FS_Subset DEF FreeTasks
<1> QED BY <1>3, <1>4, <1>5, FS_CardinalityType

\* There are numbers for the tasks of a reply.
LEMMA Numbers ==
  ASSUME NEW S, NEW F, IsFiniteSet(S), IsFiniteSet(F), Cardinality(S) <= Cardinality(F)
  PROVE  \E f \in [S -> F] : IsInjective(f)
<1>1. ExistsBijection(1..Cardinality(S), S) /\ Cardinality(S) \in Nat  BY FS_CardinalityType
<1>2. ExistsBijection(1..Cardinality(F), F) /\ Cardinality(F) \in Nat  BY FS_CardinalityType
<1>3. PICK a : a \in Bijection(1..Cardinality(S), S)  BY <1>1 DEF ExistsBijection
<1>4. PICK b : b \in Bijection(1..Cardinality(F), F)  BY <1>2 DEF ExistsBijection
<1>5. /\ \A i \in 1..Cardinality(F) : b[i] \in F
      /\ \A i, j \in 1..Cardinality(F) : b[i] = b[j] => i = j
  BY <1>4 DEF Bijection, Injection, IsInjective
<1>6. \A s \in S : \E i \in 1..Cardinality(S) : a[i] = s  BY <1>3 DEF Bijection, Surjection
<1> DEFINE num(s) == CHOOSE i \in 1..Cardinality(S) : a[i] = s
           f == [s \in S |-> b[num(s)]]
<1>7. \A s \in S : num(s) \in 1..Cardinality(S) /\ a[num(s)] = s  BY <1>6
<1> HIDE DEF num
<1>8. \A s \in S : num(s) \in 1..Cardinality(F)  BY <1>1, <1>2, <1>7
<1>9. f \in [S -> F]  BY <1>5, <1>8
<1>10. \A s, r \in S : f[s] = f[r] => s = r  BY <1>5, <1>7, <1>8
<1>11. IsInjective(f)  BY <1>10 DEF IsInjective
<1> QED BY <1>9, <1>11

LEMMA Numbered ==
  ASSUME TypeOK, NEW S \in SUBSET Granules, Cardinality(S) <= Cardinality(FreeTasks)
  PROVE  /\ NumberOf(S) \in [S -> FreeTasks]
         /\ \A g, h \in S : NumberOf(S)[g] = NumberOf(S)[h] => g = h
<1>1. IsFiniteSet(S)  BY GranulesAssumption, FS_Subset
<1>2. \E f \in [S -> FreeTasks] : IsInjective(f)  BY <1>1, Finite, Numbers
<1>3. NumberOf(S) \in [S -> FreeTasks] /\ IsInjective(NumberOf(S))  BY <1>2 DEF NumberOf
<1> QED BY <1>3 DEF IsInjective

-----------------------------------------------------------------------------
(* What a step leaves alone.                                                 *)

\* Whoever leaves tasks, entries and semaphores alone keeps what is about them.
LEMMA TasksStay ==
  ASSUME IInv, UNCHANGED <<task, entry, permits, live, relapsed, overdue>>
  PROVE  TaskTypeOK' /\ EntriesFit' /\ TasksTracked' /\ PermitsAdd' /\ OthersAwaited'
<1>1. TaskTypeOK'  BY DEF IInv, TypeOK, TaskTypeOK
<1>2. EntriesFit' /\ TasksTracked' /\ OthersAwaited'
  BY DEF IInv, RuntimeInv, EntriesFit, TasksTracked, OthersAwaited
<1>3. PermitsAdd'  BY DEF IInv, RuntimeInv, PermitsAdd, Within
<1> QED BY <1>1, <1>2, <1>3

LEMMA SleepStays ==
  ASSUME NoLostWakeup, UNCHANGED <<entry, slotFree>>, pipe'.ceiling = pipe.ceiling
  PROVE  NoLostWakeup'
  BY DEF NoLostWakeup

LEMMA Awake ==
  ASSUME TypeOK', pipe'.ceiling = 0
  PROVE  NoLostWakeup'
<1>1. IsFiniteSet(DOMAIN entry')  BY GranulesAssumption, FS_Subset DEF TypeOK, TaskTypeOK
<1>2. Cardinality(DOMAIN entry') \in Nat  BY <1>1, FS_CardinalityType
<1> QED BY <1>2 DEF NoLostWakeup

LEMMA WorkStays == ASSUME UNCHANGED <<task, owed>> PROVE Worked' = Worked  BY DEF Worked

\* No lease and no work comes, and what the report may miss stays young.
LEMMA ReportStays ==
  ASSUME ReportCovers, Held' \ young' \subseteq Held \ young, Worked' \subseteq Worked,
         relapsed \subseteq relapsed', beat' = beat
  PROVE  ReportCovers'
  BY DEF ReportCovers

LEMMA ReplyStays == ASSUME ReplyShaped, UNCHANGED <<pipe, young>> PROVE ReplyShaped'  BY DEF ReplyShaped

LEMMA AccountStays ==
  ASSUME HeldIsAccounted, Held' \subseteq Held, Worked \subseteq Worked', pipe' = pipe,
         Held' \cap orphan \subseteq orphan'
  PROVE  HeldIsAccounted'
  BY DEF HeldIsAccounted

-----------------------------------------------------------------------------
(* Steps of the orchestrator.                                                *)

\* Leases go, and what goes is not an orphan.
LEMMA LeasesGo ==
  ASSUME IInv, lease' \in [Granules -> {"pending", "held", "off"}],
         \A g \in Granules : lease'[g] = "held" => lease[g] = "held",
         orphan' \subseteq orphan, \A g \in orphan \ orphan' : lease'[g] # "held",
         worker' \in {"absent", "active", "paused", "removed"}, up' \in BOOLEAN, wanted' \in Settings,
         trouble' \in 0..MaxTrouble, owed' = owed, beat' = beat,
         UNCHANGED <<young, taskVars, live, target, pipe, paused, draining>>
  PROVE  IInv'
<1>1. TaskTypeOK' /\ EntriesFit' /\ TasksTracked' /\ PermitsAdd' /\ OthersAwaited'
  BY TasksStay DEF taskVars
<1>2. TypeOK'  BY <1>1 DEF IInv, TypeOK, taskVars
<1>3. Held' \subseteq Held /\ Worked' = Worked  BY WorkStays DEF Held, taskVars
<1>4. NoLostWakeup' /\ ReplyShaped' BY SleepStays, ReplyStays DEF IInv, RuntimeInv, taskVars
<1>5. ReportCovers'  BY <1>3, ReportStays DEF IInv, RuntimeInv, taskVars
<1>6. Held' \cap orphan \subseteq orphan'  BY DEF Held
<1>7. HeldIsAccounted'  BY <1>3, <1>6, AccountStays DEF IInv, RuntimeInv
<1> QED BY <1>1, <1>2, <1>4, <1>5, <1>7 DEF IInv, RuntimeInv

LEMMA Troubled == ASSUME TypeOK, NEW k, Trouble(k) PROVE trouble' \in 0..MaxTrouble
  BY LimitsAssumption DEF TypeOK, Trouble

LEMMA BootKeeps == ASSUME IInv, Boot PROVE IInv'
<1>1. lease' \in [Granules -> {"pending", "held", "off"}] /\ \A g \in Granules : lease'[g] = "held" => lease[g] = "held"
  BY DEF Boot, IInv, TypeOK
<1>2. orphan' \subseteq orphan /\ \A g \in orphan \ orphan' : lease'[g] # "held"
  BY DEF Boot, IInv, TypeOK
<1>3. worker' \in {"absent", "active", "paused", "removed"} /\ up' \in BOOLEAN  BY DEF Boot, IInv, TypeOK
<1> QED BY <1>1, <1>2, <1>3, LeasesGo DEF Boot, IInv, TypeOK

LEMMA LeaseLapsesKeeps == ASSUME IInv, NEW g \in Granules, LeaseLapses(g) PROVE IInv'
<1>1. lease' \in [Granules -> {"pending", "held", "off"}] /\ lease'[g] # "held"
      /\ \A h \in Granules : lease'[h] = "held" => lease[h] = "held"
  BY DEF LeaseLapses, IInv, TypeOK
<1> QED BY <1>1, LeasesGo, Troubled DEF LeaseLapses, IInv, TypeOK, loopVars

LEMMA AgainKeeps == ASSUME IInv, NEW g \in Granules, Again(g) PROVE IInv'
<1>1. lease' \in [Granules -> {"pending", "held", "off"}]
      /\ \A h \in Granules : lease'[h] = "held" => lease[h] = "held"
  BY DEF Again, IInv, TypeOK
<1> QED BY <1>1, LeasesGo, Troubled DEF Again, IInv, TypeOK, loopVars

LEMMA LeaseExpiresKeeps == ASSUME IInv, NEW g \in Granules, LeaseExpires(g) PROVE IInv'
<1>1. lease' \in [Granules -> {"pending", "held", "off"}] /\ lease'[g] # "held"
      /\ \A h \in Granules : lease'[h] = "held" => lease[h] = "held"
  BY DEF LeaseExpires, IInv, TypeOK
<1> QED BY <1>1, LeasesGo DEF LeaseExpires, IInv, TypeOK, loopVars

LEMMA OperatorKeeps == ASSUME IInv, PauseOrResume \/ Remove \/ Purge \/ SetWanted PROVE IInv'
<1>1. CASE PauseOrResume
  BY <1>1, LeasesGo, Troubled DEF PauseOrResume, IInv, TypeOK, loopVars
<1>2. CASE Remove
  <2>1. lease' \in [Granules -> {"pending", "held", "off"}] /\ \A g \in Granules : lease'[g] = "held" => lease[g] = "held"
    BY <1>2 DEF Remove, IInv, TypeOK
  <2>2. orphan' \subseteq orphan /\ \A g \in orphan \ orphan' : lease'[g] # "held"
    BY <1>2 DEF Remove, IInv, TypeOK
  <2> QED BY <1>2, <2>1, <2>2, LeasesGo, Troubled DEF Remove, IInv, TypeOK, loopVars
<1>3. CASE Purge
  BY <1>3, LeasesGo, LimitsAssumption DEF Purge, IInv, TypeOK, loopVars
<1>4. CASE SetWanted
  BY <1>4, LeasesGo, Troubled DEF SetWanted, IInv, TypeOK, loopVars
<1> QED BY <1>1, <1>2, <1>3, <1>4

LEMMA GraceElapsesKeeps == ASSUME IInv, NEW g \in Granules, GraceElapses(g) PROVE IInv'
<1>1. /\ g \notin pipe.items /\ beat.at # "sent" /\ young' = young \ {g}
      /\ UNCHANGED <<lease, worker, wanted, taskVars, loopVars, owed, orphan, trouble>>
  BY DEF GraceElapses
<1>2. TaskTypeOK' /\ EntriesFit' /\ TasksTracked' /\ PermitsAdd' /\ OthersAwaited'
  BY <1>1, TasksStay DEF taskVars, loopVars
<1>3. TypeOK'  BY <1>1, <1>2 DEF IInv, TypeOK, taskVars, loopVars
<1>4. ReplyShaped' /\ ReportCovers'  BY <1>1 DEF IInv, RuntimeInv, ReplyShaped, ReportCovers, loopVars
<1>5. NoLostWakeup'  BY <1>1, SleepStays DEF IInv, RuntimeInv, loopVars, taskVars
<1>6. HeldIsAccounted'
  BY <1>1, WorkStays, AccountStays DEF IInv, RuntimeInv, Held, loopVars, taskVars
<1> QED BY <1>2, <1>3, <1>4, <1>5, <1>6 DEF IInv, RuntimeInv

LEMMA DeliverKeeps == ASSUME IInv, NEW g \in Granules, NEW again \in BOOLEAN, Deliver(g, again) PROVE IInv'
<1>1. /\ lease' = [lease EXCEPT ![g] = IF @ = "held" THEN "off" ELSE @]
      /\ owed' \in {owed, owed \ {g}} /\ orphan' = orphan \ {g}
      /\ UNCHANGED <<young, worker, wanted, taskVars, loopVars>>
  BY DEF Deliver
<1>2. trouble' \in 0..MaxTrouble  BY Troubled DEF Deliver, IInv, TypeOK
<1>3. TaskTypeOK' /\ EntriesFit' /\ TasksTracked' /\ PermitsAdd' /\ OthersAwaited'
  BY <1>1, TasksStay DEF taskVars, loopVars
<1>4. TypeOK'  BY <1>1, <1>2, <1>3 DEF IInv, TypeOK, taskVars, loopVars
<1>5. Held' = Held \ {g}  BY <1>1 DEF Held, IInv, TypeOK
<1>6. Worked' \subseteq Worked /\ Worked \ {g} \subseteq Worked'  BY <1>1 DEF Worked, taskVars
<1>7. ReplyShaped' /\ ReportCovers'
  BY <1>1, <1>5, <1>6, ReplyStays, ReportStays DEF IInv, RuntimeInv, loopVars, taskVars
<1>8. NoLostWakeup'  BY <1>1, SleepStays DEF IInv, RuntimeInv, loopVars, taskVars
<1>9. HeldIsAccounted'
  BY <1>1, <1>5, <1>6 DEF IInv, RuntimeInv, HeldIsAccounted, loopVars
<1> QED BY <1>3, <1>4, <1>7, <1>8, <1>9 DEF IInv, RuntimeInv

-----------------------------------------------------------------------------
(* The pipeline loop.                                                        *)

\* The loop's own steps change what it waits for, and no task.
LEMMA PollKeeps == ASSUME IInv, Poll PROVE IInv'
<1> DEFINE free == Ceiling - Cardinality(DOMAIN entry)
<1>1. /\ pipe.at = "loop" /\ slotFree' = FALSE
      /\ pipe' = IF free <= 0 THEN [Idle EXCEPT !.ceiling = Ceiling]
                 ELSE IF Gated THEN Idle
                 ELSE [Idle EXCEPT !.at = "asking", !.room = free]
      /\ UNCHANGED <<orchVars, task, entry, permits, relapsed, overdue,
                     up, live, target, beat, paused, draining, owed, orphan, trouble>>
  BY DEF Poll
<1>2. Ceiling \in Nat  BY LimitsAssumption DEF Ceiling, IInv, TypeOK, TaskTypeOK
<1>3. Cardinality(DOMAIN entry) \in Nat  BY Finite DEF IInv
<1> HIDE DEF Ceiling
<1>4. pipe' \in [at : {"loop", "asking", "answered"}, room : Nat, ceiling : Nat, items : SUBSET Granules]
      /\ pipe'.items = {} /\ pipe'.ceiling <= Cardinality(DOMAIN entry) /\ pipe'.at # "answered"
  <2>1. free \in Int /\ (free <= 0 => Ceiling <= Cardinality(DOMAIN entry)) /\ (free > 0 => free \in Nat)
    BY <1>2, <1>3
  <2> HIDE DEF free
  <2>3. CASE free <= 0
    <3>1. pipe' = [Idle EXCEPT !.ceiling = Ceiling]  BY <1>1, <2>3
    <3> QED BY <1>2, <2>1, <2>3, <3>1 DEF Idle
  <2>4. CASE free > 0
    <3>1. pipe' = Idle \/ pipe' = [Idle EXCEPT !.at = "asking", !.room = free]  BY <1>1, <2>1, <2>4
    <3>2. pipe' = Idle \/ pipe' = [at |-> "asking", room |-> free, ceiling |-> 0, items |-> {}]
      BY <3>1 DEF Idle
    <3>3. CASE pipe' = Idle
      BY <1>3, <3>3 DEF Idle
    <3>4. CASE pipe' = [at |-> "asking", room |-> free, ceiling |-> 0, items |-> {}]
      BY <1>3, <2>1, <2>4, <3>4
    <3> QED BY <3>2, <3>3, <3>4
  <2> QED BY <2>1, <2>3, <2>4
<1>5. TaskTypeOK' /\ EntriesFit' /\ TasksTracked' /\ PermitsAdd' /\ OthersAwaited'
  BY <1>1, TasksStay
<1>6. TypeOK'  BY <1>1, <1>4, <1>5 DEF IInv, TypeOK, orchVars
<1>7. ReplyShaped'  BY <1>4 DEF ReplyShaped
<1>8. Held' = Held /\ Worked' = Worked  BY <1>1, WorkStays DEF Held, orchVars
<1>9. ReportCovers'  BY <1>1, <1>8, ReportStays DEF IInv, RuntimeInv, orchVars
<1>10. NoLostWakeup'
  <2>1. pipe'.ceiling \in Nat  BY <1>4
  <2>2. entry' = entry  BY <1>1
  <2> QED BY <2>1, <2>2, <1>3, <1>4 DEF NoLostWakeup
<1>11. HeldIsAccounted'
  BY <1>1, <1>8 DEF IInv, RuntimeInv, HeldIsAccounted, ReplyShaped
<1> QED BY <1>5, <1>6, <1>7, <1>9, <1>10, <1>11 DEF IInv, RuntimeInv

LEMMA LeaseKeeps == ASSUME IInv, Lease PROVE IInv'
<1>1. PICK S \in SUBSET {g \in Granules : lease[g] = "pending"} :
        /\ lease' = [g \in Granules |-> IF g \in S THEN "held" ELSE lease[g]]
        /\ young' = young \cup S /\ orphan' = orphan \ S
        /\ pipe' = IF S = {} THEN Idle ELSE [Idle EXCEPT !.at = "answered", !.items = S]
  BY DEF Lease
<1>2. pipe.at = "asking" /\ UNCHANGED <<worker, wanted, taskVars, up, live, target, beat, paused, draining, owed, trouble>>
  BY DEF Lease
<1>3. pipe' \in [at : {"loop", "asking", "answered"}, room : Nat, ceiling : Nat, items : SUBSET Granules]
      /\ pipe'.items = S /\ pipe'.ceiling = 0 /\ (pipe'.at # "answered" => S = {})
  BY <1>1 DEF Idle
<1>4. TaskTypeOK' /\ EntriesFit' /\ TasksTracked' /\ PermitsAdd' /\ OthersAwaited'
  BY <1>2, TasksStay DEF taskVars
<1>5. TypeOK'  BY <1>1, <1>2, <1>3, <1>4 DEF IInv, TypeOK, taskVars
<1>6. ReplyShaped'  BY <1>1, <1>3 DEF ReplyShaped
<1>7. Held' = Held \cup S /\ Worked' = Worked  BY <1>1, <1>2, WorkStays DEF Held, taskVars, IInv, TypeOK
<1>8. ReportCovers'  BY <1>1, <1>2, <1>7, ReportStays DEF IInv, RuntimeInv, taskVars
<1>9. NoLostWakeup'  BY <1>3, <1>5, Awake
<1>10. HeldIsAccounted'
  BY <1>1, <1>2, <1>3, <1>7 DEF IInv, RuntimeInv, HeldIsAccounted, ReplyShaped
<1> QED BY <1>4, <1>5, <1>6, <1>8, <1>9, <1>10 DEF IInv, RuntimeInv

LEMMA LeaseReplyLostKeeps == ASSUME IInv, LeaseReplyLost PROVE IInv'
<1>1. /\ pipe' = Idle /\ Trouble("reply")
      /\ orphan' = orphan \cup {g \in pipe.items \ Worked : lease[g] = "held"}
      /\ UNCHANGED <<orchVars, taskVars, up, live, target, beat, paused, draining, owed>>
  BY DEF LeaseReplyLost
<1>2. pipe' \in [at : {"loop", "asking", "answered"}, room : Nat, ceiling : Nat, items : SUBSET Granules]
      /\ pipe'.items = {} /\ pipe'.ceiling = 0
  BY <1>1 DEF Idle
<1>3. TaskTypeOK' /\ EntriesFit' /\ TasksTracked' /\ PermitsAdd' /\ OthersAwaited'
  BY <1>1, TasksStay DEF taskVars
<1>4. TypeOK'  BY <1>1, <1>2, <1>3, Troubled DEF IInv, TypeOK, taskVars, orchVars
<1>5. ReplyShaped'  BY <1>2 DEF ReplyShaped
<1>6. Held' = Held /\ Worked' = Worked  BY <1>1, WorkStays DEF Held, taskVars, orchVars
<1>7. ReportCovers'  BY <1>1, <1>6, ReportStays DEF IInv, RuntimeInv, taskVars, orchVars
<1>8. NoLostWakeup'  BY <1>2, <1>4, Awake
<1>9. HeldIsAccounted'
  BY <1>1, <1>6 DEF IInv, RuntimeInv, HeldIsAccounted, Held
<1> QED BY <1>3, <1>4, <1>5, <1>7, <1>8, <1>9 DEF IInv, RuntimeInv

-----------------------------------------------------------------------------
(* The heartbeat, and the drain's start.                                     *)

\* Work that nobody cancelled has an entry.
LEMMA WorkReported == ASSUME IInv PROVE Worked \subseteq ActiveGranules \cup relapsed
  BY DEF IInv, RuntimeInv, TasksTracked, Worked, ActiveGranules

LEMMA StartDrainKeeps == ASSUME IInv, StartDrain PROVE IInv'
<1>1. /\ draining' = TRUE /\ Trouble("drain")
      /\ UNCHANGED <<orchVars, taskVars, up, live, target, pipe, beat, paused, owed, orphan>>
  BY DEF StartDrain
<1>2. TaskTypeOK' /\ EntriesFit' /\ TasksTracked' /\ PermitsAdd' /\ OthersAwaited'
  BY <1>1, TasksStay DEF taskVars
<1>3. TypeOK'  BY <1>1, <1>2, Troubled DEF IInv, TypeOK, taskVars, orchVars
<1>4. Held' = Held /\ Worked' = Worked  BY <1>1, WorkStays DEF Held, taskVars, orchVars
<1>5. ReplyShaped' /\ ReportCovers' /\ NoLostWakeup' /\ HeldIsAccounted'
  BY <1>1, <1>4, ReplyStays, ReportStays, SleepStays, AccountStays DEF IInv, RuntimeInv, taskVars, orchVars
<1> QED BY <1>2, <1>3, <1>5 DEF IInv, RuntimeInv

\* The heartbeat's own steps: leases go, and a report that is sent covers the work.
LEMMA BeatMoves ==
  ASSUME IInv, lease' \in [Granules -> {"pending", "held", "off"}],
         \A g \in Granules : lease'[g] = "held" => lease[g] = "held",
         orphan' \subseteq orphan, \A g \in orphan \ orphan' : lease'[g] # "held",
         worker' \in {"absent", "active", "paused", "removed"}, trouble' \in 0..MaxTrouble,
         beat' \in [at : {"none", "sent", "answered"}, active : SUBSET Granules, revoked : SUBSET Granules],
         beat'.at = "sent" => beat'.active = ActiveGranules,
         UNCHANGED <<young, wanted, taskVars, up, live, target, pipe, paused, draining, owed>>
  PROVE  IInv'
<1>1. TaskTypeOK' /\ EntriesFit' /\ TasksTracked' /\ PermitsAdd' /\ OthersAwaited'
  BY TasksStay DEF taskVars
<1>2. TypeOK'  BY <1>1 DEF IInv, TypeOK, taskVars
<1>3. Held' \subseteq Held /\ Worked' = Worked  BY WorkStays DEF Held, taskVars
<1>4. NoLostWakeup' /\ ReplyShaped' BY SleepStays, ReplyStays DEF IInv, RuntimeInv, taskVars
<1>5. ReportCovers'  BY <1>3, WorkReported DEF ReportCovers, taskVars
<1>6. Held' \cap orphan \subseteq orphan'  BY DEF Held
<1>7. HeldIsAccounted'  BY <1>3, <1>6, AccountStays DEF IInv, RuntimeInv
<1> QED BY <1>1, <1>2, <1>4, <1>5, <1>7 DEF IInv, RuntimeInv

LEMMA SendBeatKeeps == ASSUME IInv, SendBeat PROVE IInv'
<1>1. ActiveGranules \subseteq Granules  BY DEF ActiveGranules, IInv, TypeOK, TaskTypeOK
<1> HIDE DEF ActiveGranules
<1>2. beat' \in [at : {"none", "sent", "answered"}, active : SUBSET Granules, revoked : SUBSET Granules]
      /\ beat'.active = ActiveGranules
  BY <1>1 DEF SendBeat, NoBeat
<1> QED BY <1>2, BeatMoves DEF SendBeat, IInv, TypeOK, orchVars

LEMMA HandleBeatKeeps == ASSUME IInv, HandleBeat PROVE IInv'
<1>1. /\ lease' = [g \in Granules |-> IF g \in Inactive THEN "pending" ELSE lease[g]]
      /\ orphan' = orphan \ Inactive
      /\ beat' = [beat EXCEPT !.at = "answered", !.revoked = beat.active \ Held]
      /\ UNCHANGED <<young, worker, wanted, taskVars, up, live, target, pipe, paused, draining, owed, trouble>>
  BY DEF HandleBeat
<1>2. beat' \in [at : {"none", "sent", "answered"}, active : SUBSET Granules, revoked : SUBSET Granules]
      /\ beat'.at = "answered"
  BY <1>1 DEF IInv, TypeOK
<1>3. lease' \in [Granules -> {"pending", "held", "off"}] /\ \A g \in Granules : lease'[g] = "held" => lease[g] = "held"
  BY <1>1 DEF IInv, TypeOK
<1>4. orphan' \subseteq orphan /\ \A g \in orphan \ orphan' : lease'[g] # "held"
  BY <1>1 DEF IInv, TypeOK
<1> QED BY <1>1, <1>2, <1>3, <1>4, BeatMoves DEF IInv, TypeOK

LEMMA BeatLostKeeps == ASSUME IInv, HandleBeatUnknown \/ LoseBeat PROVE IInv'
<1>1. NoBeat \in [at : {"none", "sent", "answered"}, active : SUBSET Granules, revoked : SUBSET Granules]
      /\ NoBeat.at = "none"
  BY DEF NoBeat
<1>2. CASE HandleBeatUnknown
  BY <1>1, <1>2, BeatMoves DEF HandleBeatUnknown, IInv, TypeOK
<1>3. CASE LoseBeat
  BY <1>1, <1>3, BeatMoves, Troubled DEF LoseBeat, IInv, TypeOK, orchVars
<1> QED BY <1>2, <1>3

-----------------------------------------------------------------------------
(* The process starts afresh.                                                *)

LEMMA IdleType ==
  /\ Idle \in [at : {"loop", "asking", "answered"}, room : Nat, ceiling : Nat, items : SUBSET Granules]
  /\ NoBeat \in [at : {"none", "sent", "answered"}, active : SUBSET Granules, revoked : SUBSET Granules]
  /\ Idle.at = "loop" /\ Idle.items = {} /\ Idle.ceiling = 0 /\ NoBeat.at = "none"
  BY DEF Idle, NoBeat

LEMMA FreshPermits ==
  ASSUME NEW s \in Settings
  PROVE  /\ NewPermits(s) \in [Sections -> Nat]
         /\ NewPermits(s)["download"] = s.download /\ NewPermits(s)["process"] = s.process
         /\ s["download"] = s.download /\ s["process"] = s.process
         /\ s["download"] \in Nat /\ s["process"] \in Nat
<1>1. s.download \in Nat /\ s.process \in Nat /\ Uploads \in Nat  BY LimitsAssumption
<1>2. NewPermits(s)["download"] = s.download /\ NewPermits(s)["process"] = s.process
      /\ NewPermits(s)["upload"] = Uploads
  BY DEF NewPermits
<1>3. NewPermits(s) = [x \in Sections |-> NewPermits(s)[x]]
  BY DEF NewPermits, Sections
<1>4. \A x \in Sections : NewPermits(s)[x] \in Nat  BY <1>1, <1>2 DEF Sections
<1> QED BY <1>1, <1>2, <1>3, <1>4

LEMMA NoneWithin == ASSUME task = Empty, NEW x PROVE Cardinality(Within(x)) = 0
<1>1. Within(x) = {}  BY EmptyFunction DEF Within
<1> QED BY <1>1, FS_EmptySet

Fresh ==
  /\ task = Empty /\ entry = Empty
  /\ permits = <<NewPermits(Configured)>> /\ live = Configured
LEMMA FreshTasks ==
  Fresh => TaskTypeOK /\ EntriesFit /\ TasksTracked /\ PermitsAdd /\ OthersAwaited
<1> SUFFICES ASSUME Fresh
             PROVE  TaskTypeOK /\ EntriesFit /\ TasksTracked /\ PermitsAdd /\ OthersAwaited
  OBVIOUS
<1> USE DEF Fresh
<1>1. DOMAIN task = {} /\ DOMAIN entry = {}  BY EmptyFunction
<1>2. NewPermits(Configured) \in [Sections -> Nat]
      /\ \A s \in {"download", "process"} : NewPermits(Configured)[s] = Configured[s]
      /\ Configured["download"] \in Nat /\ Configured["process"] \in Nat
  BY FreshPermits, LimitsAssumption
<1>3. permits \in Seq([Sections -> Nat]) /\ Len(permits) = 1 /\ permits[1] = NewPermits(Configured)
  BY <1>2
<1>4. TaskTypeOK  BY <1>1, <1>3, LimitsAssumption DEF TaskTypeOK
<1>5. EntriesFit /\ TasksTracked /\ OthersAwaited  BY <1>1 DEF EntriesFit, TasksTracked, OthersAwaited
<1>6. PermitsAdd  BY <1>2, <1>3, NoneWithin DEF PermitsAdd
<1> QED BY <1>4, <1>5, <1>6

LEMMA InitKeeps == Init => IInv
<1> SUFFICES ASSUME Init PROVE IInv  OBVIOUS
<1>1. TaskTypeOK /\ EntriesFit /\ TasksTracked /\ PermitsAdd /\ OthersAwaited  BY FreshTasks DEF Init, Fresh
<1>2. TypeOK
  <2>1. pipe \in [at : {"loop", "asking", "answered"}, room : Nat, ceiling : Nat, items : SUBSET Granules]
    BY IdleType DEF Init
  <2>2. beat \in [at : {"none", "sent", "answered"}, active : SUBSET Granules, revoked : SUBSET Granules]
    BY IdleType DEF Init
  <2>3. target \subseteq Settings /\ Cardinality(target) <= 1  BY FS_EmptySet DEF Init
  <2>4. trouble \in 0..MaxTrouble  BY LimitsAssumption DEF Init
  <2> QED BY <1>1, <2>1, <2>2, <2>3, <2>4, LimitsAssumption DEF Init, TypeOK
<1>3. ReplyShaped /\ ReportCovers  BY DEF Init, ReplyShaped, ReportCovers, Idle, NoBeat
<1>4. Cardinality(DOMAIN entry) = 0 /\ pipe.ceiling = 0  BY EmptyFunction, FS_EmptySet DEF Init, Idle
<1>5. NoLostWakeup  BY <1>4 DEF NoLostWakeup
<1>6. HeldIsAccounted  BY DEF Init, HeldIsAccounted, Held
<1> QED BY <1>1, <1>2, <1>3, <1>5, <1>6 DEF IInv, RuntimeInv

\* The process is gone: the leases it has not reported on are orphans.
LEMMA GoneKeeps ==
  ASSUME IInv, NEW landed \in SUBSET owed, Gone(landed),
         worker' \in {"absent", "active", "paused", "removed"}, trouble' \in 0..MaxTrouble
  PROVE  IInv'
<1>1. /\ up' = FALSE /\ task' = Empty /\ entry' = Empty
      /\ permits' = <<NewPermits(Configured)>> /\ live' = Configured /\ target' = {}
      /\ pipe' = Idle /\ slotFree' = FALSE /\ beat' = NoBeat
      /\ paused' = FALSE /\ draining' = FALSE /\ owed' = {}
      /\ relapsed' = {} /\ overdue' = FALSE
      /\ UNCHANGED <<young, wanted>>
  BY DEF Gone
<1>2. lease' \in [Granules -> {"pending", "held", "off"}] /\ Held' \subseteq Held \ landed
      /\ orphan' = Held \ landed
  BY DEF Gone, IInv, TypeOK, Held
<1>3. TaskTypeOK' /\ EntriesFit' /\ TasksTracked' /\ PermitsAdd' /\ OthersAwaited'
  <2>1. Fresh'  BY <1>1 DEF Fresh
  <2> QED BY <2>1, FreshTasks, PTL
<1>4. TypeOK'
  <2>1. pipe' \in [at : {"loop", "asking", "answered"}, room : Nat, ceiling : Nat, items : SUBSET Granules]
    BY <1>1, IdleType
  <2>2. beat' \in [at : {"none", "sent", "answered"}, active : SUBSET Granules, revoked : SUBSET Granules]
    BY <1>1, IdleType
  <2>3. target' \subseteq Settings /\ Cardinality(target') <= 1  BY <1>1, FS_EmptySet
  <2>4. orphan' \subseteq Granules  BY <1>2 DEF Held
  <2> QED BY <1>1, <1>2, <1>3, <2>1, <2>2, <2>3, <2>4 DEF IInv, TypeOK
<1>5. ReplyShaped' /\ ReportCovers'  BY <1>1, IdleType DEF ReplyShaped, ReportCovers
<1>6. NoLostWakeup'  BY <1>1, <1>4, IdleType, Awake
<1>7. HeldIsAccounted'  BY <1>2 DEF HeldIsAccounted
<1> QED BY <1>3, <1>4, <1>5, <1>6, <1>7 DEF IInv, RuntimeInv

LEMMA EndingKeeps ==
  ASSUME IInv, Crash \/ HandleBeatRemoved \/ \E deadline \in BOOLEAN : Drained(deadline)
  PROVE  IInv'
<1>1. CASE Crash
  <2>1. Gone({}) /\ UNCHANGED worker /\ trouble' \in 0..MaxTrouble
    BY <1>1, Troubled DEF Crash, IInv
  <2> QED BY <2>1, GoneKeeps DEF IInv, TypeOK
<1>2. CASE HandleBeatRemoved
  BY <1>2, GoneKeeps DEF HandleBeatRemoved, IInv, TypeOK
<1>3. CASE \E deadline \in BOOLEAN : Drained(deadline)
  BY <1>3, GoneKeeps DEF Drained, IInv, TypeOK
<1> QED BY <1>1, <1>2, <1>3

-----------------------------------------------------------------------------
(* One task moves.                                                           *)

LEMMA Semaphores ==
  ASSUME NEW p \in Seq([Sections -> Nat]), NEW q, q = [o \in DOMAIN p |-> q[o]],
         \A o \in 1..Len(p) : q[o] \in [Sections -> Nat]
  PROVE  q \in Seq([Sections -> Nat]) /\ Len(q) = Len(p)
<1>1. DOMAIN p = 1..Len(p) /\ Len(p) \in Nat  OBVIOUS
<1>2. q \in [1..Len(p) -> [Sections -> Nat]]  BY <1>1
<1> QED BY <1>1, <1>2

\* A permit is taken, where there is one.
LEMMA Taken ==
  ASSUME NEW p \in Seq([Sections -> Nat]), NEW o \in 1..Len(p), NEW s \in Sections, p[o][s] > 0,
         NEW q, q = [p EXCEPT ![o][s] = @ - 1]
  PROVE  /\ q \in Seq([Sections -> Nat]) /\ Len(q) = Len(p)
         /\ \A i \in 1..Len(p), x \in Sections : q[i][x] = IF i = o /\ x = s THEN p[i][x] - 1 ELSE p[i][x]
<1>1. DOMAIN p = 1..Len(p) /\ \A i \in 1..Len(p) : p[i] \in [Sections -> Nat]  OBVIOUS
<1>2. q[o] = [p[o] EXCEPT ![s] = @ - 1] /\ \A i \in 1..Len(p) : i # o => q[i] = p[i]  BY <1>1
<1>3. q[o] \in [Sections -> Nat] /\ q[o][s] = p[o][s] - 1 /\ \A x \in Sections : x # s => q[o][x] = p[o][x]
  BY <1>1, <1>2
<1>4. \A i \in 1..Len(p) : q[i] \in [Sections -> Nat]  BY <1>1, <1>2, <1>3
<1>5. q = [i \in DOMAIN p |-> q[i]]  BY <1>1
<1>6. q \in Seq([Sections -> Nat]) /\ Len(q) = Len(p)  BY <1>4, <1>5, Semaphores
<1> QED BY <1>2, <1>3, <1>6

\* The permit of the section a task leaves goes back to the semaphore it came from.
LEMMA GivenBack ==
  ASSUME TypeOK, NEW t \in DOMAIN task
  PROVE  /\ Released(t) \in Seq([Sections -> Nat]) /\ Len(Released(t)) = Len(permits)
         /\ \A s \in Sections :
              Released(t)[Len(permits)][s] =
                IF task[t].obj = Len(permits) /\ task[t].at = Active[s] THEN permits[Len(permits)][s] + 1
                ELSE permits[Len(permits)][s]
<1> DEFINE back(o, s) == IF o = task[t].obj /\ s \in {x \in Sections : Active[x] = task[t].at} THEN 1 ELSE 0
<1>1. permits \in Seq([Sections -> Nat]) /\ Len(permits) > 0 /\ Len(permits) \in Nat
      /\ DOMAIN permits = 1..Len(permits) /\ \A o \in 1..Len(permits) : permits[o] \in [Sections -> Nat]
  BY DEF TypeOK, TaskTypeOK
<1>2. Released(t) = [o \in DOMAIN permits |-> [s \in Sections |-> permits[o][s] + back(o, s)]]
  BY DEF Released
<1>3. \A o, s : back(o, s) \in {0, 1}  OBVIOUS
<1>4. \A s \in Sections : back(Len(permits), s) = IF task[t].obj = Len(permits) /\ task[t].at = Active[s] THEN 1 ELSE 0
  OBVIOUS
<1> HIDE DEF back
<1>5. \A o \in 1..Len(permits) : [s \in Sections |-> permits[o][s] + back(o, s)] \in [Sections -> Nat]
  <2> TAKE o \in 1..Len(permits)
  <2>1. \A s \in Sections : permits[o][s] \in Nat  BY <1>1
  <2>2. \A s \in Sections : permits[o][s] + back(o, s) \in Nat  BY <1>3, <2>1
  <2> QED BY <2>2
<1>6. \A o \in 1..Len(permits) : Released(t)[o] = [s \in Sections |-> permits[o][s] + back(o, s)]
  BY <1>1, <1>2
<1>7. \A o \in 1..Len(permits) : Released(t)[o] \in [Sections -> Nat]  BY <1>5, <1>6
<1>8. Released(t) = [o \in DOMAIN permits |-> Released(t)[o]]  BY <1>2
<1>9. Released(t) \in Seq([Sections -> Nat]) /\ Len(Released(t)) = Len(permits)
  BY <1>1, <1>7, <1>8, Semaphores
<1>10. \A s \in Sections : Released(t)[Len(permits)][s] = permits[Len(permits)][s] + back(Len(permits), s)
  <2>1. Len(permits) \in 1..Len(permits)  BY <1>1
  <2>2. Released(t)[Len(permits)] = [s \in Sections |-> permits[Len(permits)][s] + back(Len(permits), s)]
    BY <1>6, <2>1
  <2> QED BY <2>2
<1>11. \A s \in Sections : permits[Len(permits)][s] \in Nat  BY <1>1
<1> QED BY <1>4, <1>9, <1>10, <1>11

LEMMA Moved ==
  ASSUME TypeOK, NEW t \in DOMAIN task, NEW a \in Stages, task' = [task EXCEPT ![t].at = a]
  PROVE  /\ DOMAIN task' = DOMAIN task
         /\ task'[t] \in [gid : Granules, obj : 1..Len(permits), at : Stages, cancelled : BOOLEAN]
         /\ task'[t].at = a /\ task'[t].gid = task[t].gid /\ task'[t].obj = task[t].obj
         /\ task'[t].cancelled = task[t].cancelled
         /\ \A u \in DOMAIN task : u # t => task'[u] = task[u]
<1>1. task[t] \in [gid : Granules, obj : 1..Len(permits), at : Stages, cancelled : BOOLEAN]
  BY DEF TypeOK, TaskTypeOK
<1>2. task'[t] = [task[t] EXCEPT !.at = a]  OBVIOUS
<1> QED BY <1>1, <1>2

\* How many tasks are within a section, once t is somewhere else.
LEMMA WithinMoves ==
  ASSUME TypeOK, NEW t \in DOMAIN task, NEW a \in Stages, task' = [task EXCEPT ![t].at = a],
         Len(permits') = Len(permits), NEW s \in Sections
  PROVE  /\ Cardinality(Within(s)) \in Nat
         /\ task[t].obj # Len(permits) => Cardinality(Within(s)') = Cardinality(Within(s))
         /\ task[t].obj = Len(permits) =>
              /\ task[t].at # Active[s] /\ a = Active[s] => Cardinality(Within(s)') = Cardinality(Within(s)) + 1
              /\ task[t].at # Active[s] /\ a # Active[s] => Cardinality(Within(s)') = Cardinality(Within(s))
              /\ task[t].at = Active[s] /\ a # Active[s] => Cardinality(Within(s)') = Cardinality(Within(s)) - 1
<1>1. IsFiniteSet(Within(s))  BY Finite, FS_Subset DEF Within
<1>2. Cardinality(Within(s)) \in Nat  BY <1>1, FS_CardinalityType
<1>3. /\ DOMAIN task' = DOMAIN task /\ task'[t].at = a /\ task'[t].obj = task[t].obj
      /\ \A u \in DOMAIN task : u # t => task'[u] = task[u]
  BY Moved
<1>4. task[t].obj # Len(permits) => Within(s)' = Within(s)  BY <1>3 DEF Within
<1>5. task[t].obj = Len(permits) /\ a = Active[s] => Within(s)' = Within(s) \cup {t}  BY <1>3 DEF Within
<1>6. task[t].obj = Len(permits) /\ a # Active[s] => Within(s)' = Within(s) \ {t}  BY <1>3 DEF Within
<1>7. t \in Within(s) <=> task[t].obj = Len(permits) /\ task[t].at = Active[s]  BY DEF Within
<1>8. Cardinality(Within(s) \cup {t}) = IF t \in Within(s) THEN Cardinality(Within(s)) ELSE Cardinality(Within(s)) + 1
  BY <1>1, FS_AddElement
<1>9. Cardinality(Within(s) \ {t}) = IF t \in Within(s) THEN Cardinality(Within(s)) - 1 ELSE Cardinality(Within(s))
  BY <1>1, FS_RemoveElement
<1> QED BY <1>2, <1>4, <1>5, <1>6, <1>7, <1>8, <1>9

\* A task that moves keeps its granule, its object and its entry.
LEMMA MoveKeeps ==
  ASSUME IInv, NEW t \in DOMAIN task, NEW a \in Stages, task' = [task EXCEPT ![t].at = a],
         permits' \in Seq([Sections -> Nat]), Len(permits') = Len(permits), PermitsAdd',
         UNCHANGED <<orchVars, entry, slotFree, relapsed, overdue, loopVars, owed, orphan, trouble>>
  PROVE  IInv'
<1>1. /\ DOMAIN task' = DOMAIN task
      /\ task'[t] \in [gid : Granules, obj : 1..Len(permits), at : Stages, cancelled : BOOLEAN]
      /\ task'[t].gid = task[t].gid /\ task'[t].obj = task[t].obj /\ task'[t].cancelled = task[t].cancelled
      /\ \A u \in DOMAIN task : u # t => task'[u] = task[u]
  BY Moved DEF IInv
<1>2. \A u \in DOMAIN task : /\ task'[u].gid = task[u].gid /\ task'[u].obj = task[u].obj
                             /\ task'[u].cancelled = task[u].cancelled
  BY <1>1
<1>3. TaskTypeOK'
  <2>1. \A u \in DOMAIN task : task'[u] \in [gid : Granules, obj : 1..Len(permits), at : Stages, cancelled : BOOLEAN]
    BY <1>1 DEF IInv, TypeOK, TaskTypeOK
  <2> QED BY <1>1, <2>1 DEF IInv, TypeOK, TaskTypeOK, loopVars
<1>4. TypeOK'  BY <1>3 DEF IInv, TypeOK, orchVars, loopVars
<1>5. EntriesFit' /\ TasksTracked' /\ OthersAwaited'
  BY <1>1, <1>2 DEF IInv, RuntimeInv, EntriesFit, TasksTracked, OthersAwaited, TypeOK, TaskTypeOK
<1>6. Held' = Held /\ Worked' = Worked
  <2>1. Held' = Held  BY DEF Held, orchVars
  <2>2. Worked' = Worked  BY <1>1, <1>2 DEF Worked
  <2> QED BY <2>1, <2>2
<1>7. ReplyShaped' /\ ReportCovers' /\ NoLostWakeup' /\ HeldIsAccounted'
  BY <1>6, ReplyStays, ReportStays, SleepStays, AccountStays DEF IInv, RuntimeInv, orchVars, loopVars
<1> QED BY <1>4, <1>5, <1>7 DEF IInv, RuntimeInv

LEMMA EnterKeeps ==
  ASSUME IInv, NEW t, NEW s \in Sections, Enter(t, s)
  PROVE  IInv'
<1>1. /\ t \in DOMAIN task /\ task[t].at = Waiting[s] /\ permits[task[t].obj][s] > 0
      /\ permits' = [permits EXCEPT ![task[t].obj][s] = @ - 1]
      /\ task' = [task EXCEPT ![t].at = Active[s]]
      /\ UNCHANGED <<orchVars, entry, slotFree, relapsed, overdue, loopVars, owed, orphan, trouble>>
  BY DEF Enter
<1>2. Active[s] \in Stages /\ \A x \in Sections : Waiting[s] # Active[x] /\ (Active[s] = Active[x] <=> s = x)
  BY StageNames, SectionNames DEF Sections
<1>3. permits \in Seq([Sections -> Nat]) /\ Len(permits) \in 1..Len(permits) /\ task[t].obj \in 1..Len(permits)
  BY <1>1 DEF IInv, TypeOK, TaskTypeOK
<1>4. /\ permits' \in Seq([Sections -> Nat]) /\ Len(permits') = Len(permits)
      /\ \A x \in Sections : permits'[Len(permits)][x] =
           IF Len(permits) = task[t].obj /\ x = s THEN permits[Len(permits)][x] - 1 ELSE permits[Len(permits)][x]
  BY <1>1, <1>3, Taken
<1>5. PermitsAdd'
  <2> SUFFICES ASSUME NEW x \in {"download", "process"}
               PROVE  permits'[Len(permits)][x] + Cardinality(Within(x)') = live[x]
    BY <1>1, <1>4 DEF PermitsAdd, loopVars
  <2>1. x \in Sections  BY DEF Sections
  <2>2. permits[Len(permits)][x] + Cardinality(Within(x)) = live[x]  BY DEF IInv, RuntimeInv, PermitsAdd
  <2>3. permits[Len(permits)][x] \in Nat  BY <1>3, <2>1
  <2>4. /\ Cardinality(Within(x)) \in Nat
        /\ task[t].obj # Len(permits) => Cardinality(Within(x)') = Cardinality(Within(x))
        /\ task[t].obj = Len(permits) /\ s = x => Cardinality(Within(x)') = Cardinality(Within(x)) + 1
        /\ task[t].obj = Len(permits) /\ s # x => Cardinality(Within(x)') = Cardinality(Within(x))
    BY <1>1, <1>2, <1>4, <2>1, WithinMoves DEF IInv
  <2> QED BY <1>4, <2>1, <2>2, <2>3, <2>4
<1> QED BY <1>1, <1>2, <1>4, <1>5, MoveKeeps

LEMMA AdvanceKeeps ==
  ASSUME IInv, NEW t, Advance(t)
  PROVE  IInv'
<1>1. /\ t \in DOMAIN task /\ task[t].at \in DOMAIN Following
      /\ task' = [task EXCEPT ![t].at = Following[task[t].at]]
      /\ permits' = Released(t)
      /\ UNCHANGED <<orchVars, entry, slotFree, relapsed, overdue, loopVars, owed, orphan, trouble>>
  BY DEF Advance
<1> DEFINE a == Following[task[t].at]
<1>2. a \in Stages /\ \A x \in Sections : a # Active[x]
  BY <1>1, FollowingNames, StageNames, SectionNames DEF Sections
<1> HIDE DEF a
<1>3. permits \in Seq([Sections -> Nat]) /\ Len(permits) \in 1..Len(permits)
  BY <1>1 DEF IInv, TypeOK, TaskTypeOK
<1>4. /\ permits' \in Seq([Sections -> Nat]) /\ Len(permits') = Len(permits)
      /\ \A x \in Sections : permits'[Len(permits)][x] =
           IF task[t].obj = Len(permits) /\ task[t].at = Active[x] THEN permits[Len(permits)][x] + 1
           ELSE permits[Len(permits)][x]
  BY <1>1, GivenBack DEF IInv
<1>5. PermitsAdd'
  <2> SUFFICES ASSUME NEW x \in {"download", "process"}
               PROVE  permits'[Len(permits)][x] + Cardinality(Within(x)') = live[x]
    BY <1>1, <1>4 DEF PermitsAdd, loopVars
  <2>1. x \in Sections  BY DEF Sections
  <2>2. permits[Len(permits)][x] + Cardinality(Within(x)) = live[x]  BY DEF IInv, RuntimeInv, PermitsAdd
  <2>3. permits[Len(permits)][x] \in Nat  BY <1>3, <2>1
  <2>4. task' = [task EXCEPT ![t].at = a]  BY <1>1 DEF a
  <2>5. /\ Cardinality(Within(x)) \in Nat
        /\ task[t].obj # Len(permits) => Cardinality(Within(x)') = Cardinality(Within(x))
        /\ task[t].obj = Len(permits) /\ task[t].at = Active[x] => Cardinality(Within(x)') = Cardinality(Within(x)) - 1
        /\ task[t].obj = Len(permits) /\ task[t].at # Active[x] => Cardinality(Within(x)') = Cardinality(Within(x))
    BY <1>1, <1>2, <1>4, <2>1, <2>4, WithinMoves DEF IInv
  <2>6. CASE task[t].obj = Len(permits) /\ task[t].at = Active[x]
    <3>1. permits'[Len(permits)][x] = permits[Len(permits)][x] + 1  BY <1>4, <2>1, <2>6
    <3> QED BY <2>2, <2>3, <2>5, <2>6, <3>1
  <2>7. CASE ~ (task[t].obj = Len(permits) /\ task[t].at = Active[x])
    <3>1. permits'[Len(permits)][x] = permits[Len(permits)][x]  BY <1>4, <2>1, <2>7
    <3>2. Cardinality(Within(x)') = Cardinality(Within(x))  BY <2>5, <2>7
    <3> QED BY <2>2, <3>1, <3>2
  <2> QED BY <2>6, <2>7
<1>6. task' = [task EXCEPT ![t].at = a]  BY <1>1 DEF a
<1> QED BY <1>1, <1>2, <1>4, <1>5, <1>6, MoveKeeps

-----------------------------------------------------------------------------
(* A task ends.                                                              *)

LEMMA WithinEnds ==
  ASSUME TypeOK, NEW t \in DOMAIN task, DOMAIN task' = DOMAIN task \ {t},
         \A u \in DOMAIN task' : task'[u] = task[u],
         Len(permits') = Len(permits), NEW s \in Sections
  PROVE  /\ Cardinality(Within(s)) \in Nat
         /\ Cardinality(Within(s)') =
              IF task[t].obj = Len(permits) /\ task[t].at = Active[s] THEN Cardinality(Within(s)) - 1
              ELSE Cardinality(Within(s))
<1>1. IsFiniteSet(Within(s))  BY Finite, FS_Subset DEF Within
<1>2. Cardinality(Within(s)) \in Nat  BY <1>1, FS_CardinalityType
<1>3. Within(s)' = Within(s) \ {t}  BY DEF Within
<1>4. t \in Within(s) <=> task[t].obj = Len(permits) /\ task[t].at = Active[s]  BY DEF Within
<1>5. Cardinality(Within(s) \ {t}) = IF t \in Within(s) THEN Cardinality(Within(s)) - 1 ELSE Cardinality(Within(s))
  BY <1>1, FS_RemoveElement
<1> QED BY <1>2, <1>3, <1>4, <1>5

LEMMA EndedKeeps ==
  ASSUME IInv, NEW t \in DOMAIN task, Ended(t),
         IF task[t].cancelled THEN owed' = owed ELSE owed' = owed \cup {task[t].gid},
         UNCHANGED <<orchVars, loopVars, orphan, trouble>>
  PROVE  IInv'
<1> DEFINE g == task[t].gid
<1>1. /\ DOMAIN task' = DOMAIN task \ {t} /\ \A u \in DOMAIN task' : task'[u] = task[u]
      /\ DOMAIN entry' = DOMAIN entry \ {g} /\ \A h \in DOMAIN entry' : entry'[h] = entry[h]
      /\ slotFree' = (pipe.ceiling > 0) /\ permits' = Released(t) /\ relapsed' = relapsed
      /\ overdue' = (overdue /\ \E u \in DOMAIN task' : task'[u].obj # Len(permits))
  BY DEF Ended, Restrict
<1>2. task[t] \in [gid : Granules, obj : 1..Len(permits), at : Stages, cancelled : BOOLEAN]
  BY DEF IInv, TypeOK, TaskTypeOK
<1>3. /\ permits' \in Seq([Sections -> Nat]) /\ Len(permits') = Len(permits)
      /\ \A x \in Sections : permits'[Len(permits)][x] =
           IF task[t].obj = Len(permits) /\ task[t].at = Active[x] THEN permits[Len(permits)][x] + 1
           ELSE permits[Len(permits)][x]
  BY <1>1, GivenBack DEF IInv
<1>4. permits \in Seq([Sections -> Nat]) /\ Len(permits) \in 1..Len(permits)
  BY DEF IInv, TypeOK, TaskTypeOK
<1>5. EntriesFit' /\ \A h \in DOMAIN entry' : entry'[h] \in DOMAIN task'
  BY <1>1 DEF IInv, RuntimeInv, EntriesFit, TypeOK, TaskTypeOK
<1>6. TaskTypeOK'
  <2>1. \A u \in DOMAIN task' : task'[u] \in [gid : Granules, obj : 1..Len(permits'), at : Stages, cancelled : BOOLEAN]
    BY <1>1, <1>3 DEF IInv, TypeOK, TaskTypeOK
  <2> QED BY <1>1, <1>3, <1>4, <1>5, <2>1 DEF IInv, TypeOK, TaskTypeOK, loopVars
<1>7. TypeOK'
  <2>1. owed' \subseteq Granules  BY <1>2 DEF IInv, TypeOK
  <2>2. slotFree' \in BOOLEAN /\ overdue' \in BOOLEAN  BY <1>1
  <2> QED BY <1>1, <1>6, <2>1, <2>2 DEF IInv, TypeOK, orchVars, loopVars
<1>8. TasksTracked'
  <2> SUFFICES ASSUME NEW u \in DOMAIN task'
               PROVE  task'[u].gid \in relapsed' \/ (task'[u].gid \in DOMAIN entry' /\ entry'[task'[u].gid] = u)
    BY DEF TasksTracked
  <2>1. u \in DOMAIN task /\ u # t /\ task'[u] = task[u]  BY <1>1
  <2>2. task[u].gid \in relapsed \/ (task[u].gid \in DOMAIN entry /\ entry[task[u].gid] = u)
    BY <2>1 DEF IInv, RuntimeInv, TasksTracked
  <2>3. g \in relapsed \/ entry[g] = t  BY DEF IInv, RuntimeInv, TasksTracked
  <2> QED BY <1>1, <2>1, <2>2, <2>3
<1>9. OthersAwaited'
  <2>1. CASE overdue  BY <1>1, <1>3, <2>1 DEF OthersAwaited
  <2>2. CASE ~ overdue
    BY <1>1, <1>3, <2>2 DEF IInv, RuntimeInv, OthersAwaited
  <2> QED BY <2>1, <2>2
<1>10. PermitsAdd'
  <2> SUFFICES ASSUME NEW x \in {"download", "process"}
               PROVE  permits'[Len(permits)][x] + Cardinality(Within(x)') = live[x]
    BY <1>1, <1>3 DEF PermitsAdd, loopVars
  <2>1. x \in Sections  BY DEF Sections
  <2>2. permits[Len(permits)][x] + Cardinality(Within(x)) = live[x]  BY DEF IInv, RuntimeInv, PermitsAdd
  <2>3. permits[Len(permits)][x] \in Nat  BY <1>4, <2>1
  <2>4. /\ Cardinality(Within(x)) \in Nat
        /\ Cardinality(Within(x)') =
             IF task[t].obj = Len(permits) /\ task[t].at = Active[x] THEN Cardinality(Within(x)) - 1
             ELSE Cardinality(Within(x))
    BY <1>1, <1>3, <2>1, WithinEnds DEF IInv
  <2>5. CASE task[t].obj = Len(permits) /\ task[t].at = Active[x]
    <3>1. permits'[Len(permits)][x] = permits[Len(permits)][x] + 1  BY <1>3, <2>1, <2>5
    <3> QED BY <2>2, <2>3, <2>4, <2>5, <3>1
  <2>6. CASE ~ (task[t].obj = Len(permits) /\ task[t].at = Active[x])
    <3>1. permits'[Len(permits)][x] = permits[Len(permits)][x]  BY <1>3, <2>1, <2>6
    <3>2. Cardinality(Within(x)') = Cardinality(Within(x))  BY <2>4, <2>6
    <3> QED BY <2>2, <3>1, <3>2
  <2> QED BY <2>5, <2>6
<1>11. NoLostWakeup'
  <2>1. IsFiniteSet(DOMAIN entry')  BY <1>6, GranulesAssumption, FS_Subset DEF TaskTypeOK
  <2>2. Cardinality(DOMAIN entry') \in Nat  BY <2>1, FS_CardinalityType
  <2>3. pipe' = pipe /\ pipe.ceiling \in Nat  BY DEF IInv, TypeOK, loopVars
  <2>4. CASE pipe.ceiling > 0
    <3>1. slotFree'  BY <1>1, <2>4
    <3> QED BY <3>1 DEF NoLostWakeup
  <2>5. CASE pipe.ceiling = 0  BY <2>2, <2>3, <2>5 DEF NoLostWakeup
  <2> QED BY <2>3, <2>4, <2>5
<1>12. Held' = Held /\ Worked' = Worked
  <2>1. Held' = Held  BY DEF Held, orchVars
  <2>2. \A h : h \in {task'[u].gid : u \in {u \in DOMAIN task' : ~ task'[u].cancelled}}
               => h \in {task[u].gid : u \in {u \in DOMAIN task : ~ task[u].cancelled}}
    BY <1>1
  <2>3. \A h : h \in {task[u].gid : u \in {u \in DOMAIN task : ~ task[u].cancelled}}
               => h \in {task'[u].gid : u \in {u \in DOMAIN task' : ~ task'[u].cancelled}} \/ (h = g /\ ~ task[t].cancelled)
    BY <1>1
  <2>4. ~ task[t].cancelled => g \in {task[u].gid : u \in {u \in DOMAIN task : ~ task[u].cancelled}}
    OBVIOUS
  <2>5. Worked' = Worked  BY <2>2, <2>3, <2>4 DEF Worked
  <2> QED BY <2>1, <2>5
<1>13. ReplyShaped' /\ ReportCovers' /\ HeldIsAccounted'
  BY <1>1, <1>12, ReplyStays, ReportStays, AccountStays DEF IInv, RuntimeInv, orchVars, loopVars
<1> QED BY <1>5, <1>7, <1>8, <1>9, <1>10, <1>11, <1>13 DEF IInv, RuntimeInv

LEMMA TaskEndsKeeps == ASSUME IInv, NEW t, Finish(t) \/ Unwind(t) PROVE IInv'
<1>1. CASE Finish(t)
  BY <1>1, EndedKeeps DEF Finish
<1>2. CASE Unwind(t)
  BY <1>2, EndedKeeps DEF Unwind
<1> QED BY <1>1, <1>2

-----------------------------------------------------------------------------
(* Tasks start.                                                              *)

\* What a reply starts: the task for g has the number n[g], unless it is over at once.
Starts(C, n) ==
  /\ \A u \in DOMAIN task : u \in DOMAIN task' /\ task'[u] = task[u]
  /\ \A u \in DOMAIN task' \ DOMAIN task : \E g \in pipe.items \ C : u = n[g]
  /\ \A g \in pipe.items \ C :
       /\ n[g] \in DOMAIN task' /\ n[g] \in 1..Tasks
       /\ task'[n[g]] \in [gid : Granules, obj : 1..Len(permits), at : Stages, cancelled : BOOLEAN]
       /\ task'[n[g]].gid = g /\ task'[n[g]].obj = Len(permits)
       /\ task'[n[g]].at = "pending_download" /\ task'[n[g]].cancelled = FALSE
  /\ DOMAIN entry' = (DOMAIN entry \cup pipe.items) \ C
  /\ \A g \in DOMAIN entry' : entry'[g] = IF g \in pipe.items THEN n[g] ELSE entry[g]

LEMMA Started ==
  ASSUME IInv, NEW C, StartHandlers(C)
  PROVE  Starts(C, NumberOf(pipe.items))
<1> DEFINE S == pipe.items
           n == NumberOf(S)
           started == {n[g] : g \in S \ C}
           new(g) == [gid |-> g, obj |-> Len(permits), at |-> "pending_download", cancelled |-> FALSE]
           owner(t) == CHOOSE g \in S : n[g] = t
<1>1. S \in SUBSET Granules /\ Cardinality(S) <= Cardinality(FreeTasks)  BY DEF StartHandlers, IInv, TypeOK
<1>2. n \in [S -> FreeTasks] /\ \A g, h \in S : n[g] = n[h] => g = h  BY <1>1, Numbered DEF IInv
<1>3. task' = [t \in DOMAIN task \cup started |-> IF t \in DOMAIN task THEN task[t] ELSE new(owner(t))]
  BY DEF StartHandlers
<1>4. entry' = [g \in (DOMAIN entry \cup S) \ C |-> IF g \in S THEN n[g] ELSE entry[g]]
  BY DEF StartHandlers
<1> HIDE DEF n, S
<1>5. \A g \in S : n[g] \notin DOMAIN task  BY <1>2 DEF FreeTasks
<1>6. \A g \in S : owner(n[g]) = g  BY <1>2
<1> HIDE DEF owner, new
<1>7. \A g \in S \ C : n[g] \in DOMAIN task' /\ task'[n[g]] = new(g)
  BY <1>3, <1>5, <1>6
<1>8. \A u \in DOMAIN task' \ DOMAIN task : \E g \in S \ C : u = n[g]  BY <1>3
<1>9. \A u \in DOMAIN task : u \in DOMAIN task' /\ task'[u] = task[u]  BY <1>3
<1>10. Len(permits) \in 1..Len(permits) /\ "pending_download" \in Stages
  BY StageNames DEF IInv, TypeOK, TaskTypeOK
<1>11. \A g \in S \ C :
         /\ new(g) \in [gid : Granules, obj : 1..Len(permits), at : Stages, cancelled : BOOLEAN]
         /\ new(g).gid = g /\ new(g).obj = Len(permits)
         /\ new(g).at = "pending_download" /\ new(g).cancelled = FALSE
  BY <1>1, <1>10 DEF new
<1>12. \A g \in S \ C : n[g] \in 1..Tasks  BY <1>2 DEF FreeTasks
<1>13. DOMAIN entry' = (DOMAIN entry \cup S) \ C
       /\ \A g \in DOMAIN entry' : entry'[g] = IF g \in S THEN n[g] ELSE entry[g]
  BY <1>4
<1> QED BY <1>7, <1>8, <1>9, <1>11, <1>12, <1>13 DEF S, n, Starts

LEMMA StartHandlersKeeps == ASSUME IInv, NEW C, StartHandlers(C) PROVE IInv'
<1> DEFINE n == NumberOf(pipe.items)
<1>0. Starts(C, n)  BY Started
<1> HIDE DEF n
<1>1. /\ \A u \in DOMAIN task : u \in DOMAIN task' /\ task'[u] = task[u]
      /\ \A u \in DOMAIN task' \ DOMAIN task : \E g \in pipe.items \ C : u = n[g]
      /\ \A g \in pipe.items \ C : n[g] \in DOMAIN task' /\ n[g] \in 1..Tasks
      /\ DOMAIN entry' = (DOMAIN entry \cup pipe.items) \ C
      /\ \A g \in DOMAIN entry' : entry'[g] = IF g \in pipe.items THEN n[g] ELSE entry[g]
  BY <1>0 DEF Starts
<1>2. /\ C \subseteq {g \in pipe.items : AliveOf(g) # {}}
      /\ relapsed' = relapsed \cup {g \in pipe.items : AliveOf(g) # {}}
      /\ orphan' = orphan \cup {g \in C : lease[g] = "held" /\ g \notin Worked}
      /\ pipe' = Idle
      /\ UNCHANGED <<orchVars, permits, slotFree, overdue, up, live, target, beat, paused, draining, owed, trouble>>
  BY DEF StartHandlers
<1>3. pipe.items \subseteq Granules /\ Len(permits) \in 1..Len(permits)
  BY DEF IInv, TypeOK, TaskTypeOK
<1>4. \A g \in pipe.items \ C : task'[n[g]].gid = g /\ task'[n[g]].obj = Len(permits)
                               /\ task'[n[g]].at = "pending_download" /\ task'[n[g]].cancelled = FALSE
  BY <1>0 DEF Starts
<1>5. \A g \in pipe.items \ C : task'[n[g]] \in [gid : Granules, obj : 1..Len(permits), at : Stages, cancelled : BOOLEAN]
  BY <1>0 DEF Starts
<1>6. TaskTypeOK'
  <2>1. \A u \in DOMAIN task' : task'[u] \in [gid : Granules, obj : 1..Len(permits), at : Stages, cancelled : BOOLEAN]
    BY <1>1, <1>5 DEF IInv, TypeOK, TaskTypeOK
  <2>2. DOMAIN task' \subseteq 1..Tasks  BY <1>1 DEF IInv, TypeOK, TaskTypeOK
  <2>3. DOMAIN entry' \subseteq Granules /\ \A g \in DOMAIN entry' : entry'[g] \in DOMAIN task'
    BY <1>1, <1>3 DEF IInv, TypeOK, TaskTypeOK
  <2> QED BY <1>2, <2>1, <2>2, <2>3 DEF IInv, TypeOK, TaskTypeOK
<1>7. TypeOK'
  <2>1. pipe' \in [at : {"loop", "asking", "answered"}, room : Nat, ceiling : Nat, items : SUBSET Granules]
    BY <1>2, IdleType
  <2>2. relapsed' \subseteq Granules /\ orphan' \subseteq Granules  BY <1>2, <1>3 DEF IInv, TypeOK
  <2> QED BY <1>2, <1>6, <2>1, <2>2 DEF IInv, TypeOK, orchVars
<1>8. EntriesFit'
  <2> SUFFICES ASSUME NEW g \in DOMAIN entry' PROVE task'[entry'[g]].gid = g  BY DEF EntriesFit
  <2>1. CASE g \in pipe.items  BY <1>1, <1>4, <2>1
  <2>2. CASE g \notin pipe.items
    <3>1. g \in DOMAIN entry /\ entry'[g] = entry[g]  BY <1>1, <2>2
    <3>2. entry[g] \in DOMAIN task /\ task[entry[g]].gid = g
      BY <3>1 DEF IInv, RuntimeInv, EntriesFit, TypeOK, TaskTypeOK
    <3> QED BY <1>1, <3>1, <3>2
  <2> QED BY <2>1, <2>2
<1>9. TasksTracked'
  <2> SUFFICES ASSUME NEW u \in DOMAIN task'
               PROVE  task'[u].gid \in relapsed' \/ (task'[u].gid \in DOMAIN entry' /\ entry'[task'[u].gid] = u)
    BY DEF TasksTracked
  <2>1. CASE u \in DOMAIN task
    <3>1. task'[u] = task[u]  BY <1>1, <2>1
    <3>2. CASE task[u].gid \in pipe.items  BY <1>2, <2>1, <3>1, <3>2 DEF AliveOf
    <3>3. CASE task[u].gid \notin pipe.items
      <4>1. task[u].gid \in relapsed \/ (task[u].gid \in DOMAIN entry /\ entry[task[u].gid] = u)
        BY <2>1 DEF IInv, RuntimeInv, TasksTracked
      <4> QED BY <1>1, <1>2, <3>1, <3>3, <4>1
    <3> QED BY <3>2, <3>3
  <2>2. CASE u \notin DOMAIN task
    <3>1. PICK g \in pipe.items \ C : u = n[g]  BY <1>1, <2>2
    <3> QED BY <1>1, <1>4, <3>1
  <2> QED BY <2>1, <2>2
<1>10. OthersAwaited'
  BY <1>1, <1>2, <1>4 DEF IInv, RuntimeInv, OthersAwaited
<1>11. PermitsAdd'
  <2> SUFFICES ASSUME NEW x \in {"download", "process"} PROVE Within(x)' = Within(x)
    BY <1>2 DEF IInv, RuntimeInv, PermitsAdd
  <2>1. Active[x] # "pending_download"  BY SectionNames
  <2>2. \A u \in DOMAIN task' \ DOMAIN task : task'[u].at # Active[x]  BY <1>1, <1>4, <2>1
  <2> QED BY <1>1, <1>2, <2>2 DEF Within
<1>12. Worked \subseteq Worked' /\ Worked' \subseteq Worked \cup pipe.items /\ pipe.items \ C \subseteq Worked'
  <2>1. \A u \in DOMAIN task' : u \in DOMAIN task \/ task'[u].gid \in pipe.items  BY <1>1, <1>4
  <2> DEFINE working == {task[u].gid : u \in {u \in DOMAIN task : ~ task[u].cancelled}}
  <2>2. working \subseteq working'  BY <1>1
  <2>3. working' \subseteq working \cup pipe.items  BY <1>1, <2>1
  <2>4. pipe.items \ C \subseteq working'  BY <1>1, <1>4
  <2>5. Worked = working \cup owed /\ Worked' = working' \cup owed  BY <1>2 DEF Worked
  <2> HIDE DEF working
  <2> QED BY <2>2, <2>3, <2>4, <2>5
<1>13. Held' = Held  BY <1>2 DEF Held, orchVars
<1>14. ReplyShaped'  BY <1>2, IdleType DEF ReplyShaped
<1>15. ReportCovers'
  BY <1>2, <1>12, <1>13 DEF IInv, RuntimeInv, ReportCovers, ReplyShaped, orchVars
<1>16. NoLostWakeup'  BY <1>2, <1>7, IdleType, Awake
<1>17. HeldIsAccounted'
  BY <1>2, <1>12, <1>13 DEF IInv, RuntimeInv, HeldIsAccounted, Held
<1> QED BY <1>7, <1>8, <1>9, <1>10, <1>11, <1>14, <1>15, <1>16, <1>17 DEF IInv, RuntimeInv

-----------------------------------------------------------------------------
(* Settings.                                                                 *)

\* A growth releases what it adds; a shrink leaves the semaphores to the rebuild.
LEMMA Reconciled ==
  ASSUME TypeOK, Reconcile, UNCHANGED wanted
  PROVE  /\ target' \subseteq Settings /\ Cardinality(target') <= 1 /\ live' \in Settings
         /\ permits' \in Seq([Sections -> Nat]) /\ Len(permits') = Len(permits)
         /\ \A s \in {"download", "process"} :
              permits'[Len(permits)][s] = permits[Len(permits)][s] + live'[s] - live[s]
<1> DEFINE last == Len(permits)
           more(s) == IF s = "upload" THEN permits[last][s] ELSE permits[last][s] + wanted[s] - live[s]
<1>1. /\ permits \in Seq([Sections -> Nat]) /\ last \in 1..last /\ DOMAIN permits = 1..last
      /\ \A o \in 1..last : permits[o] \in [Sections -> Nat]
      /\ target \subseteq Settings /\ Cardinality(target) <= 1 /\ live \in Settings /\ wanted \in Settings
  BY DEF TypeOK, TaskTypeOK
<1>2. \A s \in Sections : permits[last][s] \in Nat  BY <1>1
<1>3. /\ live["download"] \in Nat /\ live["process"] \in Nat
      /\ live["download"] = live.download /\ live["process"] = live.process
      /\ wanted["download"] \in Nat /\ wanted["process"] \in Nat
      /\ wanted["download"] = wanted.download /\ wanted["process"] = wanted.process
  BY <1>1, FreshPermits
<1>4. \A s \in {"download", "process"} : s \in Sections /\ live[s] \in Nat
  BY <1>3 DEF Sections
<1>5. CASE UNCHANGED <<live, permits>> /\ (UNCHANGED target \/ target' = {wanted})
  <2>1. Cardinality({wanted}) = 1  BY FS_Singleton
  <2>2. target' \subseteq Settings /\ Cardinality(target') <= 1
    <3>1. CASE UNCHANGED target  BY <1>1, <3>1
    <3>2. CASE target' = {wanted}  BY <1>1, <2>1, <3>2
    <3> QED BY <1>5, <3>1, <3>2
  <2>3. \A s \in {"download", "process"} : permits[last][s] = permits[last][s] + live[s] - live[s]
    BY <1>2, <1>4
  <2> QED BY <1>1, <1>5, <2>2, <2>3
<1>6. CASE /\ Grown(wanted) /\ live' = wanted /\ UNCHANGED target
           /\ permits' = [permits EXCEPT ![last] = [s \in Sections |-> more(s)]]
  <2>1. \A s \in Sections : more(s) \in Nat
    <3>1. more("upload") \in Nat  BY <1>2 DEF Sections
    <3>2. more("download") \in Nat  BY <1>2, <1>3, <1>6 DEF Sections, Grown
    <3>3. more("process") \in Nat  BY <1>2, <1>3, <1>6 DEF Sections, Grown
    <3> QED BY <3>1, <3>2, <3>3 DEF Sections
  <2>2. \A s \in {"download", "process"} : more(s) = permits[last][s] + wanted[s] - live[s]  OBVIOUS
  <2> HIDE DEF more
  <2>3. permits'[last] = [s \in Sections |-> more(s)] /\ \A o \in 1..last : o # last => permits'[o] = permits[o]
    BY <1>1, <1>6
  <2>4. \A o \in 1..last : permits'[o] \in [Sections -> Nat]  BY <1>1, <2>1, <2>3
  <2>5. permits' = [o \in DOMAIN permits |-> permits'[o]]  BY <1>6
  <2>6. permits' \in Seq([Sections -> Nat]) /\ Len(permits') = last  BY <1>1, <2>4, <2>5, Semaphores
  <2>7. \A s \in {"download", "process"} : permits'[last][s] = more(s)  BY <1>4, <2>3
  <2> QED BY <1>1, <1>6, <2>2, <2>6, <2>7
<1>7. \/ UNCHANGED <<target, live, permits>>
      \/ target' = {wanted} /\ UNCHANGED <<live, permits>>
      \/ /\ Grown(wanted) /\ live' = wanted /\ UNCHANGED target
         /\ permits' = [permits EXCEPT ![last] = [s \in Sections |-> more(s)]]
  BY DEF Reconcile
<1> QED BY <1>5, <1>6, <1>7

LEMMA AnswerBeatKeeps == ASSUME IInv, AnswerBeat PROVE IInv'
<1> DEFINE gone == {entry[g] : g \in beat.revoked \cap DOMAIN entry}
           lost == {g \in beat.revoked \cap DOMAIN entry :
                      lease[g] = "held" /\ g \notin pipe.items /\ g \notin owed
                      /\ \A t \in AliveOf(g) : task[t].cancelled \/ t \in gone}
<1>1. /\ beat' = NoBeat /\ paused' = (worker = "paused")
      /\ task' = [t \in DOMAIN task |-> IF t \in gone THEN [task[t] EXCEPT !.cancelled = TRUE] ELSE task[t]]
      /\ orphan' = orphan \cup lost
      /\ Reconcile
      /\ UNCHANGED <<orchVars, entry, slotFree, relapsed, overdue, up, pipe, draining, owed, trouble>>
  BY DEF AnswerBeat
<1>2. /\ target' \subseteq Settings /\ Cardinality(target') <= 1 /\ live' \in Settings
      /\ permits' \in Seq([Sections -> Nat]) /\ Len(permits') = Len(permits)
      /\ \A s \in {"download", "process"} :
           permits'[Len(permits)][s] = permits[Len(permits)][s] + live'[s] - live[s]
  BY <1>1, Reconciled DEF IInv, orchVars
<1>3. lost \subseteq Granules  BY DEF IInv, TypeOK, TaskTypeOK
<1>4. \A t \in gone : task[t].gid \in DOMAIN entry /\ entry[task[t].gid] = t /\ task[t].gid \in beat.revoked
  BY DEF IInv, RuntimeInv, EntriesFit
<1>5. \A t \in DOMAIN task : task[t] \in [gid : Granules, obj : 1..Len(permits), at : Stages, cancelled : BOOLEAN]
  BY DEF IInv, TypeOK, TaskTypeOK
<1> HIDE DEF gone
<1>6. DOMAIN task' = DOMAIN task
      /\ \A t \in DOMAIN task :
           /\ task'[t] \in [gid : Granules, obj : 1..Len(permits), at : Stages, cancelled : BOOLEAN]
           /\ task'[t].gid = task[t].gid /\ task'[t].obj = task[t].obj /\ task'[t].at = task[t].at
           /\ (task[t].cancelled => task'[t].cancelled)
           /\ (t \notin gone => task'[t] = task[t])
  BY <1>1, <1>5
<1>7. TaskTypeOK'
  <2>1. DOMAIN task \subseteq 1..Tasks /\ DOMAIN entry \subseteq Granules
        /\ \A g \in DOMAIN entry : entry[g] \in DOMAIN task
    BY DEF IInv, TypeOK, TaskTypeOK
  <2>2. Len(permits') > 0  BY <1>2 DEF IInv, TypeOK, TaskTypeOK
  <2> QED BY <1>1, <1>2, <1>6, <2>1, <2>2 DEF TaskTypeOK
<1>8. TypeOK'
  <2>1. beat' \in [at : {"none", "sent", "answered"}, active : SUBSET Granules, revoked : SUBSET Granules]
    BY <1>1, IdleType
  <2> HIDE DEF lost
  <2>2. orphan' \subseteq Granules /\ paused' \in BOOLEAN  BY <1>1, <1>3 DEF IInv, TypeOK
  <2> QED BY <1>1, <1>2, <1>7, <2>1, <2>2 DEF IInv, TypeOK, orchVars
<1>9. EntriesFit' /\ TasksTracked' /\ OthersAwaited'
  BY <1>1, <1>2, <1>6 DEF IInv, RuntimeInv, EntriesFit, TasksTracked, OthersAwaited, TypeOK, TaskTypeOK
<1>10. PermitsAdd'
  <2> SUFFICES ASSUME NEW x \in {"download", "process"}
               PROVE  permits'[Len(permits)][x] + Cardinality(Within(x)') = live'[x]
    BY <1>2 DEF PermitsAdd
  <2>1. Within(x)' = Within(x)  BY <1>2, <1>6 DEF Within
  <2>2. permits[Len(permits)][x] + Cardinality(Within(x)) = live[x]  BY DEF IInv, RuntimeInv, PermitsAdd
  <2>3. IsFiniteSet(Within(x))  BY Finite, FS_Subset DEF Within, IInv
  <2>4. Cardinality(Within(x)) \in Nat  BY <2>3, FS_CardinalityType
  <2>5. permits[Len(permits)][x] \in Nat /\ live[x] \in Nat /\ live'[x] \in Nat
    <3>1. \A z \in Settings : z[x] \in Nat  BY FreshPermits
    <3>2. permits[Len(permits)] \in [Sections -> Nat] /\ x \in Sections
      BY DEF IInv, TypeOK, TaskTypeOK, Sections
    <3>3. live \in Settings  BY DEF IInv, TypeOK, TaskTypeOK
    <3> QED BY <1>2, <3>1, <3>2, <3>3
  <2>6. permits'[Len(permits)][x] = permits[Len(permits)][x] + live'[x] - live[x]  BY <1>2
  <2> QED BY <2>1, <2>2, <2>4, <2>5, <2>6
<1>11. Held' = Held /\ Worked' \subseteq Worked
  <2>1. Held' = Held  BY <1>1 DEF Held, orchVars
  <2>2. Worked' \subseteq Worked  BY <1>1, <1>6 DEF Worked
  <2> QED BY <2>1, <2>2
<1>12. ReplyShaped' /\ ReportCovers' /\ NoLostWakeup'
  BY <1>1, IdleType, ReplyStays, SleepStays DEF IInv, RuntimeInv, ReportCovers, orchVars
<1>13. HeldIsAccounted'
  <2> SUFFICES ASSUME NEW g \in Held, g \notin pipe.items, g \notin orphan, g \notin owed, g \notin lost
               PROVE  g \in Worked'
    BY <1>1, <1>11 DEF HeldIsAccounted, Worked
  <2>1. g \in Worked  BY DEF IInv, RuntimeInv, HeldIsAccounted
  <2>2. PICK t \in DOMAIN task : task[t].gid = g /\ ~ task[t].cancelled  BY <2>1 DEF Worked
  <2>3. CASE t \notin gone  BY <1>6, <2>2, <2>3 DEF Worked
  <2>4. CASE t \in gone
    <3>1. g \in beat.revoked \cap DOMAIN entry  BY <1>4, <2>2, <2>4
    <3>2. \E u \in AliveOf(g) : ~ task[u].cancelled /\ u \notin gone  BY <3>1 DEF Held
    <3> QED BY <1>6, <3>2 DEF Worked, AliveOf
  <2> QED BY <2>3, <2>4
<1> QED BY <1>8, <1>9, <1>10, <1>12, <1>13 DEF IInv, RuntimeInv

\* A rebuild leaves the tasks to the old semaphores.
LEMMA RebuildKeeps == ASSUME IInv, NEW deadline \in BOOLEAN, Rebuild(deadline) PROVE IInv'
<1>1. PICK s \in target : live' = s /\ permits' = Append(permits, NewPermits(s))
  BY DEF Rebuild
<1>2. /\ deadline = (entry # Empty) /\ target' = {}
      /\ overdue' = (overdue \/ deadline \/ Untracked # {})
      /\ UNCHANGED <<orchVars, task, entry, slotFree, relapsed, up, pipe, beat, paused, draining, owed, orphan, trouble>>
  BY DEF Rebuild
<1>3. s \in Settings  BY DEF IInv, TypeOK
<1>4. /\ NewPermits(s) \in [Sections -> Nat] /\ s["download"] \in Nat /\ s["process"] \in Nat
      /\ \A x \in {"download", "process"} : NewPermits(s)[x] = s[x] /\ s[x] \in Nat
  BY <1>3, FreshPermits
<1>5. permits \in Seq([Sections -> Nat]) /\ Len(permits) \in Nat /\ Len(permits) > 0
  BY DEF IInv, TypeOK, TaskTypeOK
<1>6. /\ permits' \in Seq([Sections -> Nat]) /\ Len(permits') = Len(permits) + 1
      /\ permits'[Len(permits')] = NewPermits(s)
  BY <1>1, <1>4, <1>5
<1>7. \A t \in DOMAIN task : task[t] \in [gid : Granules, obj : 1..Len(permits), at : Stages, cancelled : BOOLEAN]
  BY DEF IInv, TypeOK, TaskTypeOK
<1>8. TaskTypeOK'
  <2>1. \A t \in DOMAIN task : task[t] \in [gid : Granules, obj : 1..Len(permits'), at : Stages, cancelled : BOOLEAN]
    BY <1>5, <1>6, <1>7
  <2> QED BY <1>1, <1>2, <1>3, <1>5, <1>6, <2>1 DEF IInv, TypeOK, TaskTypeOK
<1>9. TypeOK'
  <2>1. target' \subseteq Settings /\ Cardinality(target') <= 1  BY <1>2, FS_EmptySet
  <2>2. overdue' \in BOOLEAN  BY <1>2
  <2> QED BY <1>2, <1>8, <2>1, <2>2 DEF IInv, TypeOK, orchVars
<1>10. EntriesFit' /\ TasksTracked'
  BY <1>2 DEF IInv, RuntimeInv, EntriesFit, TasksTracked
<1>11. PermitsAdd'
  <2> SUFFICES ASSUME NEW x \in {"download", "process"}
               PROVE  permits'[Len(permits')][x] + Cardinality(Within(x)') = s[x]
    BY <1>1 DEF PermitsAdd
  <2>1. Within(x)' = {}  BY <1>2, <1>5, <1>6, <1>7 DEF Within
  <2> QED BY <1>4, <1>6, <2>1, FS_EmptySet
<1>12. OthersAwaited'
  <2>1. CASE overdue'  BY <2>1 DEF OthersAwaited
  <2>2. CASE ~ overdue'
    <3>1. entry = Empty /\ Untracked = {}  BY <1>2, <2>2
    <3>2. Range(entry) = {}  BY <3>1, EmptyFunction DEF Range
    <3>3. DOMAIN task = {}  BY <3>1, <3>2 DEF Untracked
    <3> QED BY <1>2, <3>3 DEF OthersAwaited
  <2> QED BY <2>1, <2>2
<1>13. Held' = Held /\ Worked' = Worked  BY <1>2, WorkStays DEF Held, orchVars
<1>14. ReplyShaped' /\ ReportCovers' /\ NoLostWakeup' /\ HeldIsAccounted'
  BY <1>2, <1>13, ReplyStays, ReportStays, SleepStays, AccountStays DEF IInv, RuntimeInv, orchVars
<1> QED BY <1>9, <1>10, <1>11, <1>12, <1>14 DEF IInv, RuntimeInv

-----------------------------------------------------------------------------
(* The invariant, and what follows from it.                                  *)

LEMMA Stutters == ASSUME IInv, UNCHANGED vars PROVE IInv'
<1>1. TaskTypeOK' /\ EntriesFit' /\ TasksTracked' /\ PermitsAdd' /\ OthersAwaited'
  BY TasksStay DEF vars, taskVars, loopVars
<1>2. TypeOK'  BY <1>1 DEF IInv, TypeOK, vars, orchVars, taskVars, loopVars
<1>3. Held' = Held /\ Worked' = Worked  BY WorkStays DEF Held, vars, orchVars, taskVars
<1>4. ReplyShaped' /\ ReportCovers' /\ NoLostWakeup' /\ HeldIsAccounted'
  BY <1>3, ReplyStays, ReportStays, SleepStays, AccountStays
  DEF IInv, RuntimeInv, vars, orchVars, taskVars, loopVars
<1> QED BY <1>1, <1>2, <1>4 DEF IInv, RuntimeInv

LEMMA NextKeeps == ASSUME IInv, [Next]_vars PROVE IInv'
<1>1. CASE Pipeline
  BY <1>1, PollKeeps, LeaseKeeps, LeaseReplyLostKeeps, StartHandlersKeeps DEF Pipeline
<1>2. CASE Handlers
  BY <1>2, EnterKeeps, AdvanceKeeps, TaskEndsKeeps DEF Handlers
<1>3. CASE Beats
  BY <1>3, SendBeatKeeps, HandleBeatKeeps, BeatLostKeeps, EndingKeeps, AnswerBeatKeeps, RebuildKeeps DEF Beats
<1>4. CASE Lifecycle
  BY <1>4, BootKeeps, EndingKeeps, StartDrainKeeps DEF Lifecycle
<1>5. CASE Orchestrator
  BY <1>5, OperatorKeeps, GraceElapsesKeeps, LeaseLapsesKeeps, LeaseExpiresKeeps, AgainKeeps, DeliverKeeps
  DEF Orchestrator
<1>6. CASE UNCHANGED vars
  BY <1>6, Stutters
<1> QED BY <1>1, <1>2, <1>3, <1>4, <1>5, <1>6 DEF Next

\* The state of a worker process stays well formed, and entries, tasks, reports and permits
\* stay in step (the bookkeeping of worker/runtime.py around _handlers), for every number of
\* granules and tasks and all settings.
THEOREM RuntimeInvariant == Spec => [](TypeOK /\ RuntimeInv)
<1>1. Init => IInv  BY InitKeeps
<1>2. IInv /\ [Next]_vars => IInv'  BY NextKeeps
<1> QED BY <1>1, <1>2, PTL DEF Spec, IInv

\* The pipeline loop never sleeps on with a slot freed since it looked.
THEOREM NeverAsleep == Spec => []NoLostWakeup
<1>1. RuntimeInv => NoLostWakeup  BY DEF RuntimeInv
<1> QED BY <1>1, RuntimeInvariant, PTL

\* Whatever the orchestrator thinks this worker holds is on its way, worked on or about to be
\* reported, unless a reply or a task was lost.
THEOREM AllHeldAccounted == Spec => []HeldIsAccounted
<1>1. RuntimeInv => HeldIsAccounted  BY DEF RuntimeInv
<1> QED BY <1>1, RuntimeInvariant, PTL

\* No more tasks are in a section than the operator's limit, across handler objects, once
\* every task was waited for (_apply_reconfig).
THEOREM LimitsHold == Spec => []WithinLimits
<1>1. TypeOK /\ RuntimeInv => WithinLimits
  <2> SUFFICES ASSUME TypeOK, RuntimeInv, ~ overdue, NEW s \in {"download", "process"}
               PROVE  Cardinality({t \in DOMAIN task : task[t].at = Active[s]}) <= live[s]
    BY DEF WithinLimits
  <2>1. Within(s) = {t \in DOMAIN task : task[t].at = Active[s]}
    BY DEF RuntimeInv, OthersAwaited, Within
  <2>2. IsFiniteSet(Within(s))  BY Finite, FS_Subset DEF Within
  <2>3. Cardinality(Within(s)) \in Nat  BY <2>2, FS_CardinalityType
  <2>4. permits[Len(permits)] \in [Sections -> Nat] /\ s \in Sections /\ live \in Settings
    BY DEF TypeOK, TaskTypeOK, Sections
  <2>5. permits[Len(permits)][s] \in Nat /\ live[s] \in Nat  BY <2>4, FreshPermits
  <2>6. permits[Len(permits)][s] + Cardinality(Within(s)) = live[s]  BY DEF RuntimeInv, PermitsAdd
  <2>7. Cardinality(Within(s)) <= live[s]  BY <2>3, <2>5, <2>6
  <2> QED BY <2>1, <2>7
<1> QED BY <1>1, RuntimeInvariant, PTL

\* The reconcile never takes a lease whose task runs or whose event is owed, however late the
\* report is handled, unless it was granted again while a task of it was alive.
THEOREM ReclaimSpares == Spec => ReclaimSparesWork
<1>1. RuntimeInv /\ [Next]_vars => [HandleBeat => Inactive \cap Worked \subseteq relapsed]_vars
  BY DEF RuntimeInv, ReportCovers, HandleBeat, Inactive
<1> QED BY <1>1, RuntimeInvariant, PTL DEF Spec, ReclaimSparesWork
=============================================================================
