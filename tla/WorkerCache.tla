------------------------------ MODULE WorkerCache ------------------------------
(***************************************************************************)
(* A worker's caches of what Registry holds (worker/bundle.py, shared.py,    *)
(* cleanup.py): threads that make a bundle, its venv and its shared files    *)
(* ready for a granule, against the cleanup threads that evict bundles and   *)
(* sweep shared files, under a lock per ref and a lock per name.  The caches *)
(* outlive the process: it may be killed anywhere, in the middle of an       *)
(* extraction or of a removal too.                                           *)
(*                                                                           *)
(* Every bundle here has Python dependencies.  Sizes, limits and ages, which *)
(* choose what is evicted, are left out: any ref may be.                     *)
(***************************************************************************)
EXTENDS Registry

CONSTANTS Tasks,   \* handlers
          MaxRuns, \* bound: handlers ever started
          Cleaner  \* stands for the cleanup threads as a holder of locks

ASSUME CleanerAssumption == Cleaner \notin Tasks /\ Null \notin Tasks \cup {Cleaner}
ASSUME RunsAssumption == MaxRuns \in Nat

VARIABLES
  dir,     \* ref -> what is in bundle_cache/<ref>, and whether all of it
  venv,    \* ref -> the bundle venv_cache/<ref> was built for, and whether all of it is there
  cached,  \* name -> bytes in the shared cache
  sidecar, \* name -> digest in .sha256/<name>
  holder,  \* lock of a ref or a name -> its holder
  task,    \* task -> ensure and the run after it
  evicting,\* the ref prune_caches removes
  doomed,  \* names the registry did not list when prune_orphans asked
  evicted, \* history: tasks whose bundle was evicted after ensure
  cut,     \* history: refs left half changed by a kill
  torn,    \* history: name -> a new file with no new sidecar, and the row changed since?
  unlisted,\* history: names put since prune_orphans asked
  runs     \* number of handlers started

cacheVars == <<dir, venv, cached, sidecar>>
cleanerVars == <<evicting, doomed, unlisted>>
vars == <<registryVars, requests, trouble, cacheVars, holder, task, cleanerVars, evicted, cut, torn, runs>>

Copy == [of : Digests, whole : BOOLEAN] \cup {[of |-> Null, whole |-> FALSE]}
Absent == [of |-> Null, whole |-> FALSE]
Whole(d) == [of |-> d, whole |-> TRUE]
Part(copy) == [of |-> copy.of, whole |-> FALSE]

Idle == [at |-> "idle", ref |-> Null, left |-> {}, name |-> Null, remote |-> Null]

Stages == {"idle", "waiting", "looking", "extracting", "preparing", "syncing", "pulling", "placed", "running"}
Ensuring == [at : Stages, ref : Refs \cup {Null}, left : SUBSET Names, name : Names \cup {Null},
             remote : Contents \cup {Null}]

CacheTypeOK ==
  /\ dir \in [Refs -> Copy] /\ venv \in [Refs -> Copy]
  /\ cached \in [Names -> Contents \cup {Null}] /\ sidecar \in [Names -> Contents \cup {Null}]
  /\ holder \in [Refs \cup Names -> Tasks \cup {Cleaner, Null}]
  /\ task \in [Tasks -> Ensuring]
  /\ evicting \in Refs \cup {Null} /\ doomed \subseteq Names
  /\ evicted \subseteq Tasks /\ cut \subseteq Refs /\ torn \in [Names -> {"no", "torn", "changed"}]
  /\ unlisted \subseteq Names
  /\ runs \in 0..MaxRuns
\* A lock is held by who is in its section, and by nobody else.
InSection(t) == task[t].at \notin {"idle", "waiting", "running"}
LocksHeld ==
  \A t \in Tasks :
    /\ \A r \in Refs : holder[r] = t <=> task[t].ref = r /\ InSection(t)
    /\ \A n \in Names : holder[n] = t <=> task[t].name = n /\ task[t].at \in {"pulling", "placed"}
TypeOK == RegistryTypeOK /\ CacheTypeOK /\ LocksHeld

\* A process starts with what earlier ones have left: bundles that have been replaced under the
\* same name and version, and files, too.
Init ==
  /\ RegistryInit
  /\ dir \in [Refs -> {Absent} \cup {Whole(d) : d \in Digests}]
  /\ \A r \in Refs : dir[r] # Absent => RefOf[dir[r].of] = r
  /\ venv \in [Refs -> {Absent} \cup {Whole(d) : d \in Digests}]
  /\ \A r \in Refs : venv[r] \in {Absent, dir[r]}
  /\ cached \in [Names -> Contents \cup {Null}] /\ sidecar = cached
  /\ holder = [l \in Refs \cup Names |-> Null]
  /\ task = [t \in Tasks |-> Idle]
  /\ evicting = Null /\ doomed = {} /\ evicted = {} /\ cut = {} /\ torn = [n \in Names |-> "no"] /\ unlisted = {} /\ runs = 0

-----------------------------------------------------------------------------
(* bundle.ensure, and the run of the bundle.                                 *)

InEnsure(t, at) == task[t].at = at
Goes(t, at) == task' = [task EXCEPT ![t].at = at]
\* The shared files left, and the one that is fetched, with the digest its row had.
Works(t, at, left, name, remote) ==
  task' = [task EXCEPT ![t] = [at |-> at, ref |-> task[t].ref, left |-> left, name |-> name, remote |-> remote]]

\* A handler has its inputs and calls ensure.
Start(t, r) ==
  /\ InEnsure(t, "idle") /\ r \in batches /\ runs < MaxRuns
  /\ runs' = runs + 1
  /\ task' = [task EXCEPT ![t] = [Idle EXCEPT !.at = "waiting", !.ref = r]]
  /\ UNCHANGED <<registryVars, requests, trouble, cacheVars, holder, cleanerVars, evicted, cut, torn>>

TakeRef(t) ==
  /\ InEnsure(t, "waiting") /\ holder[task[t].ref] = Null
  /\ holder' = [holder EXCEPT ![task[t].ref] = t]
  /\ Goes(t, "looking")
  /\ UNCHANGED <<registryVars, requests, trouble, cacheVars, cleanerVars, evicted, cut, torn, runs>>

Held(t) == {l \in DOMAIN holder : holder[l] = t}

\* Mutant: an error leaves the lock of a name as it is.
FailsNamed(t) ==
  /\ task' = [task EXCEPT ![t] = Idle]
  /\ holder' = [l \in DOMAIN holder |-> IF l \in Held(t) \cap Refs THEN Null ELSE holder[l]]
  /\ UNCHANGED <<registryVars, requests, trouble, cleanerVars, evicted, runs>>
\* An error in ensure: every lock of the thread is released, the handler reports a failure.
Fails(t) ==
  /\ task' = [task EXCEPT ![t] = Idle]
  /\ holder' = [l \in DOMAIN holder |-> IF l \in Held(t) THEN Null ELSE holder[l]]
  /\ UNCHANGED <<registryVars, requests, trouble, cleanerVars, evicted, runs>>

\* The directory is there, whatever is in it; or the bundle is downloaded and extracted.
Look(t) ==
  /\ InEnsure(t, "looking")
  /\ LET r == task[t].ref
     IN IF dir[r] # Absent THEN Goes(t, "preparing") /\ UNCHANGED dir
        ELSE /\ bundle[r] # Null /\ bundle[r] \in blobs
             /\ dir' = [dir EXCEPT ![r] = Part(Whole(bundle[r]))]
             /\ Goes(t, "extracting")
  /\ UNCHANGED <<registryVars, requests, trouble, venv, cached, sidecar, holder, cleanerVars, evicted, cut, torn, runs>>
\* 404, 500 or no connection.
FetchFails(t) ==
  /\ InEnsure(t, "looking") /\ dir[task[t].ref] = Absent
  /\ Fails(t)
  /\ UNCHANGED <<cacheVars, cut, torn>>

Extracted(t) ==
  /\ InEnsure(t, "extracting")
  /\ dir' = [dir EXCEPT ![task[t].ref] = Whole(@.of)]
  /\ Goes(t, "preparing")
  /\ UNCHANGED <<registryVars, requests, trouble, venv, cached, sidecar, holder, cleanerVars, evicted, cut, torn, runs>>

\* Mutant: what was extracted so far stays.
LeftOver(r) == dir[r]
LeftAfter(r) == Absent
\* The disk is full: the directory is removed again.
ExtractFails(t) ==
  /\ InEnsure(t, "extracting")
  /\ dir' = [dir EXCEPT ![task[t].ref] = LeftAfter(task[t].ref)]
  /\ Fails(t)
  /\ UNCHANGED <<venv, cached, sidecar, cut, torn>>

\* The manifest is read, in a part of a directory if it is there; a venv is taken as it is if
\* its interpreter is there, or built aside and renamed.
Prepare(t) ==
  /\ InEnsure(t, "preparing")
  /\ LET r == task[t].ref
     IN /\ \/ venv[r] # Absent /\ UNCHANGED venv
           \/ ~ venv[r].whole /\ venv' = [venv EXCEPT ![r] = Whole(dir[r].of)]
        /\ Works(t, "syncing", Needs[dir[r].of], Null, Null)
  /\ UNCHANGED <<registryVars, requests, trouble, dir, cached, sidecar, holder, cleanerVars, evicted, cut, torn, runs>>
\* No manifest, or pip fails.
PrepareFails(t) ==
  /\ InEnsure(t, "preparing")
  /\ ~ dir[task[t].ref].whole \/ ~ venv[task[t].ref].whole
  /\ \E v \in {venv, [venv EXCEPT ![task[t].ref] = Absent]} :
       venv' = IF venv[task[t].ref].whole THEN venv ELSE v
  /\ Fails(t)
  /\ UNCHANGED <<dir, cached, sidecar, cut, torn>>

\* _local_sha
LocalSha(n) == IF cached[n] = Null THEN Null ELSE sidecar[n]

\* A shared file: its row's digest is the sidecar's, or it is downloaded.  The last part of
\* the first case is the release of the lock, which nobody has to wait for.
Sync(t, n) ==
  /\ InEnsure(t, "syncing") /\ n \in task[t].left
  /\ holder[n] = Null /\ shared[n] # Null
  /\ IF LocalSha(n) = shared[n]
     THEN Works(t, "syncing", task[t].left \ {n}, Null, Null) /\ UNCHANGED holder
     ELSE /\ Works(t, "pulling", task[t].left, n, shared[n])
          /\ holder' = [holder EXCEPT ![n] = t]
  /\ UNCHANGED <<registryVars, requests, trouble, cacheVars, cleanerVars, evicted, cut, torn, runs>>
\* No row, no connection, or other bytes than the row says: an error of a thread that has the
\* lock of the name.  One that waits for the lock waits without a time-out.
SyncFails(t) ==
  /\ \/ InEnsure(t, "syncing") /\ \E n \in task[t].left : holder[n] = Null
     \/ InEnsure(t, "pulling")
  /\ Fails(t)
  /\ UNCHANGED <<cacheVars, cut, torn>>

\* Mutant: the sidecar is written first.
SidecarFirst(step, n, x) ==
  IF step = 2 THEN cached' = [cached EXCEPT ![n] = x] /\ UNCHANGED sidecar
  ELSE sidecar' = [sidecar EXCEPT ![n] = x] /\ UNCHANGED cached
\* The file is replaced, then its sidecar written.
Stored(step, n, x) ==
  IF step = 1 THEN cached' = [cached EXCEPT ![n] = x] /\ UNCHANGED sidecar
  ELSE sidecar' = [sidecar EXCEPT ![n] = x] /\ UNCHANGED cached

\* The download has the digest the row had, and takes the place of the file.
Place(t) ==
  /\ InEnsure(t, "pulling")
  /\ shared[task[t].name] # Null /\ files[task[t].name] = task[t].remote
  /\ Stored(1, task[t].name, task[t].remote)
  /\ Goes(t, "placed")
  /\ UNCHANGED <<registryVars, requests, trouble, dir, venv, holder, cleanerVars, evicted, cut, torn, runs>>
\* The sidecar is written and the lock of the name released.
Note(t) ==
  /\ InEnsure(t, "placed")
  /\ LET n == task[t].name
     IN /\ Stored(2, n, task[t].remote)
        /\ holder' = [holder EXCEPT ![n] = Null]
        /\ torn' = [torn EXCEPT ![n] = "no"]
        /\ Works(t, "syncing", task[t].left \ {n}, Null, Null)
  /\ UNCHANGED <<registryVars, requests, trouble, dir, venv, cleanerVars, evicted, cut, runs>>

\* Of the names being replaced by the tasks in S, the new file stays without its sidecar.
Torn(S) ==
  [n \in Names |->
     IF \E t \in S : InEnsure(t, "placed") /\ task[t].name = n
     THEN IF \E t \in S : InEnsure(t, "placed") /\ task[t].name = n /\ task[t].remote = shared[n]
          THEN "torn" ELSE "changed"
     ELSE torn[n]]
\* The sidecar cannot be written: it stays, or is left empty, which is no digest.
NoteFails(t) ==
  /\ InEnsure(t, "placed")
  /\ \E x \in {sidecar[task[t].name], Null} : sidecar' = [sidecar EXCEPT ![task[t].name] = x]
  /\ torn' = Torn({t})
  /\ Fails(t)
  /\ UNCHANGED <<dir, venv, cached, cut>>

\* ensure returns its handle; the run waits for its semaphore and starts.
Return(t) ==
  /\ InEnsure(t, "syncing") /\ task[t].left = {}
  /\ holder' = [holder EXCEPT ![task[t].ref] = Null]
  /\ Goes(t, "running")
  /\ UNCHANGED <<registryVars, requests, trouble, cacheVars, cleanerVars, evicted, cut, torn, runs>>
End(t) ==
  /\ InEnsure(t, "running")
  /\ task' = [task EXCEPT ![t] = Idle]
  /\ evicted' = evicted \ {t}
  /\ UNCHANGED <<registryVars, requests, trouble, cacheVars, holder, cleanerVars, cut, torn, runs>>

-----------------------------------------------------------------------------
(* The cleanup.                                                              *)

\* Mutant: the bundle goes first.
DirFirst(r, half) ==
  IF half THEN dir' = [dir EXCEPT ![r] = Absent] /\ UNCHANGED venv
  ELSE dir' = [dir EXCEPT ![r] = Absent] /\ venv' = [venv EXCEPT ![r] = Absent]
\* The venv goes first, then the bundle; half of that when the removal is cut short.
Removed(r, half) ==
  IF half THEN venv' = [venv EXCEPT ![r] = Absent] /\ UNCHANGED dir
  ELSE dir' = [dir EXCEPT ![r] = Absent] /\ venv' = [venv EXCEPT ![r] = Absent]

\* prune_caches takes a ref whose lock is free, and removes what there is of it.
Evict(r) ==
  /\ evicting = Null /\ holder[r] = Null
  /\ dir[r] # Absent \/ venv[r] # Absent
  /\ evicting' = r
  /\ holder' = [holder EXCEPT ![r] = Cleaner]
  /\ evicted' = evicted \cup {t \in Tasks : task[t].ref = r /\ InEnsure(t, "running")}
  /\ UNCHANGED <<registryVars, requests, trouble, cacheVars, task, doomed, cut, torn, unlisted, runs>>
EvictEnds ==
  /\ evicting # Null
  /\ Removed(evicting, FALSE)
  /\ cut' = cut \ {evicting}
  /\ holder' = [holder EXCEPT ![evicting] = Null]
  /\ evicting' = Null
  /\ UNCHANGED <<registryVars, requests, trouble, cached, sidecar, task, doomed, evicted, torn, unlisted, runs>>

\* Mutant: a copy that is not the registered one is an orphan too.
OrphanOrStale(n) == cached[n] # Null /\ shared[n] # cached[n]
Orphan(n) == cached[n] # Null /\ shared[n] = Null
\* prune_orphans lists the cache and asks the registry.
AskRegistry ==
  /\ doomed = {}
  /\ doomed' = {n \in Names : Orphan(n)}
  /\ doomed' # {}
  /\ unlisted' = {}
  /\ UNCHANGED <<registryVars, requests, trouble, cacheVars, holder, task, evicting, evicted, cut, torn, runs>>
\* It removes a file it found no row for, and the sidecar, under the lock of the name.
Sweep(n) ==
  /\ n \in doomed /\ holder[n] = Null
  /\ doomed' = doomed \ {n}
  /\ cached' = [cached EXCEPT ![n] = Null] /\ sidecar' = [sidecar EXCEPT ![n] = Null]
  /\ UNCHANGED <<registryVars, requests, trouble, dir, venv, holder, task, evicting, evicted, cut, torn, unlisted, runs>>

\* What a kill leaves of a ref: an extraction or a removal in part.
Killed(r) ==
  \/ evicting # r /\ UNCHANGED <<dir, venv>>
  \/ evicting = r /\ venv' = [venv EXCEPT ![r] = Part(@)] /\ UNCHANGED dir
  \/ evicting = r /\ Removed(r, TRUE)
  \/ evicting = r /\ venv' = [venv EXCEPT ![r] = Absent] /\ dir' = [dir EXCEPT ![r] = Part(@)]

WorkerDies ==
  /\ Trouble /\ \E t \in Tasks : task[t].at # "idle"
  /\ \E r \in Refs : (evicting # Null => r = evicting) /\ Killed(r)
  /\ cut' = cut \cup ({evicting} \ {Null})
               \cup {task[t].ref : t \in {u \in Tasks : InEnsure(u, "extracting")}}
  /\ torn' = Torn(Tasks)
  /\ task' = [t \in Tasks |-> Idle]
  /\ holder' = [l \in DOMAIN holder |-> Null]
  /\ evicting' = Null /\ doomed' = {} /\ unlisted' = {} /\ evicted' = {}
  /\ UNCHANGED <<registryVars, requests, cached, sidecar, runs>>

-----------------------------------------------------------------------------

Ensure(t) ==
  \/ TakeRef(t) \/ Look(t) \/ FetchFails(t) \/ Extracted(t) \/ ExtractFails(t)
  \/ Prepare(t) \/ PrepareFails(t) \/ \E n \in Names : Sync(t, n)
  \/ SyncFails(t) \/ Place(t) \/ Note(t) \/ NoteFails(t) \/ Return(t)

Cleanup == EvictEnds \/ AskRegistry \/ (\E r \in Refs : Evict(r)) \/ \E n \in Names : Sweep(n)

\* A step of the registry; a sweep under way does not know of what is put now.
RegistryMoves ==
  /\ RegistryStep
  /\ unlisted' = unlisted \cup {n \in doomed : shared'[n] # Null}
  /\ torn' = [n \in Names |-> IF torn[n] = "torn" /\ shared'[n] # shared[n] THEN "changed" ELSE torn[n]]
  /\ UNCHANGED <<cacheVars, holder, task, evicting, doomed, evicted, cut, runs>>

Next ==
  \/ RegistryMoves
  \/ \E t \in Tasks : (\E r \in Refs : Start(t, r)) \/ Ensure(t) \/ End(t)
  \/ Cleanup \/ WorkerDies

Spec == Init /\ [][Next]_vars

\* Every step of ensure ends: the requests have time-outs, pip ends, and a removal does.
Fairness == (\A t \in Tasks : WF_vars(Ensure(t))) /\ WF_vars(EvictEnds)
LiveSpec == Spec /\ Fairness

-----------------------------------------------------------------------------
\* A granule runs all of its bundle in all of its venv, whatever failed before and however
\* threads and the cleanup met - unless the cleanup evicted the bundle under the run, or a
\* kill left a half of it that nothing has removed since.
RunsWhole ==
  \A t \in Tasks \ evicted :
    InEnsure(t, "running") /\ task[t].ref \notin cut => dir[task[t].ref].whole /\ venv[task[t].ref].whole

\* A venv stands beside the very bundle whose dependencies it has: what a kill leaves of an
\* eviction is never the venv of a bundle that went, which the next upload under the same
\* name and version would run in.
VenvFits == \A r \in Refs : venv[r] # Absent /\ evicting # r => dir[r] # Absent /\ venv[r].of = dir[r].of

\* A copy that counts as the registered file is it, also after a kill or an error between
\* file and sidecar - unless the registered one changed after that.
SidecarTruthful ==
  \A n \in Names :
    holder[n] = Null /\ torn[n] # "changed" /\ LocalSha(n) # Null => LocalSha(n) = cached[n] \/ LocalSha(n) # shared[n]

\* The sweep takes no shared file from under a run whose bundle is registered and has a batch:
\* the registry's checks of references and the worker's list of orphans work together, unless
\* the file came back after the worker asked.
Deprives(t, n) ==
  /\ InEnsure(t, "running") /\ task[t].ref \in batches \ shaky
  /\ bundle[task[t].ref] # Null /\ dir[task[t].ref].of = bundle[task[t].ref]
  /\ n \in Needs[dir[task[t].ref].of] \ (shaky \cup unlisted)
SweepSparesRuns ==
  [][\A n \in Names : cached[n] # Null /\ cached'[n] = Null => ~ \E t \in Tasks : Deprives(t, n)]_vars

\* What makes them inductive.  A thread knows its ref, and the name it fetches.
Placing(t, n) == InEnsure(t, "placed") /\ task[t].name = n
TaskShaped(t) ==
  /\ task[t].at # "idle" => task[t].ref \in Refs
  /\ task[t].at \in {"pulling", "placed"} =>
       /\ task[t].name \in Names /\ task[t].remote \in Contents
       /\ sidecar[task[t].name] # task[t].remote
  /\ InEnsure(t, "placed") => cached[task[t].name] = task[t].remote
TasksShaped == \A t \in Tasks : TaskShaped(t)

\* The cleanup holds the lock of the ref it removes; whoever runs there is out of luck.
EvictionLocks ==
  /\ \A l \in Refs \cup Names : holder[l] = Cleaner <=> evicting = l
  /\ \A t \in Tasks : evicting # Null /\ task[t].ref = evicting /\ InEnsure(t, "running") => t \in evicted

\* What is there of a ref is whole, unless it is being extracted or a kill left a part.
PartsAreCut ==
  \A r \in Refs \ cut :
    /\ dir[r] = Absent \/ dir[r].whole \/ \E t \in Tasks : InEnsure(t, "extracting") /\ task[t].ref = r
    /\ venv[r] = Absent \/ venv[r].whole
\* How far a thread has got is how much there is.
StageHolds(t) ==
  LET r == task[t].ref
  IN /\ InEnsure(t, "extracting") => dir[r] # Absent /\ venv[r] = Absent
     /\ task[t].at \in {"preparing", "syncing", "pulling", "placed"} =>
          dir[r] # Absent /\ (r \notin cut => dir[r].whole)
     /\ task[t].at \in {"syncing", "pulling", "placed"} /\ r \notin cut => venv[r].whole
StagesHold == \A t \in Tasks : StageHolds(t)
VenvsFit == \A r \in Refs : venv[r] # Absent => dir[r] # Absent /\ venv[r].of = dir[r].of
BundleInv == PartsAreCut /\ StagesHold /\ VenvsFit /\ RunsWhole

\* The sidecar is the file's, but between the two steps of a replacement; one that is left
\* from an earlier file is not the registered one's.
SidecarInv ==
  \A n \in Names :
    /\ cached[n] = Null => sidecar[n] = Null
    /\ torn[n] = "no" /\ (\A t \in Tasks : ~ Placing(t, n)) => sidecar[n] = cached[n]
    /\ torn[n] = "torn" => sidecar[n] = Null \/ sidecar[n] # shared[n]

\* What the sweep is after is registered only if it was put since.
DoomedInv == \A n \in doomed \ unlisted : shared[n] = Null

CacheInv == TasksShaped /\ EvictionLocks /\ BundleInv /\ SidecarInv /\ DoomedInv

\* ensure comes to an end for every granule, though each thread may wait for two locks that
\* others, or the cleanup, hold, and no wait has a time-out.
EnsureEnds == \A t \in Tasks : []<>(task[t].at \in {"idle", "running"})
=============================================================================
