-------------------------------- MODULE PubSub --------------------------------
(***************************************************************************)
(* How a committed change reaches an open tab of the web UI (Postgres mode): *)
(* the nudge of commit_and_publish, its NOTIFY queue and sender, the LISTEN  *)
(* connection and the coalescing window of every server process, the stream  *)
(* of /api/stream, the tab's throttle, and its read through the per-process  *)
(* cache.  Nothing on that path is replayed and several queues may drop, so  *)
(* the module asks which changes a tab can be left without.                  *)
(*                                                                           *)
(* One scope, whose nudges are all alike: a queue that holds several holds   *)
(* one.  The data of the scope is the number of the last committed change.   *)
(***************************************************************************)
EXTENDS Integers

CONSTANTS Processes,  \* uvicorn workers
          First,      \* bound: those that accept a stream at first (the processes are alike)
          Tabs,
          Null,
          MaxVersion, \* bound: changes ever committed
          Troubles,   \* what goes wrong
          MaxTrouble  \* bound: times something goes wrong

ASSUME FirstAssumption == First \subseteq Processes
ASSUME NullAssumption == Null \notin Processes /\ Null \notin Nat
ASSUME BoundsAssumption == MaxVersion \in Nat /\ MaxTrouble \in Nat

VARIABLES
  version, \* number of changes committed
  proc,    \* what each process keeps
  tab,     \* what each tab and its stream keep
  trouble  \* number of troubles so far

vars == <<version, proc, tab, trouble>>

Versions == 0..MaxVersion

Procs == [phase : {"up", "flagged", "stopping", "down"}, \* flagged: _shutdown_requested
          owed : BOOLEAN,                       \* a handler is between its commit and its publish
          queued : BOOLEAN, clogged : BOOLEAN,  \* _notify_q: holds the nudge; is full of other payloads
          listener : {"off", "live", "dead"},   \* dead: closed, not noticed yet
          inbox : BOOLEAN,                      \* a notification on the LISTEN socket
          window : {"idle", "open", "repeat"},  \* _open_windows and _repeat
          entry : Versions \cup {Null}]         \* what the AsyncTTLCache has read and not let lapse

TabStates == [at : Processes, stream : {"ready", "subscribed", "broken", "closed"},
              heard : BOOLEAN, stuffed : BOOLEAN,  \* its queue: holds the nudge; is full of other events
              opened : BOOLEAN, resync : BOOLEAN, pending : BOOLEAN,
              asks : Processes \cup {Null},        \* the process its read is at
              shown : Versions,
              missed : BOOLEAN]                    \* history: a nudge for it was lost, or served too early

Fresh == [phase |-> "up", owed |-> FALSE, queued |-> FALSE, clogged |-> FALSE,
          listener |-> "off", inbox |-> FALSE, window |-> "idle", entry |-> Null]

\* The page has loaded its data and the process has accepted its stream.
Init ==
  /\ version = 0
  /\ proc = [p \in Processes |-> Fresh]
  /\ tab \in [Tabs -> [at : First, stream : {"ready"}, heard : {FALSE}, stuffed : {FALSE},
                       opened : {FALSE}, resync : {FALSE}, pending : {FALSE}, asks : {Null},
                       shown : {0}, missed : {FALSE}]]
  /\ trouble = 0

Trouble(kind) == kind \in Troubles /\ trouble < MaxTrouble /\ trouble' = trouble + 1

Alive(p) == proc[p].phase # "down"
Serving(p) == proc[p].phase \in {"up", "flagged"}    \* accepts connections and requests
Running(p) == proc[p].phase \in {"up", "stopping"}
Connected(t) == tab[t].stream \in {"ready", "subscribed"}

----------------------------------------------------------------------------
(* Fan-out to the subscribers of a process *)

Missing(r) == [r EXCEPT !.missed = @ \/ r.shown # version]

FanOut(p, T) ==
  [t \in Tabs |->
     IF T[t].at # p THEN T[t]
     ELSE CASE T[t].stream = "subscribed" /\ ~T[t].stuffed -> [T[t] EXCEPT !.heard = TRUE]
            [] T[t].stream = "subscribed" /\ T[t].stuffed /\ ~T[t].heard -> Missing(T[t])
            [] T[t].stream = "ready" /\ ~T[t].resync -> Missing(T[t])
            [] OTHER -> T[t]]

\* Mutant: a nudge inside a window is taken for a duplicate of the one that opened it.
CoalesceDropping(p, r, T) ==
  /\ proc' = [proc EXCEPT ![p] = [r EXCEPT !.window = IF @ = "idle" THEN "open" ELSE @]]
  /\ tab' = IF r.window = "idle" THEN FanOut(p, T) ELSE T

\* r and T: what the same step has made of the process and of the tabs.
Coalesce(p, r, T) ==
  /\ proc' = [proc EXCEPT ![p] = [r EXCEPT !.window = IF @ = "idle" THEN "open" ELSE "repeat"]]
  /\ tab' = IF r.window = "idle" THEN FanOut(p, T) ELSE T

CloseWindow(p) ==
  /\ proc[p].window # "idle" /\ Alive(p)
  /\ IF proc[p].window = "repeat"
     THEN proc' = [proc EXCEPT ![p].window = "open"] /\ tab' = FanOut(p, tab)
     ELSE proc' = [proc EXCEPT ![p].window = "idle"] /\ UNCHANGED tab
  /\ UNCHANGED <<version, trouble>>

----------------------------------------------------------------------------
(* From a commit to every process *)

Commit(p) ==
  /\ Serving(p) /\ version < MaxVersion
  /\ version' = version + 1
  /\ proc' = [proc EXCEPT ![p].owed = TRUE]
  /\ UNCHANGED <<tab, trouble>>

\* The tabs of the other processes hear nothing of a nudge that is only fanned out here.
Elsewhere(p) ==
  [t \in Tabs |-> IF tab[t].at = p \/ proc[p].queued THEN tab[t] ELSE Missing(tab[t])]

Publish(p) ==
  /\ Alive(p) /\ proc[p].owed
  /\ LET r == [proc[p] EXCEPT !.owed = FALSE]
     IN IF proc[p].clogged
        THEN Coalesce(p, r, Elsewhere(p))
        ELSE proc' = [proc EXCEPT ![p] = [r EXCEPT !.queued = TRUE]] /\ UNCHANGED tab
  /\ UNCHANGED <<version, trouble>>

Notified(P) == [q \in Processes |-> [P[q] EXCEPT !.inbox = @ \/ P[q].listener = "live"]]

SendBatch(p) ==
  /\ Running(p) /\ (proc[p].queued \/ proc[p].clogged)
  /\ LET P == [proc EXCEPT ![p] = [proc[p] EXCEPT !.queued = FALSE, !.clogged = FALSE]]
     IN proc' = IF proc[p].queued THEN Notified(P) ELSE P
  /\ UNCHANGED <<version, tab, trouble>>

\* Mutant: a batch that fails is not put back.
SendFailsForgetting(p) ==
  /\ Running(p) /\ proc[p].queued /\ Trouble("send")
  /\ proc' = [proc EXCEPT ![p].queued = FALSE]
  /\ UNCHANGED <<version, tab>>

\* The error may strike before or after the server ran the statement, and the queue may have
\* filled up meanwhile, so that the batch cannot be put back.
SendFails(p) ==
  /\ Running(p) /\ proc[p].queued /\ Trouble("send")
  /\ \E sent, full \in BOOLEAN :
       LET P == IF sent THEN Notified(proc) ELSE proc
       IN /\ proc' = [P EXCEPT ![p] = [P[p] EXCEPT !.queued = ~full, !.clogged = full]]
          /\ tab' = IF full /\ ~sent THEN [t \in Tabs |-> Missing(tab[t])] ELSE tab
  /\ UNCHANGED version

OnNotify(p) ==
  /\ Alive(p) /\ proc[p].inbox
  /\ Coalesce(p, [proc[p] EXCEPT !.inbox = FALSE], tab)
  /\ UNCHANGED <<version, trouble>>

\* Mutant: the scopes are refreshed only by the notifications to come.
ListenQuietly(p) ==
  /\ Running(p) /\ proc[p].listener = "off"
  /\ proc' = [proc EXCEPT ![p].listener = "live"]
  /\ UNCHANGED <<version, tab, trouble>>

\* LISTEN has no replay: once connected, every scope is refreshed.
Listen(p) ==
  /\ Running(p) /\ proc[p].listener = "off"
  /\ Coalesce(p, [proc[p] EXCEPT !.listener = "live"], tab)
  /\ UNCHANGED <<version, trouble>>

\* Mutant: the loop waits for its sleep to raise.
NoticeNever(p) == FALSE

Notice(p) ==
  /\ Running(p) /\ proc[p].listener = "dead"
  /\ proc' = [proc EXCEPT ![p].listener = "off"]
  /\ UNCHANGED <<version, tab, trouble>>

----------------------------------------------------------------------------
(* The stream of a tab, and what the page does with it (useLiveStream.ts) *)

\* What the cache of p answers is settled already, and is older than the last commit.
Behind(p) ==
  proc[p].entry \notin {Null, version}

Ask(r, p) == [r EXCEPT !.asks = p, !.missed = @ \/ Behind(p)]

Subscribe(t) ==
  /\ tab[t].stream = "ready" /\ Running(tab[t].at)
  /\ tab' = [tab EXCEPT ![t].stream = "subscribed"]
  /\ UNCHANGED <<version, proc, trouble>>

StreamEnds(t) ==
  /\ Connected(t) /\ proc[tab[t].at].phase = "flagged"
  /\ tab' = [tab EXCEPT ![t].stream = "broken"]
  /\ UNCHANGED <<version, proc, trouble>>

NextEvent(t) ==
  /\ tab[t].stream = "subscribed" /\ Running(tab[t].at)
  /\ tab[t].heard \/ tab[t].stuffed
  /\ tab' = [tab EXCEPT ![t] = [tab[t] EXCEPT !.heard = FALSE, !.stuffed = FALSE,
                                              !.pending = @ \/ tab[t].heard]]
  /\ UNCHANGED <<version, proc, trouble>>

\* The refresh after a reconnect cancels the read under way.
OnOpen(t) ==
  /\ Connected(t) /\ ~tab[t].opened
  /\ IF tab[t].resync
     THEN \E p \in Processes :
            /\ Serving(p)
            /\ tab' = [tab EXCEPT ![t] = Ask([tab[t] EXCEPT !.opened = TRUE, !.resync = FALSE], p)]
     ELSE tab' = [tab EXCEPT ![t].opened = TRUE]
  /\ UNCHANGED <<version, proc, trouble>>

\* Mutant: only a stream that had opened asks for a refresh when it is back.
OnErrorIfOpened(t) ==
  /\ tab[t].stream = "broken"
  /\ tab' = [tab EXCEPT ![t] = [@ EXCEPT !.stream = "closed", !.heard = FALSE, !.stuffed = FALSE,
                                         !.opened = FALSE, !.resync = @ \/ tab[t].opened]]
  /\ UNCHANGED <<version, proc, trouble>>

OnError(t) ==
  /\ tab[t].stream = "broken"
  /\ tab' = [tab EXCEPT ![t] = [tab[t] EXCEPT !.stream = "closed", !.heard = FALSE, !.stuffed = FALSE,
                                              !.opened = FALSE, !.resync = TRUE]]
  /\ UNCHANGED <<version, proc, trouble>>

\* The new watchEffect run has an empty set of pending scopes.
Connect(t) ==
  /\ tab[t].stream = "closed"
  /\ \E p \in Processes :
       /\ Serving(p)
       /\ tab' = [tab EXCEPT ![t] = [tab[t] EXCEPT !.at = p, !.stream = "ready", !.pending = FALSE]]
  /\ UNCHANGED <<version, proc, trouble>>

\* A read under way is left alone (cancelRefetch: false), whatever it has read by now.
Flush(t) ==
  /\ tab[t].pending
  /\ LET r == [tab[t] EXCEPT !.pending = FALSE]
     IN \/ /\ tab[t].asks = Null
           /\ \E p \in Processes : Serving(p) /\ tab' = [tab EXCEPT ![t] = Ask(r, p)]
        \/ /\ tab[t].asks # Null
           /\ tab' = [tab EXCEPT ![t] = Ask(r, tab[t].asks)]
  /\ UNCHANGED <<version, proc, trouble>>

Poll(t) ==
  /\ tab[t].asks = Null
  /\ \E p \in Processes : Serving(p) /\ tab' = [tab EXCEPT ![t] = Ask(tab[t], p)]
  /\ UNCHANGED <<version, proc, trouble>>

\* The request of a tab fails with its process and is retried at another one.
Retry(t) ==
  /\ tab[t].asks # Null /\ ~Alive(tab[t].asks)
  /\ \/ \E p \in Processes : Serving(p) /\ tab' = [tab EXCEPT ![t] = Ask(tab[t], p)]
     \/ (\A p \in Processes : ~Serving(p)) /\ tab' = [tab EXCEPT ![t].asks = Null]
  /\ UNCHANGED <<version, proc, trouble>>

----------------------------------------------------------------------------
(* Reads through the AsyncTTLCache of a process *)

\* From here on everybody who asks gets this value: those who wait for the lock of the load, and,
\* once it has ended, those who come before the entry lapses.
Load(p) ==
  /\ Alive(p) /\ proc[p].entry = Null
  /\ \/ (\E t \in Tabs : tab[t].asks = p) /\ UNCHANGED trouble
     \/ Trouble("reader")       \* another client
  /\ proc' = [proc EXCEPT ![p].entry = version]
  /\ UNCHANGED <<version, tab>>

Answer(t) ==
  /\ tab[t].asks # Null /\ Alive(tab[t].asks)
  /\ LET v == proc[tab[t].asks].entry
     IN /\ v # Null
        /\ tab' = [tab EXCEPT ![t] = [tab[t] EXCEPT !.asks = Null, !.shown = v, !.missed = @ /\ v # version]]
  /\ UNCHANGED <<version, proc, trouble>>

\* Mutant: an entry is served until the process ends.
ExpireNever(p) == FALSE

\* The loader and those who wait on its lock are answered before the entry lapses.
Expire(p) ==
  /\ proc[p].entry # Null
  /\ \A t \in Tabs : tab[t].asks # p
  /\ proc' = [proc EXCEPT ![p].entry = Null]
  /\ UNCHANGED <<version, tab, trouble>>

----------------------------------------------------------------------------
(* Crashes, restarts, broken connections, full queues *)

Gone(p, T) ==
  /\ proc' = [proc EXCEPT ![p] = [Fresh EXCEPT !.phase = "down"]]
  /\ tab' = [t \in Tabs |-> IF T[t].at = p /\ T[t].stream \in {"ready", "subscribed"}
                            THEN [T[t] EXCEPT !.stream = "broken"] ELSE T[t]]

\* What the process had not sent yet is lost to every tab.
Crash(p) ==
  /\ Alive(p) /\ Trouble("crash")
  /\ Gone(p, IF proc[p].owed \/ proc[p].queued
             THEN [t \in Tabs |-> Missing(tab[t])] ELSE tab)
  /\ UNCHANGED version

\* The restart endpoint: request_shutdown at p, then SIGTERM to every process.
RequestShutdown(p) ==
  /\ proc[p].phase = "up" /\ Trouble("restart")
  /\ proc' = [q \in Processes |-> IF q = p THEN [proc[q] EXCEPT !.phase = "flagged"]
                                  ELSE IF Alive(q) THEN [proc[q] EXCEPT !.phase = "stopping"] ELSE proc[q]]
  /\ UNCHANGED <<version, tab>>

Exit(p) ==
  /\ proc[p].phase \in {"flagged", "stopping"}
  /\ Gone(p, tab)
  /\ UNCHANGED <<version, trouble>>

\* A crashed process is replaced; a stopped server starts again once all of it has stopped.
Boot(p) ==
  /\ proc[p].phase = "down"
  /\ \A q \in Processes : proc[q].phase \in {"up", "down"}
  /\ proc' = [proc EXCEPT ![p] = Fresh]
  /\ UNCHANGED <<version, tab, trouble>>

Break(t) ==
  /\ Connected(t) /\ Trouble("break")
  /\ tab' = [tab EXCEPT ![t].stream = "broken"]
  /\ UNCHANGED <<version, proc>>

SocketDies(p) ==
  /\ proc[p].listener = "live" /\ Trouble("listen")
  /\ proc' = [proc EXCEPT ![p] = [proc[p] EXCEPT !.listener = "dead", !.inbox = FALSE]]
  /\ UNCHANGED <<version, tab>>

Stuff(t) ==
  /\ tab[t].stream = "subscribed" /\ ~tab[t].stuffed /\ Trouble("stuff")
  /\ tab' = [tab EXCEPT ![t].stuffed = TRUE]
  /\ UNCHANGED <<version, proc>>

Clog(p) ==
  /\ Alive(p) /\ ~proc[p].clogged /\ Trouble("clog")
  /\ proc' = [proc EXCEPT ![p].clogged = TRUE]
  /\ UNCHANGED <<version, tab>>

----------------------------------------------------------------------------
Nudges(p) == Publish(p) \/ SendBatch(p) \/ OnNotify(p) \/ CloseWindow(p)
Listeners(p) == Listen(p) \/ Notice(p)
Streams(t) == Subscribe(t) \/ StreamEnds(t) \/ NextEvent(t)
Page(t) == OnOpen(t) \/ OnError(t) \/ Connect(t) \/ Flush(t) \/ Retry(t) \/ Answer(t)
Lifecycle(p) == Exit(p) \/ Boot(p)
Disturbance ==
  \/ \E p \in Processes : SendFails(p) \/ Crash(p) \/ RequestShutdown(p) \/ SocketDies(p) \/ Clog(p)
  \/ \E t \in Tabs : Break(t) \/ Stuff(t)

Next ==
  \/ \E p \in Processes : Commit(p) \/ Nudges(p) \/ Listeners(p) \/ Load(p) \/ Expire(p) \/ Lifecycle(p)
  \/ \E t \in Tabs : Streams(t) \/ Page(t) \/ Poll(t)
  \/ Disturbance

Spec == Init /\ [][Next]_vars

\* Every task of the loop, every timer and every open request goes on by itself.  Nobody has to
\* commit or to poll, and the entry of a cache lapses even when it is asked for again and again.
Fairness ==
  /\ \A p \in Processes :
       /\ WF_vars(Publish(p)) /\ WF_vars(SendBatch(p))
       /\ WF_vars(OnNotify(p)) /\ WF_vars(CloseWindow(p))
       /\ WF_vars(Listeners(p)) /\ WF_vars(Load(p)) /\ WF_vars(Lifecycle(p)) /\ SF_vars(Expire(p))
  /\ \A t \in Tabs :
       /\ WF_vars(Streams(t)) /\ WF_vars(OnOpen(t)) /\ WF_vars(OnError(t) \/ Connect(t))
       /\ WF_vars(Flush(t)) /\ WF_vars(Retry(t) \/ Answer(t))

LiveSpec == Spec /\ Fairness

----------------------------------------------------------------------------
\* The type invariant.
TypeOK ==
  /\ version \in Versions
  /\ proc \in [Processes -> Procs]
  /\ tab \in [Tabs -> TabStates]
  /\ trouble \in 0..MaxTrouble

\* A nudge that will make the tab read again is somewhere on its way: in a handler, a queue, a
\* socket or a window, in a stream that will be replaced, or a read that has not settled yet.
OnItsWay(t) ==
  LET r == tab[t]
      at == proc[r.at]
  IN \/ \E p \in Processes : proc[p].owed \/ proc[p].queued
     \/ r.stream = "broken" \/ r.resync \/ r.heard \/ r.pending
     \/ Connected(t) /\ (at.phase # "up" \/ at.listener # "live" \/ at.inbox \/ at.window = "repeat")
     \/ r.asks # Null /\ ~Behind(r.asks)

\* A tab that shows old data is about to be nudged, except after one of the losses the code
\* accepts: a process that died with the nudge, a full queue, a nudge sent between "ready" and
\* the subscription, a nudge that met a read already under way, a read served from the cache.
\* In particular no reconnect, of LISTEN or of the stream, and no window loses a change.
NothingForgotten == \A t \in Tabs : tab[t].shown = version \/ tab[t].missed \/ OnItsWay(t)

\* What makes it inductive.  A stream that is closed is followed by a refresh, a process that
\* is down has nothing left to send, and the server stops as a whole.
ClosedResyncs == \A t \in Tabs : tab[t].stream = "closed" => tab[t].resync
DownIsSilent == \A p \in Processes : proc[p].phase = "down" => ~proc[p].owed /\ ~proc[p].queued
StopsTogether ==
  \A p, q \in Processes : proc[p].phase \in {"flagged", "stopping"} => proc[q].phase # "up"

\* Nobody has read what is not committed, and a tab that is up to date does not wait for an
\* older answer, unless its question came too late for the cache.
NothingAhead ==
  /\ \A p \in Processes : proc[p].entry = Null \/ proc[p].entry <= version
  /\ \A t \in Tabs : tab[t].shown <= version
NoStepBack ==
  \A t \in Tabs :
    tab[t].shown = version /\ tab[t].asks # Null /\ Behind(tab[t].asks) => tab[t].missed

PubSubInv == NothingForgotten /\ ClosedResyncs /\ DownIsSilent /\ StopsTogether /\ NothingAhead /\ NoStepBack

\* Without such a loss the nudges alone, with no help from the 60 s poll, bring every tab to the
\* last change: no stage of the path holds one for ever.
NudgesSuffice ==
  \A t \in Tabs : <>[](~tab[t].missed) => <>[](tab[t].shown = version)

\* A tab that keeps polling shows the last change whatever was lost, through any cache.
PollCatchesUp ==
  \A t \in Tabs : []<><<Poll(t)>>_vars => <>[](tab[t].shown = version)
=============================================================================
