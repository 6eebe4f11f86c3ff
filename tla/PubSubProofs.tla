----------------------------- MODULE PubSubProofs -----------------------------
(***************************************************************************)
(* No tab is left without a change but by the losses the code accepts: for  *)
(* any number of server processes, tabs, changes and troubles.              *)
(***************************************************************************)
EXTENDS PubSub, TLAPS

-----------------------------------------------------------------------------
(* What happens to the tabs.                                                 *)

\* Nudges leave of a tab what they leave, and lose nothing that was already known.
Grows(T, U) ==
  /\ U \in [Tabs -> TabStates]
  /\ \A t \in Tabs :
       /\ U[t].at = T[t].at /\ U[t].stream = T[t].stream /\ U[t].resync = T[t].resync
       /\ U[t].pending = T[t].pending /\ U[t].asks = T[t].asks /\ U[t].shown = T[t].shown
       /\ T[t].missed => U[t].missed
       /\ T[t].heard => U[t].heard

LEMMA MissingTab ==
  ASSUME NEW r \in TabStates
  PROVE  /\ Missing(r) \in TabStates
         /\ Missing(r).at = r.at /\ Missing(r).stream = r.stream /\ Missing(r).resync = r.resync
         /\ Missing(r).pending = r.pending /\ Missing(r).asks = r.asks /\ Missing(r).shown = r.shown
         /\ Missing(r).heard = r.heard /\ (r.missed => Missing(r).missed)
         /\ Missing(r).missed \/ r.shown = version
  BY DEF Missing, TabStates

LEMMA HeardTab ==
  ASSUME NEW r \in TabStates
  PROVE  LET h == [r EXCEPT !.heard = TRUE]
         IN /\ h \in TabStates /\ h.heard
            /\ h.at = r.at /\ h.stream = r.stream /\ h.resync = r.resync
            /\ h.pending = r.pending /\ h.asks = r.asks /\ h.shown = r.shown /\ h.missed = r.missed
  BY DEF TabStates

\* The tab has the nudge, or will read anyway, or is excused.
Told(r) == r.heard \/ r.resync \/ r.missed \/ r.shown = version

LEMMA FanOutTells ==
  ASSUME NEW p, NEW T \in [Tabs -> TabStates]
  PROVE  /\ Grows(T, FanOut(p, T))
         /\ \A t \in Tabs : T[t].at = p /\ T[t].stream \in {"ready", "subscribed"} => Told(FanOut(p, T)[t])
  <1> DEFINE U == FanOut(p, T)
  <1>1. ASSUME NEW t \in Tabs
        PROVE  /\ U[t] \in TabStates
               /\ U[t].at = T[t].at /\ U[t].stream = T[t].stream /\ U[t].resync = T[t].resync
               /\ U[t].pending = T[t].pending /\ U[t].asks = T[t].asks /\ U[t].shown = T[t].shown
               /\ T[t].missed => U[t].missed
               /\ T[t].heard => U[t].heard
               /\ T[t].at = p /\ T[t].stream \in {"ready", "subscribed"} => Told(U[t])
    <2> DEFINE r == T[t]
    <2>0. r \in TabStates
      OBVIOUS
    <2>1. CASE r.at # p
      BY <2>0, <2>1 DEF FanOut
    <2>2. CASE r.at = p /\ r.stream = "subscribed" /\ ~r.stuffed
      <3>1. U[t] = [r EXCEPT !.heard = TRUE]
        BY <2>2 DEF FanOut
      <3> QED
        BY <2>0, <2>2, <3>1, HeardTab DEF Told
    <2>3. CASE r.at = p /\ r.stream = "subscribed" /\ r.stuffed /\ ~r.heard
      <3>1. U[t] = Missing(r)
        BY <2>3 DEF FanOut
      <3> QED
        BY <2>0, <2>3, <3>1, MissingTab DEF Told
    <2>4. CASE r.at = p /\ r.stream = "ready" /\ ~r.resync
      <3>1. U[t] = Missing(r)
        BY <2>4 DEF FanOut
      <3> QED
        BY <2>0, <2>4, <3>1, MissingTab DEF Told
    <2>5. CASE /\ r.at = p
               /\ ~(r.stream = "subscribed" /\ ~r.stuffed)
               /\ ~(r.stream = "subscribed" /\ r.stuffed /\ ~r.heard)
               /\ ~(r.stream = "ready" /\ ~r.resync)
      <3>1. U[t] = r
        BY <2>5 DEF FanOut
      <3> QED
        BY <2>0, <2>5, <3>1 DEF Told
    <2> QED
      BY <2>1, <2>2, <2>3, <2>4, <2>5
  <1>2. U = [t \in Tabs |-> U[t]]
    BY DEF FanOut
  <1> HIDE DEF U
  <1>3. U \in [Tabs -> TabStates]
    BY <1>1, <1>2
  <1> QED
    BY <1>1, <1>3 DEF Grows, U

LEMMA GrowsTwice ==
  ASSUME NEW T, NEW U, NEW V, Grows(T, U), Grows(U, V)
  PROVE  Grows(T, V)
  BY DEF Grows

LEMMA AllMissing ==
  ASSUME NEW T \in [Tabs -> TabStates], NEW U, U = [t \in Tabs |-> Missing(T[t])]
  PROVE  Grows(T, U) /\ \A t \in Tabs : U[t].missed \/ U[t].shown = version
  <1>1. \A t \in Tabs : U[t] = Missing(T[t]) /\ T[t] \in TabStates
    OBVIOUS
  <1>2. U \in [Tabs -> TabStates]
    BY <1>1, MissingTab
  <1> QED
    BY <1>1, <1>2, MissingTab DEF Grows

LEMMA ElsewhereGrows ==
  ASSUME TypeOK, NEW p
  PROVE  /\ Grows(tab, Elsewhere(p))
         /\ \A t \in Tabs : tab[t].at = p \/ proc[p].queued \/ Elsewhere(p)[t].missed
                            \/ Elsewhere(p)[t].shown = version
  <1> DEFINE U == Elsewhere(p)
  <1>1. \A t \in Tabs : /\ U[t] = IF tab[t].at = p \/ proc[p].queued THEN tab[t] ELSE Missing(tab[t])
                        /\ tab[t] \in TabStates
    BY DEF Elsewhere, TypeOK
  <1>2. U = [t \in Tabs |-> U[t]]
    BY DEF Elsewhere
  <1> HIDE DEF U
  <1>3. U \in [Tabs -> TabStates]
    BY <1>1, <1>2, MissingTab
  <1>4. Grows(tab, U)
    BY <1>1, <1>3, MissingTab DEF Grows
  <1> QED
    BY <1>1, <1>4, MissingTab DEF U

-----------------------------------------------------------------------------
(* The invariant and its parts.                                              *)

IInv == TypeOK /\ PubSubInv

Fine(t) == tab[t].shown = version \/ tab[t].missed \/ OnItsWay(t)

Rest == ClosedResyncs /\ NothingAhead /\ NoStepBack
Phases == DownIsSilent /\ StopsTogether

LEMMA Parts == IInv <=> TypeOK /\ Rest /\ Phases /\ \A t \in Tabs : Fine(t)
  BY DEF IInv, PubSubInv, Rest, Phases, NothingForgotten, Fine

AllFine == \A t \in Tabs : Fine(t)

LEMMA PartsNext ==
  TypeOK' /\ Rest' /\ Phases' /\ (\A t \in Tabs : Fine(t)') => IInv'
  <1>1. TypeOK /\ Rest /\ Phases /\ AllFine => IInv
    BY Parts DEF AllFine
  <1>2. TypeOK' /\ Rest' /\ Phases' /\ AllFine' => IInv'
    BY <1>1, PTL
  <1>3. (\A t \in Tabs : Fine(t)') => AllFine'
    BY DEF AllFine
  <1> QED
    BY <1>2, <1>3

\* Nothing is committed, asked or answered.
LEMMA RestKept ==
  ASSUME TypeOK, Rest, version' = version, tab' \in [Tabs -> TabStates],
         \A t \in Tabs : /\ tab'[t].resync = tab[t].resync /\ tab'[t].asks = tab[t].asks
                         /\ tab'[t].shown = tab[t].shown
                         /\ tab[t].missed => tab'[t].missed
                         /\ tab'[t].stream \in {tab[t].stream, "broken"},
         \A p \in Processes : proc'[p].entry \in {proc[p].entry, Null}
  PROVE  Rest'
  <1>1. ClosedResyncs'
    BY DEF Rest, ClosedResyncs
  <1>2. NothingAhead'
    BY DEF Rest, NothingAhead
  <1>3. NoStepBack'
    <2> SUFFICES ASSUME NEW t \in Tabs, tab'[t].shown = version', tab'[t].asks # Null, Behind(tab[t].asks)'
                 PROVE  tab'[t].missed
      BY DEF NoStepBack
    <2>1. tab[t].asks \in Processes
      BY DEF TypeOK, TabStates
    <2>2. Behind(tab[t].asks)
      BY <2>1 DEF Behind
    <2> QED
      BY <2>2 DEF Rest, NoStepBack
  <1> QED
    BY <1>1, <1>2, <1>3 DEF Rest

LEMMA PhasesKept ==
  ASSUME TypeOK, Phases,
         \A p \in Processes : /\ proc'[p].phase = proc[p].phase
                              /\ proc[p].phase = "down" =>
                                   proc'[p].owed = proc[p].owed /\ proc'[p].queued = proc[p].queued
  PROVE  Phases'
  BY DEF Phases, DownIsSilent, StopsTogether

\* A tab at no process that lost something.
LEMMA FineKept ==
  ASSUME TypeOK, NEW t \in Tabs, Fine(t), version' = version,
         tab'[t].at = tab[t].at, tab'[t].stream = tab[t].stream, tab'[t].resync = tab[t].resync,
         tab'[t].pending = tab[t].pending, tab'[t].asks = tab[t].asks, tab'[t].shown = tab[t].shown,
         tab[t].missed => tab'[t].missed, tab[t].heard => tab'[t].heard,
         \A p \in Processes : /\ proc[p].owed \/ proc[p].queued => proc'[p].owed \/ proc'[p].queued
                              /\ Behind(p)' => Behind(p),
         LET a == proc[tab[t].at]
             b == proc'[tab[t].at]
         IN /\ a.phase # "up" => b.phase # "up"
            /\ a.listener # "live" => b.listener # "live"
            /\ a.inbox \/ a.window = "repeat" => b.inbox \/ b.window = "repeat" \/ b.listener # "live"
  PROVE  Fine(t)'
  <1>1. CASE tab[t].shown = version \/ tab[t].missed
    BY <1>1 DEF Fine
  <1>2. CASE OnItsWay(t)
    <2>1. CASE \E p \in Processes : proc[p].owed \/ proc[p].queued
      BY <2>1 DEF Fine, OnItsWay
    <2>2. CASE tab[t].stream = "broken" \/ tab[t].resync \/ tab[t].heard \/ tab[t].pending
      BY <2>2 DEF Fine, OnItsWay
    <2>3. CASE Connected(t) /\ (\/ proc[tab[t].at].phase # "up" \/ proc[tab[t].at].listener # "live"
                                \/ proc[tab[t].at].inbox \/ proc[tab[t].at].window = "repeat")
      BY <2>3 DEF Fine, OnItsWay, Connected
    <2>4. CASE tab[t].asks # Null /\ ~Behind(tab[t].asks)
      <3>1. tab[t].asks \in Processes
        BY <2>4 DEF TypeOK, TabStates
      <3>2. ~Behind(tab[t].asks)'
        BY <2>4, <3>1
      <3> QED
        BY <2>4, <3>2 DEF Fine, OnItsWay
    <2> QED
      BY <1>2, <2>1, <2>2, <2>3, <2>4 DEF OnItsWay
  <1> QED
    BY <1>1, <1>2 DEF Fine

\* A nudge that reaches a process is told there, or repeated.
LEMMA CoalesceTells ==
  ASSUME TypeOK, Rest, version' = version, NEW p \in Processes, NEW r \in Procs,
         NEW T, Grows(tab, T), Coalesce(p, r, T)
  PROVE  /\ proc' \in [Processes -> Procs] /\ tab' \in [Tabs -> TabStates] /\ Grows(T, tab')
         /\ Rest' \/ r.entry # proc[p].entry
         /\ \A t \in Tabs : tab[t].at = p => Fine(t)'
         /\ \A q \in Processes : q # p => proc'[q] = proc[q]
         /\ /\ proc'[p].phase = r.phase /\ proc'[p].owed = r.owed /\ proc'[p].queued = r.queued
            /\ proc'[p].listener = r.listener /\ proc'[p].inbox = r.inbox /\ proc'[p].entry = r.entry
  <1> DEFINE n == [r EXCEPT !.window = IF @ = "idle" THEN "open" ELSE "repeat"]
  <1>1. /\ n \in Procs /\ n.phase = r.phase /\ n.owed = r.owed /\ n.queued = r.queued
        /\ n.listener = r.listener /\ n.inbox = r.inbox /\ n.entry = r.entry
        /\ r.window # "idle" => n.window = "repeat"
    BY DEF Procs
  <1>2. proc' = [proc EXCEPT ![p] = n]
    BY DEF Coalesce
  <1> HIDE DEF n
  <1>3. proc' \in [Processes -> Procs] /\ proc'[p] = n /\ \A q \in Processes : q # p => proc'[q] = proc[q]
    BY <1>1, <1>2 DEF TypeOK
  <1>4. T \in [Tabs -> TabStates]
    BY DEF Grows
  <1>5. Grows(T, tab')
    <2>1. CASE r.window = "idle"
      BY <1>4, <2>1, FanOutTells DEF Coalesce
    <2>2. CASE r.window # "idle"
      BY <1>4, <2>2 DEF Coalesce, Grows
    <2> QED
      BY <2>1, <2>2
  <1>6. Grows(tab, tab')
    BY <1>5, GrowsTwice
  <1>7. ASSUME NEW t \in Tabs, tab[t].at = p PROVE Fine(t)'
    <2>1. tab[t].stream \in {"ready", "subscribed", "broken", "closed"}
      BY DEF TypeOK, TabStates
    <2>2. CASE tab[t].stream \in {"broken", "closed"}
      BY <1>6, <2>2 DEF Grows, Rest, ClosedResyncs, Fine, OnItsWay
    <2>3. CASE tab[t].stream \in {"ready", "subscribed"} /\ r.window = "idle"
      <3>1. Told(tab'[t])
        BY <1>4, <1>7, <2>3, FanOutTells DEF Coalesce, Grows
      <3> QED
        BY <3>1 DEF Told, Fine, OnItsWay
    <2>4. CASE tab[t].stream \in {"ready", "subscribed"} /\ r.window # "idle"
      BY <1>1, <1>3, <1>6, <1>7, <2>4 DEF Grows, Fine, OnItsWay, Connected
    <2> QED
      BY <2>1, <2>2, <2>3, <2>4
  <1>8. ASSUME r.entry = proc[p].entry PROVE Rest'
    <2>1. \A q \in Processes : proc'[q].entry \in {proc[q].entry, Null}
      BY <1>1, <1>3, <1>8
    <2> QED
      BY <1>6, <2>1, RestKept DEF Grows
  <1> QED
    BY <1>1, <1>3, <1>5, <1>6, <1>7, <1>8 DEF Grows

-----------------------------------------------------------------------------
(* From a commit to every process.                                           *)

LEMMA CommitStep ==
  ASSUME IInv, NEW p \in Processes, Commit(p)
  PROVE  IInv'
  <1>1. TypeOK /\ Rest /\ Phases
    BY Parts
  <1>2. /\ version \in 0..MaxVersion /\ version' = version + 1 /\ version' \in Versions
        /\ version \in Nat
    BY <1>1, BoundsAssumption DEF TypeOK, Versions, Commit
  <1> DEFINE n == [proc[p] EXCEPT !.owed = TRUE]
  <1>3. n \in Procs /\ n.owed /\ n.phase = proc[p].phase /\ n.entry = proc[p].entry
    BY <1>1 DEF TypeOK, Procs
  <1>4. proc' = [proc EXCEPT ![p] = n]
    BY <1>1 DEF TypeOK, Commit
  <1> HIDE DEF n
  <1>5. /\ proc' \in [Processes -> Procs] /\ proc'[p].owed
        /\ \A q \in Processes : /\ proc'[q].phase = proc[q].phase /\ proc'[q].entry = proc[q].entry
                                /\ q # p => proc'[q] = proc[q]
    BY <1>1, <1>3, <1>4 DEF TypeOK
  <1>6. tab' = tab /\ trouble' = trouble
    BY DEF Commit
  <1>7. TypeOK'
    BY <1>1, <1>2, <1>5, <1>6 DEF TypeOK
  <1>8. Rest'
    <2>1. ClosedResyncs'
      BY <1>1, <1>6 DEF Rest, ClosedResyncs
    <2>2. NothingAhead' /\ \A t \in Tabs : tab'[t].shown # version'
      <3>1. \A q \in Processes : proc'[q].entry = Null \/ (proc'[q].entry \in Nat /\ proc'[q].entry <= version)
        BY <1>1, <1>5, BoundsAssumption DEF Rest, NothingAhead, TypeOK, Procs, Versions
      <3>2. \A t \in Tabs : tab'[t].shown \in Nat /\ tab'[t].shown <= version
        BY <1>1, <1>6, BoundsAssumption DEF Rest, NothingAhead, TypeOK, TabStates, Versions
      <3> QED
        BY <1>2, <3>1, <3>2 DEF NothingAhead
    <2> QED
      BY <2>1, <2>2 DEF Rest, NoStepBack
  <1>9. Phases'
    <2>1. proc[p].phase # "down"
      BY DEF Commit, Serving
    <2> QED
      BY <1>1, <1>5, <2>1, PhasesKept
  <1>10. \A t \in Tabs : Fine(t)'
    BY <1>5 DEF Fine, OnItsWay
  <1> QED
    BY <1>7, <1>8, <1>9, <1>10, PartsNext

LEMMA PublishStep ==
  ASSUME IInv, NEW p \in Processes, Publish(p)
  PROVE  IInv'
  <1>1. TypeOK /\ Rest /\ Phases /\ \A t \in Tabs : Fine(t)
    BY Parts
  <1>2. proc[p] \in Procs /\ proc[p].phase # "down" /\ version' = version /\ trouble' = trouble
    BY <1>1 DEF TypeOK, Publish, Alive
  <1>3. PICK r : r = [proc[p] EXCEPT !.owed = FALSE]
    OBVIOUS
  <1>4. /\ r \in Procs /\ r.phase = proc[p].phase /\ r.queued = proc[p].queued /\ r.entry = proc[p].entry
        /\ r.listener = proc[p].listener /\ r.inbox = proc[p].inbox /\ r.window = proc[p].window
    BY <1>2, <1>3 DEF Procs
  <1>5. CASE proc[p].clogged
    <2>1. Coalesce(p, r, Elsewhere(p))
      BY <1>3, <1>5 DEF Publish
    <2>2. PICK T : T = Elsewhere(p)
      OBVIOUS
    <2>3. /\ Grows(tab, T)
          /\ \A t \in Tabs : tab[t].at = p \/ proc[p].queued \/ T[t].missed \/ T[t].shown = version
      BY <1>1, <2>2, ElsewhereGrows
    <2>4. /\ proc' \in [Processes -> Procs] /\ tab' \in [Tabs -> TabStates] /\ Grows(T, tab')
          /\ Rest' \/ r.entry # proc[p].entry
          /\ \A t \in Tabs : tab[t].at = p => Fine(t)'
          /\ \A q \in Processes : q # p => proc'[q] = proc[q]
          /\ /\ proc'[p].phase = r.phase /\ proc'[p].owed = r.owed /\ proc'[p].queued = r.queued
             /\ proc'[p].listener = r.listener /\ proc'[p].inbox = r.inbox /\ proc'[p].entry = r.entry
      BY <1>1, <1>2, <1>4, <2>1, <2>2, <2>3, CoalesceTells
    <2>5. ASSUME NEW t \in Tabs, tab[t].at # p PROVE Fine(t)'
      <3>1. CASE proc[p].queued
        BY <1>4, <2>4, <3>1 DEF Fine, OnItsWay
      <3>2. CASE ~proc[p].queued
        <4>1. tab'[t].missed \/ tab'[t].shown = version
          BY <2>3, <2>4, <2>5, <3>2 DEF Grows
        <4> QED
          BY <1>2, <4>1 DEF Fine
      <3> QED
        BY <3>1, <3>2
    <2>6. Phases'
      BY <1>1, <1>2, <1>4, <2>4, PhasesKept
    <2>7. TypeOK'
      BY <1>1, <1>2, <2>4 DEF TypeOK
    <2> QED
      BY <1>4, <2>4, <2>5, <2>6, <2>7, PartsNext
  <1>6. CASE ~proc[p].clogged
    <2> DEFINE n == [r EXCEPT !.queued = TRUE]
    <2>1. n \in Procs /\ n.queued /\ n.phase = proc[p].phase /\ n.entry = proc[p].entry
      BY <1>4 DEF Procs
    <2>2. proc' = [proc EXCEPT ![p] = n] /\ tab' = tab
      BY <1>3, <1>6 DEF Publish
    <2> HIDE DEF n
    <2>3. /\ proc' \in [Processes -> Procs] /\ proc'[p].queued
          /\ \A q \in Processes : /\ proc'[q].phase = proc[q].phase /\ proc'[q].entry = proc[q].entry
                                  /\ q # p => proc'[q] = proc[q]
      BY <1>1, <2>1, <2>2 DEF TypeOK
    <2>4. \A t \in Tabs : Fine(t)'
      BY <2>3 DEF Fine, OnItsWay
    <2>5. Phases'
      BY <1>1, <1>2, <2>3, PhasesKept
    <2>6. TypeOK' /\ tab' \in [Tabs -> TabStates]
      BY <1>1, <1>2, <2>2, <2>3 DEF TypeOK
    <2>7. Rest'
      BY <1>1, <1>2, <2>2, <2>3, <2>6, RestKept
    <2> QED
      BY <2>4, <2>5, <2>6, <2>7, PartsNext
  <1> QED
    BY <1>5, <1>6

LEMMA NotifyListenStep ==
  ASSUME IInv, NEW p \in Processes, OnNotify(p) \/ Listen(p)
  PROVE  IInv'
  <1>1. TypeOK /\ Rest /\ Phases /\ \A t \in Tabs : Fine(t)
    BY Parts
  <1>2. proc[p] \in Procs /\ proc[p].phase # "down" /\ version' = version /\ trouble' = trouble
    BY <1>1 DEF TypeOK, OnNotify, Listen, Running, Alive
  <1>3. PICK r \in Procs : /\ r.phase = proc[p].phase /\ r.queued = proc[p].queued
                           /\ r.owed = proc[p].owed /\ r.entry = proc[p].entry
                           /\ Coalesce(p, r, tab)
    <2>1. CASE OnNotify(p)
      <3> DEFINE r == [proc[p] EXCEPT !.inbox = FALSE]
      <3>1. /\ r \in Procs /\ r.phase = proc[p].phase /\ r.queued = proc[p].queued
            /\ r.owed = proc[p].owed /\ r.entry = proc[p].entry
        BY <1>2 DEF Procs
      <3> QED
        BY <2>1, <3>1 DEF OnNotify
    <2>2. CASE Listen(p)
      <3> DEFINE r == [proc[p] EXCEPT !.listener = "live"]
      <3>1. /\ r \in Procs /\ r.phase = proc[p].phase /\ r.queued = proc[p].queued
            /\ r.owed = proc[p].owed /\ r.entry = proc[p].entry
        BY <1>2 DEF Procs
      <3> QED
        BY <2>2, <3>1 DEF Listen
    <2> QED
      BY <2>1, <2>2
  <1>4. Grows(tab, tab)
    BY <1>1 DEF Grows, TypeOK
  <1>5. /\ proc' \in [Processes -> Procs] /\ tab' \in [Tabs -> TabStates] /\ Grows(tab, tab')
        /\ Rest' \/ r.entry # proc[p].entry
        /\ \A t \in Tabs : tab[t].at = p => Fine(t)'
        /\ \A q \in Processes : q # p => proc'[q] = proc[q]
        /\ /\ proc'[p].phase = r.phase /\ proc'[p].owed = r.owed /\ proc'[p].queued = r.queued
           /\ proc'[p].listener = r.listener /\ proc'[p].inbox = r.inbox /\ proc'[p].entry = r.entry
    BY <1>1, <1>2, <1>3, <1>4, CoalesceTells
  <1>6. ASSUME NEW t \in Tabs, tab[t].at # p PROVE Fine(t)'
    <2>1. tab[t].at \in Processes /\ proc'[tab[t].at] = proc[tab[t].at]
      BY <1>1, <1>5, <1>6 DEF TypeOK, TabStates
    <2>2. \A q \in Processes : /\ proc[q].owed \/ proc[q].queued => proc'[q].owed \/ proc'[q].queued
                               /\ Behind(q)' => Behind(q)
      BY <1>2, <1>3, <1>5 DEF Behind
    <2>3. /\ tab'[t].at = tab[t].at /\ tab'[t].stream = tab[t].stream /\ tab'[t].resync = tab[t].resync
          /\ tab'[t].pending = tab[t].pending /\ tab'[t].asks = tab[t].asks
          /\ tab'[t].shown = tab[t].shown
          /\ tab[t].missed => tab'[t].missed
          /\ tab[t].heard => tab'[t].heard
      BY <1>5 DEF Grows
    <2> QED
      BY <1>1, <1>2, <2>1, <2>2, <2>3, FineKept
  <1>7. Phases'
    BY <1>1, <1>2, <1>3, <1>5, PhasesKept
  <1>8. TypeOK'
    BY <1>1, <1>2, <1>5 DEF TypeOK
  <1> QED
    BY <1>3, <1>5, <1>6, <1>7, <1>8, PartsNext

\* Troubles are counted up to the bound.
LEMMA TroubleStays ==
  ASSUME TypeOK, trouble' = trouble \/ \E kind : Trouble(kind)
  PROVE  trouble' \in 0..MaxTrouble
  BY BoundsAssumption DEF TypeOK, Trouble

LEMMA CloseWindowStep ==
  ASSUME IInv, NEW p \in Processes, CloseWindow(p)
  PROVE  IInv'
  <1>1. TypeOK /\ Rest /\ Phases /\ \A t \in Tabs : Fine(t)
    BY Parts
  <1>2. proc[p] \in Procs /\ version' = version /\ trouble' = trouble
    BY <1>1 DEF TypeOK, CloseWindow
  <1>3. PICK w \in {"open", "idle"} : /\ proc' = [proc EXCEPT ![p].window = w]
                                      /\ tab' = IF w = "open" THEN FanOut(p, tab) ELSE tab
                                      /\ w = "idle" => proc[p].window # "repeat"
    BY <1>2 DEF CloseWindow
  <1> DEFINE n == [proc[p] EXCEPT !.window = w]
  <1>4. /\ n \in Procs /\ n.phase = proc[p].phase /\ n.queued = proc[p].queued
        /\ n.owed = proc[p].owed /\ n.entry = proc[p].entry
        /\ n.listener = proc[p].listener /\ n.inbox = proc[p].inbox
    BY <1>2 DEF Procs
  <1>5. proc' = [proc EXCEPT ![p] = n]
    BY <1>1, <1>3 DEF TypeOK
  <1> HIDE DEF n
  <1>6. /\ proc' \in [Processes -> Procs] /\ proc'[p] = n
        /\ \A q \in Processes : q # p => proc'[q] = proc[q]
    BY <1>1, <1>4, <1>5 DEF TypeOK
  <1>7. Grows(tab, tab')
    BY <1>1, <1>3, FanOutTells DEF TypeOK, Grows
  <1>8. ASSUME NEW t \in Tabs PROVE Fine(t)'
    <2>1. \A q \in Processes : /\ proc[q].owed \/ proc[q].queued => proc'[q].owed \/ proc'[q].queued
                               /\ Behind(q)' => Behind(q)
      BY <1>2, <1>4, <1>6 DEF Behind
    <2>2. /\ tab'[t].at = tab[t].at /\ tab'[t].stream = tab[t].stream /\ tab'[t].resync = tab[t].resync
          /\ tab'[t].pending = tab[t].pending /\ tab'[t].asks = tab[t].asks
          /\ tab'[t].shown = tab[t].shown
          /\ tab[t].missed => tab'[t].missed
          /\ tab[t].heard => tab'[t].heard
      BY <1>7 DEF Grows
    <2>3. tab[t].at \in Processes /\ tab[t].stream \in {"ready", "subscribed", "broken", "closed"}
      BY <1>1 DEF TypeOK, TabStates
    <2>4. CASE tab[t].at # p \/ w = "idle"
      <3>1. LET a == proc[tab[t].at]
                b == proc'[tab[t].at]
            IN /\ a.phase # "up" => b.phase # "up"
               /\ a.listener # "live" => b.listener # "live"
               /\ a.inbox \/ a.window = "repeat" => b.inbox \/ b.window = "repeat" \/ b.listener # "live"
        <4>1. CASE tab[t].at # p
          BY <1>6, <2>3, <4>1
        <4>2. CASE tab[t].at = p /\ w = "idle"
          BY <1>3, <1>4, <1>6, <4>2
        <4> QED
          BY <2>4, <4>1, <4>2
      <3> QED
        BY <1>1, <1>2, <2>1, <2>2, <3>1, FineKept
    <2>5. CASE tab[t].at = p /\ w = "open" /\ tab[t].stream \in {"ready", "subscribed"}
      <3>1. Told(tab'[t])
        BY <1>1, <1>3, <2>5, FanOutTells DEF TypeOK
      <3> QED
        BY <1>2, <3>1 DEF Told, Fine, OnItsWay
    <2>6. CASE tab[t].stream \in {"broken", "closed"}
      BY <1>1, <2>2, <2>6 DEF Rest, ClosedResyncs, Fine, OnItsWay
    <2> QED
      BY <1>3, <2>3, <2>4, <2>5, <2>6
  <1>9. Phases'
    BY <1>1, <1>4, <1>6, PhasesKept
  <1>10. TypeOK'
    BY <1>1, <1>2, <1>6, <1>7 DEF TypeOK, Grows
  <1>11. Rest'
    BY <1>1, <1>2, <1>4, <1>6, <1>7, RestKept DEF Grows
  <1> QED
    BY <1>8, <1>9, <1>10, <1>11, PartsNext

\* The processes after a statement that was run.
LEMMA NotifiedProcs ==
  ASSUME NEW P \in [Processes -> Procs], NEW Q, Q = Notified(P)
  PROVE  /\ Q \in [Processes -> Procs]
         /\ \A q \in Processes :
              /\ Q[q].phase = P[q].phase /\ Q[q].owed = P[q].owed /\ Q[q].queued = P[q].queued
              /\ Q[q].listener = P[q].listener /\ Q[q].window = P[q].window /\ Q[q].entry = P[q].entry
              /\ P[q].inbox \/ P[q].listener = "live" => Q[q].inbox
  <1>1. ASSUME NEW q \in Processes
        PROVE  /\ Q[q] \in Procs
               /\ Q[q].phase = P[q].phase /\ Q[q].owed = P[q].owed /\ Q[q].queued = P[q].queued
               /\ Q[q].listener = P[q].listener /\ Q[q].window = P[q].window /\ Q[q].entry = P[q].entry
               /\ P[q].inbox \/ P[q].listener = "live" => Q[q].inbox
    <2>1. P[q] \in Procs /\ Q[q] = [P[q] EXCEPT !.inbox = @ \/ P[q].listener = "live"]
      BY DEF Notified
    <2> QED
      BY <2>1 DEF Procs
  <1>2. Q = [q \in Processes |-> Q[q]]
    BY DEF Notified
  <1> QED
    BY <1>1, <1>2

\* A batch that was sent, put back or given up: every tab has a notification waiting for it,
\* or a queue keeps the nudge, or the tab is excused.
LEMMA BatchStep ==
  ASSUME IInv, NEW p \in Processes, SendBatch(p) \/ SendFails(p)
  PROVE  IInv'
  <1>1. TypeOK /\ Rest /\ Phases /\ \A t \in Tabs : Fine(t)
    BY Parts
  <1>2. proc[p] \in Procs /\ proc[p].phase # "down" /\ version' = version
    BY <1>1 DEF TypeOK, SendBatch, SendFails, Running
  <1>3. PICK sent \in BOOLEAN, full \in BOOLEAN, put \in BOOLEAN :
          /\ LET n == [proc[p] EXCEPT !.queued = put, !.clogged = full]
                 P == [proc EXCEPT ![p] = n]
             IN proc' = P \/ (sent /\ proc' = Notified(P))
          /\ sent => proc' = Notified([proc EXCEPT ![p] = [proc[p] EXCEPT !.queued = put, !.clogged = full]])
          /\ put => proc[p].queued
          /\ tab' = IF proc[p].queued /\ ~put /\ ~sent THEN [t \in Tabs |-> Missing(tab[t])] ELSE tab
    <2>1. CASE SendBatch(p)
      <3>1. CASE proc[p].queued
        BY <2>1, <3>1 DEF SendBatch
      <3>2. CASE ~proc[p].queued
        BY <2>1, <3>2 DEF SendBatch
      <3> QED
        BY <3>1, <3>2
    <2>2. CASE SendFails(p)
      <3>1. PICK sent, full \in BOOLEAN :
              LET P == IF sent THEN Notified(proc) ELSE proc
              IN /\ proc' = [P EXCEPT ![p] = [P[p] EXCEPT !.queued = ~full, !.clogged = full]]
                 /\ tab' = IF full /\ ~sent THEN [t \in Tabs |-> Missing(tab[t])] ELSE tab
        BY <2>2 DEF SendFails
      <3>2. proc[p].queued
        BY <2>2 DEF SendFails
      <3>3. CASE ~sent
        BY <3>1, <3>2, <3>3
      <3>4. CASE sent
        <4> DEFINE n == [proc[p] EXCEPT !.queued = ~full, !.clogged = full]
        <4>1. proc' = Notified([proc EXCEPT ![p] = n])
          <5>1. proc' = [Notified(proc) EXCEPT ![p] =
                           [Notified(proc)[p] EXCEPT !.queued = ~full, !.clogged = full]]
            BY <3>1, <3>4
          <5>2. n.inbox = proc[p].inbox /\ n.listener = proc[p].listener
            BY <1>2 DEF Procs
          <5>3. Notified(proc)[p] = [proc[p] EXCEPT !.inbox = @ \/ proc[p].listener = "live"]
            BY DEF Notified
          <5>4. [n EXCEPT !.inbox = @ \/ n.listener = "live"]
                  = [Notified(proc)[p] EXCEPT !.queued = ~full, !.clogged = full]
            BY <1>2, <5>2, <5>3 DEF Procs
          <5> HIDE DEF n
          <5>5. ASSUME NEW q \in Processes
                PROVE  proc'[q] = Notified([proc EXCEPT ![p] = n])[q]
            <6>1. CASE q = p
              BY <1>1, <5>1, <5>4, <6>1 DEF Notified, TypeOK
            <6>2. CASE q # p
              BY <1>1, <5>1, <6>2 DEF Notified, TypeOK
            <6> QED
              BY <6>1, <6>2
          <5> QED
            BY <5>1, <5>5 DEF Notified
        <4> QED
          BY <3>1, <3>2, <3>4, <4>1
      <3> QED
        BY <3>3, <3>4
    <2> QED
      BY <2>1, <2>2
  <1> DEFINE n == [proc[p] EXCEPT !.queued = put, !.clogged = full]
             P == [proc EXCEPT ![p] = n]
  <1>4. /\ n \in Procs /\ n.phase = proc[p].phase /\ n.queued = put /\ n.owed = proc[p].owed
        /\ n.entry = proc[p].entry /\ n.listener = proc[p].listener /\ n.inbox = proc[p].inbox
        /\ n.window = proc[p].window
    BY <1>2 DEF Procs
  <1>5. proc' = P \/ (sent /\ proc' = Notified(P))
    BY <1>3
  <1>a. sent => proc' = Notified(P)
    BY <1>3
  <1> HIDE DEF n
  <1>6. P \in [Processes -> Procs] /\ P[p] = n /\ \A q \in Processes : q # p => P[q] = proc[q]
    BY <1>1, <1>4 DEF TypeOK
  <1> HIDE DEF P
  <1>7. /\ proc' \in [Processes -> Procs]
        /\ \A q \in Processes :
             /\ proc'[q].phase = proc[q].phase /\ proc'[q].owed = proc[q].owed
             /\ proc'[q].listener = proc[q].listener /\ proc'[q].window = proc[q].window
             /\ proc'[q].entry = proc[q].entry
             /\ q # p => proc'[q].queued = proc[q].queued
             /\ proc[q].inbox => proc'[q].inbox
             /\ sent /\ proc[q].listener = "live" => proc'[q].inbox
        /\ proc'[p].queued = put
    <2>1. CASE proc' = P /\ ~sent
      BY <1>4, <1>6, <2>1
    <2>2. CASE sent
      BY <1>4, <1>6, <1>a, <2>2, NotifiedProcs
    <2> QED
      BY <1>5, <2>1, <2>2
  <1>8. Grows(tab, tab')
    <2>1. tab \in [Tabs -> TabStates]
      BY <1>1 DEF TypeOK
    <2>2. Grows(tab, tab)
      BY <2>1 DEF Grows
    <2> QED
      BY <1>3, <2>1, <2>2, AllMissing
  <1>9. ASSUME NEW t \in Tabs PROVE Fine(t)'
    <2>1. /\ tab'[t].at = tab[t].at /\ tab'[t].stream = tab[t].stream /\ tab'[t].resync = tab[t].resync
          /\ tab'[t].pending = tab[t].pending /\ tab'[t].asks = tab[t].asks
          /\ tab'[t].shown = tab[t].shown
          /\ tab[t].missed => tab'[t].missed
          /\ tab[t].heard => tab'[t].heard
      BY <1>8 DEF Grows
    <2>2. tab[t].at \in Processes /\ tab[t].stream \in {"ready", "subscribed", "broken", "closed"}
      BY <1>1 DEF TypeOK, TabStates
    <2>3. CASE ~proc[p].queued \/ put
      <3>1. \A q \in Processes : /\ proc[q].owed \/ proc[q].queued => proc'[q].owed \/ proc'[q].queued
                                 /\ Behind(q)' => Behind(q)
        BY <1>2, <1>7, <2>3 DEF Behind
      <3> QED
        BY <1>1, <1>2, <1>7, <2>1, <2>2, <3>1, FineKept
    <2>4. CASE proc[p].queued /\ ~put /\ sent
      <3>1. CASE tab[t].stream \in {"ready", "subscribed"}
        BY <1>7, <2>1, <2>2, <2>4, <3>1 DEF Fine, OnItsWay, Connected
      <3>2. CASE tab[t].stream \in {"broken", "closed"}
        BY <1>1, <2>1, <3>2 DEF Rest, ClosedResyncs, Fine, OnItsWay
      <3> QED
        BY <2>2, <3>1, <3>2
    <2>5. CASE proc[p].queued /\ ~put /\ ~sent
      <3>1. tab'[t].missed \/ tab'[t].shown = version
        BY <1>1, <1>3, <2>5, AllMissing DEF TypeOK
      <3> QED
        BY <1>2, <3>1 DEF Fine
    <2> QED
      BY <2>3, <2>4, <2>5
  <1>10. Phases'
    BY <1>1, <1>2, <1>7, PhasesKept
  <1>11. TypeOK'
    <2>1. trouble' = trouble \/ \E kind : Trouble(kind)
      BY DEF SendBatch, SendFails
    <2>2. trouble' \in 0..MaxTrouble
      BY <1>1, <2>1, TroubleStays
    <2> QED
      BY <1>1, <1>2, <1>7, <1>8, <2>2 DEF TypeOK, Grows
  <1>12. Rest'
    BY <1>1, <1>2, <1>7, <1>8, RestKept DEF Grows
  <1> QED
    BY <1>9, <1>10, <1>11, <1>12, PartsNext

-----------------------------------------------------------------------------
(* The listeners, the caches and the life of a process.                      *)

\* A step of one process that loses no nudge: its listener, its queue, its cache.
LEMMA ProcStep ==
  ASSUME IInv, NEW p \in Processes, NEW r \in Procs, proc' = [proc EXCEPT ![p] = r],
         version' = version, tab' = tab, trouble' = trouble \/ \E kind : Trouble(kind),
         r.phase = proc[p].phase, r.owed = proc[p].owed, r.queued = proc[p].queued,
         proc[p].listener # "live" => r.listener # "live",
         proc[p].inbox \/ proc[p].window = "repeat" => r.inbox \/ r.window = "repeat" \/ r.listener # "live",
         \/ r.entry = proc[p].entry
         \/ proc[p].entry = Null /\ r.entry = version
         \/ r.entry = Null /\ \A t \in Tabs : tab[t].asks # p
  PROVE  IInv'
  <1>1. TypeOK /\ Rest /\ Phases /\ \A t \in Tabs : Fine(t)
    BY Parts
  <1>2. /\ proc' \in [Processes -> Procs] /\ proc'[p] = r
        /\ \A q \in Processes : q # p => proc'[q] = proc[q]
    BY <1>1 DEF TypeOK
  <1>3. TypeOK'
    BY <1>1, <1>2, TroubleStays DEF TypeOK
  <1>4. \A q \in Processes : Behind(q)' => Behind(q)
    BY <1>2 DEF Behind
  <1>5. Rest'
    <2>1. ClosedResyncs'
      BY <1>1 DEF Rest, ClosedResyncs
    <2>2. NothingAhead'
      <3>1. version <= version
        BY <1>1, BoundsAssumption DEF TypeOK, Versions
      <3> QED
        BY <1>1, <1>2, <3>1 DEF Rest, NothingAhead
    <2>3. NoStepBack'
      <3>1. \A t \in Tabs : tab[t].asks \in Processes \cup {Null}
        BY <1>1 DEF TypeOK, TabStates
      <3> QED
        BY <1>1, <1>4, <3>1 DEF Rest, NoStepBack
    <2> QED
      BY <2>1, <2>2, <2>3 DEF Rest
  <1>6. Phases'
    BY <1>1, <1>2, PhasesKept
  <1>7. ASSUME NEW t \in Tabs PROVE Fine(t)'
    <2>1. tab[t].at \in Processes
      BY <1>1 DEF TypeOK, TabStates
    <2>2. \A q \in Processes : proc[q].owed \/ proc[q].queued => proc'[q].owed \/ proc'[q].queued
      BY <1>2
    <2> QED
      BY <1>1, <1>2, <1>4, <2>1, <2>2, FineKept
  <1> QED
    BY <1>3, <1>5, <1>6, <1>7, PartsNext

LEMMA ListenerStep ==
  ASSUME IInv, NEW p \in Processes, Notice(p) \/ SocketDies(p) \/ Clog(p)
  PROVE  IInv'
  <1>1. TypeOK /\ proc[p] \in Procs
    BY Parts DEF TypeOK
  <1>2. CASE Notice(p)
    <2> DEFINE r == [proc[p] EXCEPT !.listener = "off"]
    <2>1. /\ r \in Procs /\ r.phase = proc[p].phase /\ r.owed = proc[p].owed /\ r.queued = proc[p].queued
          /\ r.entry = proc[p].entry /\ r.listener # "live"
      BY <1>1 DEF Procs
    <2>2. proc' = [proc EXCEPT ![p] = r] /\ version' = version /\ tab' = tab /\ trouble' = trouble
      BY <1>1, <1>2 DEF Notice, TypeOK
    <2> HIDE DEF r
    <2> QED
      BY <2>1, <2>2, ProcStep
  <1>3. CASE SocketDies(p)
    <2> DEFINE r == [proc[p] EXCEPT !.listener = "dead", !.inbox = FALSE]
    <2>1. /\ r \in Procs /\ r.phase = proc[p].phase /\ r.owed = proc[p].owed /\ r.queued = proc[p].queued
          /\ r.entry = proc[p].entry /\ r.listener # "live"
      BY <1>1 DEF Procs
    <2>2. /\ proc' = [proc EXCEPT ![p] = r] /\ version' = version /\ tab' = tab
          /\ \E kind : Trouble(kind)
      BY <1>3 DEF SocketDies
    <2> HIDE DEF r
    <2> QED
      BY <2>1, <2>2, ProcStep
  <1>4. CASE Clog(p)
    <2> DEFINE r == [proc[p] EXCEPT !.clogged = TRUE]
    <2>1. /\ r \in Procs /\ r.phase = proc[p].phase /\ r.owed = proc[p].owed /\ r.queued = proc[p].queued
          /\ r.entry = proc[p].entry /\ r.listener = proc[p].listener /\ r.inbox = proc[p].inbox
          /\ r.window = proc[p].window
      BY <1>1 DEF Procs
    <2>2. /\ proc' = [proc EXCEPT ![p] = r] /\ version' = version /\ tab' = tab
          /\ \E kind : Trouble(kind)
      BY <1>1, <1>4 DEF Clog, TypeOK
    <2> HIDE DEF r
    <2> QED
      BY <2>1, <2>2, ProcStep
  <1> QED
    BY <1>2, <1>3, <1>4

LEMMA CacheStep ==
  ASSUME IInv, NEW p \in Processes, Load(p) \/ Expire(p)
  PROVE  IInv'
  <1>1. TypeOK /\ proc[p] \in Procs /\ version \in Versions
    BY Parts DEF TypeOK
  <1>2. PICK e \in Versions \cup {Null} :
          /\ proc' = [proc EXCEPT ![p].entry = e]
          /\ \/ proc[p].entry = Null /\ e = version
             \/ e = Null /\ \A t \in Tabs : tab[t].asks # p
          /\ version' = version /\ tab' = tab
          /\ trouble' = trouble \/ \E kind : Trouble(kind)
    <2>1. CASE Load(p)
      BY <1>1, <2>1 DEF Load
    <2>2. CASE Expire(p)
      BY <2>2 DEF Expire
    <2> QED
      BY <2>1, <2>2
  <1> DEFINE r == [proc[p] EXCEPT !.entry = e]
  <1>3. /\ r \in Procs /\ r.phase = proc[p].phase /\ r.owed = proc[p].owed /\ r.queued = proc[p].queued
        /\ r.entry = e /\ r.listener = proc[p].listener /\ r.inbox = proc[p].inbox
        /\ r.window = proc[p].window
    BY <1>1 DEF Procs
  <1>4. proc' = [proc EXCEPT ![p] = r]
    BY <1>1, <1>2 DEF TypeOK
  <1> HIDE DEF r
  <1>5. version' = version /\ tab' = tab /\ (trouble' = trouble \/ \E kind : Trouble(kind))
    BY <1>2
  <1>6. \/ proc[p].entry = Null /\ r.entry = version
        \/ r.entry = Null /\ \A t \in Tabs : tab[t].asks # p
    BY <1>2, <1>3
  <1> QED
    BY <1>3, <1>4, <1>5, <1>6, ProcStep

\* A process that ends takes its streams and its cache with it, and nothing of the other processes.
LEMMA GoneLeaves ==
  ASSUME TypeOK, Phases, Rest, version' = version, NEW p \in Processes,
         NEW T, Grows(tab, T), Gone(p, T)
  PROVE  /\ proc' \in [Processes -> Procs] /\ tab' \in [Tabs -> TabStates]
         /\ proc'[p].phase = "down" /\ ~proc'[p].owed /\ ~proc'[p].queued
         /\ \A q \in Processes : q # p => proc'[q] = proc[q]
         /\ Rest' /\ Phases'
         /\ \A t \in Tabs :
              /\ tab'[t].stream = IF tab[t].at = p /\ tab[t].stream \in {"ready", "subscribed"}
                                  THEN "broken" ELSE tab[t].stream
              /\ tab'[t].at = tab[t].at /\ tab'[t].resync = tab[t].resync
              /\ tab'[t].pending = tab[t].pending /\ tab'[t].asks = tab[t].asks
              /\ tab'[t].shown = tab[t].shown /\ tab'[t].missed = T[t].missed
              /\ tab[t].missed => tab'[t].missed
              /\ tab[t].heard => tab'[t].heard
         /\ \A q \in Processes : Behind(q)' => Behind(q)
  <1> DEFINE d == [Fresh EXCEPT !.phase = "down"]
  <1>1. d \in Procs /\ d.phase = "down" /\ ~d.owed /\ ~d.queued /\ d.entry = Null
    BY DEF Fresh, Procs
  <1>2. proc' = [proc EXCEPT ![p] = d]
    BY DEF Gone
  <1> HIDE DEF d
  <1>3. /\ proc' \in [Processes -> Procs] /\ proc'[p] = d
        /\ \A q \in Processes : q # p => proc'[q] = proc[q]
    BY <1>1, <1>2 DEF TypeOK
  <1>4. T \in [Tabs -> TabStates]
    BY DEF Grows
  <1>5. ASSUME NEW t \in Tabs
        PROVE  /\ tab'[t] \in TabStates
               /\ tab'[t].stream = IF T[t].at = p /\ T[t].stream \in {"ready", "subscribed"}
                                   THEN "broken" ELSE T[t].stream
               /\ tab'[t].at = T[t].at /\ tab'[t].resync = T[t].resync
               /\ tab'[t].pending = T[t].pending /\ tab'[t].asks = T[t].asks
               /\ tab'[t].shown = T[t].shown /\ tab'[t].missed = T[t].missed
               /\ tab'[t].heard = T[t].heard
    <2>1. T[t] \in TabStates
      BY <1>4
    <2>2. CASE T[t].at = p /\ T[t].stream \in {"ready", "subscribed"}
      <3>1. tab'[t] = [T[t] EXCEPT !.stream = "broken"]
        BY <2>2 DEF Gone
      <3> QED
        BY <2>1, <2>2, <3>1 DEF TabStates
    <2>3. CASE ~(T[t].at = p /\ T[t].stream \in {"ready", "subscribed"})
      <3>1. tab'[t] = T[t]
        BY <2>3 DEF Gone
      <3> QED
        BY <2>1, <2>3, <3>1
    <2> QED
      BY <2>2, <2>3
  <1>6. tab' = [t \in Tabs |-> tab'[t]]
    BY DEF Gone
  <1>7. tab' \in [Tabs -> TabStates]
    BY <1>5, <1>6
  <1>8. \A t \in Tabs :
          /\ tab'[t].stream = IF tab[t].at = p /\ tab[t].stream \in {"ready", "subscribed"}
                              THEN "broken" ELSE tab[t].stream
          /\ tab'[t].at = tab[t].at /\ tab'[t].resync = tab[t].resync
          /\ tab'[t].pending = tab[t].pending /\ tab'[t].asks = tab[t].asks
          /\ tab'[t].shown = tab[t].shown /\ tab'[t].missed = T[t].missed
          /\ tab[t].missed => tab'[t].missed
          /\ tab[t].heard => tab'[t].heard
    BY <1>5 DEF Grows
  <1>9. \A q \in Processes : proc'[q].entry \in {proc[q].entry, Null}
    BY <1>1, <1>3
  <1>10. Rest'
    BY <1>7, <1>8, <1>9, RestKept
  <1>11. Phases'
    BY <1>1, <1>3 DEF Phases, DownIsSilent, StopsTogether
  <1>12. \A q \in Processes : Behind(q)' => Behind(q)
    BY <1>9 DEF Behind
  <1> QED
    BY <1>1, <1>3, <1>7, <1>8, <1>10, <1>11, <1>12

\* A tab whose nudge, if it was still to be sent, does not depend on the process that ends.
LEMMA CrashStep ==
  ASSUME IInv, NEW p \in Processes, Crash(p)
  PROVE  IInv'
  <1>1. TypeOK /\ Rest /\ Phases /\ \A t \in Tabs : Fine(t)
    BY Parts
  <1>2. version' = version /\ trouble' \in 0..MaxTrouble
    BY <1>1, TroubleStays DEF Crash
  <1>3. PICK T : /\ T = IF proc[p].owed \/ proc[p].queued
                        THEN [t \in Tabs |-> Missing(tab[t])] ELSE tab
                 /\ Gone(p, T)
    BY DEF Crash
  <1>4. tab \in [Tabs -> TabStates] /\ Grows(tab, tab)
    BY <1>1 DEF TypeOK, Grows
  <1>5. Grows(tab, T)
    BY <1>3, <1>4, AllMissing
  <1>6. /\ proc' \in [Processes -> Procs] /\ tab' \in [Tabs -> TabStates]
        /\ \A q \in Processes : q # p => proc'[q] = proc[q]
        /\ Rest' /\ Phases'
        /\ \A t \in Tabs :
             /\ tab'[t].stream = IF tab[t].at = p /\ tab[t].stream \in {"ready", "subscribed"}
                                 THEN "broken" ELSE tab[t].stream
             /\ tab'[t].at = tab[t].at /\ tab'[t].resync = tab[t].resync
             /\ tab'[t].pending = tab[t].pending /\ tab'[t].asks = tab[t].asks
             /\ tab'[t].shown = tab[t].shown /\ tab'[t].missed = T[t].missed
             /\ tab[t].missed => tab'[t].missed
             /\ tab[t].heard => tab'[t].heard
        /\ \A q \in Processes : Behind(q)' => Behind(q)
    BY <1>1, <1>2, <1>3, <1>5, GoneLeaves
  <1>7. ASSUME NEW t \in Tabs PROVE Fine(t)'
    <2>1. tab[t].at \in Processes /\ tab[t].stream \in {"ready", "subscribed", "broken", "closed"}
      BY <1>1 DEF TypeOK, TabStates
    <2>2. CASE tab'[t].stream \in {"broken", "closed"}
      BY <1>6, <2>2 DEF Rest, ClosedResyncs, Fine, OnItsWay
    <2>3. CASE proc[p].owed \/ proc[p].queued
      <3>1. T[t].missed \/ T[t].shown = version
        BY <1>3, <1>4, <2>3, AllMissing
      <3>2. tab'[t].missed \/ tab'[t].shown = version
        BY <1>5, <1>6, <3>1 DEF Grows
      <3> QED
        BY <1>2, <3>2 DEF Fine
    <2>4. CASE tab[t].at # p /\ ~(proc[p].owed \/ proc[p].queued)
      <3>1. \A q \in Processes : proc[q].owed \/ proc[q].queued => proc'[q].owed \/ proc'[q].queued
        BY <1>6, <2>4
      <3>2. proc'[tab[t].at] = proc[tab[t].at] /\ tab'[t].stream = tab[t].stream
        BY <1>6, <2>1, <2>4
      <3> QED
        BY <1>1, <1>2, <1>6, <3>1, <3>2, FineKept
    <2> QED
      BY <1>6, <2>1, <2>2, <2>3, <2>4
  <1>8. TypeOK'
    BY <1>1, <1>2, <1>6 DEF TypeOK
  <1> QED
    BY <1>6, <1>7, <1>8, PartsNext

\* The other processes stop too, so that every stream will be replaced.
LEMMA ExitStep ==
  ASSUME IInv, NEW p \in Processes, Exit(p)
  PROVE  IInv'
  <1>1. TypeOK /\ Rest /\ Phases /\ \A t \in Tabs : Fine(t)
    BY Parts
  <1>2. version' = version /\ trouble' = trouble /\ Gone(p, tab)
        /\ proc[p].phase \in {"flagged", "stopping"}
    BY DEF Exit
  <1>3. Grows(tab, tab)
    BY <1>1 DEF TypeOK, Grows
  <1>4. /\ proc' \in [Processes -> Procs] /\ tab' \in [Tabs -> TabStates]
        /\ \A q \in Processes : q # p => proc'[q] = proc[q]
        /\ Rest' /\ Phases'
        /\ \A t \in Tabs :
             /\ tab'[t].stream = IF tab[t].at = p /\ tab[t].stream \in {"ready", "subscribed"}
                                 THEN "broken" ELSE tab[t].stream
             /\ tab'[t].at = tab[t].at
    BY <1>1, <1>2, <1>3, GoneLeaves
  <1>5. ASSUME NEW t \in Tabs PROVE Fine(t)'
    <2>1. tab[t].at \in Processes /\ tab[t].stream \in {"ready", "subscribed", "broken", "closed"}
      BY <1>1 DEF TypeOK, TabStates
    <2>2. CASE tab'[t].stream \in {"broken", "closed"}
      BY <1>4, <2>2 DEF Rest, ClosedResyncs, Fine, OnItsWay
    <2>3. CASE tab'[t].stream \notin {"broken", "closed"}
      <3>1. tab[t].at # p /\ tab'[t].stream \in {"ready", "subscribed"}
        BY <1>4, <2>1, <2>3
      <3>2. proc'[tab'[t].at].phase # "up"
        BY <1>1, <1>2, <1>4, <2>1, <3>1 DEF Phases, StopsTogether
      <3> QED
        BY <3>1, <3>2 DEF Fine, OnItsWay, Connected
    <2> QED
      BY <2>2, <2>3
  <1>6. TypeOK'
    BY <1>1, <1>2, <1>4 DEF TypeOK
  <1> QED
    BY <1>4, <1>5, <1>6, PartsNext

\* A server that stops makes every tab come back.
LEMMA ShutdownStep ==
  ASSUME IInv, NEW p \in Processes, RequestShutdown(p)
  PROVE  IInv'
  <1>1. TypeOK /\ Rest /\ Phases /\ \A t \in Tabs : Fine(t)
    BY Parts
  <1>2. version' = version /\ tab' = tab /\ trouble' \in 0..MaxTrouble
    BY <1>1, TroubleStays DEF RequestShutdown
  <1>3. ASSUME NEW q \in Processes
        PROVE  /\ proc'[q] \in Procs
               /\ proc'[q].phase # "up"
               /\ proc[q].phase = "down" => proc'[q] = proc[q]
               /\ proc'[q].phase = "down" => proc[q].phase = "down"
               /\ proc'[q].owed = proc[q].owed /\ proc'[q].queued = proc[q].queued
               /\ proc'[q].listener = proc[q].listener /\ proc'[q].inbox = proc[q].inbox
               /\ proc'[q].window = proc[q].window /\ proc'[q].entry = proc[q].entry
    <2>1. proc[q] \in Procs
      BY <1>1 DEF TypeOK
    <2>2. CASE q = p
      <3>1. proc'[q] = [proc[q] EXCEPT !.phase = "flagged"] /\ proc[q].phase = "up"
        BY <2>2 DEF RequestShutdown
      <3> QED
        BY <2>1, <3>1 DEF Procs
    <2>3. CASE q # p /\ proc[q].phase # "down"
      <3>1. proc'[q] = [proc[q] EXCEPT !.phase = "stopping"]
        BY <2>3 DEF RequestShutdown, Alive
      <3> QED
        BY <2>1, <2>3, <3>1 DEF Procs
    <2>4. CASE q # p /\ proc[q].phase = "down"
      <3>1. proc'[q] = proc[q]
        BY <2>4 DEF RequestShutdown, Alive
      <3> QED
        BY <2>1, <2>4, <3>1
    <2> QED
      BY <2>2, <2>3, <2>4
  <1>4. proc' = [q \in Processes |-> proc'[q]]
    BY DEF RequestShutdown
  <1>5. proc' \in [Processes -> Procs]
    BY <1>3, <1>4
  <1>6. TypeOK'
    BY <1>1, <1>2, <1>5 DEF TypeOK
  <1>7. Rest'
    BY <1>1, <1>2, <1>3, RestKept DEF TypeOK
  <1>8. Phases'
    BY <1>1, <1>3 DEF Phases, DownIsSilent, StopsTogether
  <1>9. ASSUME NEW t \in Tabs PROVE Fine(t)'
    <2>1. tab[t].at \in Processes
      BY <1>1 DEF TypeOK, TabStates
    <2>2. \A q \in Processes : /\ proc[q].owed \/ proc[q].queued => proc'[q].owed \/ proc'[q].queued
                               /\ Behind(q)' => Behind(q)
      BY <1>2, <1>3 DEF Behind
    <2> QED
      BY <1>1, <1>2, <1>3, <2>1, <2>2, FineKept
  <1> QED
    BY <1>6, <1>7, <1>8, <1>9, PartsNext

\* A process that starts has yet to connect its listener, and refreshes every scope then.
LEMMA BootStep ==
  ASSUME IInv, NEW p \in Processes, Boot(p)
  PROVE  IInv'
  <1>1. TypeOK /\ Rest /\ Phases /\ \A t \in Tabs : Fine(t)
    BY Parts
  <1>2. /\ version' = version /\ tab' = tab /\ trouble' = trouble
        /\ proc[p].phase = "down" /\ proc' = [proc EXCEPT ![p] = Fresh]
        /\ \A q \in Processes : proc[q].phase \in {"up", "down"}
    BY DEF Boot
  <1>3. /\ Fresh \in Procs /\ Fresh.phase = "up" /\ Fresh.entry = Null /\ Fresh.listener # "live"
        /\ ~Fresh.owed /\ ~Fresh.queued
    BY DEF Fresh, Procs
  <1>4. /\ proc' \in [Processes -> Procs] /\ proc'[p] = Fresh
        /\ \A q \in Processes : q # p => proc'[q] = proc[q]
    BY <1>1, <1>2, <1>3 DEF TypeOK
  <1>5. TypeOK'
    BY <1>1, <1>2, <1>4 DEF TypeOK
  <1>6. Rest'
    BY <1>1, <1>2, <1>3, <1>4, RestKept DEF TypeOK
  <1>7. Phases'
    BY <1>1, <1>2, <1>3, <1>4 DEF Phases, DownIsSilent, StopsTogether
  <1>8. ASSUME NEW t \in Tabs PROVE Fine(t)'
    <2>1. tab[t].at \in Processes
      BY <1>1 DEF TypeOK, TabStates
    <2>2. \A q \in Processes : /\ proc[q].owed \/ proc[q].queued => proc'[q].owed \/ proc'[q].queued
                               /\ Behind(q)' => Behind(q)
      BY <1>1, <1>2, <1>3, <1>4 DEF Behind, Phases, DownIsSilent
    <2>3. CASE tab[t].at = p /\ Connected(t)
      BY <1>2, <1>3, <1>4, <2>3 DEF Fine, OnItsWay, Connected
    <2>4. CASE tab[t].at = p /\ ~Connected(t)
      <3>1. tab[t].stream \in {"broken", "closed"}
        BY <1>1, <2>4 DEF Connected, TypeOK, TabStates
      <3> QED
        BY <1>1, <1>2, <3>1 DEF Rest, ClosedResyncs, Fine, OnItsWay
    <2>5. CASE tab[t].at # p
      BY <1>1, <1>2, <1>4, <2>1, <2>2, <2>5, FineKept
    <2> QED
      BY <2>3, <2>4, <2>5
  <1> QED
    BY <1>5, <1>6, <1>7, <1>8, PartsNext

-----------------------------------------------------------------------------
(* What a tab does.                                                          *)

\* A step of one tab keeps the invariant when its new state is in order.
LEMMA TabStep ==
  ASSUME IInv, NEW t \in Tabs, NEW r \in TabStates, tab' = [tab EXCEPT ![t] = r],
         version' = version, proc' = proc, trouble' = trouble \/ \E kind : Trouble(kind),
         r.stream = "closed" => r.resync,
         r.shown <= version,
         r.shown = version /\ r.asks # Null /\ Behind(r.asks) => r.missed,
         \/ r.shown = version \/ r.missed
         \/ r.stream = "broken" \/ r.resync \/ r.heard \/ r.pending
         \/ r.asks # Null /\ ~Behind(r.asks)
         \/ /\ r.stream \in {"ready", "subscribed"}
            /\ proc[r.at].phase # "up"
         \/ /\ Fine(t) /\ ~tab[t].missed /\ tab[t].shown # version
            /\ tab[t].stream # "broken" /\ ~tab[t].resync /\ ~tab[t].heard /\ ~tab[t].pending
            /\ r.asks = tab[t].asks \/ Behind(tab[t].asks)
            /\ Connected(t) => r.stream \in {"ready", "subscribed"} /\ r.at = tab[t].at
  PROVE  IInv'
  <1>1. TypeOK /\ Rest /\ Phases /\ \A u \in Tabs : Fine(u)
    BY Parts
  <1>2. /\ tab' \in [Tabs -> TabStates] /\ tab'[t] = r
        /\ \A u \in Tabs : u # t => tab'[u] = tab[u]
    BY <1>1 DEF TypeOK
  <1>3. TypeOK'
    BY <1>1, <1>2, TroubleStays DEF TypeOK
  <1>4. \A q : Behind(q)' = Behind(q)
    BY DEF Behind
  <1>5. Rest'
    <2>1. ClosedResyncs'
      BY <1>1, <1>2 DEF Rest, ClosedResyncs
    <2>2. NothingAhead'
      BY <1>1, <1>2 DEF Rest, NothingAhead
    <2>3. NoStepBack'
      BY <1>1, <1>2, <1>4 DEF Rest, NoStepBack
    <2> QED
      BY <2>1, <2>2, <2>3 DEF Rest
  <1>6. Phases'
    BY <1>1 DEF Phases, DownIsSilent, StopsTogether
  <1>7. ASSUME NEW u \in Tabs, u # t PROVE Fine(u)'
    <2>1. \A q \in Processes : Behind(q)' => Behind(q)
      BY <1>4
    <2> QED
      BY <1>1, <1>2, <1>7, <2>1, FineKept
  <1>8. Fine(t)'
    <2>1. CASE \/ r.shown = version \/ r.missed
               \/ r.stream = "broken" \/ r.resync \/ r.heard \/ r.pending
               \/ r.stream \in {"ready", "subscribed"} /\ proc[r.at].phase # "up"
      BY <1>2, <2>1 DEF Fine, OnItsWay, Connected
    <2>2. CASE r.asks # Null /\ ~Behind(r.asks)
      BY <1>2, <1>4, <2>2 DEF Fine, OnItsWay
    <2>3. CASE /\ Fine(t) /\ ~tab[t].missed /\ tab[t].shown # version
               /\ tab[t].stream # "broken" /\ ~tab[t].resync /\ ~tab[t].heard /\ ~tab[t].pending
               /\ r.asks = tab[t].asks \/ Behind(tab[t].asks)
               /\ Connected(t) => r.stream \in {"ready", "subscribed"} /\ r.at = tab[t].at
      <3>1. CASE \E p \in Processes : proc[p].owed \/ proc[p].queued
        BY <3>1 DEF Fine, OnItsWay
      <3>2. CASE Connected(t) /\ (\/ proc[tab[t].at].phase # "up" \/ proc[tab[t].at].listener # "live"
                                  \/ proc[tab[t].at].inbox \/ proc[tab[t].at].window = "repeat")
        BY <1>2, <2>3, <3>2 DEF Fine, OnItsWay, Connected
      <3>3. CASE tab[t].asks # Null /\ ~Behind(tab[t].asks)
        BY <1>2, <1>4, <2>3, <3>3 DEF Fine, OnItsWay
      <3> QED
        BY <2>3, <3>1, <3>2, <3>3 DEF Fine, OnItsWay
    <2> QED
      BY <2>1, <2>2, <2>3
  <1> QED
    BY <1>2, <1>3, <1>5, <1>6, <1>7, <1>8, PartsNext

\* The stream or the queue of a tab changes, and what it had to do it still has to do.
LEMMA QuietTabStep ==
  ASSUME IInv, NEW t \in Tabs, NEW r \in TabStates, tab' = [tab EXCEPT ![t] = r],
         version' = version, proc' = proc, trouble' = trouble \/ \E kind : Trouble(kind),
         r.asks = tab[t].asks, r.shown = tab[t].shown, tab[t].missed => r.missed,
         r.stream = "closed" => r.resync,
         tab[t].stream = "broken" => r.stream = "broken" \/ r.resync,
         tab[t].resync => r.resync,
         tab[t].heard \/ tab[t].pending => r.heard \/ r.pending \/ r.resync,
         Connected(t) => r.stream = "broken" \/ (r.stream \in {"ready", "subscribed"} /\ r.at = tab[t].at)
  PROVE  IInv'
  <1>1. TypeOK /\ Rest /\ Fine(t)
    BY Parts
  <1>2. /\ r.shown <= version
        /\ r.shown = version /\ r.asks # Null /\ Behind(r.asks) => r.missed
    BY <1>1 DEF Rest, NothingAhead, NoStepBack
  <1>3. \/ r.shown = version \/ r.missed
        \/ r.stream = "broken" \/ r.resync \/ r.heard \/ r.pending
        \/ /\ Fine(t) /\ ~tab[t].missed /\ tab[t].shown # version
           /\ tab[t].stream # "broken" /\ ~tab[t].resync /\ ~tab[t].heard /\ ~tab[t].pending
           /\ r.asks = tab[t].asks \/ Behind(tab[t].asks)
           /\ Connected(t) => r.stream \in {"ready", "subscribed"} /\ r.at = tab[t].at
    BY <1>1
  <1> QED
    BY <1>2, <1>3, TabStep

LEMMA StreamsStep ==
  ASSUME IInv, NEW t \in Tabs, Streams(t) \/ OnError(t) \/ Connect(t) \/ Break(t) \/ Stuff(t)
  PROVE  IInv'
  <1>1. TypeOK /\ tab[t] \in TabStates /\ (tab[t].stream = "closed" => tab[t].resync)
    BY Parts DEF TypeOK, Rest, ClosedResyncs
  <1>2. CASE Subscribe(t)
    <2>1. PICK r : r = [tab[t] EXCEPT !.stream = "subscribed"]
      OBVIOUS
    <2>2. /\ r \in TabStates /\ r.asks = tab[t].asks /\ r.shown = tab[t].shown /\ r.missed = tab[t].missed
          /\ r.stream = "subscribed" /\ r.resync = tab[t].resync /\ r.heard = tab[t].heard
          /\ r.pending = tab[t].pending /\ r.at = tab[t].at
      BY <1>1, <2>1 DEF TabStates
    <2>3. /\ tab' = [tab EXCEPT ![t] = r] /\ tab[t].stream = "ready"
          /\ version' = version /\ proc' = proc /\ trouble' = trouble
      BY <1>1, <1>2, <2>1 DEF Subscribe, TypeOK
    <2> QED
      BY <2>2, <2>3, QuietTabStep
  <1>3. CASE StreamEnds(t) \/ Break(t)
    <2>1. PICK r : r = [tab[t] EXCEPT !.stream = "broken"]
      OBVIOUS
    <2>2. /\ r \in TabStates /\ r.asks = tab[t].asks /\ r.shown = tab[t].shown /\ r.missed = tab[t].missed
          /\ r.stream = "broken" /\ r.resync = tab[t].resync /\ r.heard = tab[t].heard
          /\ r.pending = tab[t].pending
      BY <1>1, <2>1 DEF TabStates
    <2>3. /\ tab' = [tab EXCEPT ![t] = r]
          /\ version' = version /\ proc' = proc /\ (trouble' = trouble \/ \E kind : Trouble(kind))
      BY <1>1, <1>3, <2>1 DEF StreamEnds, Break, TypeOK
    <2> QED
      BY <2>2, <2>3, QuietTabStep
  <1>4. CASE NextEvent(t)
    <2>1. PICK r : r = [tab[t] EXCEPT !.heard = FALSE, !.stuffed = FALSE,
                                      !.pending = @ \/ tab[t].heard]
      OBVIOUS
    <2>2. /\ r \in TabStates /\ r.asks = tab[t].asks /\ r.shown = tab[t].shown /\ r.missed = tab[t].missed
          /\ r.stream = tab[t].stream /\ r.resync = tab[t].resync /\ r.at = tab[t].at
          /\ tab[t].heard \/ tab[t].pending => r.pending
      BY <1>1, <2>1 DEF TabStates
    <2>3. /\ tab' = [tab EXCEPT ![t] = r] /\ tab[t].stream = "subscribed"
          /\ version' = version /\ proc' = proc /\ trouble' = trouble
      BY <1>4, <2>1 DEF NextEvent
    <2> QED
      BY <2>2, <2>3, QuietTabStep
  <1>5. CASE OnError(t)
    <2>1. PICK r : r = [tab[t] EXCEPT !.stream = "closed", !.heard = FALSE, !.stuffed = FALSE,
                                      !.opened = FALSE, !.resync = TRUE]
      OBVIOUS
    <2>2. /\ r \in TabStates /\ r.asks = tab[t].asks /\ r.shown = tab[t].shown /\ r.missed = tab[t].missed
          /\ r.resync
      BY <1>1, <2>1 DEF TabStates
    <2>3. /\ tab' = [tab EXCEPT ![t] = r] /\ tab[t].stream = "broken" /\ ~Connected(t)
          /\ version' = version /\ proc' = proc /\ trouble' = trouble
      BY <1>5, <2>1 DEF OnError, Connected
    <2> QED
      BY <2>2, <2>3, QuietTabStep
  <1>6. CASE Connect(t)
    <2>1. PICK p \in Processes :
             tab' = [tab EXCEPT ![t] = [tab[t] EXCEPT !.at = p, !.stream = "ready", !.pending = FALSE]]
      BY <1>6 DEF Connect
    <2>2. PICK r : r = [tab[t] EXCEPT !.at = p, !.stream = "ready", !.pending = FALSE]
      OBVIOUS
    <2>3. /\ r \in TabStates /\ r.asks = tab[t].asks /\ r.shown = tab[t].shown /\ r.missed = tab[t].missed
          /\ r.stream = "ready" /\ r.resync = tab[t].resync
      BY <1>1, <2>2 DEF TabStates
    <2>4. /\ tab' = [tab EXCEPT ![t] = r] /\ tab[t].stream = "closed" /\ ~Connected(t)
          /\ version' = version /\ proc' = proc /\ trouble' = trouble
      BY <1>6, <2>1, <2>2 DEF Connect, Connected
    <2> QED
      BY <1>1, <2>3, <2>4, QuietTabStep
  <1>7. CASE Stuff(t)
    <2>1. PICK r : r = [tab[t] EXCEPT !.stuffed = TRUE]
      OBVIOUS
    <2>2. /\ r \in TabStates /\ r.asks = tab[t].asks /\ r.shown = tab[t].shown /\ r.missed = tab[t].missed
          /\ r.stream = tab[t].stream /\ r.resync = tab[t].resync /\ r.heard = tab[t].heard
          /\ r.pending = tab[t].pending /\ r.at = tab[t].at
      BY <1>1, <2>1 DEF TabStates
    <2>3. /\ tab' = [tab EXCEPT ![t] = r] /\ tab[t].stream = "subscribed"
          /\ version' = version /\ proc' = proc /\ \E kind : Trouble(kind)
      BY <1>1, <1>7, <2>1 DEF Stuff, TypeOK
    <2> QED
      BY <2>2, <2>3, QuietTabStep
  <1> QED
    BY <1>2, <1>3, <1>4, <1>5, <1>6, <1>7 DEF Streams

-----------------------------------------------------------------------------
(* Questions and answers.                                                    *)

\* Whoever asks will be told, or the question came too late for the cache.
LEMMA AskTab ==
  ASSUME NEW s \in TabStates, NEW p \in Processes
  PROVE  LET r == Ask(s, p)
         IN /\ r \in TabStates /\ r.asks = p /\ r.shown = s.shown /\ r.stream = s.stream
            /\ r.resync = s.resync /\ r.at = s.at
            /\ r.missed \/ ~Behind(p)
  BY DEF Ask, TabStates

LEMMA AskStep ==
  ASSUME IInv, NEW t \in Tabs, NEW s \in TabStates, NEW p \in Processes,
         tab' = [tab EXCEPT ![t] = Ask(s, p)],
         version' = version, proc' = proc, trouble' = trouble,
         s.shown = tab[t].shown, s.stream = "closed" => s.resync
  PROVE  IInv'
  <1>1. PICK r : r = Ask(s, p)
    OBVIOUS
  <1>2. /\ r \in TabStates /\ r.asks = p /\ r.shown = s.shown /\ r.stream = s.stream
        /\ r.resync = s.resync
        /\ r.missed \/ ~Behind(p)
    BY <1>1, AskTab
  <1>3. p # Null /\ r.shown <= version
    BY <1>2, NullAssumption, Parts DEF Rest, NothingAhead
  <1>4. \/ r.shown = version \/ r.missed
        \/ r.asks # Null /\ ~Behind(r.asks)
    BY <1>2, <1>3
  <1> QED
    BY <1>1, <1>2, <1>3, <1>4, TabStep

LEMMA QuestionsStep ==
  ASSUME IInv, NEW t \in Tabs, OnOpen(t) \/ Flush(t) \/ Poll(t)
  PROVE  IInv'
  <1>1. /\ TypeOK /\ tab[t] \in TabStates /\ (tab[t].stream = "closed" => tab[t].resync)
        /\ tab[t].asks \in Processes \cup {Null}
    BY Parts DEF TypeOK, Rest, ClosedResyncs, TabStates
  <1>2. version' = version /\ proc' = proc /\ trouble' = trouble
    BY DEF OnOpen, Flush, Poll
  <1>3. CASE OnOpen(t) /\ tab[t].resync
    <2>1. PICK s : s = [tab[t] EXCEPT !.opened = TRUE, !.resync = FALSE]
      OBVIOUS
    <2>2. PICK p \in Processes : tab' = [tab EXCEPT ![t] = Ask(s, p)]
      BY <1>3, <2>1 DEF OnOpen
    <2>3. s \in TabStates /\ s.shown = tab[t].shown /\ s.stream = tab[t].stream
      BY <1>1, <2>1 DEF TabStates
    <2>4. s.stream # "closed"
      BY <1>3, <2>3 DEF OnOpen, Connected
    <2> QED
      BY <1>2, <2>2, <2>3, <2>4, AskStep
  <1>4. CASE OnOpen(t) /\ ~tab[t].resync
    <2>1. PICK r : r = [tab[t] EXCEPT !.opened = TRUE]
      OBVIOUS
    <2>2. /\ r \in TabStates /\ r.asks = tab[t].asks /\ r.shown = tab[t].shown /\ r.missed = tab[t].missed
          /\ r.stream = tab[t].stream /\ r.resync = tab[t].resync /\ r.heard = tab[t].heard
          /\ r.pending = tab[t].pending /\ r.at = tab[t].at
      BY <1>1, <2>1 DEF TabStates
    <2>3. tab' = [tab EXCEPT ![t] = r] /\ Connected(t)
      BY <1>1, <1>4, <2>1 DEF OnOpen, TypeOK
    <2> QED
      BY <1>1, <1>2, <2>2, <2>3, QuietTabStep DEF Connected
  <1>5. CASE Flush(t)
    <2>1. PICK s : s = [tab[t] EXCEPT !.pending = FALSE]
      OBVIOUS
    <2>2. PICK p \in Processes : tab' = [tab EXCEPT ![t] = Ask(s, p)]
      BY <1>1, <1>5, <2>1 DEF Flush
    <2>3. s \in TabStates /\ s.shown = tab[t].shown /\ s.stream = tab[t].stream /\ s.resync = tab[t].resync
      BY <1>1, <2>1 DEF TabStates
    <2> QED
      BY <1>1, <1>2, <2>2, <2>3, AskStep
  <1>6. CASE Poll(t)
    <2>1. PICK p \in Processes : tab' = [tab EXCEPT ![t] = Ask(tab[t], p)]
      BY <1>6 DEF Poll
    <2> QED
      BY <1>1, <1>2, <2>1, AskStep
  <1> QED
    BY <1>3, <1>4, <1>5, <1>6

\* When nobody is left to ask, every stream will be replaced.
LEMMA RetryStep ==
  ASSUME IInv, NEW t \in Tabs, Retry(t)
  PROVE  IInv'
  <1>1. /\ TypeOK /\ tab[t] \in TabStates /\ (tab[t].stream = "closed" => tab[t].resync)
        /\ tab[t].shown <= version
        /\ tab[t].stream \in {"ready", "subscribed", "broken", "closed"} /\ tab[t].at \in Processes
    BY Parts DEF TypeOK, Rest, ClosedResyncs, NothingAhead, TabStates
  <1>2. version' = version /\ proc' = proc /\ trouble' = trouble
    BY DEF Retry
  <1>3. CASE \E p \in Processes : Serving(p) /\ tab' = [tab EXCEPT ![t] = Ask(tab[t], p)]
    BY <1>1, <1>2, <1>3, AskStep
  <1>4. CASE (\A p \in Processes : ~Serving(p)) /\ tab' = [tab EXCEPT ![t].asks = Null]
    <2>1. PICK r : r = [tab[t] EXCEPT !.asks = Null]
      OBVIOUS
    <2>2. /\ r \in TabStates /\ r.asks = Null /\ r.shown = tab[t].shown
          /\ r.stream = tab[t].stream /\ r.resync = tab[t].resync /\ r.at = tab[t].at
      BY <1>1, <2>1 DEF TabStates
    <2>3. tab' = [tab EXCEPT ![t] = r]
      BY <1>1, <1>4, <2>1 DEF TypeOK
    <2>4. proc[r.at].phase # "up"
      BY <1>1, <1>4, <2>2 DEF Serving
    <2>5. \/ r.stream = "broken" \/ r.resync
          \/ r.stream \in {"ready", "subscribed"} /\ proc[r.at].phase # "up"
      BY <1>1, <2>2, <2>4
    <2> QED
      BY <1>1, <1>2, <2>2, <2>3, <2>5, TabStep
  <1> QED
    BY <1>3, <1>4 DEF Retry

\* An answer that is not the last change was Behind, so that nothing was to be hoped from it.
LEMMA AnswerStep ==
  ASSUME IInv, NEW t \in Tabs, Answer(t)
  PROVE  IInv'
  <1>1. /\ TypeOK /\ Rest /\ Fine(t) /\ tab[t] \in TabStates
        /\ (tab[t].stream = "closed" => tab[t].resync)
        /\ tab[t].asks \in Processes
    BY Parts DEF TypeOK, Rest, ClosedResyncs, TabStates, Answer
  <1>2. version' = version /\ proc' = proc /\ trouble' = trouble
    BY DEF Answer
  <1>3. PICK v : v = proc[tab[t].asks].entry
    OBVIOUS
  <1>4. v \in Versions /\ v <= version
    BY <1>1, <1>3 DEF Answer, TypeOK, Procs, Rest, NothingAhead
  <1>5. PICK r : r = [tab[t] EXCEPT !.asks = Null, !.shown = v, !.missed = @ /\ v # version]
    OBVIOUS
  <1>6. /\ r \in TabStates /\ r.asks = Null /\ r.shown = v
        /\ r.stream = tab[t].stream /\ r.resync = tab[t].resync /\ r.at = tab[t].at
        /\ r.heard = tab[t].heard /\ r.pending = tab[t].pending
        /\ tab[t].missed /\ v # version => r.missed
    BY <1>1, <1>4, <1>5 DEF TabStates
  <1>7. tab' = [tab EXCEPT ![t] = r]
    BY <1>3, <1>5 DEF Answer
  <1>8. CASE v = version
    BY <1>1, <1>2, <1>4, <1>6, <1>7, <1>8, TabStep
  <1>9. CASE v # version
    <2>1. Behind(tab[t].asks)
      BY <1>3, <1>9 DEF Answer, Behind
    <2>2. tab[t].shown = version => tab[t].missed
      BY <1>1, <2>1 DEF Answer, Rest, NoStepBack
    <2>3. \/ r.missed
          \/ r.stream = "broken" \/ r.resync \/ r.heard \/ r.pending
          \/ /\ Fine(t) /\ ~tab[t].missed /\ tab[t].shown # version
             /\ tab[t].stream # "broken" /\ ~tab[t].resync /\ ~tab[t].heard /\ ~tab[t].pending
             /\ r.asks = tab[t].asks \/ Behind(tab[t].asks)
             /\ Connected(t) => r.stream \in {"ready", "subscribed"} /\ r.at = tab[t].at
      BY <1>1, <1>6, <1>9, <2>1, <2>2 DEF Connected
    <2> QED
      BY <1>1, <1>2, <1>4, <1>6, <1>7, <2>3, TabStep
  <1> QED
    BY <1>8, <1>9

-----------------------------------------------------------------------------
(* The theorems.                                                             *)

LEMMA InitInv == Init => IInv
  <1> SUFFICES ASSUME Init PROVE IInv
    OBVIOUS
  <1>1. Fresh \in Procs /\ Fresh.phase = "up" /\ Fresh.entry = Null
    BY DEF Fresh, Procs
  <1>2. 0 \in Versions /\ 0 \in 0..MaxTrouble /\ 0 <= 0
    BY BoundsAssumption DEF Versions
  <1>3. ASSUME NEW t \in Tabs
        PROVE  /\ tab[t] \in TabStates /\ tab[t].shown = 0 /\ tab[t].stream = "ready" /\ tab[t].asks = Null
    BY <1>2, FirstAssumption DEF Init, TabStates
  <1>4. tab \in [Tabs -> TabStates]
    BY <1>3 DEF Init
  <1>5. TypeOK
    BY <1>1, <1>2, <1>4 DEF Init, TypeOK
  <1>6. Rest
    BY <1>1, <1>2, <1>3 DEF Init, Rest, ClosedResyncs, NothingAhead, NoStepBack
  <1>7. Phases
    BY <1>1 DEF Init, Phases, DownIsSilent, StopsTogether
  <1>8. \A t \in Tabs : Fine(t)
    BY <1>3 DEF Init, Fine
  <1> QED
    BY <1>5, <1>6, <1>7, <1>8, Parts

LEMMA StepInv == IInv /\ [Next]_vars => IInv'
  <1> SUFFICES ASSUME IInv, [Next]_vars PROVE IInv'
    OBVIOUS
  <1>1. CASE UNCHANGED vars
    BY <1>1 DEF vars, IInv, TypeOK, PubSubInv, NothingForgotten, OnItsWay, Connected, Behind,
                ClosedResyncs, DownIsSilent, StopsTogether, NothingAhead, NoStepBack
  <1>2. ASSUME NEW p \in Processes, Commit(p) \/ Nudges(p) \/ Listeners(p) \/ Load(p) \/ Expire(p) \/ Lifecycle(p)
        PROVE  IInv'
    BY <1>2, CommitStep, PublishStep, BatchStep, NotifyListenStep, CloseWindowStep, ListenerStep,
       CacheStep, ExitStep, BootStep DEF Nudges, Listeners, Lifecycle
  <1>3. ASSUME NEW t \in Tabs, Streams(t) \/ Page(t) \/ Poll(t) \/ Break(t) \/ Stuff(t)
        PROVE  IInv'
    BY <1>3, StreamsStep, QuestionsStep, RetryStep, AnswerStep DEF Page
  <1>4. ASSUME NEW p \in Processes, SendFails(p) \/ Crash(p) \/ RequestShutdown(p) \/ SocketDies(p) \/ Clog(p)
        PROVE  IInv'
    BY <1>4, BatchStep, CrashStep, ShutdownStep, ListenerStep
  <1> QED
    BY <1>1, <1>2, <1>3, <1>4 DEF Next, Disturbance

\* Types, and what has been read, asked and stopped: the inductive invariant holds.
THEOREM PubSubInvariant == Spec => [](TypeOK /\ PubSubInv)
  <1>1. Spec => []IInv
    BY InitInv, StepInv, PTL DEF Spec
  <1> QED
    BY <1>1, PTL DEF IInv

\* A tab that shows old data is about to be nudged, except after one of the losses that the code
\* accepts (pubsub.py, event_store.py, useLiveStream.ts), whatever else happens to the processes,
\* to their LISTEN connections and to the streams.
THEOREM NothingLost == Spec => []NothingForgotten
  <1>1. TypeOK /\ PubSubInv => NothingForgotten
    BY DEF PubSubInv
  <1> QED
    BY <1>1, PubSubInvariant, PTL
=============================================================================
