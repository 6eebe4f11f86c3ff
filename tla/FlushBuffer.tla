----------------------------- MODULE FlushBuffer -----------------------------
(***************************************************************************)
(* shared/flush_buffer.py with worker/event_buffer.py on top: a producer    *)
(* appends, one loop posts the front of the queue, puts a failed post back  *)
(* in front and sheds the oldest over the bound, and drains the queue when  *)
(* it is cancelled.  Items are numbered in the order they are enqueued.     *)
(* A post that failed for the sender may still reach the orchestrator, then *)
(* or later (late).  Ticks and wake-ups only decide when a flush starts.    *)
(***************************************************************************)
EXTENDS Integers, Sequences, FiniteSets, SequencesExt

CONSTANTS Items,     \* bound: items that are ever enqueued
          MaxBatch,  \* max_batch
          MaxBuffer  \* max_buffer

ASSUME ItemsAssumption == Items \in Nat
ASSUME BoundsAssumption == MaxBatch \in Nat \ {0} /\ MaxBuffer \in Nat \ {0}

VARIABLES
  enqueued, \* number of items enqueued so far
  q,        \* self._q
  batch,    \* the slice being posted
  phase,    \* of loop(): waiting, posting; after cancellation draining, lastpost, done
  late,     \* posts given up by the sender and still on their way
  landed,   \* items the orchestrator has applied
  shed      \* items dropped as the oldest of an overlong backlog

vars == <<enqueued, q, batch, phase, late, landed, shed>>

Running == {"waiting", "posting"}
Posting == phase \in {"posting", "lastpost"}

TypeOK ==
  /\ enqueued \in 0..Items
  /\ q \in Seq(1..Items) /\ Len(q) <= Items
  /\ batch \in Seq(1..Items) /\ Len(batch) <= MaxBatch
  /\ phase \in Running \cup {"draining", "lastpost", "done"}
  /\ late \subseteq SUBSET (1..Items)
  /\ landed \subseteq 1..Items
  /\ shed \subseteq 1..Items

Init ==
  /\ enqueued = 0 /\ q = <<>> /\ batch = <<>> /\ phase = "waiting"
  /\ late = {} /\ landed = {} /\ shed = {}

\* Mutant: the batch being posted is not covered.
PendingQueueOnly == ToSet(q)
\* pending_granule_ids: what the heartbeat reports as still owed.
Pending == ToSet(q) \cup ToSet(batch)

-----------------------------------------------------------------------------

\* Producers stop before the loop is cancelled.
Enqueue ==
  /\ phase \in Running /\ enqueued < Items
  /\ enqueued' = enqueued + 1
  /\ q' = Append(q, enqueued + 1)
  /\ UNCHANGED <<batch, phase, late, landed, shed>>

SliceEnd == IF Len(q) < MaxBatch THEN Len(q) ELSE MaxBatch

\* _flush up to its await.
StartFlush ==
  /\ phase \in {"waiting", "draining"} /\ q # <<>>
  /\ phase' = IF phase = "waiting" THEN "posting" ELSE "lastpost"
  /\ batch' = SubSeq(q, 1, SliceEnd)
  /\ q' = SubSeq(q, SliceEnd + 1, Len(q))
  /\ UNCHANGED <<enqueued, late, landed, shed>>

\* The orchestrator applies the batch in one transaction.
Land ==
  /\ Posting /\ ~ ToSet(batch) \subseteq landed
  /\ landed' = landed \cup ToSet(batch)
  /\ UNCHANGED <<enqueued, q, batch, phase, late, shed>>

LandLate(b) ==
  /\ b \in late
  /\ landed' = landed \cup b
  /\ late' = late \ {b}
  /\ UNCHANGED <<enqueued, q, batch, phase, shed>>

\* The post succeeds.
Answer ==
  /\ Posting /\ ToSet(batch) \subseteq landed
  /\ phase' = IF phase = "posting" THEN "waiting" ELSE "draining"
  /\ batch' = <<>>
  /\ UNCHANGED <<enqueued, q, late, landed, shed>>

\* Mutant: the failed batch is not put back.
RequeuedNot == q
\* Mutant: the failed batch goes to the back.
RequeuedBehind == q \o batch
Requeued == batch \o q

Excess(s) == IF Len(s) > MaxBuffer THEN Len(s) - MaxBuffer ELSE 0
Kept(s) == SubSeq(s, Excess(s) + 1, Len(s))

\* Mutant: a drain that cannot reach the orchestrator tries on.
NeverStops(before, after) == FALSE
\* The drain stops when a flush got nothing out.
DrainStops(before, after) == after >= before

\* The post fails for the sender: put back, shed, and in a drain perhaps give up.
Fail ==
  /\ Posting
  /\ q' = Kept(Requeued)
  /\ shed' = shed \cup (ToSet(Requeued) \ ToSet(Kept(Requeued)))
  /\ batch' = <<>>
  /\ late' \in {late, late \cup {ToSet(batch)}}
  /\ phase' = IF phase = "posting" THEN "waiting"
              ELSE IF DrainStops(Len(Requeued), Len(Kept(Requeued))) THEN "done" ELSE "draining"
  /\ UNCHANGED <<enqueued, landed>>

\* loop() is cancelled at whichever await it is in.  CancelledError is no Exception:
\* a batch being posted is neither answered nor put back.
Cancel ==
  /\ phase \in Running
  /\ phase' = "draining"
  /\ batch' = <<>>
  /\ late' \in {late} \cup (IF phase = "posting" THEN {late \cup {ToSet(batch)}} ELSE {})
  /\ UNCHANGED <<enqueued, q, landed, shed>>

DrainEnds ==
  /\ phase = "draining" /\ q = <<>>
  /\ phase' = "done"
  /\ UNCHANGED <<enqueued, q, batch, late, landed, shed>>

Next ==
  \/ Enqueue \/ StartFlush \/ Land \/ Answer \/ Fail \/ Cancel \/ DrainEnds
  \/ \E b \in late : LandLate(b)

Spec == Init /\ [][Next]_vars

-----------------------------------------------------------------------------
(* Properties.                                                               *)

Owed == 1..enqueued \ (landed \cup shed)

\* Until the loop is cancelled, an item the orchestrator has not applied is either
\* reported as owed by pending_granule_ids, during the post too, or was shed.
OwedIsPending == phase \in Running => Owed \subseteq Pending

\* "FIFO order is preserved": an item lands after every earlier one that was not given
\* up, through failures, re-sent batches and posts that arrive late.
NoOvertaking ==
  \A x \in landed : \A y \in Owed : y < x => y \notin Pending

\* The backlog sheds its oldest: what is still held is newer than all that was shed.
ShedsOldest == \A x \in shed, y \in Pending : x < y

\* "On cancellation the whole backlog is flushed, so a just-finished producer's last
\* items still land": a drain that ended with an empty queue has lost nothing (what a
\* given-up post may still bring is not lost).
DrainedMeansLanded == phase = "done" /\ q = <<>> => Owed \subseteq UNION late

\* What makes them inductive.  The batch and the queue after it are the last items, in
\* order, and only while a post is under way is there a batch.
First == enqueued + 1 - Len(q) - Len(batch)
Consecutive(s, last) == \A i \in 1..Len(s) : s[i] = last - Len(s) + i
BacklogIsTail ==
  /\ Len(q) + Len(batch) <= enqueued
  /\ Consecutive(q, enqueued) /\ Consecutive(batch, enqueued - Len(q))
  /\ ~ Posting => batch = <<>>

\* What has landed of the backlog is its front, and so is what any post may bring: no batch
\* starts behind the first item that is still held.
FrontOfBacklog(S) == S \subseteq 1..enqueued /\ \A x \in S, y \in First..enqueued : y < x => y \in S
PostsInOrder == FrontOfBacklog(landed) /\ \A b \in late : FrontOfBacklog(b)

\* All before the backlog is accounted for, until the loop is cancelled.
FrontAccounted ==
  /\ shed \subseteq 1..(First - 1)
  /\ phase \in Running => 1..(First - 1) \subseteq landed \cup shed

BufferInv == BacklogIsTail /\ PostsInOrder /\ FrontAccounted

\* The loop runs and every post ends, answered or not; the orchestrator may stay down.
Fairness == WF_vars(StartFlush) /\ WF_vars(DrainEnds) /\ WF_vars(Answer \/ Fail)

LiveSpec == Spec /\ Fairness

\* Posts that keep being tried get through, from some time on at the latest.
OrchestratorReturns == SF_vars(Land) /\ SF_vars(Answer)

\* Nothing stays in the buffer of an agent that is not shut down, unless the
\* orchestrator is down for good.
EventuallyLands ==
  OrchestratorReturns =>
    \A x \in 1..Items :
      enqueued >= x ~> x \in landed \cup shed \/ phase \notin Running

\* A drain ends even when the orchestrator never answers.
DrainTerminates == phase = "draining" ~> phase = "done"
=============================================================================
