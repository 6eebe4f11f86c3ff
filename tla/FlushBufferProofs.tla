--------------------------- MODULE FlushBufferProofs ---------------------------
(***************************************************************************)
(* Proofs about FlushBuffer, for any number of items and any bounds of      *)
(* batch and backlog.                                                       *)
(***************************************************************************)
EXTENDS FlushBuffer, SequenceTheorems, TLAPS

-----------------------------------------------------------------------------
(* Consecutive sequences.                                                    *)

LEMMA ConsecutiveSet ==
  ASSUME NEW S, NEW s \in Seq(S), NEW last \in Int, Consecutive(s, last)
  PROVE  ToSet(s) = (last + 1 - Len(s))..last
  <1>1. Len(s) \in Nat /\ DOMAIN s = 1..Len(s)
    BY LenProperties
  <1>2. ASSUME NEW y \in (last + 1 - Len(s))..last
        PROVE  y \in ToSet(s)
    <2>1. y - last + Len(s) \in 1..Len(s)
      BY <1>1
    <2>2. s[y - last + Len(s)] = y
      BY <1>1, <2>1 DEF Consecutive
    <2> QED
      BY <1>1, <2>1, <2>2 DEF ToSet
  <1>3. ASSUME NEW i \in 1..Len(s)
        PROVE  s[i] \in (last + 1 - Len(s))..last
    BY <1>1 DEF Consecutive
  <1> QED
    BY <1>1, <1>2, <1>3 DEF ToSet

LEMMA Members == ASSUME NEW S, NEW s \in Seq(S) PROVE ToSet(s) \subseteq S
  <1>1. Len(s) \in Nat /\ DOMAIN s = 1..Len(s)
    BY LenProperties
  <1>2. \A i \in 1..Len(s) : s[i] \in S
    BY ElementOfSeq
  <1> QED
    BY <1>1, <1>2 DEF ToSet

LEMMA ConsecutiveParts ==
  ASSUME NEW S, NEW s \in Seq(S), NEW last \in Int, Consecutive(s, last), NEW k \in 0..Len(s)
  PROVE  /\ SubSeq(s, k + 1, Len(s)) \in Seq(S) /\ Len(SubSeq(s, k + 1, Len(s))) = Len(s) - k
         /\ Consecutive(SubSeq(s, k + 1, Len(s)), last)
         /\ SubSeq(s, 1, k) \in Seq(S) /\ Len(SubSeq(s, 1, k)) = k
         /\ Consecutive(SubSeq(s, 1, k), last - (Len(s) - k))
  <1> DEFINE n == Len(s)
             back == SubSeq(s, k + 1, n)
             front == SubSeq(s, 1, k)
  <1>1. n \in Nat /\ k \in Nat /\ k <= n
    BY LenProperties
  <1>2. /\ back \in Seq(S) /\ Len(back) = n - k
        /\ \A i \in 1..(n - k) : back[i] = s[k + i]
    BY <1>1
  <1>3. /\ front \in Seq(S) /\ Len(front) = k
        /\ \A i \in 1..k : front[i] = s[i]
    BY <1>1
  <1> HIDE DEF back, front
  <1>4. Consecutive(back, last)
    BY <1>1, <1>2 DEF Consecutive
  <1>5. Consecutive(front, last - (n - k))
    BY <1>1, <1>3 DEF Consecutive
  <1> QED
    BY <1>2, <1>3, <1>4, <1>5 DEF back, front

LEMMA ConsecutiveConcat ==
  ASSUME NEW S, NEW s \in Seq(S), NEW t \in Seq(S), NEW last \in Int,
         Consecutive(t, last), Consecutive(s, last - Len(t))
  PROVE  s \o t \in Seq(S) /\ Len(s \o t) = Len(s) + Len(t) /\ Consecutive(s \o t, last)
  <1>1. Len(s) \in Nat /\ Len(t) \in Nat
    BY LenProperties
  <1>2. /\ s \o t \in Seq(S) /\ Len(s \o t) = Len(s) + Len(t)
        /\ \A i \in 1..(Len(s) + Len(t)) : (s \o t)[i] = IF i <= Len(s) THEN s[i] ELSE t[i - Len(s)]
    BY ConcatProperties
  <1>3. ASSUME NEW i \in 1..(Len(s) + Len(t))
        PROVE  (s \o t)[i] = last - (Len(s) + Len(t)) + i
    BY <1>1, <1>2 DEF Consecutive
  <1> QED
    BY <1>2, <1>3 DEF Consecutive

LEMMA EmptyBatch ==
  /\ \A last : Consecutive(<<>>, last)
  /\ Len(<<>>) = 0 /\ ToSet(<<>>) = {} /\ \A S : <<>> \in Seq(S)
  BY EmptySeq DEF Consecutive, ToSet

-----------------------------------------------------------------------------
(* The buffer.                                                               *)

IInv == TypeOK /\ BufferInv

\* Where batch, queue and the rest begin and end.
LEMMA Backlog ==
  ASSUME IInv
  PROVE  /\ Len(q) \in Nat /\ Len(batch) \in Nat /\ enqueued \in Nat /\ Len(q) + Len(batch) <= enqueued
         /\ First \in 1..(enqueued + 1)
         /\ ToSet(batch) = First..(enqueued - Len(q)) /\ ToSet(q) = (enqueued + 1 - Len(q))..enqueued
         /\ Pending = First..enqueued
  <1>1. Len(q) \in Nat /\ Len(batch) \in Nat /\ enqueued \in Nat /\ Len(q) + Len(batch) <= enqueued
    BY LenProperties DEF IInv, TypeOK, BufferInv, BacklogIsTail
  <1>2. ToSet(q) = (enqueued + 1 - Len(q))..enqueued
    BY <1>1, ConsecutiveSet DEF IInv, TypeOK, BufferInv, BacklogIsTail
  <1>3. ToSet(batch) = (enqueued - Len(q) + 1 - Len(batch))..(enqueued - Len(q))
    BY <1>1, ConsecutiveSet DEF IInv, TypeOK, BufferInv, BacklogIsTail
  <1>4. First = enqueued - Len(q) + 1 - Len(batch) /\ First \in 1..(enqueued + 1)
    BY <1>1 DEF First
  <1> QED
    BY <1>1, <1>2, <1>3, <1>4 DEF Pending

LEMMA InitBuffer == Init => IInv
  <1> SUFFICES ASSUME Init PROVE IInv
    OBVIOUS
  <1>1. Len(q) = 0 /\ Len(batch) = 0
    BY EmptyBatch DEF Init
  <1>2. TypeOK
    BY <1>1, EmptyBatch, ItemsAssumption, BoundsAssumption DEF Init, TypeOK, Running
  <1>3. BacklogIsTail
    BY <1>1, EmptyBatch DEF Init, BacklogIsTail
  <1>4. First = 1
    BY <1>1 DEF Init, First
  <1>5. PostsInOrder /\ FrontAccounted
    BY <1>4 DEF Init, PostsInOrder, FrontOfBacklog, FrontAccounted
  <1> QED
    BY <1>2, <1>3, <1>5 DEF IInv, BufferInv

\* Fronts of the backlog stay fronts while it grows behind and shrinks in front.
LEMMA FrontsStay ==
  ASSUME IInv, enqueued' \in Nat, enqueued <= enqueued', First' \in Nat, First <= First',
         NEW S, FrontOfBacklog(S)
  PROVE  S \subseteq 1..enqueued' /\ \A x \in S, y \in First'..enqueued' : y < x => y \in S
  <1>1. enqueued \in Nat /\ First \in Nat
    BY Backlog
  <1> QED
    BY <1>1 DEF FrontOfBacklog

LEMMA EnqueueKeeps == ASSUME IInv, Enqueue PROVE IInv'
  <1>1. /\ phase \in Running /\ enqueued < Items /\ enqueued' = enqueued + 1
        /\ q' = Append(q, enqueued + 1) /\ UNCHANGED <<batch, phase, late, landed, shed>>
    BY DEF Enqueue
  <1>2. enqueued \in Nat /\ Len(q) \in Nat /\ Len(batch) \in Nat /\ Len(q) + Len(batch) <= enqueued
    BY Backlog
  <1>3. /\ q' \in Seq(1..Items) /\ Len(q') = Len(q) + 1
        /\ \A i \in 1..(Len(q) + 1) : q'[i] = IF i <= Len(q) THEN q[i] ELSE enqueued + 1
    BY <1>1, <1>2, ItemsAssumption DEF IInv, TypeOK
  <1>4. TypeOK'
    BY <1>1, <1>2, <1>3, ItemsAssumption DEF IInv, TypeOK
  <1>5. BacklogIsTail'
    <2>1. BacklogIsTail
      BY DEF IInv, BufferInv
    <2>2. Consecutive(q', enqueued')
      <3>1. ASSUME NEW i \in 1..(Len(q) + 1)
            PROVE  q'[i] = enqueued + 1 - (Len(q) + 1) + i
        BY <2>1, <1>2, <1>3 DEF BacklogIsTail, Consecutive
      <3>2. Len(q') = Len(q) + 1 /\ enqueued' = enqueued + 1
        BY <1>1, <1>3
      <3> QED
        BY <3>1, <3>2, <1>2 DEF Consecutive
    <2>3. enqueued' - Len(q') = enqueued - Len(q)
      BY <1>1, <1>2, <1>3
    <2>4. Consecutive(batch', enqueued' - Len(q'))
      BY <2>1, <2>3, <1>1 DEF BacklogIsTail
    <2> QED
      BY <2>1, <2>2, <2>4, <1>1, <1>2, <1>3 DEF BacklogIsTail, Posting
  <1>6. First' = First
    BY <1>1, <1>2, <1>3 DEF First
  <1>7. PostsInOrder'
    <2>1. First \in Nat
      BY Backlog
    <2>2. \A S : FrontOfBacklog(S) => FrontOfBacklog(S)'
      BY <2>1, <1>1, <1>2, <1>6, FrontsStay DEF FrontOfBacklog
    <2> QED
      BY <2>2, <1>1 DEF IInv, BufferInv, PostsInOrder, FrontOfBacklog
  <1>8. FrontAccounted'
    BY <1>1, <1>6 DEF IInv, BufferInv, FrontAccounted
  <1> QED
    BY <1>4, <1>5, <1>7, <1>8 DEF IInv, BufferInv

\* The front slice becomes the batch.
LEMMA StartFlushKeeps == ASSUME IInv, StartFlush PROVE IInv'
  <1> DEFINE k == SliceEnd
  <1>1. /\ phase \in {"waiting", "draining"} /\ phase' = (IF phase = "waiting" THEN "posting" ELSE "lastpost")
        /\ UNCHANGED <<enqueued, late, landed, shed>>
    BY DEF StartFlush
  <1>2. /\ enqueued \in Nat /\ Len(q) \in Nat /\ Len(q) <= enqueued /\ Len(q) <= Items
        /\ q \in Seq(1..Items) /\ Consecutive(q, enqueued) /\ Len(batch) = 0
    <2>1. batch = <<>>
      BY <1>1 DEF IInv, BufferInv, BacklogIsTail, Posting
    <2>2. Len(batch) = 0
      BY <2>1, EmptyBatch
    <2> QED
      BY <2>2, Backlog DEF IInv, TypeOK, BufferInv, BacklogIsTail
  <1>3. k \in 0..Len(q) /\ k <= MaxBatch
    BY <1>2, BoundsAssumption DEF SliceEnd
  <1> HIDE DEF k
  <1>4. /\ q' \in Seq(1..Items) /\ Len(q') = Len(q) - k /\ Consecutive(q', enqueued)
        /\ batch' \in Seq(1..Items) /\ Len(batch') = k /\ Consecutive(batch', enqueued - Len(q'))
    <2>1. enqueued \in Int
      BY <1>2
    <2> DEFINE back == SubSeq(q, k + 1, Len(q))
               front == SubSeq(q, 1, k)
    <2>2. q \in Seq(1..Items) /\ Consecutive(q, enqueued) /\ k \in 0..Len(q)
      BY <1>2, <1>3
    <2>4. /\ back \in Seq(1..Items) /\ Len(back) = Len(q) - k /\ Consecutive(back, enqueued)
          /\ front \in Seq(1..Items) /\ Len(front) = k /\ Consecutive(front, enqueued - (Len(q) - k))
      BY <2>1, <2>2, ConsecutiveParts
    <2>3. q' = back /\ batch' = front
      BY DEF StartFlush, k
    <2> HIDE DEF back, front
    <2> QED
      BY <2>3, <2>4, <1>2, <1>3
  <1>5. TypeOK'
    <2>1. Len(q') <= Items /\ Len(batch') <= MaxBatch
      BY <1>2, <1>3, <1>4, ItemsAssumption, BoundsAssumption
    <2> QED
      BY <2>1, <1>1, <1>4 DEF IInv, TypeOK, Running
  <1>6. BacklogIsTail'
    BY <1>1, <1>2, <1>3, <1>4 DEF BacklogIsTail, Posting
  <1>7. First' = First
    BY <1>1, <1>2, <1>3, <1>4 DEF First
  <1>8. PostsInOrder'
    BY <1>1, <1>7 DEF IInv, BufferInv, PostsInOrder, FrontOfBacklog
  <1>9. FrontAccounted'
    BY <1>1, <1>7 DEF IInv, BufferInv, FrontAccounted, Running
  <1> QED
    BY <1>5, <1>6, <1>8, <1>9 DEF IInv, BufferInv

\* The batch is the front of what is held.
LEMMA BatchIsFront == ASSUME IInv PROVE FrontOfBacklog(ToSet(batch))
  BY Backlog DEF FrontOfBacklog

LEMMA LandKeeps == ASSUME IInv, Land PROVE IInv'
  <1>1. landed' = landed \cup ToSet(batch) /\ UNCHANGED <<enqueued, q, batch, phase, late, shed>>
    BY DEF Land
  <1>2. ToSet(batch) \subseteq 1..Items
    BY Members DEF IInv, TypeOK
  <1>3. TypeOK'
    BY <1>1, <1>2 DEF IInv, TypeOK
  <1>4. First' = First
    BY <1>1 DEF First
  <1>5. BacklogIsTail' /\ FrontAccounted'
    BY <1>1, <1>4 DEF IInv, BufferInv, BacklogIsTail, FrontAccounted, Posting
  <1>6. PostsInOrder'
    BY <1>1, <1>4, BatchIsFront DEF IInv, BufferInv, PostsInOrder, FrontOfBacklog
  <1> QED
    BY <1>3, <1>5, <1>6 DEF IInv, BufferInv

LEMMA LandLateKeeps == ASSUME IInv, NEW b \in late, LandLate(b) PROVE IInv'
  <1>1. landed' = landed \cup b /\ late' = late \ {b} /\ UNCHANGED <<enqueued, q, batch, phase, shed>>
    BY DEF LandLate
  <1>2. TypeOK'
    BY <1>1 DEF IInv, TypeOK
  <1>3. First' = First
    BY <1>1 DEF First
  <1>4. BacklogIsTail' /\ FrontAccounted'
    BY <1>1, <1>3 DEF IInv, BufferInv, BacklogIsTail, FrontAccounted, Posting
  <1>5. PostsInOrder'
    BY <1>1, <1>3 DEF IInv, BufferInv, PostsInOrder, FrontOfBacklog
  <1> QED
    BY <1>2, <1>4, <1>5 DEF IInv, BufferInv

\* Without the batch, what is held begins at the queue.
LEMMA QueueBegins ==
  ASSUME IInv, batch' = <<>>, UNCHANGED <<enqueued, q>>
  PROVE  /\ First' = enqueued + 1 - Len(q) /\ First' = First + Len(batch) /\ First' \in Nat /\ Len(batch') = 0
         /\ BacklogIsTail'
         /\ \A S : FrontOfBacklog(S) => FrontOfBacklog(S)'
  <1>1. Len(q) \in Nat /\ Len(batch) \in Nat /\ enqueued \in Nat /\ Len(q) + Len(batch) <= enqueued
    BY Backlog
  <1>2. Len(batch') = 0
    BY EmptyBatch
  <1>3. First' = enqueued + 1 - Len(q) /\ First' = First + Len(batch) /\ First' \in Nat
    BY <1>1, <1>2 DEF First
  <1>4. BacklogIsTail'
    BY <1>1, <1>2, EmptyBatch DEF IInv, BufferInv, BacklogIsTail
  <1>5. First <= First' /\ enqueued' \in Nat /\ enqueued <= enqueued'
    BY <1>1, <1>3 DEF First
  <1>6. \A S : FrontOfBacklog(S) => FrontOfBacklog(S)'
    BY <1>3, <1>5, FrontsStay DEF FrontOfBacklog
  <1> QED
    BY <1>2, <1>3, <1>4, <1>6

LEMMA AnswerKeeps == ASSUME IInv, Answer PROVE IInv'
  <1>1. /\ Posting /\ ToSet(batch) \subseteq landed
        /\ phase' = (IF phase = "posting" THEN "waiting" ELSE "draining") /\ batch' = <<>>
        /\ UNCHANGED <<enqueued, q, late, landed, shed>>
    BY DEF Answer
  <1>2. /\ First' = enqueued + 1 - Len(q) /\ First' = First + Len(batch) /\ First' \in Nat /\ Len(batch') = 0
        /\ BacklogIsTail' /\ \A S : FrontOfBacklog(S) => FrontOfBacklog(S)'
    BY <1>1, QueueBegins
  <1>3. TypeOK'
    BY <1>1, <1>2, EmptyBatch, BoundsAssumption DEF IInv, TypeOK, Running
  <1>4. PostsInOrder'
    BY <1>1, <1>2 DEF IInv, BufferInv, PostsInOrder, FrontOfBacklog
  <1>5. FrontAccounted'
    <2>1. ToSet(batch) = First..(First' - 1) /\ First \in Nat /\ Len(batch) \in Nat
      BY <1>2, Backlog
    <2>2. phase' \in Running => phase \in Running
      BY <1>1 DEF Running, Posting
    <2> QED
      BY <2>1, <2>2, <1>1, <1>2 DEF IInv, BufferInv, FrontAccounted
  <1> QED
    BY <1>2, <1>3, <1>4, <1>5 DEF IInv, BufferInv

LEMMA CancelKeeps == ASSUME IInv, Cancel PROVE IInv'
  <1>1. /\ phase' = "draining" /\ batch' = <<>> /\ late' \in {late, late \cup {ToSet(batch)}}
        /\ UNCHANGED <<enqueued, q, landed, shed>>
    BY DEF Cancel
  <1>2. /\ First' = enqueued + 1 - Len(q) /\ First' = First + Len(batch) /\ First' \in Nat /\ Len(batch') = 0
        /\ BacklogIsTail' /\ \A S : FrontOfBacklog(S) => FrontOfBacklog(S)'
    BY <1>1, QueueBegins
  <1>3. TypeOK'
    <2>1. ToSet(batch) \in SUBSET (1..Items)
      BY Members DEF IInv, TypeOK
    <2> QED
      BY <2>1, <1>1, <1>2, EmptyBatch, BoundsAssumption DEF IInv, TypeOK, Running
  <1>4. PostsInOrder'
    <2>1. PICK front : front = ToSet(batch)
      OBVIOUS
    <2>2. FrontOfBacklog(front)'
      BY <2>1, <1>2, BatchIsFront
    <2>3. \A b \in late' : b \in late \/ b = front
      BY <2>1, <1>1
    <2>4. \A b \in late : FrontOfBacklog(b)'
      BY <1>2 DEF IInv, BufferInv, PostsInOrder
    <2>5. FrontOfBacklog(landed)'
      <3>1. PICK known : known = landed
        OBVIOUS
      <3>2. FrontOfBacklog(known)'
        BY <3>1, <1>2 DEF IInv, BufferInv, PostsInOrder
      <3> QED
        BY <3>1, <3>2, <1>1 DEF FrontOfBacklog
    <2> QED
      BY <2>2, <2>3, <2>4, <2>5 DEF PostsInOrder
  <1>5. FrontAccounted'
    <2>1. First \in Nat /\ Len(batch) \in Nat
      BY Backlog
    <2> QED
      BY <2>1, <1>1, <1>2 DEF IInv, BufferInv, FrontAccounted, Running
  <1> QED
    BY <1>2, <1>3, <1>4, <1>5 DEF IInv, BufferInv

LEMMA FailKeeps == ASSUME IInv, Fail PROVE IInv'
  <1> DEFINE w == Requeued
             e == Excess(w)
  <1>1. /\ Posting /\ q' = Kept(w) /\ shed' = shed \cup (ToSet(w) \ ToSet(Kept(w))) /\ batch' = <<>>
        /\ late' \in {late, late \cup {ToSet(batch)}} /\ UNCHANGED <<enqueued, landed>>
        /\ phase' \in {"waiting", "done", "draining"} /\ (phase' = "waiting" => phase = "posting")
    BY DEF Fail, Posting
  <1>2. /\ Len(q) \in Nat /\ Len(batch) \in Nat /\ enqueued \in Nat /\ Len(q) + Len(batch) <= enqueued
        /\ First \in 1..(enqueued + 1) /\ Pending = First..enqueued
    BY Backlog
  <1>3. w \in Seq(1..Items) /\ Len(w) = Len(batch) + Len(q) /\ Consecutive(w, enqueued)
    <2>1. enqueued \in Int
      BY <1>2
    <2> QED
      BY <2>1, ConsecutiveConcat DEF Requeued, IInv, TypeOK, BufferInv, BacklogIsTail
  <1> HIDE DEF w
  <1>4. e \in 0..Len(w)
    BY <1>2, <1>3, BoundsAssumption DEF Excess
  <1>5. q' = SubSeq(w, e + 1, Len(w))
    BY <1>1 DEF Kept
  <1> HIDE DEF e
  <1>6. q' \in Seq(1..Items) /\ Len(q') = Len(w) - e /\ Consecutive(q', enqueued)
    <2>1. enqueued \in Int
      BY <1>2
    <2> QED
      BY <2>1, <1>3, <1>4, <1>5, ConsecutiveParts
  <1>7. Len(batch') = 0 /\ First' = First + e /\ First \in Nat /\ First' \in 1..(enqueued + 1)
    BY <1>1, <1>2, <1>3, <1>4, <1>6, EmptyBatch DEF First
  <1>8. ToSet(w) = First..enqueued /\ ToSet(q') = First'..enqueued
    <2>1. enqueued \in Int
      BY <1>2
    <2>2. ToSet(w) = (enqueued + 1 - Len(w))..enqueued /\ ToSet(q') = (enqueued + 1 - Len(q'))..enqueued
      BY <2>1, <1>3, <1>6, ConsecutiveSet
    <2> QED
      BY <2>2, <1>1, <1>2, <1>3, <1>6, <1>7 DEF First
  <1>9. shed' = shed \cup First..(First' - 1)
    BY <1>1, <1>2, <1>7, <1>8, <1>5 DEF Kept, e
  <1>10. TypeOK'
    <2>1. ToSet(batch) \in SUBSET (1..Items) /\ ToSet(w) \in SUBSET (1..Items)
      BY <1>3, Members DEF IInv, TypeOK
    <2>2. enqueued \in 0..Items /\ Len(q') <= Items
      BY <1>2, <1>3, <1>4, <1>6, ItemsAssumption DEF IInv, TypeOK
    <2>3. late' \subseteq SUBSET (1..Items) /\ landed' \subseteq 1..Items /\ shed' \subseteq 1..Items
      BY <2>1, <1>1 DEF IInv, TypeOK
    <2> QED
      BY <2>2, <2>3, <1>1, <1>6, <1>7, EmptyBatch, BoundsAssumption DEF IInv, TypeOK, Running
  <1>11. BacklogIsTail'
    BY <1>1, <1>2, <1>3, <1>4, <1>6, <1>7, EmptyBatch DEF BacklogIsTail
  <1>12. PostsInOrder'
    <2>1. First' \in Nat /\ First <= First' /\ enqueued' \in Nat /\ enqueued <= enqueued'
      BY <1>1, <1>2, <1>4, <1>7
    <2>2. \A S : FrontOfBacklog(S) => FrontOfBacklog(S)'
      BY <2>1, FrontsStay DEF FrontOfBacklog
    <2>3. \A b \in late \cup {ToSet(batch)} : FrontOfBacklog(b)
      BY BatchIsFront DEF IInv, BufferInv, PostsInOrder
    <2>4. FrontOfBacklog(landed)
      BY DEF IInv, BufferInv, PostsInOrder
    <2> QED
      BY <2>2, <2>3, <2>4, <1>1 DEF PostsInOrder, FrontOfBacklog
  <1>13. FrontAccounted'
    <2>1. shed \subseteq 1..(First - 1) /\ (phase \in Running => 1..(First - 1) \subseteq landed \cup shed)
      BY DEF IInv, BufferInv, FrontAccounted
    <2>2. phase' \in Running => phase \in Running
      BY <1>1 DEF Running
    <2>3. 1..(First' - 1) = 1..(First - 1) \cup First..(First' - 1)
      BY <1>2, <1>4, <1>7
    <2> QED
      BY <2>1, <2>2, <2>3, <1>1, <1>9 DEF FrontAccounted
  <1> QED
    BY <1>10, <1>11, <1>12, <1>13 DEF IInv, BufferInv

LEMMA DrainEndsKeeps == ASSUME IInv, DrainEnds PROVE IInv'
  <1>1. phase = "draining" /\ phase' = "done" /\ UNCHANGED <<enqueued, q, batch, late, landed, shed>>
    BY DEF DrainEnds
  <1>2. First' = First
    BY <1>1 DEF First
  <1>3. TypeOK' /\ BacklogIsTail'
    BY <1>1 DEF IInv, TypeOK, BufferInv, BacklogIsTail, Posting
  <1>4. PostsInOrder' /\ FrontAccounted'
    BY <1>1, <1>2 DEF IInv, BufferInv, PostsInOrder, FrontOfBacklog, FrontAccounted, Running
  <1> QED
    BY <1>3, <1>4 DEF IInv, BufferInv

LEMMA BufferStutters == ASSUME IInv, UNCHANGED vars PROVE IInv'
  <1>1. First' = First
    BY DEF First, vars
  <1> QED
    BY <1>1 DEF IInv, TypeOK, BufferInv, BacklogIsTail, Posting, PostsInOrder, FrontOfBacklog, FrontAccounted, vars

\* The backlog is always the last items in order, and every post, also one that was given
\* up and arrives late, brings a front of it (FlushBuffer._flush).
THEOREM BufferInvariant == Spec => [](TypeOK /\ BufferInv)
  <1>1. Init => IInv
    BY InitBuffer
  <1>2. IInv /\ [Next]_vars => IInv'
    BY EnqueueKeeps, StartFlushKeeps, LandKeeps, LandLateKeeps, AnswerKeeps, FailKeeps, CancelKeeps, DrainEndsKeeps,
       BufferStutters DEF Next
  <1>3. IInv <=> TypeOK /\ BufferInv
    BY DEF IInv
  <1> QED
    BY <1>1, <1>2, <1>3, PTL DEF Spec

\* Until the loop is cancelled, pending_granule_ids misses nothing that is still owed.
THEOREM NothingOwedUnseen == Spec => []OwedIsPending
  <1>1. TypeOK /\ BufferInv => OwedIsPending
    <2> SUFFICES ASSUME IInv, phase \in Running, NEW x \in Owed
                 PROVE  x \in Pending
      BY DEF IInv, OwedIsPending
    <2>1. x \in 1..enqueued /\ x \notin landed \cup shed
      BY DEF Owed
    <2>2. x \notin 1..(First - 1)
      BY <2>1 DEF IInv, BufferInv, FrontAccounted
    <2> QED
      BY <2>1, <2>2, Backlog
  <1> QED
    BY <1>1, BufferInvariant, PTL

\* "FIFO order is preserved", through failures, re-sent batches and late posts.
THEOREM FifoHolds == Spec => []NoOvertaking
  <1>1. TypeOK /\ BufferInv => NoOvertaking
    <2> SUFFICES ASSUME IInv, NEW x \in landed, NEW y \in Owed, y < x, y \in Pending
                 PROVE  FALSE
      BY DEF IInv, NoOvertaking
    <2>1. y \in landed
      BY Backlog DEF IInv, BufferInv, PostsInOrder, FrontOfBacklog
    <2> QED
      BY <2>1 DEF Owed
  <1> QED
    BY <1>1, BufferInvariant, PTL

\* The backlog sheds its oldest.
THEOREM OldestIsShed == Spec => []ShedsOldest
  <1>1. TypeOK /\ BufferInv => ShedsOldest
    <2> SUFFICES ASSUME IInv PROVE ShedsOldest
      BY DEF IInv
    <2> QED
      BY Backlog DEF ShedsOldest, IInv, BufferInv, FrontAccounted
  <1> QED
    BY <1>1, BufferInvariant, PTL
=============================================================================
