---------------------------- MODULE MCWorkerCache ----------------------------
(* Two name@versions that share a file; the first also has a zip that needs no file. *)
EXTENDS WorkerCache

CONSTANTS r1, r2, d1, d2, d3, n1, x, y, c1, c2, t1, t2
MCRefOf == [d \in {d1, d2, d3} |-> IF d = d3 THEN r2 ELSE r1]
MCNeeds == [d \in {d1, d2, d3} |-> IF d = d2 THEN {} ELSE {n1}]

\* All is registered and in use, the worker is new.
Fresh ==
  /\ bundle[r1] = d1 /\ bundle[r2] = d3 /\ batches = Refs
  /\ \A r \in Refs : dir[r] = Absent
  /\ shared[n1] = x /\ cached[n1] = Null
\* Nothing is in use, and the worker has the bundle that was there before under the same name,
\* with the file it needed.
Used ==
  /\ bundle[r1] = d2 /\ bundle[r2] = Null /\ batches = {}
  /\ dir[r1] = Whole(d1) /\ venv[r1] = dir[r1] /\ dir[r2] = Absent
  /\ shared[n1] = Null /\ cached[n1] = x
\* Two of the initial states; x and y are alike.
MCInit == Init /\ (Fresh \/ Used)
MCSpec == MCInit /\ [][Next]_vars /\ Fairness
=============================================================================
