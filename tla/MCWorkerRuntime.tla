--------------------------- MODULE MCWorkerRuntime ---------------------------
(* Instances of WorkerRuntime for TLC. *)
EXTENDS WorkerRuntime

OneEach == [download |-> 1, process |-> 1]
TwoDownloads == [download |-> 2, process |-> 1]
BothSettings == {OneEach, TwoDownloads}
=============================================================================
