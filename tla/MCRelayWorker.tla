---------------------------- MODULE MCRelayWorker ----------------------------
(* Instances of RelayWorker: callers and workers are interchangeable. *)
EXTENDS RelayWorker, TLC

Symmetric == Permutations(Caller) \cup Permutations(Worker)

=============================================================================
