---------------------------- MODULE MCThreadPool ----------------------------
(* Small instances of the job pool for TLC. *)
EXTENDS ThreadPool, TLC

(* Threads of one kind, and jobs, are interchangeable (safety runs only). *)
Interchangeable ==
  Permutations(Workers) \cup Permutations(Producers)
    \cup Permutations(Destroyers) \cup Permutations(Jobs)
=============================================================================
