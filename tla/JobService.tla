------------------------------ MODULE JobService ------------------------------
(***************************************************************************)
(* What a job pool promises its clients, with no threads, locks or         *)
(* condition variables in sight: a bounded first-in first-out service that *)
(* runs every job it accepted exactly once, and that can be shut down.     *)
(* ThreadPool.tla (threadpool.c) is shown to implement it.                 *)
(***************************************************************************)
EXTENDS Naturals, Sequences

CONSTANTS Jobs,      \* what clients may submit
          QueueMax   \* how many accepted jobs may wait to be started

VARIABLES pending,   \* accepted jobs not yet started, oldest first
          running,   \* jobs whose callback is being executed
          done,      \* jobs whose callback has returned
          phase      \* "open", "closing" (drains, accepts nothing), "closed"

vars == <<pending, running, done, phase>>

Init ==
  /\ pending = <<>>
  /\ running = {}
  /\ done    = {}
  /\ phase   = "open"

Known(j) == j \in running \cup done \/ \E i \in DOMAIN pending : pending[i] = j

(* A new job is accepted while the service is open and has room. *)
Accept(j) ==
  /\ phase = "open"
  /\ Len(pending) < QueueMax
  /\ ~Known(j)
  /\ pending' = Append(pending, j)
  /\ UNCHANGED <<running, done, phase>>

(* The oldest accepted job is started. *)
Start ==
  /\ phase # "closed"
  /\ pending # <<>>
  /\ pending' = Tail(pending)
  /\ running' = running \cup {Head(pending)}
  /\ UNCHANGED <<done, phase>>

Finish(j) ==
  /\ phase # "closed"
  /\ j \in running
  /\ running' = running \ {j}
  /\ done'    = done \cup {j}
  /\ UNCHANGED <<pending, phase>>

Close ==
  /\ phase = "open"
  /\ phase' = "closing"
  /\ UNCHANGED <<pending, running, done>>

(* The service is gone only once everything it accepted has run. *)
Shutdown ==
  /\ phase = "closing"
  /\ pending = <<>>
  /\ running = {}
  /\ phase' = "closed"
  /\ UNCHANGED <<pending, running, done>>

Next ==
  \/ \E j \in Jobs : Accept(j) \/ Finish(j)
  \/ Start
  \/ Close
  \/ Shutdown

Spec == Init /\ [][Next]_vars
===============================================================================
