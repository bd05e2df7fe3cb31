------------------------------ MODULE ThreadPool ------------------------------
(***************************************************************************)
(* The bounded job pool of thread_pool/implemention_methd_two/threadpool.c:*)
(* one mutex, three condition variables (queue_empty, queue_not_empty,     *)
(* queue_not_full), a linked list of jobs with a separate length counter,  *)
(* worker threads in threadpool_function, and clients that call            *)
(* threadpool_add_job and threadpool_destroy.                              *)
(*                                                                         *)
(* Everything between taking the mutex and giving it up, by unlock or by   *)
(* pthread_cond_wait, touches only state the mutex protects, so it is one  *)
(* action.  What the code does outside the mutex (running the callback,    *)
(* the two broadcasts of threadpool_destroy, the joins, the clean-up) is   *)
(* an action each.  A thread in "enter" or "lock" is about to take the     *)
(* mutex, one in "wait" sleeps on its condition variable, and one in       *)
(* "woken" or "recheck" has slept and has to take the mutex again.         *)
(*                                                                         *)
(* The model begins with a pool: when threadpool_init runs out of memory,  *)
(* or an init call of its mutex or conditions fails, it returns NULL, and  *)
(* the first line of every other function asserts that it did not.         *)
(***************************************************************************)
EXTENDS Integers, Sequences, FiniteSets

CONSTANTS Workers,       \* pool->pthreads[0 .. thread_num-1]
          Producers,     \* client threads that call threadpool_add_job
          Destroyers,    \* client threads that call threadpool_destroy
          Jobs,          \* the (callback_function, arg) pairs to submit
          QueueMax,      \* pool->queue_max_num
          NoJob,         \* a null job pointer
          Overlap,       \* may add_job and destroy calls overlap?
          CreateMayFail  \* may pthread_create fail?

ASSUME ThreadsAssumption ==
  /\ Workers \cap Producers = {}
  /\ Workers \cap Destroyers = {}
  /\ Producers \cap Destroyers = {}
ASSUME QueueMaxAssumption == QueueMax \in Nat
ASSUME NoJobAssumption == NoJob \notin Jobs
ASSUME ModeAssumption == Overlap \in BOOLEAN /\ CreateMayFail \in BOOLEAN

VARIABLES
  queue,          \* the list pool->head .. pool->tail
  queue_cur_num,  \* pool->queue_cur_num
  queue_close,    \* pool->queue_close
  pool_close,     \* pool->pool_close
  freed,          \* the pool's memory has been given back
  wpc,            \* where each worker is in threadpool_function
  pjob,           \* the job each worker holds
  ppc,            \* where each producer is in threadpool_add_job
  arg,            \* the job each producer submits
  dpc,            \* where each destroyer is in threadpool_destroy
  answer,         \* what became of each job's submission
  executed,       \* jobs whose callback has returned
  discarded,      \* jobs freed by threadpool_destroy without being run
  touched         \* threads that used the pool after it was freed

pool   == <<queue, queue_cur_num, queue_close, pool_close, freed>>
ghosts == <<answer, executed, discarded, touched>>
vars   == <<pool, wpc, pjob, ppc, arg, dpc, ghosts>>

WorkerPc   == {"new", "failed", "lock", "wait", "run", "exit"}
ProducerPc == {"idle", "enter", "wait", "woken"}
DestroyPc  == {"idle", "enter", "wait", "recheck", "wake_workers",
               "wake_producers", "join", "cleanup", "ok", "err"}

Init ==
  /\ queue = <<>>
  /\ queue_cur_num = 0
  /\ queue_close = FALSE
  /\ pool_close = FALSE
  /\ freed = FALSE
  /\ wpc = [w \in Workers |-> "new"]
  /\ pjob = [w \in Workers |-> NoJob]
  /\ ppc = [p \in Producers |-> "idle"]
  /\ arg = [p \in Producers |-> NoJob]
  /\ dpc = [d \in Destroyers |-> "idle"]
  /\ answer = [j \in Jobs |-> "none"]
  /\ executed = {}
  /\ discarded = {}
  /\ touched = {}

Closed  == queue_close \/ pool_close
Threads == Workers \cup Producers \cup Destroyers

-------------------------------------------------------------------------------
(* Condition variables: the effect of broadcast, of signal and of a spurious *)
(* return from pthread_cond_wait on the threads that sleep.                  *)

WakeWorkers   == [w \in Workers |-> IF wpc[w] = "wait" THEN "lock" ELSE wpc[w]]
WakeProducers == [p \in Producers |-> IF ppc[p] = "wait" THEN "woken" ELSE ppc[p]]

SignalEmpty ==
  IF \E d \in Destroyers : dpc[d] = "wait"
    THEN \E d \in Destroyers : /\ dpc[d] = "wait"
                               /\ dpc' = [dpc EXCEPT ![d] = "recheck"]
    ELSE UNCHANGED dpc

SpuriousWakeup ==
  /\ \/ \E w \in Workers : /\ wpc[w] = "wait"
                           /\ wpc' = [wpc EXCEPT ![w] = "lock"]
                           /\ UNCHANGED <<ppc, dpc>>
     \/ \E p \in Producers : /\ ppc[p] = "wait"
                             /\ ppc' = [ppc EXCEPT ![p] = "woken"]
                             /\ UNCHANGED <<wpc, dpc>>
     \/ \E d \in Destroyers : /\ dpc[d] = "wait"
                              /\ dpc' = [dpc EXCEPT ![d] = "recheck"]
                              /\ UNCHANGED <<wpc, ppc>>
  /\ UNCHANGED <<pool, pjob, arg, ghosts>>

-------------------------------------------------------------------------------
(* threadpool_init: the loop that creates the workers.  Its caller gets the  *)
(* pool, and can call the other functions, once every one was attempted;     *)
(* workers already created run meanwhile.  pthread_create's result is unused.*)

CreateWorker(w) ==
  /\ wpc[w] = "new"
  /\ \/ wpc' = [wpc EXCEPT ![w] = "lock"]
     \/ CreateMayFail /\ wpc' = [wpc EXCEPT ![w] = "failed"]
  /\ UNCHANGED <<pool, pjob, ppc, arg, dpc, ghosts>>

PoolReady == \A w \in Workers : wpc[w] # "new"

(* The clients' side of the contract.  Nobody starts a call on a pool that   *)
(* was destroyed, and unless Overlap, calls to destroy come after all others *)
(* have returned and nothing is called afterwards, as in main_test.c.        *)
MayAdd == ~freed /\ (Overlap \/ \A d \in Destroyers : dpc[d] = "idle")

MayDestroy ==
  /\ ~freed
  /\ \/ Overlap
     \/ /\ \A p \in Producers : ppc[p] = "idle"
        /\ \A d \in Destroyers : dpc[d] = "idle"

-------------------------------------------------------------------------------
(* threadpool_add_job *)

AddCall(p, j) ==
  /\ PoolReady /\ MayAdd
  /\ ppc[p] = "idle"
  /\ answer[j] = "none"
  /\ ppc' = [ppc EXCEPT ![p] = "enter"]
  /\ arg' = [arg EXCEPT ![p] = j]
  /\ answer' = [answer EXCEPT ![j] = "asked"]
  /\ UNCHANGED <<pool, wpc, pjob, dpc, executed, discarded, touched>>

AddReturn(p, result) ==
  /\ ppc' = [ppc EXCEPT ![p] = "idle"]
  /\ arg' = [arg EXCEPT ![p] = NoJob]
  /\ answer' = [answer EXCEPT ![arg[p]] = result]

Full == queue_cur_num = QueueMax

(* The loop at the top: sleep while the queue is full and nothing closes. *)
AddWait(p) ==
  /\ ppc[p] \in {"enter", "woken"} /\ ~freed
  /\ Full
  /\ ~Closed
  /\ ppc' = [ppc EXCEPT ![p] = "wait"]
  /\ UNCHANGED <<pool, wpc, pjob, arg, dpc, ghosts>>

(* Return -1: the queue or the pool is closing, or there is no memory. *)
AddRefused(p) ==
  /\ ppc[p] \in {"enter", "woken"} /\ ~freed
  /\ Closed \/ ~Full
  /\ AddReturn(p, "refused")
  /\ UNCHANGED <<pool, wpc, pjob, dpc, executed, discarded, touched>>

(* The workers an enqueue wakes: all that sleep, but only if the list was    *)
(* empty (head == NULL).                                                     *)
WakeIfNotEmpty == IF queue # <<>> THEN WakeWorkers ELSE wpc
WakeIfEmpty    == IF queue = <<>> THEN WakeWorkers ELSE wpc

(* Return 0: append the job and count it. *)
Enqueue(p) ==
  /\ queue' = Append(queue, arg[p])
  /\ queue_cur_num' = queue_cur_num + 1

AddEnqueue(p) ==
  /\ ppc[p] \in {"enter", "woken"} /\ ~freed
  /\ ~Full
  /\ ~Closed
  /\ Enqueue(p)
  /\ wpc' = WakeIfEmpty
  /\ AddReturn(p, "accepted")
  /\ UNCHANGED <<queue_close, pool_close, freed, pjob, dpc,
                 executed, discarded, touched>>

-------------------------------------------------------------------------------
(* threadpool_function *)

WorkerWait(w) ==
  /\ wpc[w] = "lock" /\ ~freed
  /\ queue_cur_num = 0
  /\ ~pool_close
  /\ wpc' = [wpc EXCEPT ![w] = "wait"]
  /\ UNCHANGED <<pool, pjob, ppc, arg, dpc, ghosts>>

WorkerExit(w) ==
  /\ wpc[w] = "lock" /\ ~freed
  /\ pool_close
  /\ wpc' = [wpc EXCEPT ![w] = "exit"]
  /\ UNCHANGED <<pool, pjob, ppc, arg, dpc, ghosts>>

(* With n jobs left: the list without its first node, and whether the queue  *)
(* has just stopped being full.                                              *)
RestDroppingLast(n) == IF n <= 1 THEN <<>> ELSE Tail(queue)
Rest(n) == IF n = 0 THEN <<>> ELSE Tail(queue)

NotFullLate(n) == n = QueueMax
NotFullNow(n)  == n = QueueMax - 1

(* Take the oldest job; tell the destroyer when the queue becomes empty and  *)
(* the producers when it stops being full.                                   *)
WorkerTake(w) ==
  /\ wpc[w] = "lock" /\ ~freed
  /\ queue_cur_num # 0
  /\ ~pool_close
  /\ queue_cur_num' = queue_cur_num - 1
  /\ pjob' = [pjob EXCEPT ![w] = Head(queue)]
  /\ queue' = Rest(queue_cur_num')
  /\ IF queue_cur_num' = 0 THEN SignalEmpty ELSE UNCHANGED dpc
  /\ ppc' = IF NotFullNow(queue_cur_num') THEN WakeProducers ELSE ppc
  /\ wpc' = [wpc EXCEPT ![w] = "run"]
  /\ UNCHANGED <<queue_close, pool_close, freed, arg, ghosts>>

(* Outside the mutex: the callback, then free(pjob). *)
WorkerRun(w) ==
  /\ wpc[w] = "run"
  /\ executed' = executed \cup {pjob[w]}
  /\ pjob' = [pjob EXCEPT ![w] = NoJob]
  /\ wpc' = [wpc EXCEPT ![w] = "lock"]
  /\ UNCHANGED <<pool, ppc, arg, dpc, answer, discarded, touched>>

-------------------------------------------------------------------------------
(* threadpool_destroy *)

DestroyCall(d) ==
  /\ PoolReady /\ MayDestroy
  /\ dpc[d] = "idle"
  /\ dpc' = [dpc EXCEPT ![d] = "enter"]
  /\ UNCHANGED <<pool, wpc, pjob, ppc, arg, ghosts>>

DestroyRefused(d) ==
  /\ dpc[d] = "enter" /\ ~freed
  /\ Closed
  /\ dpc' = [dpc EXCEPT ![d] = "err"]
  /\ UNCHANGED <<pool, wpc, pjob, ppc, arg, ghosts>>

(* The wait for an empty queue: sleep, or set pool_close and unlock. *)
CloseAtOnce(d) ==
  /\ dpc' = [dpc EXCEPT ![d] = "wake_workers"]
  /\ pool_close' = TRUE

DrainOrClose(d) ==
  IF queue_cur_num # 0
    THEN /\ dpc' = [dpc EXCEPT ![d] = "wait"]
         /\ UNCHANGED pool_close
    ELSE /\ dpc' = [dpc EXCEPT ![d] = "wake_workers"]
         /\ pool_close' = TRUE

DestroyClose(d) ==
  /\ dpc[d] = "enter" /\ ~freed
  /\ ~Closed
  /\ queue_close' = TRUE
  /\ DrainOrClose(d)
  /\ UNCHANGED <<queue, queue_cur_num, freed, wpc, pjob, ppc, arg, ghosts>>

DestroyRecheck(d) ==
  /\ dpc[d] = "recheck" /\ ~freed
  /\ DrainOrClose(d)
  /\ UNCHANGED <<queue, queue_cur_num, queue_close, freed,
                 wpc, pjob, ppc, arg, ghosts>>

DestroyForgetWorkers(d) ==
  /\ dpc[d] = "wake_workers" /\ ~freed
  /\ dpc' = [dpc EXCEPT ![d] = "wake_producers"]
  /\ UNCHANGED <<pool, wpc, pjob, ppc, arg, ghosts>>

DestroyWakeWorkers(d) ==
  /\ dpc[d] = "wake_workers" /\ ~freed
  /\ wpc' = WakeWorkers
  /\ dpc' = [dpc EXCEPT ![d] = "wake_producers"]
  /\ UNCHANGED <<pool, pjob, ppc, arg, ghosts>>

DestroyWakeProducers(d) ==
  /\ dpc[d] = "wake_producers" /\ ~freed
  /\ ppc' = WakeProducers
  /\ dpc' = [dpc EXCEPT ![d] = "join"]
  /\ UNCHANGED <<pool, wpc, pjob, arg, ghosts>>

(* The threads pthread_join waits for have terminated. *)
NothingToJoin == TRUE
WorkersGone   == \A w \in Workers : wpc[w] \in {"exit", "failed"}

(* The join loop.  The handle of a worker that was never created is an       *)
(* uninitialized word: joining it returns an error or uses a wild thread.    *)
DestroyJoin(d) ==
  /\ dpc[d] = "join" /\ ~freed
  /\ WorkersGone
  /\ \/ /\ dpc' = [dpc EXCEPT ![d] = "cleanup"]
        /\ UNCHANGED touched
     \/ /\ \E w \in Workers : wpc[w] = "failed"
        /\ touched' = touched \cup {d}
        /\ UNCHANGED dpc
  /\ UNCHANGED <<pool, wpc, pjob, ppc, arg, answer, executed, discarded>>

(* Destroy the mutex and the condition variables, free whatever is still in  *)
(* the list, free the pool, return 0.                                        *)
DestroyCleanup(d) ==
  /\ dpc[d] = "cleanup" /\ ~freed
  /\ freed' = TRUE
  /\ discarded' = discarded \cup {queue[i] : i \in DOMAIN queue}
  /\ queue' = <<>>
  /\ dpc' = [dpc EXCEPT ![d] = "ok"]
  /\ UNCHANGED <<queue_cur_num, queue_close, pool_close,
                 wpc, pjob, ppc, arg, answer, executed, touched>>

-------------------------------------------------------------------------------
(* Undefined behaviour: a thread whose next step locks or reads the pool,    *)
(* or that still sleeps on one of its condition variables, finds it freed.   *)
UsesPool(t) ==
  \/ t \in Workers    /\ wpc[t] \in {"lock", "wait"}
  \/ t \in Producers  /\ ppc[t] # "idle"
  \/ t \in Destroyers /\ dpc[t] \notin {"idle", "ok", "err"}

UseAfterFree(t) ==
  /\ freed
  /\ UsesPool(t)
  /\ touched' = touched \cup {t}
  /\ UNCHANGED <<pool, wpc, pjob, ppc, arg, dpc, answer, executed, discarded>>

(* A pool that was destroyed, with every call returned, has nothing to do;   *)
(* nothing is said of the program after a step with undefined behaviour.     *)
Stopped ==
  /\ \/ freed /\ \A t \in Threads : ~UsesPool(t)
     \/ touched # {}
  /\ UNCHANGED vars

WorkerStep(w)  == WorkerWait(w) \/ WorkerExit(w) \/ WorkerTake(w) \/ WorkerRun(w)
AddStep(p)     == AddWait(p) \/ AddRefused(p) \/ AddEnqueue(p)
DestroyStep(d) ==
  \/ DestroyRefused(d) \/ DestroyClose(d) \/ DestroyRecheck(d)
  \/ DestroyWakeWorkers(d) \/ DestroyWakeProducers(d)
  \/ DestroyJoin(d) \/ DestroyCleanup(d)

Next ==
  \/ /\ touched = {}
     /\ \/ \E w \in Workers : CreateWorker(w) \/ WorkerStep(w)
        \/ \E p \in Producers : AddStep(p) \/ \E j \in Jobs : AddCall(p, j)
        \/ \E d \in Destroyers : DestroyCall(d) \/ DestroyStep(d)
        \/ SpuriousWakeup
        \/ \E t \in Threads : UseAfterFree(t)
  \/ Stopped

Spec == Init /\ [][Next]_vars

(* Every thread inside a pool function is scheduled and gets the mutex, and  *)
(* callbacks return; clients need not call anything.                         *)
Fairness ==
  /\ \A w \in Workers : WF_vars(CreateWorker(w)) /\ WF_vars(WorkerStep(w))
  /\ \A p \in Producers : WF_vars(AddStep(p))
  /\ \A d \in Destroyers : WF_vars(DestroyStep(d))

FairSpec == Spec /\ Fairness

-------------------------------------------------------------------------------
(* Properties *)

InQueue == {queue[i] : i \in DOMAIN queue}
Held    == {pjob[w] : w \in {v \in Workers : wpc[v] = "run"}}

(* Every variable of the pool and every thread's position has its type. *)
TypeOK ==
  /\ queue \in Seq(Jobs)
  /\ queue_cur_num \in 0 .. QueueMax
  /\ queue_close \in BOOLEAN /\ pool_close \in BOOLEAN /\ freed \in BOOLEAN
  /\ wpc \in [Workers -> WorkerPc]
  /\ pjob \in [Workers -> Jobs \cup {NoJob}]
  /\ ppc \in [Producers -> ProducerPc]
  /\ arg \in [Producers -> Jobs \cup {NoJob}]
  /\ dpc \in [Destroyers -> DestroyPc]
  /\ answer \in [Jobs -> {"none", "asked", "accepted", "refused"}]
  /\ executed \subseteq Jobs
  /\ discarded \subseteq Jobs
  /\ touched \subseteq Threads

(* The hand-written length agrees with the list it counts: add_job tests the *)
(* list (head == NULL) and the others test queue_cur_num, so a difference    *)
(* would lose wake-ups or dereference a null head.                           *)
CounterMatchesList == queue_cur_num = Len(queue)

(* No lost wake-up, whatever the interleaving: a worker sleeps only while    *)
(* there is no job, a producer only while the queue is full, the destroyer   *)
(* only while jobs are left; and once the pool closes, sleepers remain only  *)
(* as long as the broadcast meant for them is still to come.                 *)
NoLostWakeup ==
  /\ \A w \in Workers : wpc[w] = "wait" =>
       /\ queue = <<>>
       /\ pool_close => \E d \in Destroyers : dpc[d] = "wake_workers"
  /\ \A p \in Producers : ppc[p] = "wait" =>
       /\ Len(queue) = QueueMax
       /\ pool_close => \E d \in Destroyers :
                          dpc[d] \in {"wake_workers", "wake_producers"}
  /\ \A d \in Destroyers : dpc[d] = "wait" => queue # <<>>

(* Nobody waits for everybody else: while a client is blocked inside add_job *)
(* or destroy, some thread can go on without being woken, unless no worker   *)
(* could be created.  (A spurious wake-up is always possible, so TLC's own   *)
(* test for deadlock cannot see this.)  A pool of capacity 0 accepts no job  *)
(* and blocks its clients by design.                                         *)
Blocked(t) ==
  \/ t \in Producers  /\ ppc[t] = "wait"
  \/ t \in Destroyers /\ dpc[t] \in {"wait", "join"}

CanGoOn(t) ==
  \/ t \in Workers    /\ wpc[t] \in {"new", "lock", "run"}
  \/ t \in Producers  /\ ppc[t] \in {"enter", "woken"}
  \/ t \in Destroyers /\ \/ dpc[t] \in {"enter", "recheck", "wake_workers",
                                      "wake_producers", "cleanup"}
                         \/ dpc[t] = "join" /\ WorkersGone

NoDeadlock ==
  QueueMax > 0 /\ ~freed /\ (\E t \in Threads : Blocked(t)) =>
    \/ \E t \in Threads : CanGoOn(t)
    \/ \A w \in Workers : wpc[w] = "failed"

(* A job for which add_job returned 0 is in exactly one place: in the list   *)
(* once, in the hands of one worker, or executed; none was freed unexecuted. *)
JobsConserved ==
  /\ {j \in Jobs : answer[j] = "accepted"} = InQueue \cup Held \cup executed
  /\ InQueue \cap (Held \cup executed) = {}
  /\ Held \cap executed = {}
  /\ \A i, k \in DOMAIN queue : queue[i] = queue[k] => i = k
  /\ \A v, w \in Workers : pjob[v] = pjob[w] /\ wpc[v] = "run" => v = w
  /\ discarded = {}

(* When threadpool_destroy frees the pool every accepted job has executed    *)
(* and every worker is gone, so no worker ever uses freed memory.            *)
DestroyDrains ==
  /\ freed => /\ \A j \in Jobs : answer[j] = "accepted" => j \in executed
              /\ \A w \in Workers : wpc[w] \in {"exit", "failed"}
  /\ touched \cap Workers = {}

(* Clients that never overlap destroy with another call, and pools whose     *)
(* workers were all created, meet no undefined behaviour at all.             *)
NoUndefinedBehaviour == touched = {}

(* The pool implements the abstract job service. *)
Phase == IF freed THEN "closed" ELSE IF queue_close THEN "closing" ELSE "open"

Service == INSTANCE JobService WITH
  pending <- queue, running <- Held, done <- executed, phase <- Phase

ImplementsJobService == Service!Spec

(* Every job that was accepted is eventually executed, whether or not the    *)
(* pool is destroyed meanwhile.                                              *)
AcceptedRuns == \A j \in Jobs : answer[j] = "accepted" ~> j \in executed

(* threadpool_destroy returns. *)
DestroyReturns == \A d \in Destroyers : dpc[d] = "enter" ~> dpc[d] \in {"ok", "err"}

(* "Wake the threadpool_add_job function" (threadpool.c:159): a client that  *)
(* slept in add_job, and was woken as the queue emptied for destroy or by    *)
(* destroy, gets to return before the pool is freed.                         *)
WokenProducerSafe == \A p \in touched \cap Producers : ppc[p] # "woken"
===============================================================================
