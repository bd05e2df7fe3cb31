--------------------------- MODULE ThreadPoolProofs ---------------------------
(***************************************************************************)
(* Proofs about threadpool.c, as modelled in ThreadPool.tla, for any       *)
(* number of threads and jobs and any capacity of the queue.               *)
(***************************************************************************)
EXTENDS ThreadPool, TLAPS

(* The position of the one destroyer that found the queue open, and the      *)
(* positions it goes through after it has closed the pool.                   *)
Owning  == {"wait", "recheck", "wake_workers", "wake_producers", "join",
            "cleanup", "ok"}
Closing == {"wake_workers", "wake_producers", "join", "cleanup", "ok"}

(* What ties the flags to the positions of the threads. *)
Control ==
  /\ \A p \in Producers : ppc[p] # "idle" => arg[p] \in Jobs
  /\ \A w \in Workers : wpc[w] = "run" => pjob[w] \in Jobs
  /\ \A d \in Destroyers : dpc[d] \in Owning => queue_close
  /\ \A d, e \in Destroyers : dpc[d] \in Owning /\ dpc[e] \in Owning => d = e
  /\ \A d \in Destroyers : dpc[d] \in Closing => pool_close
  /\ pool_close => queue_close /\ queue_cur_num = 0
  /\ \A d \in Destroyers : dpc[d] = "cleanup" => WorkersGone
  /\ freed => pool_close /\ WorkersGone

Inv == TypeOK /\ CounterMatchesList /\ Control

(* The empty list is the only list of length 0. *)
LEMMA NoJobsLeft ==
  /\ <<>> \in Seq(Jobs) /\ Len(<<>>) = 0
  /\ \A q \in Seq(Jobs) : Len(q) = 0 => q = <<>>
OBVIOUS

-------------------------------------------------------------------------------
(* The initial states satisfy the invariant. *)
LEMMA InitInv == Init => Inv
<1> SUFFICES ASSUME Init PROVE Inv
  OBVIOUS
<1>1. queue \in Seq(Jobs) /\ queue_cur_num = Len(queue)
  BY NoJobsLeft, Zenon DEF Init
<1>2. queue_cur_num \in 0 .. QueueMax
  BY QueueMaxAssumption DEF Init
<1>3. /\ wpc \in [Workers -> WorkerPc]
      /\ pjob \in [Workers -> Jobs \cup {NoJob}]
      /\ ppc \in [Producers -> ProducerPc]
      /\ arg \in [Producers -> Jobs \cup {NoJob}]
      /\ dpc \in [Destroyers -> DestroyPc]
  BY DEF Init, WorkerPc, ProducerPc, DestroyPc
<1>4. TypeOK
  BY <1>1, <1>2, <1>3 DEF Init, TypeOK
<1>5. Control
  BY DEF Init, Control, Owning, Closing
<1> QED BY <1>1, <1>4, <1>5 DEF Inv, CounterMatchesList

(* A step of a worker, which may take a job or go to sleep, keeps the        *)
(* invariant: the list and its counter shrink together.                      *)
LEMMA WorkerInv ==
  ASSUME Inv, NEW w \in Workers, CreateWorker(w) \/ WorkerStep(w)
  PROVE  Inv'
<1> USE QueueMaxAssumption DEF Inv, WorkerPc, ProducerPc, DestroyPc,
                               Owning, Closing, WorkersGone
<1>1. CASE CreateWorker(w)
  BY <1>1 DEF TypeOK, CounterMatchesList, Control, CreateWorker, pool, ghosts
<1>2. CASE WorkerWait(w)
  BY <1>2 DEF TypeOK, CounterMatchesList, Control, WorkerWait, pool, ghosts
<1>3. CASE WorkerExit(w)
  BY <1>3 DEF TypeOK, CounterMatchesList, Control, WorkerExit, pool, ghosts
<1>4. CASE WorkerTake(w)
  <2>1. /\ queue # <<>>
        /\ queue_cur_num' = Len(queue) - 1
        /\ queue_cur_num' \in 0 .. QueueMax
        /\ Head(queue) \in Jobs
    BY <1>4 DEF WorkerTake, TypeOK, CounterMatchesList
  <2>2. queue' \in Seq(Jobs) /\ Len(queue') = Len(queue) - 1
    <3>1. queue \in Seq(Jobs) /\ queue # <<>>
      BY <2>1 DEF TypeOK
    <3>2. CASE Len(queue) = 1
      <4>1. queue_cur_num' = 0
        BY <2>1, <3>2
      <4>2. queue' = <<>>
        BY <1>4, <4>1, Zenon DEF WorkerTake, Rest
      <4>3. queue' \in Seq(Jobs) /\ Len(queue') = 0
        BY <4>2, NoJobsLeft, Zenon
      <4> QED BY <3>2, <4>3
    <3>3. CASE Len(queue) # 1
      <4>1. queue' = Tail(queue)
        BY <1>4, <2>1, <3>1, <3>3 DEF WorkerTake, Rest
      <4> QED BY <3>1, <4>1
    <3> QED BY <3>2, <3>3
  <2>3. dpc' \in [Destroyers -> DestroyPc]
    BY <1>4 DEF WorkerTake, TypeOK, SignalEmpty
  <2>4. ppc' \in [Producers -> ProducerPc]
    BY <1>4 DEF WorkerTake, TypeOK, WakeProducers
  <2>5. TypeOK'
    BY <1>4, <2>1, <2>2, <2>3, <2>4 DEF WorkerTake, TypeOK, ghosts
  <2>6. CounterMatchesList'
    BY <2>1, <2>2 DEF CounterMatchesList
  <2>7. Control'
    BY <1>4, <2>1 DEF WorkerTake, Control, TypeOK, SignalEmpty,
                      WakeProducers, ghosts
  <2> QED BY <2>5, <2>6, <2>7
<1>5. CASE WorkerRun(w)
  BY <1>5 DEF TypeOK, CounterMatchesList, Control, WorkerRun, pool
<1> QED BY <1>1, <1>2, <1>3, <1>4, <1>5 DEF WorkerStep

(* A step of a client inside threadpool_add_job keeps the invariant: the     *)
(* queue is not full when a job is appended.                                 *)
LEMMA AddInv ==
  ASSUME Inv, NEW p \in Producers, AddStep(p) \/ \E j \in Jobs : AddCall(p, j)
  PROVE  Inv'
<1> USE QueueMaxAssumption DEF Inv, WorkerPc, ProducerPc, DestroyPc,
                               Owning, Closing, WorkersGone
<1>1. CASE \E j \in Jobs : AddCall(p, j)
  BY <1>1 DEF TypeOK, CounterMatchesList, Control, AddCall, pool
<1>2. CASE AddWait(p)
  BY <1>2 DEF TypeOK, CounterMatchesList, Control, AddWait, pool, ghosts
<1>3. CASE AddRefused(p)
  BY <1>3 DEF TypeOK, CounterMatchesList, Control, AddRefused, AddReturn, pool
<1>4. CASE AddEnqueue(p)
  <2>1. arg[p] \in Jobs /\ queue_cur_num < QueueMax
    BY <1>4 DEF AddEnqueue, Full, Control, TypeOK
  <2>2. /\ queue' \in Seq(Jobs)
        /\ Len(queue') = Len(queue) + 1
        /\ queue_cur_num' = queue_cur_num + 1
    BY <1>4, <2>1 DEF AddEnqueue, Enqueue, TypeOK
  <2>3. TypeOK'
    BY <1>4, <2>1, <2>2 DEF AddEnqueue, AddReturn, TypeOK, WakeIfEmpty,
                            WakeWorkers
  <2>4. CounterMatchesList'
    BY <2>2 DEF CounterMatchesList
  <2>5. Control'
    BY <1>4 DEF AddEnqueue, AddReturn, Control, TypeOK, Closed,
                WakeIfEmpty, WakeWorkers
  <2> QED BY <2>3, <2>4, <2>5
<1> QED BY <1>1, <1>2, <1>3, <1>4 DEF AddStep

(* A step of a client inside threadpool_destroy keeps the invariant: only    *)
(* one client gets past the test of the flags.                               *)
LEMMA DestroyInv ==
  ASSUME Inv, NEW d \in Destroyers, DestroyCall(d) \/ DestroyStep(d)
  PROVE  Inv'
<1> USE QueueMaxAssumption DEF Inv, WorkerPc, ProducerPc, DestroyPc,
                               Owning, Closing, WorkersGone, Threads
<1>1. CASE DestroyCall(d)
  BY <1>1 DEF TypeOK, CounterMatchesList, Control, DestroyCall, pool, ghosts
<1>2. CASE DestroyRefused(d)
  BY <1>2 DEF TypeOK, CounterMatchesList, Control, DestroyRefused, pool, ghosts
<1>3. CASE DestroyClose(d)
  <2>1. CASE queue_cur_num # 0
    BY <1>3, <2>1 DEF TypeOK, CounterMatchesList, Control, DestroyClose,
                      DrainOrClose, Closed, ghosts
  <2>2. CASE queue_cur_num = 0
    BY <1>3, <2>2 DEF TypeOK, CounterMatchesList, Control, DestroyClose,
                      DrainOrClose, Closed, ghosts
  <2> QED BY <2>1, <2>2
<1>4. CASE DestroyRecheck(d)
  <2>1. CASE queue_cur_num # 0
    BY <1>4, <2>1 DEF TypeOK, CounterMatchesList, Control, DestroyRecheck,
                      DrainOrClose, ghosts
  <2>2. CASE queue_cur_num = 0
    BY <1>4, <2>2 DEF TypeOK, CounterMatchesList, Control, DestroyRecheck,
                      DrainOrClose, ghosts
  <2> QED BY <2>1, <2>2
<1>5. CASE DestroyWakeWorkers(d)
  BY <1>5 DEF TypeOK, CounterMatchesList, Control, DestroyWakeWorkers,
              WakeWorkers, pool, ghosts
<1>6. CASE DestroyWakeProducers(d)
  BY <1>6 DEF TypeOK, CounterMatchesList, Control, DestroyWakeProducers,
              WakeProducers, pool, ghosts
<1>7. CASE DestroyJoin(d)
  BY <1>7 DEF TypeOK, CounterMatchesList, Control, DestroyJoin, pool
<1>8. CASE DestroyCleanup(d)
  <2>1. queue_cur_num = 0 /\ queue = <<>> /\ pool_close
    BY <1>8 DEF DestroyCleanup, Control, CounterMatchesList, TypeOK
  <2> QED
    BY <1>8, <2>1 DEF TypeOK, CounterMatchesList, Control, DestroyCleanup
<1> QED BY <1>1, <1>2, <1>3, <1>4, <1>5, <1>6, <1>7, <1>8 DEF DestroyStep

(* Every step keeps the invariant. *)
LEMMA NextInv == Inv /\ [Next]_vars => Inv'
<1> SUFFICES ASSUME Inv, [Next]_vars PROVE Inv'
  OBVIOUS
<1>1. CASE \E w \in Workers : CreateWorker(w) \/ WorkerStep(w)
  BY <1>1, WorkerInv
<1>2. CASE \E p \in Producers : AddStep(p) \/ \E j \in Jobs : AddCall(p, j)
  BY <1>2, AddInv
<1>3. CASE \E d \in Destroyers : DestroyCall(d) \/ DestroyStep(d)
  BY <1>3, DestroyInv
<1>4. CASE SpuriousWakeup
  BY <1>4 DEF SpuriousWakeup, Inv, TypeOK, CounterMatchesList, Control, pool,
     ghosts, WorkerPc, ProducerPc, DestroyPc, Owning, Closing, WorkersGone
<1>5. CASE \E t \in Threads : UseAfterFree(t)
  BY <1>5 DEF UseAfterFree, Inv, TypeOK, CounterMatchesList, Control, pool,
     WorkersGone
<1>6. CASE UNCHANGED vars
  BY <1>6 DEF vars, pool, ghosts, Inv, TypeOK, CounterMatchesList, Control,
     WorkersGone
<1> QED BY <1>1, <1>2, <1>3, <1>4, <1>5, <1>6 DEF Next, Stopped

(* Type correctness of every reachable state of threadpool.c, together with  *)
(* the bound of the queue.                                                   *)
THEOREM PoolTypeCorrect == Spec => []TypeOK
<1>1. Inv => TypeOK
  BY DEF Inv
<1> QED BY InitInv, NextInv, <1>1, PTL DEF Spec

(* pool->queue_cur_num always counts the nodes of pool->head, although       *)
(* add_job tests the list and the other functions test the counter.          *)
THEOREM CounterAlwaysMatches == Spec => []CounterMatchesList
<1>1. Inv => CounterMatchesList
  BY DEF Inv
<1> QED BY InitInv, NextInv, <1>1, PTL DEF Spec

-------------------------------------------------------------------------------
(* No lost wake-up.  The property is inductive relative to Inv: an enqueue   *)
(* that does not broadcast finds no worker asleep, and a take that does not  *)
(* broadcast finds no producer asleep.                                       *)
LEMMA WakeupStep == Inv /\ NoLostWakeup /\ [Next]_vars => NoLostWakeup'
<1> SUFFICES ASSUME Inv, NoLostWakeup, [Next]_vars PROVE NoLostWakeup'
  OBVIOUS
<1> USE QueueMaxAssumption DEF Owning, Closing
<1>0. /\ queue \in Seq(Jobs) /\ queue_cur_num = Len(queue)
      /\ Len(queue) = 0 <=> queue = <<>>
      /\ wpc \in [Workers -> WorkerPc]
      /\ ppc \in [Producers -> ProducerPc]
      /\ dpc \in [Destroyers -> DestroyPc]
  BY DEF Inv, TypeOK, CounterMatchesList
<1>1. ASSUME NEW w \in Workers, CreateWorker(w) PROVE NoLostWakeup'
  BY <1>0, <1>1 DEF NoLostWakeup, CreateWorker, pool
<1>2. ASSUME NEW w \in Workers, WorkerWait(w) PROVE NoLostWakeup'
  BY <1>0, <1>2 DEF NoLostWakeup, WorkerWait, pool
<1>3. ASSUME NEW w \in Workers, WorkerExit(w) PROVE NoLostWakeup'
  BY <1>0, <1>3 DEF NoLostWakeup, WorkerExit, pool
<1>4. ASSUME NEW w \in Workers, WorkerTake(w) PROVE NoLostWakeup'
  <2>1. /\ queue # <<>> /\ ~pool_close /\ ~pool_close'
        /\ queue_cur_num' = Len(queue) - 1
        /\ wpc' = [wpc EXCEPT ![w] = "run"]
    BY <1>0, <1>4 DEF WorkerTake
  <2>2. Inv'
    BY <1>4, WorkerInv DEF WorkerStep
  <2>3. queue' \in Seq(Jobs) /\ Len(queue') = Len(queue) - 1
    BY <2>1, <2>2 DEF Inv, TypeOK, CounterMatchesList
  <2>4. \A v \in Workers : wpc'[v] # "wait"
    BY <1>0, <2>1 DEF NoLostWakeup
  <2>5. \A p \in Producers : ppc'[p] # "wait"
    <3>1. CASE queue_cur_num' = QueueMax - 1
      BY <1>0, <1>4, <3>1 DEF WorkerTake, NotFullNow, WakeProducers
    <3>2. CASE queue_cur_num' # QueueMax - 1
      BY <1>0, <1>4, <2>1, <3>2 DEF WorkerTake, NotFullNow, NoLostWakeup
    <3> QED BY <3>1, <3>2
  <2>6. \A d \in Destroyers : dpc'[d] = "wait" => queue' # <<>>
    <3>1. CASE queue_cur_num' = 0
      <4>1. SignalEmpty
        BY <1>4, <3>1 DEF WorkerTake
      <4> QED BY <1>0, <4>1 DEF SignalEmpty, Inv, Control
    <3>2. CASE queue_cur_num' # 0
      BY <2>1, <2>3, <3>2
    <3> QED BY <3>1, <3>2
  <2> QED BY <2>1, <2>4, <2>5, <2>6 DEF NoLostWakeup
<1>5. ASSUME NEW w \in Workers, WorkerRun(w) PROVE NoLostWakeup'
  BY <1>0, <1>5 DEF NoLostWakeup, WorkerRun, pool
<1>6. ASSUME NEW p \in Producers, NEW j \in Jobs, AddCall(p, j)
      PROVE  NoLostWakeup'
  BY <1>0, <1>6 DEF NoLostWakeup, AddCall, pool
<1>7. ASSUME NEW p \in Producers, AddWait(p) PROVE NoLostWakeup'
  BY <1>0, <1>7 DEF NoLostWakeup, AddWait, pool, Full, Closed
<1>8. ASSUME NEW p \in Producers, AddRefused(p) PROVE NoLostWakeup'
  BY <1>0, <1>8 DEF NoLostWakeup, AddRefused, AddReturn, pool
<1>9. ASSUME NEW p \in Producers, AddEnqueue(p) PROVE NoLostWakeup'
  <2>1. /\ Len(queue) # QueueMax /\ ~pool_close /\ ~pool_close'
        /\ ppc' = [ppc EXCEPT ![p] = "idle"]
        /\ dpc' = dpc
        /\ queue' = Append(queue, arg[p])
    BY <1>0, <1>9 DEF AddEnqueue, AddReturn, Enqueue, Full, Closed
  <2>2. queue' # <<>>
    BY <1>0, <2>1
  <2>3. \A q \in Producers : ppc'[q] # "wait"
    BY <1>0, <2>1 DEF NoLostWakeup
  <2>4. \A w \in Workers : wpc'[w] # "wait"
    <3>1. CASE queue = <<>>
      BY <1>0, <1>9, <3>1 DEF AddEnqueue, WakeIfEmpty, WakeWorkers
    <3>2. CASE queue # <<>>
      BY <1>0, <1>9, <3>2 DEF AddEnqueue, WakeIfEmpty, NoLostWakeup
    <3> QED BY <3>1, <3>2
  <2> QED BY <2>1, <2>2, <2>3, <2>4 DEF NoLostWakeup
<1>10. ASSUME NEW d \in Destroyers, DestroyCall(d) PROVE NoLostWakeup'
  BY <1>0, <1>10 DEF NoLostWakeup, DestroyCall, pool
<1>11. ASSUME NEW d \in Destroyers, DestroyRefused(d) PROVE NoLostWakeup'
  BY <1>0, <1>11 DEF NoLostWakeup, DestroyRefused, pool
<1>12. ASSUME NEW d \in Destroyers, DestroyClose(d) \/ DestroyRecheck(d)
       PROVE  NoLostWakeup'
  <2>1. /\ UNCHANGED <<queue, wpc, ppc>> /\ DrainOrClose(d)
        /\ dpc[d] \in {"enter", "recheck"}
    BY <1>12 DEF DestroyClose, DestroyRecheck
  <2>2. CASE queue_cur_num # 0
    <3>1. dpc' = [dpc EXCEPT ![d] = "wait"] /\ pool_close' = pool_close
      BY <2>1, <2>2 DEF DrainOrClose
    <3>2. \A e \in Destroyers :
            dpc[e] \in {"wake_workers", "wake_producers"} => dpc'[e] = dpc[e]
      BY <1>0, <2>1, <3>1
    <3> QED BY <1>0, <2>1, <2>2, <3>1, <3>2 DEF NoLostWakeup
  <2>3. CASE queue_cur_num = 0
    <3>1. dpc' = [dpc EXCEPT ![d] = "wake_workers"]
      BY <2>1, <2>3 DEF DrainOrClose
    <3>2. dpc'[d] = "wake_workers"
      BY <1>0, <3>1
    <3> QED BY <1>0, <2>1, <3>1, <3>2 DEF NoLostWakeup
  <2> QED BY <2>2, <2>3
<1>13. ASSUME NEW d \in Destroyers, DestroyWakeWorkers(d) PROVE NoLostWakeup'
  <2>1. /\ UNCHANGED <<queue, pool_close, ppc>>
        /\ dpc' = [dpc EXCEPT ![d] = "wake_producers"]
        /\ \A w \in Workers : wpc'[w] # "wait"
    BY <1>0, <1>13 DEF DestroyWakeWorkers, WakeWorkers, pool
  <2>2. \A e \in Destroyers :
          dpc[e] \in {"wake_workers", "wake_producers"}
            => dpc'[e] \in {"wake_workers", "wake_producers"}
    BY <1>0, <2>1
  <2> QED BY <1>0, <2>1, <2>2 DEF NoLostWakeup
<1>14. ASSUME NEW d \in Destroyers, DestroyWakeProducers(d)
       PROVE  NoLostWakeup'
  <2>1. /\ UNCHANGED <<queue, pool_close, wpc>>
        /\ dpc' = [dpc EXCEPT ![d] = "join"]
        /\ dpc[d] = "wake_producers"
        /\ \A p \in Producers : ppc'[p] # "wait"
    BY <1>0, <1>14 DEF DestroyWakeProducers, WakeProducers, pool
  <2>2. \A e \in Destroyers : dpc[e] = "wake_workers" => dpc'[e] = dpc[e]
    BY <1>0, <2>1
  <2> QED BY <1>0, <2>1, <2>2 DEF NoLostWakeup
<1>15. ASSUME NEW d \in Destroyers, DestroyJoin(d) PROVE NoLostWakeup'
  BY <1>0, <1>15 DEF NoLostWakeup, DestroyJoin, pool
<1>16. ASSUME NEW d \in Destroyers, DestroyCleanup(d) PROVE NoLostWakeup'
  <2>1. queue = <<>>
    BY <1>0, <1>16 DEF DestroyCleanup, Inv, Control
  <2>2. queue' = queue
    BY <1>16, <2>1 DEF DestroyCleanup
  <2> QED BY <1>0, <1>16, <2>2 DEF NoLostWakeup, DestroyCleanup
<1>17. CASE SpuriousWakeup
  BY <1>0, <1>17 DEF NoLostWakeup, SpuriousWakeup, pool
<1>18. CASE (\E t \in Threads : UseAfterFree(t)) \/ UNCHANGED vars
  BY <1>18 DEF NoLostWakeup, UseAfterFree, vars, pool
<1> QED BY <1>1, <1>2, <1>3, <1>4, <1>5, <1>6, <1>7, <1>8, <1>9, <1>10,
           <1>11, <1>12, <1>13, <1>14, <1>15, <1>16, <1>17, <1>18
        DEF Next, Stopped, WorkerStep, AddStep, DestroyStep

(* No thread of threadpool.c ever sleeps on a condition that already holds,  *)
(* although the code broadcasts only on an empty list, at one slot below     *)
(* capacity, and after pool_close was set and the mutex given up.            *)
THEOREM NoWakeupIsLost == Spec => []NoLostWakeup
<1>1. Init => NoLostWakeup
  BY DEF Init, NoLostWakeup
<1> QED BY InitInv, NextInv, WakeupStep, <1>1, PTL DEF Spec

(* A worker that does not sleep has work to do, was never created, or is     *)
(* gone because the pool closes.                                             *)
LEMMA WorkerGoesOn ==
  ASSUME Inv, NEW w \in Workers, wpc[w] # "wait"
  PROVE  CanGoOn(w) \/ wpc[w] \in {"failed", "exit"}
BY DEF Inv, TypeOK, WorkerPc, CanGoOn

(* While there is a job, a worker that was created is awake: NoLostWakeup    *)
(* excludes one that sleeps, and an exit one that finds the pool closed.     *)
LEMMA JobKeepsAwake ==
  ASSUME Inv, NoLostWakeup, queue # <<>>, NEW w \in Workers, wpc[w] # "failed",
         \A v \in Workers : wpc[v] = "exit" => pool_close
  PROVE  CanGoOn(w)
<1>1. wpc[w] # "wait"
  BY DEF NoLostWakeup
<1>2. ~pool_close
  BY NoJobsLeft DEF Inv, TypeOK, CounterMatchesList, Control
<1> QED
  BY <1>1, <1>2, WorkerGoesOn

(* A worker exits only after the pool was closed.                            *)
ExitClosed == \A w \in Workers : wpc[w] = "exit" => pool_close

LEMMA ExitStep == Inv /\ ExitClosed /\ [Next]_vars => ExitClosed'
<1> SUFFICES ASSUME Inv, ExitClosed, [Next]_vars PROVE ExitClosed'
  OBVIOUS
<1>1. pool_close => pool_close'
  BY DEF Next, CreateWorker, WorkerStep, WorkerWait, WorkerExit, WorkerTake, WorkerRun,
         AddStep, AddWait, AddRefused, AddEnqueue, AddCall, DestroyCall, DestroyStep,
         DestroyRefused, DestroyClose, DestroyRecheck, DrainOrClose, DestroyWakeWorkers,
         DestroyWakeProducers, DestroyJoin, DestroyCleanup, SpuriousWakeup, UseAfterFree,
         Stopped, pool, vars
<1>2. ASSUME NEW w \in Workers, wpc'[w] = "exit" PROVE wpc[w] = "exit" \/ pool_close
  <2>0. wpc \in [Workers -> WorkerPc]
    BY DEF Inv, TypeOK
  <2>1. ASSUME NEW v \in Workers, CreateWorker(v) \/ WorkerStep(v)
        PROVE  wpc[w] = "exit" \/ pool_close
    BY <1>2, <2>0, <2>1
    DEF CreateWorker, WorkerStep, WorkerWait, WorkerExit, WorkerTake, WorkerRun
  <2>2. ASSUME NEW p \in Producers, AddStep(p) \/ \E j \in Jobs : AddCall(p, j)
        PROVE  wpc[w] = "exit"
    BY <1>2, <2>0, <2>2
    DEF AddStep, AddWait, AddRefused, AddEnqueue, AddCall, WakeIfEmpty, WakeWorkers
  <2>3. ASSUME NEW d \in Destroyers, DestroyCall(d) \/ DestroyStep(d)
        PROVE  wpc[w] = "exit"
    BY <1>2, <2>0, <2>3
    DEF DestroyCall, DestroyStep, DestroyRefused, DestroyClose, DestroyRecheck,
        DestroyWakeWorkers, DestroyWakeProducers, DestroyJoin, DestroyCleanup, WakeWorkers
  <2>4. CASE SpuriousWakeup
    BY <1>2, <2>0, <2>4 DEF SpuriousWakeup
  <2>5. CASE (\E t \in Threads : UseAfterFree(t)) \/ UNCHANGED vars
    BY <1>2, <2>5 DEF UseAfterFree, vars
  <2> QED
    BY <2>1, <2>2, <2>3, <2>4, <2>5 DEF Next, Stopped
<1> QED
  BY <1>1, <1>2 DEF ExitClosed

(* Nobody in threadpool.c ever waits for everybody else, for any number of   *)
(* threads and any capacity: who is blocked on a condition variable finds a  *)
(* worker awake, and a join finds a worker awake or every worker gone.       *)
THEOREM PoolNeverDeadlocks == Spec => []NoDeadlock
<1>1. Init => NoLostWakeup /\ ExitClosed
  BY DEF Init, NoLostWakeup, ExitClosed
<1>2. Inv /\ NoLostWakeup /\ ExitClosed => NoDeadlock
  <2> SUFFICES ASSUME Inv, NoLostWakeup, ExitClosed, QueueMax > 0,
                      NEW t \in Threads, Blocked(t)
               PROVE  \/ \E s \in Threads : CanGoOn(s)
                      \/ \A w \in Workers : wpc[w] = "failed"
    BY DEF NoDeadlock
  <2> USE DEF Threads
  <2>1. CASE queue # <<>>
    BY <2>1, JobKeepsAwake DEF ExitClosed
  <2>2. CASE queue = <<>>
    <3>1. Len(queue) # QueueMax
      BY <2>2, NoJobsLeft, QueueMaxAssumption
    <3>2. t \in Destroyers /\ dpc[t] = "join"
      BY <2>2, <3>1 DEF Blocked, NoLostWakeup
    <3>3. pool_close
      BY <3>2 DEF Inv, Control, Closing
    <3>4. CASE WorkersGone
      BY <3>2, <3>4 DEF CanGoOn
    <3>5. CASE ~WorkersGone
      <4>1. PICK w \in Workers : wpc[w] \notin {"exit", "failed"}
        BY <3>5 DEF WorkersGone
      <4>2. CASE wpc[w] # "wait"
        BY <4>1, <4>2, WorkerGoesOn
      <4>3. CASE wpc[w] = "wait"
        <5>1. PICK d \in Destroyers : dpc[d] = "wake_workers"
          BY <3>3, <4>3 DEF NoLostWakeup
        <5> QED
          BY <5>1 DEF CanGoOn
      <4> QED
        BY <4>2, <4>3
    <3> QED
      BY <3>4, <3>5
  <2> QED
    BY <2>1, <2>2
<1> QED
  BY <1>1, <1>2, InitInv, NextInv, WakeupStep, ExitStep, PTL DEF Spec

-------------------------------------------------------------------------------
(* What a list of distinct jobs holds after an append and after a take. *)
Elements(q) == {q[i] : i \in DOMAIN q}
Distinct(q) == \A i, k \in DOMAIN q : q[i] = q[k] => i = k

LEMMA AppendElements ==
  ASSUME NEW q \in Seq(Jobs), NEW e \in Jobs, Distinct(q), e \notin Elements(q)
  PROVE  /\ Elements(Append(q, e)) = Elements(q) \cup {e}
         /\ Distinct(Append(q, e))
<1>1. /\ DOMAIN q = 1 .. Len(q) /\ Len(q) \in Nat
      /\ DOMAIN Append(q, e) = 1 .. Len(q) + 1
      /\ \A i \in 1 .. Len(q) : Append(q, e)[i] = q[i]
      /\ Append(q, e)[Len(q) + 1] = e
  OBVIOUS
<1>2. Elements(Append(q, e)) = Elements(q) \cup {e}
  BY <1>1 DEF Elements
<1>3. Distinct(Append(q, e))
  BY <1>1 DEF Elements, Distinct
<1> QED BY <1>2, <1>3

LEMMA TailElements ==
  ASSUME NEW q \in Seq(Jobs), q # <<>>, Distinct(q)
  PROVE  /\ Head(q) \in Elements(q)
         /\ Elements(Tail(q)) = Elements(q) \ {Head(q)}
         /\ Distinct(Tail(q))
<1>1. /\ DOMAIN q = 1 .. Len(q) /\ Len(q) \in Nat \ {0} /\ Head(q) = q[1]
      /\ DOMAIN Tail(q) = 1 .. Len(q) - 1
      /\ \A i \in 1 .. Len(q) - 1 : Tail(q)[i] = q[i + 1]
  OBVIOUS
<1>2. Elements(Tail(q)) = Elements(q) \ {Head(q)}
  <2>1. Elements(Tail(q)) \subseteq Elements(q) \ {Head(q)}
    BY <1>1 DEF Elements, Distinct
  <2>2. ASSUME NEW j \in Elements(q) \ {Head(q)}
        PROVE  j \in Elements(Tail(q))
    <3>1. PICK i \in 2 .. Len(q) : j = q[i]
      BY <1>1, <2>2 DEF Elements
    <3>2. i - 1 \in 1 .. Len(q) - 1 /\ Tail(q)[i - 1] = q[(i - 1) + 1]
      BY <1>1, <3>1
    <3>3. i - 1 \in DOMAIN Tail(q) /\ Tail(q)[i - 1] = j
      BY <1>1, <3>1, <3>2
    <3> QED BY <3>3 DEF Elements
  <2> QED BY <2>1, <2>2
<1>3. Distinct(Tail(q))
  BY <1>1 DEF Distinct
<1> QED BY <1>1, <1>2, <1>3 DEF Elements

(* A job is being submitted by at most one client, which has no answer yet,  *)
(* and a worker that runs no job holds none.                                 *)
Submitting ==
  /\ \A p \in Producers : ppc[p] # "idle" => answer[arg[p]] = "asked"
  /\ \A p, r \in Producers :
       ppc[p] # "idle" /\ ppc[r] # "idle" /\ arg[p] = arg[r] => p = r
  /\ \A w \in Workers : wpc[w] # "run" => pjob[w] = NoJob

JobsInv == Inv /\ Submitting /\ JobsConserved
(* The steps that do not move a job keep it where it is. *)
LEMMA JobsUnmoved ==
  ASSUME JobsInv,
         UNCHANGED <<queue, pjob, answer, executed, discarded>>,
         \A w \in Workers : wpc'[w] = "run" <=> wpc[w] = "run",
         \A p \in Producers : ppc'[p] # "idle" => ppc[p] # "idle",
         UNCHANGED arg
  PROVE  Submitting' /\ JobsConserved'
<1>1. Held' = Held /\ InQueue' = InQueue
  BY DEF Held, InQueue
<1>2. JobsConserved'
  BY <1>1 DEF JobsInv, JobsConserved
<1>3. Submitting'
  BY DEF JobsInv, Submitting
<1> QED BY <1>2, <1>3

(* A client that enters add_job with a new job. *)
LEMMA JobsAddCall ==
  ASSUME JobsInv, NEW p \in Producers, NEW j \in Jobs, AddCall(p, j)
  PROVE  Submitting' /\ JobsConserved'
<1>1. /\ answer \in [Jobs -> {"none", "asked", "accepted", "refused"}]
      /\ ppc \in [Producers -> ProducerPc] /\ arg \in [Producers -> Jobs \cup {NoJob}]
      /\ \A r \in Producers : ppc[r] # "idle" => arg[r] \in Jobs
  BY DEF JobsInv, Inv, TypeOK, Control
<1>2. Held' = Held /\ InQueue' = InQueue
  BY DEF Held, InQueue, AddCall, pool
<1>3. {k \in Jobs : answer'[k] = "accepted"} = {k \in Jobs : answer[k] = "accepted"}
  BY <1>1 DEF AddCall
<1>4. JobsConserved'
  BY <1>2, <1>3 DEF JobsInv, JobsConserved, AddCall, pool
<1>5. Submitting'
  BY <1>1 DEF JobsInv, Submitting, AddCall
<1> QED BY <1>4, <1>5

(* A client whose add_job returns -1. *)
LEMMA JobsAddRefused ==
  ASSUME JobsInv, NEW p \in Producers, AddRefused(p)
  PROVE  Submitting' /\ JobsConserved'
<1>1. /\ answer \in [Jobs -> {"none", "asked", "accepted", "refused"}]
      /\ ppc \in [Producers -> ProducerPc] /\ arg \in [Producers -> Jobs \cup {NoJob}]
      /\ \A r \in Producers : ppc[r] # "idle" => arg[r] \in Jobs
      /\ arg[p] \in Jobs /\ answer[arg[p]] = "asked"
  BY DEF JobsInv, Inv, TypeOK, Control, Submitting, AddRefused
<1>2. Held' = Held /\ InQueue' = InQueue
  BY DEF Held, InQueue, AddRefused, pool
<1>3. {k \in Jobs : answer'[k] = "accepted"} = {k \in Jobs : answer[k] = "accepted"}
  BY <1>1 DEF AddRefused, AddReturn
<1>4. JobsConserved'
  BY <1>2, <1>3 DEF JobsInv, JobsConserved, AddRefused, pool
<1>5. Submitting'
  BY <1>1 DEF JobsInv, Submitting, AddRefused, AddReturn
<1> QED BY <1>4, <1>5

(* A client whose add_job returns 0: the job enters the list.  A wake-up of  *)
(* sleeping workers moves no job.                                            *)
LEMMA JobsAddEnqueue ==
  ASSUME JobsInv, NEW p \in Producers, AddEnqueue(p)
  PROVE  Submitting' /\ JobsConserved'
<1> DEFINE j == arg[p]
<1>1. /\ answer \in [Jobs -> {"none", "asked", "accepted", "refused"}]
      /\ ppc \in [Producers -> ProducerPc] /\ arg \in [Producers -> Jobs \cup {NoJob}]
      /\ wpc \in [Workers -> WorkerPc]
      /\ queue \in Seq(Jobs)
      /\ \A r \in Producers : ppc[r] # "idle" => arg[r] \in Jobs
      /\ j \in Jobs /\ answer[j] = "asked"
  BY DEF JobsInv, Inv, TypeOK, Control, Submitting, AddEnqueue
<1>2. /\ queue' = Append(queue, j)
      /\ UNCHANGED <<pjob, executed, discarded>>
      /\ answer' = [answer EXCEPT ![j] = "accepted"]
  BY DEF AddEnqueue, Enqueue, AddReturn
<1>3. \A w \in Workers : wpc'[w] = "run" <=> wpc[w] = "run"
  BY <1>1 DEF AddEnqueue, WakeIfEmpty, WakeWorkers
<1>4. Held' = Held
  BY <1>2, <1>3 DEF Held
<1>5. j \notin InQueue \cup Held \cup executed
  BY <1>1 DEF JobsInv, JobsConserved
<1>6. InQueue' = InQueue \cup {j} /\ Distinct(queue')
  <2>1. Distinct(queue)
    BY DEF JobsInv, JobsConserved, Distinct
  <2>2. InQueue = Elements(queue) /\ InQueue' = Elements(Append(queue, j))
    BY <1>2 DEF InQueue, Elements
  <2>3. j \notin Elements(queue)
    BY <1>5, <2>2, Zenon
  <2>4. /\ Elements(Append(queue, j)) = Elements(queue) \cup {j}
        /\ Distinct(Append(queue, j))
    BY <1>1, <2>1, <2>3, AppendElements
  <2> QED BY <1>2, <2>2, <2>4
<1>7. {k \in Jobs : answer'[k] = "accepted"}
        = {k \in Jobs : answer[k] = "accepted"} \cup {j}
  BY <1>1, <1>2
<1>8. /\ InQueue' \cap (Held' \cup executed') = {}
      /\ {k \in Jobs : answer'[k] = "accepted"} = InQueue' \cup Held' \cup executed'
  BY <1>2, <1>4, <1>5, <1>6, <1>7 DEF JobsInv, JobsConserved
<1>9. JobsConserved'
  BY <1>2, <1>3, <1>4, <1>6, <1>8 DEF JobsInv, JobsConserved, Distinct
<1>10. Submitting'
  BY <1>1, <1>2, <1>3 DEF JobsInv, Submitting, AddEnqueue, AddReturn
<1> QED BY <1>9, <1>10

(* A worker that takes a job: it moves from the list into its hands. *)
LEMMA JobsTake ==
  ASSUME JobsInv, NEW w \in Workers, WorkerTake(w)
  PROVE  /\ Submitting' /\ JobsConserved'
         /\ queue # <<>> /\ queue' = Tail(queue)
         /\ Held' = Held \cup {Head(queue)}
<1> DEFINE j == Head(queue)
<1>1. /\ queue \in Seq(Jobs) /\ queue_cur_num = Len(queue)
      /\ wpc \in [Workers -> WorkerPc]
      /\ pjob \in [Workers -> Jobs \cup {NoJob}]
      /\ ppc \in [Producers -> ProducerPc]
  BY DEF JobsInv, Inv, TypeOK, CounterMatchesList
<1>2. /\ queue # <<>>
      /\ wpc[w] = "lock" /\ wpc' = [wpc EXCEPT ![w] = "run"]
      /\ pjob' = [pjob EXCEPT ![w] = j]
      /\ UNCHANGED <<answer, executed, discarded, arg>>
  BY <1>1 DEF WorkerTake, ghosts
<1>3. queue' = Tail(queue)
  <2>1. Len(queue) = 1 => Tail(queue) = <<>>
    <3>1. Tail(queue) \in Seq(Jobs) /\ Len(Tail(queue)) = Len(queue) - 1
      BY <1>1, <1>2
    <3>2. Len(queue) = 1 => Len(Tail(queue)) = 0
      BY <3>1
    <3> QED BY <3>1, <3>2, NoJobsLeft, Zenon
  <2>2. CASE Len(queue) = 1
    <3>1. queue_cur_num' = 0
      BY <1>1, <2>2 DEF WorkerTake
    <3>2. queue' = <<>>
      BY <3>1, Zenon DEF WorkerTake, Rest
    <3> QED BY <2>1, <2>2, <3>2, Zenon
  <2>3. CASE Len(queue) # 1
    BY <1>1, <2>3 DEF WorkerTake, Rest
  <2> QED BY <2>2, <2>3
<1>4. /\ j \in InQueue /\ InQueue' = InQueue \ {j}
      /\ Distinct(queue')
  <2>1. Distinct(queue)
    BY DEF JobsInv, JobsConserved, Distinct
  <2>2. InQueue = Elements(queue) /\ InQueue' = Elements(Tail(queue))
    BY <1>3 DEF InQueue, Elements
  <2>3. /\ j \in Elements(queue) /\ Distinct(Tail(queue))
        /\ Elements(Tail(queue)) = Elements(queue) \ {j}
    BY <1>1, <1>2, <2>1, TailElements
  <2> QED BY <1>3, <2>2, <2>3
<1>5. Held' = Held \cup {j}
  <2>1. \A v \in Workers : wpc'[v] = "run" <=> wpc[v] = "run" \/ v = w
    BY <1>1, <1>2
  <2>2. \A v \in Workers : pjob'[v] = IF v = w THEN j ELSE pjob[v]
    BY <1>1, <1>2
  <2> QED BY <1>2, <2>1, <2>2 DEF Held
<1>6. j \in Jobs /\ j \notin Held /\ j \notin executed
  BY <1>1, <1>2, <1>4 DEF JobsInv, JobsConserved
<1>7. \A u, v \in Workers : pjob'[u] = pjob'[v] /\ wpc'[u] = "run" => u = v
  <2>1. \A v \in Workers : wpc[v] = "run" => pjob[v] # j
    BY <1>6 DEF Held
  <2>2. \A v \in Workers : wpc[v] # "run" => pjob[v] # j
    BY <1>6, NoJobAssumption DEF JobsInv, Submitting
  <2> QED BY <1>1, <1>2, <2>1, <2>2 DEF JobsInv, JobsConserved
<1>8. JobsConserved'
  BY <1>2, <1>4, <1>5, <1>6, <1>7 DEF JobsInv, JobsConserved, Distinct
<1>9. \A p \in Producers : ppc'[p] # "idle" => ppc[p] # "idle"
  BY <1>1 DEF WorkerTake, WakeProducers
<1>10. Submitting'
  BY <1>1, <1>2, <1>9 DEF JobsInv, Submitting
<1> QED BY <1>2, <1>3, <1>5, <1>8, <1>10

(* A worker whose callback returns: the job moves to those executed. *)
LEMMA JobsRun ==
  ASSUME JobsInv, NEW w \in Workers, WorkerRun(w)
  PROVE  /\ Submitting' /\ JobsConserved'
         /\ pjob[w] \in Held
         /\ Held' = Held \ {pjob[w]}
<1>1. /\ wpc \in [Workers -> WorkerPc] /\ wpc[w] = "run"
      /\ wpc' = [wpc EXCEPT ![w] = "lock"]
      /\ pjob \in [Workers -> Jobs \cup {NoJob}]
      /\ pjob' = [pjob EXCEPT ![w] = NoJob]
      /\ executed' = executed \cup {pjob[w]}
      /\ UNCHANGED <<queue, ppc, arg, answer, discarded>>
      /\ pjob[w] \in Jobs
  BY DEF WorkerRun, pool, JobsInv, Inv, TypeOK, Control
<1>2. pjob[w] \in Held
  BY <1>1 DEF Held
<1>3. Held' = Held \ {pjob[w]}
  <2>1. \A v \in Workers : wpc'[v] = "run" <=> wpc[v] = "run" /\ v # w
    BY <1>1
  <2>2. \A v \in Workers : v # w => pjob'[v] = pjob[v]
    BY <1>1
  <2>3. \A v \in Workers : wpc[v] = "run" /\ pjob[v] = pjob[w] => v = w
    BY DEF JobsInv, JobsConserved
  <2> QED BY <2>1, <2>2, <2>3 DEF Held
<1>4. InQueue' = InQueue
  BY <1>1 DEF InQueue
<1>5. \A u, v \in Workers : pjob'[u] = pjob'[v] /\ wpc'[u] = "run" => u = v
  <2>1. \A v \in Workers : wpc[v] = "run" => pjob[v] \in Jobs
    BY DEF JobsInv, Inv, Control
  <2> QED BY <1>1, <2>1, NoJobAssumption DEF JobsInv, JobsConserved
<1>6. JobsConserved'
  BY <1>1, <1>2, <1>3, <1>4, <1>5 DEF JobsInv, JobsConserved
<1>7. Submitting'
  BY <1>1 DEF JobsInv, Submitting
<1> QED BY <1>2, <1>3, <1>6, <1>7
(* Every step keeps JobsInv. *)
LEMMA JobsStep == JobsInv /\ [Next]_vars => JobsInv'
<1> SUFFICES ASSUME JobsInv, [Next]_vars PROVE JobsInv'
  OBVIOUS
<1>0. Inv'
  BY NextInv DEF JobsInv
<1>a. /\ wpc \in [Workers -> WorkerPc] /\ ppc \in [Producers -> ProducerPc]
      /\ Inv
  BY DEF JobsInv, Inv, TypeOK
<1> SUFFICES Submitting' /\ JobsConserved'
  BY <1>0 DEF JobsInv
<1>1. ASSUME NEW w \in Workers,
             CreateWorker(w) \/ WorkerWait(w) \/ WorkerExit(w)
      PROVE  Submitting' /\ JobsConserved'
  <2>1. \A v \in Workers : wpc'[v] = "run" <=> wpc[v] = "run"
    BY <1>a, <1>1 DEF CreateWorker, WorkerWait, WorkerExit
  <2> QED BY <1>1, <2>1, JobsUnmoved
          DEF CreateWorker, WorkerWait, WorkerExit, pool, ghosts
<1>2. ASSUME NEW w \in Workers, WorkerTake(w) PROVE Submitting' /\ JobsConserved'
  BY <1>2, JobsTake
<1>3. ASSUME NEW w \in Workers, WorkerRun(w) PROVE Submitting' /\ JobsConserved'
  BY <1>3, JobsRun
<1>4. ASSUME NEW p \in Producers, NEW j \in Jobs, AddCall(p, j)
      PROVE  Submitting' /\ JobsConserved'
  BY <1>4, JobsAddCall
<1>5. ASSUME NEW p \in Producers, AddWait(p) PROVE Submitting' /\ JobsConserved'
  <2>1. \A r \in Producers : ppc'[r] # "idle" => ppc[r] # "idle"
    BY <1>a, <1>5 DEF AddWait
  <2> QED BY <1>5, <2>1, JobsUnmoved DEF AddWait, pool, ghosts
<1>6. ASSUME NEW p \in Producers, AddRefused(p) PROVE Submitting' /\ JobsConserved'
  BY <1>6, JobsAddRefused
<1>7. ASSUME NEW p \in Producers, AddEnqueue(p) PROVE Submitting' /\ JobsConserved'
  BY <1>7, JobsAddEnqueue
<1>8. ASSUME NEW d \in Destroyers,
             \/ DestroyCall(d) \/ DestroyRefused(d) \/ DestroyClose(d)
             \/ DestroyRecheck(d) \/ DestroyJoin(d)
      PROVE  Submitting' /\ JobsConserved'
  BY <1>8, JobsUnmoved DEF DestroyCall, DestroyRefused, DestroyClose,
     DestroyRecheck, DestroyJoin, pool, ghosts
<1>9. ASSUME NEW d \in Destroyers, DestroyWakeWorkers(d)
      PROVE  Submitting' /\ JobsConserved'
  <2>1. \A v \in Workers : wpc'[v] = "run" <=> wpc[v] = "run"
    BY <1>a, <1>9 DEF DestroyWakeWorkers, WakeWorkers
  <2> QED BY <1>9, <2>1, JobsUnmoved DEF DestroyWakeWorkers, pool, ghosts
<1>10. ASSUME NEW d \in Destroyers, DestroyWakeProducers(d)
       PROVE  Submitting' /\ JobsConserved'
  <2>1. \A r \in Producers : ppc'[r] # "idle" => ppc[r] # "idle"
    BY <1>a, <1>10 DEF DestroyWakeProducers, WakeProducers
  <2> QED BY <1>10, <2>1, JobsUnmoved DEF DestroyWakeProducers, pool, ghosts
<1>11. ASSUME NEW d \in Destroyers, DestroyCleanup(d)
       PROVE  Submitting' /\ JobsConserved'
  <2>1. queue = <<>>
    BY <1>a, <1>11, NoJobsLeft
       DEF DestroyCleanup, Inv, Control, Closing, TypeOK, CounterMatchesList
  <2>2. InQueue = {}
    BY <2>1, NoJobsLeft DEF InQueue
  <2>3. queue' = queue /\ discarded' = discarded
    BY <1>11, <2>1, <2>2, Zenon DEF DestroyCleanup, InQueue
  <2> QED BY <1>11, <2>3, JobsUnmoved DEF DestroyCleanup
<1>12. CASE SpuriousWakeup
  <2>1. /\ \A v \in Workers : wpc'[v] = "run" <=> wpc[v] = "run"
        /\ \A r \in Producers : ppc'[r] # "idle" => ppc[r] # "idle"
    BY <1>a, <1>12 DEF SpuriousWakeup
  <2> QED BY <1>12, <2>1, JobsUnmoved DEF SpuriousWakeup, pool, ghosts
<1>13. CASE (\E t \in Threads : UseAfterFree(t)) \/ UNCHANGED vars
  BY <1>13, JobsUnmoved DEF UseAfterFree, vars, pool, ghosts
<1> QED BY <1>1, <1>2, <1>3, <1>4, <1>5, <1>6, <1>7, <1>8, <1>9, <1>10,
           <1>11, <1>12, <1>13
        DEF Next, Stopped, WorkerStep, AddStep, DestroyStep

LEMMA InitJobs == Init => JobsInv
<1> SUFFICES ASSUME Init PROVE JobsInv
  OBVIOUS
<1>1. InQueue = {} /\ (\A i, k \in DOMAIN queue : queue[i] = queue[k] => i = k)
  BY NoJobsLeft DEF Init, InQueue
<1>2. Held = {}
  BY DEF Init, Held
<1>3. Submitting
  BY DEF Init, Submitting
<1>4. JobsConserved
  BY <1>1, <1>2 DEF Init, JobsConserved
<1> QED BY <1>3, <1>4, InitInv DEF JobsInv

(* A job that threadpool_add_job accepted is never lost, duplicated, handed  *)
(* to two workers or freed unexecuted, for any number of threads.            *)
THEOREM NoJobIsLost == Spec => []JobsConserved
<1>1. JobsInv => JobsConserved
  BY DEF JobsInv
<1> QED BY InitJobs, JobsStep, <1>1, PTL DEF Spec

(* threadpool_destroy frees the pool only when every accepted job has been   *)
(* executed and no worker will touch the pool again.                         *)
THEOREM DestroyAlwaysDrains == Spec => []DestroyDrains
<1> DEFINE Untouched == touched \cap Workers = {}
<1>1. Init => Untouched
  BY DEF Init
<1>2. JobsInv /\ Untouched /\ [Next]_vars => Untouched'
  <2> SUFFICES ASSUME JobsInv, Untouched, [Next]_vars PROVE Untouched'
    OBVIOUS
  <2>1. ASSUME NEW t \in Threads, UseAfterFree(t) PROVE Untouched'
    <3>1. freed => \A w \in Workers : wpc[w] \in {"exit", "failed"}
      BY DEF JobsInv, Inv, Control, WorkersGone
    <3>2. t \notin Workers
      BY <2>1, <3>1, ThreadsAssumption DEF UseAfterFree, UsesPool
    <3> QED BY <2>1, <3>2 DEF UseAfterFree
  <2>2. ASSUME NEW d \in Destroyers, DestroyJoin(d) PROVE Untouched'
    BY <2>2, ThreadsAssumption DEF DestroyJoin
  <2>3. CASE touched' = touched
    BY <2>3
  <2>4. \/ touched' = touched
        \/ \E t \in Threads : UseAfterFree(t)
        \/ \E d \in Destroyers : DestroyJoin(d)
    BY DEF Next, Stopped, vars, pool, ghosts, WorkerStep, AddStep, DestroyStep,
       CreateWorker, WorkerWait, WorkerExit, WorkerTake, WorkerRun, AddCall,
       AddWait, AddRefused, AddEnqueue, DestroyCall, DestroyRefused,
       DestroyClose, DestroyRecheck, DestroyWakeWorkers, DestroyWakeProducers,
       DestroyCleanup, SpuriousWakeup
  <2> QED BY <2>1, <2>2, <2>3, <2>4
<1>3. JobsInv /\ Untouched => DestroyDrains
  <2> SUFFICES ASSUME JobsInv, Untouched, freed
               PROVE  /\ \A j \in Jobs : answer[j] = "accepted" => j \in executed
                      /\ \A w \in Workers : wpc[w] \in {"exit", "failed"}
    BY DEF DestroyDrains
  <2>1. \A w \in Workers : wpc[w] \in {"exit", "failed"}
    BY DEF JobsInv, Inv, Control, WorkersGone
  <2>2. Held = {}
    BY <2>1 DEF Held
  <2>3. queue \in Seq(Jobs) /\ Len(queue) = 0
    BY DEF JobsInv, Inv, Control, TypeOK, CounterMatchesList
  <2>4. InQueue = {}
    BY <2>3 DEF InQueue
  <2> QED BY <2>1, <2>2, <2>4 DEF JobsInv, JobsConserved
<1> QED BY InitJobs, JobsStep, <1>1, <1>2, <1>3, PTL DEF Spec

-------------------------------------------------------------------------------
(* Refinement.  An add_job that returns 0 is Accept, a take is Start, a      *)
(* callback that returns is Finish, closing the queue is Close and freeing   *)
(* the pool is Shutdown; every other step changes nothing the client sees.   *)
THEOREM PoolImplementsService == Spec => ImplementsJobService
<1>1. Init => Service!Init
  <2> SUFFICES ASSUME Init PROVE Service!Init
    OBVIOUS
  <2>1. Held = {}
    BY DEF Init, Held
  <2> QED BY <2>1 DEF Init, Service!Init, Phase
<1>2. JobsInv /\ [Next]_vars => [Service!Next]_(Service!vars)
  <2> SUFFICES ASSUME JobsInv, [Next]_vars
               PROVE  Service!Next \/ UNCHANGED Service!vars
    OBVIOUS
  <2>0. /\ Inv
        /\ queue \in Seq(Jobs) /\ queue_cur_num = Len(queue)
        /\ queue_cur_num \in 0 .. QueueMax
        /\ wpc \in [Workers -> WorkerPc]
        /\ freed => WorkersGone
        /\ QueueMax \in Nat
    BY QueueMaxAssumption
       DEF JobsInv, Inv, TypeOK, CounterMatchesList, Control
  <2>1. ASSUME UNCHANGED <<queue, pjob, executed, freed, queue_close>>,
               \A w \in Workers : wpc'[w] = "run" <=> wpc[w] = "run"
        PROVE  UNCHANGED Service!vars
    BY <2>1 DEF Service!vars, Held, Phase
  <2>2. ASSUME NEW w \in Workers,
               CreateWorker(w) \/ WorkerWait(w) \/ WorkerExit(w)
        PROVE  UNCHANGED Service!vars
    <3>1. \A v \in Workers : wpc'[v] = "run" <=> wpc[v] = "run"
      BY <2>0, <2>2 DEF CreateWorker, WorkerWait, WorkerExit
    <3> QED BY <2>1, <2>2, <3>1
            DEF CreateWorker, WorkerWait, WorkerExit, pool, ghosts
  <2>3. ASSUME NEW w \in Workers, WorkerTake(w) PROVE Service!Start
    <3>1. /\ queue # <<>> /\ queue' = Tail(queue)
          /\ Held' = Held \cup {Head(queue)}
      BY <2>3, JobsTake
    <3>2. Phase # "closed" /\ Phase' = Phase /\ executed' = executed
      BY <2>3 DEF WorkerTake, Phase, ghosts
    <3> QED BY <3>1, <3>2 DEF Service!Start
  <2>4. ASSUME NEW w \in Workers, WorkerRun(w)
        PROVE  \E j \in Jobs : Service!Finish(j)
    <3>1. pjob[w] \in Held /\ Held' = Held \ {pjob[w]}
      BY <2>4, JobsRun
    <3>2. ~freed
      BY <2>0, <2>4 DEF WorkerRun, WorkersGone
    <3>3. /\ Phase # "closed" /\ Phase' = Phase /\ queue' = queue
          /\ executed' = executed \cup {pjob[w]}
      BY <2>4, <3>2 DEF WorkerRun, Phase, pool
    <3>4. pjob[w] \in Jobs
      BY <2>0, <2>4 DEF WorkerRun, Inv, Control
    <3> QED BY <3>1, <3>3, <3>4 DEF Service!Finish
  <2>5. ASSUME NEW p \in Producers,
               (\E j \in Jobs : AddCall(p, j)) \/ AddWait(p) \/ AddRefused(p)
        PROVE  UNCHANGED Service!vars
    BY <2>1, <2>5 DEF AddCall, AddWait, AddRefused, pool, ghosts
  <2>6. ASSUME NEW p \in Producers, AddEnqueue(p)
        PROVE  \E j \in Jobs : Service!Accept(j)
    <3>1. arg[p] \in Jobs /\ answer[arg[p]] = "asked"
      BY <2>0, <2>6 DEF AddEnqueue, Inv, Control, JobsInv, Submitting
    <3>2. arg[p] \notin InQueue \cup Held \cup executed
      BY <3>1 DEF JobsInv, JobsConserved
    <3>3. ~Service!Known(arg[p])
      BY <3>2 DEF Service!Known, InQueue
    <3>4. \A v \in Workers : wpc'[v] = "run" <=> wpc[v] = "run"
      BY <2>0, <2>6 DEF AddEnqueue, WakeIfEmpty, WakeWorkers
    <3>5. /\ Held' = Held /\ executed' = executed
          /\ Phase = "open" /\ Phase' = Phase
          /\ queue' = Append(queue, arg[p])
      BY <2>6, <3>4 DEF AddEnqueue, Enqueue, Held, Phase, Closed
    <3>6. Len(queue) < QueueMax
      BY <2>0, <2>6 DEF AddEnqueue, Full
    <3> QED BY <3>1, <3>3, <3>5, <3>6 DEF Service!Accept
  <2>7. ASSUME NEW d \in Destroyers, DestroyClose(d) PROVE Service!Close
    <3>1. ~freed /\ ~queue_close /\ queue_close' /\ ~freed'
      BY <2>7 DEF DestroyClose, Closed
    <3>2. Held' = Held /\ UNCHANGED <<queue, executed>>
      BY <2>7 DEF DestroyClose, Held, ghosts
    <3> QED BY <3>1, <3>2 DEF Service!Close, Phase
  <2>8. ASSUME NEW d \in Destroyers,
               \/ DestroyCall(d) \/ DestroyRefused(d) \/ DestroyRecheck(d)
               \/ DestroyWakeWorkers(d) \/ DestroyWakeProducers(d)
               \/ DestroyJoin(d)
        PROVE  UNCHANGED Service!vars
    <3>1. \A v \in Workers : wpc'[v] = "run" <=> wpc[v] = "run"
      BY <2>0, <2>8 DEF DestroyCall, DestroyRefused, DestroyRecheck,
         DestroyWakeWorkers, DestroyWakeProducers, DestroyJoin, WakeWorkers
    <3> QED BY <2>1, <2>8, <3>1 DEF DestroyCall, DestroyRefused,
            DestroyRecheck, DestroyWakeWorkers, DestroyWakeProducers,
            DestroyJoin, pool, ghosts
  <2>9. ASSUME NEW d \in Destroyers, DestroyCleanup(d) PROVE Service!Shutdown
    <3>1. queue = <<>>
      BY <2>0, <2>9, NoJobsLeft DEF DestroyCleanup, Inv, Control, Closing
    <3>2. Held = {} /\ Held' = {}
      BY <2>0, <2>9 DEF DestroyCleanup, Inv, Control, Held, WorkersGone
    <3>3. queue' = queue
      BY <2>9, <3>1, Zenon DEF DestroyCleanup
    <3>4. Phase = "closing" /\ Phase' = "closed" /\ executed' = executed
      BY <2>0, <2>9 DEF DestroyCleanup, Phase, Inv, Control, Closing
    <3>5. /\ UNCHANGED <<queue, Held, executed>>
          /\ Phase = "closing" /\ Phase' = "closed"
          /\ queue = <<>> /\ Held = {}
      BY <3>1, <3>2, <3>3, <3>4
    <3> QED BY <3>5, Zenon DEF Service!Shutdown
  <2>10. CASE SpuriousWakeup
    <3>1. \A v \in Workers : wpc'[v] = "run" <=> wpc[v] = "run"
      BY <2>0, <2>10 DEF SpuriousWakeup
    <3> QED BY <2>1, <2>10, <3>1 DEF SpuriousWakeup, pool, ghosts
  <2>11. CASE (\E t \in Threads : UseAfterFree(t)) \/ UNCHANGED vars
    BY <2>1, <2>11 DEF UseAfterFree, vars, pool, ghosts
  <2>12. ASSUME NEW w \in Workers, CreateWorker(w) \/ WorkerStep(w)
         PROVE  Service!Next \/ UNCHANGED Service!vars
    BY <2>2, <2>3, <2>4, <2>12 DEF WorkerStep, Service!Next
  <2>13. ASSUME NEW p \in Producers, AddStep(p) \/ \E j \in Jobs : AddCall(p, j)
         PROVE  Service!Next \/ UNCHANGED Service!vars
    BY <2>5, <2>6, <2>13 DEF AddStep, Service!Next
  <2>14. ASSUME NEW d \in Destroyers, DestroyCall(d) \/ DestroyStep(d)
         PROVE  Service!Next \/ UNCHANGED Service!vars
    BY <2>7, <2>8, <2>9, <2>14 DEF DestroyStep, Service!Next
  <2> QED BY <2>10, <2>11, <2>12, <2>13, <2>14 DEF Next, Stopped
<1> QED BY <1>1, <1>2, InitJobs, JobsStep, PTL
        DEF Spec, ImplementsJobService, Service!Spec

-------------------------------------------------------------------------------
(* Clients as in main_test.c. *)
Polite == ~Overlap /\ ~CreateMayFail

(* The only call of destroy comes after the others, and is over when the     *)
(* pool is freed.                                                            *)
Orderly ==
  /\ touched = {}
  /\ \A w \in Workers : wpc[w] # "failed"
  /\ \A d \in Destroyers, p \in Producers : dpc[d] # "idle" => ppc[p] = "idle"
  /\ \A d, e \in Destroyers : dpc[d] # "idle" /\ dpc[e] # "idle" => d = e
  /\ freed => /\ \A d \in Destroyers : dpc[d] \in {"idle", "ok", "err"}
              /\ \A p \in Producers : ppc[p] = "idle"

(* What the workers' steps may do to the clients: wake those that sleep.     *)
LEMMA OrderlyWorker ==
  ASSUME Polite, Inv, Orderly, NEW w \in Workers, CreateWorker(w) \/ WorkerStep(w)
  PROVE  Orderly'
<1> USE DEF Inv, TypeOK, Polite
<1>1. /\ touched' = touched /\ freed' = freed
      /\ \A v \in Workers : wpc'[v] # "failed"
  BY DEF CreateWorker, WorkerStep, WorkerWait, WorkerExit, WorkerTake, WorkerRun, pool,
         ghosts, Orderly
<1>2. \A p \in Producers : ppc[p] = "idle" => ppc'[p] = "idle"
  BY DEF CreateWorker, WorkerStep, WorkerWait, WorkerExit, WorkerTake, WorkerRun,
         WakeProducers
<1>3. \A d \in Destroyers : \/ dpc'[d] = dpc[d]
                            \/ dpc[d] = "wait" /\ dpc'[d] = "recheck"
  <2>1. CASE WorkerTake(w) /\ queue_cur_num' = 0
    BY <2>1 DEF WorkerTake, SignalEmpty
  <2>2. CASE ~(WorkerTake(w) /\ queue_cur_num' = 0)
    <3>1. CASE WorkerTake(w)
      BY <2>2, <3>1 DEF WorkerTake
    <3>2. CASE CreateWorker(w) \/ WorkerWait(w) \/ WorkerExit(w) \/ WorkerRun(w)
      BY <3>2 DEF CreateWorker, WorkerWait, WorkerExit, WorkerRun
    <3> QED
      BY <3>1, <3>2 DEF WorkerStep
  <2> QED
    BY <2>1, <2>2
<1> QED
  BY <1>1, <1>2, <1>3 DEF Orderly

LEMMA OrderlyAdd ==
  ASSUME Polite, Inv, Orderly, NEW p \in Producers,
         AddStep(p) \/ \E j \in Jobs : AddCall(p, j)
  PROVE  Orderly'
<1> USE DEF Inv, TypeOK, Polite
<1>1. touched' = touched /\ freed' = freed /\ dpc' = dpc
  BY DEF AddStep, AddWait, AddRefused, AddEnqueue, AddCall, pool, ghosts
<1>2. \A v \in Workers : wpc'[v] # "failed"
  BY DEF AddStep, AddWait, AddRefused, AddEnqueue, AddCall, WakeIfEmpty, WakeWorkers,
         Orderly
<1>3. \A q \in Producers : q # p => ppc'[q] = ppc[q]
  BY DEF AddStep, AddWait, AddRefused, AddEnqueue, AddReturn, AddCall
<1>4. ~freed /\ (\A d \in Destroyers : dpc[d] = "idle")
  BY DEF AddStep, AddWait, AddRefused, AddEnqueue, AddCall, MayAdd, Orderly
<1> QED
  BY <1>1, <1>2, <1>3, <1>4 DEF Orderly

LEMMA OrderlyDestroy ==
  ASSUME Polite, Inv, Orderly, NEW d \in Destroyers, DestroyCall(d) \/ DestroyStep(d)
  PROVE  Orderly'
<1> USE DEF Inv, TypeOK, Polite
<1>1. touched' = touched
  BY DEF DestroyCall, DestroyStep, DestroyRefused, DestroyClose, DestroyRecheck,
         DestroyWakeWorkers, DestroyWakeProducers, DestroyJoin, DestroyCleanup, ghosts,
         Orderly
<1>2. \A v \in Workers : wpc'[v] # "failed"
  BY DEF DestroyCall, DestroyStep, DestroyRefused, DestroyClose, DestroyRecheck,
         DestroyWakeWorkers, DestroyWakeProducers, DestroyJoin, DestroyCleanup,
         WakeWorkers, Orderly
<1>3. \A q \in Producers : ppc[q] = "idle" /\ ppc'[q] = "idle"
  BY DEF DestroyCall, MayDestroy, DestroyStep, DestroyRefused, DestroyClose,
         DestroyRecheck, DestroyWakeWorkers, DestroyWakeProducers, DestroyJoin,
         DestroyCleanup, WakeProducers, Orderly
<1>4. /\ \A e \in Destroyers : e # d => dpc[e] = "idle" /\ dpc'[e] = "idle"
      /\ ~freed
      /\ freed' => dpc'[d] = "ok"
  BY DEF DestroyCall, MayDestroy, DestroyStep, DestroyRefused, DestroyClose,
         DestroyRecheck, DrainOrClose, DestroyWakeWorkers, DestroyWakeProducers,
         DestroyJoin, DestroyCleanup, pool, Orderly
<1> QED
  BY <1>1, <1>2, <1>3, <1>4 DEF Orderly

(* A wake-up for no reason brings no client into the pool or out of it.     *)
LEMMA OrderlySpurious ==
  ASSUME Inv, Orderly, SpuriousWakeup
  PROVE  Orderly'
<1>1. /\ wpc \in [Workers -> WorkerPc] /\ ppc \in [Producers -> ProducerPc]
      /\ dpc \in [Destroyers -> DestroyPc]
  BY DEF Inv, TypeOK
<1>2. touched' = touched /\ freed' = freed
  BY DEF SpuriousWakeup, pool, ghosts
<1>3. \A w \in Workers : wpc[w] # "failed" => wpc'[w] # "failed"
  BY <1>1 DEF SpuriousWakeup
<1>4. \A p \in Producers : ppc'[p] = "idle" <=> ppc[p] = "idle"
  BY <1>1 DEF SpuriousWakeup
<1>5. \A d \in Destroyers : /\ dpc'[d] = "idle" <=> dpc[d] = "idle"
                            /\ dpc[d] # "wait" => dpc'[d] = dpc[d]
  BY <1>1 DEF SpuriousWakeup
<1> QED
  BY <1>2, <1>3, <1>4, <1>5 DEF Orderly

(* Nobody is left to use a pool that has been freed. *)
LEMMA NobodyLeft ==
  ASSUME Inv, Orderly, freed, NEW t \in Threads
  PROVE  ~UsesPool(t)
BY ThreadsAssumption DEF Inv, Control, WorkersGone, Orderly, UsesPool

(* Clients that call destroy once, after every other call, and pools whose   *)
(* workers were all created, meet no undefined behaviour.                    *)
THEOREM PoliteClientsAreSafe == Polite => (Spec => []NoUndefinedBehaviour)
<1> SUFFICES ASSUME Polite PROVE Spec => []NoUndefinedBehaviour
  OBVIOUS
<1>1. Init => Orderly
  BY DEF Init, Orderly
<1>2. Inv /\ Orderly /\ [Next]_vars => Orderly'
  <2> SUFFICES ASSUME Inv, Orderly, [Next]_vars PROVE Orderly'
    OBVIOUS
  <2>1. CASE \E w \in Workers : CreateWorker(w) \/ WorkerStep(w)
    BY <2>1, OrderlyWorker
  <2>2. CASE \E p \in Producers : AddStep(p) \/ \E j \in Jobs : AddCall(p, j)
    BY <2>2, OrderlyAdd
  <2>3. CASE \E d \in Destroyers : DestroyCall(d) \/ DestroyStep(d)
    BY <2>3, OrderlyDestroy
  <2>4. CASE SpuriousWakeup
    BY <2>4, OrderlySpurious
  <2>5. ASSUME NEW t \in Threads, UseAfterFree(t) PROVE FALSE
    BY <2>5, NobodyLeft DEF UseAfterFree
  <2>6. CASE UNCHANGED vars
    BY <2>6 DEF vars, pool, ghosts, Orderly
  <2> QED
    BY <2>1, <2>2, <2>3, <2>4, <2>5, <2>6 DEF Next, Stopped
<1>3. Orderly => NoUndefinedBehaviour
  BY DEF Orderly, NoUndefinedBehaviour
<1> QED
  BY <1>1, <1>2, <1>3, InitInv, NextInv, PTL DEF Spec
===============================================================================
