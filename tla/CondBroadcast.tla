---------------------------- MODULE CondBroadcast ----------------------------
(***************************************************************************)
(* pthread_condition.c: threads sleep on the condition variable v until    *)
(* global is 100; main sets it and broadcasts, once.  The second that main *)
(* sleeps first orders nothing: a thread may start at any later time.      *)
(***************************************************************************)
EXTENDS Integers

CONSTANTS Waiters,   \* the threads that execute tfn
          Main,      \* the thread of main
          None       \* no thread

VARIABLES
  global,
  m,     \* the holder of the mutex, or None
  pc     \* where each thread is; "asleep" on v, "woken" but without m

vars == <<global, m, pc>>

Everyone == Waiters \cup {Main}

Init ==
  /\ global = 0
  /\ m = None
  /\ pc = [t \in Everyone |-> IF t = Main THEN "create" ELSE "off"]

Go(t, to) == pc' = [pc EXCEPT ![t] = to]

Lock(t, to)   == m = None /\ m' = t /\ Go(t, to)
Unlock(t, to) == m = t /\ m' = None /\ Go(t, to)

-------------------------------------------------------------------------------
(* main *)

Create(w) ==
  /\ pc[Main] = "create" /\ pc[w] = "off"
  /\ Go(w, "start")
  /\ UNCHANGED <<global, m>>

(* A thread that cannot be created ends the process, and every thread in it. *)
CreateFails ==
  /\ pc[Main] = "create" /\ \E w \in Waiters : pc[w] = "off"
  /\ pc' = [t \in Everyone |-> "ended"]
  /\ m' = None
  /\ UNCHANGED global

LockForgotten ==
  /\ pc[Main] = "create" /\ \A w \in Waiters : pc[w] # "off"
  /\ Go(Main, "set")
  /\ UNCHANGED <<global, m>>

MainLock ==
  /\ pc[Main] = "create" /\ \A w \in Waiters : pc[w] # "off"
  /\ Lock(Main, "set")
  /\ UNCHANGED global

MainSet ==
  /\ pc[Main] = "set"
  /\ global' = 100
  /\ Go(Main, "broadcast")
  /\ UNCHANGED m

Signalled ==
  IF \E w \in Waiters : pc[w] = "asleep"
    THEN \E w \in Waiters : /\ pc[w] = "asleep"
                            /\ pc' = [pc EXCEPT ![w] = "woken", ![Main] = "unlock"]
    ELSE Go(Main, "unlock")

Broadcasted ==
  pc' = [t \in Everyone |-> IF t = Main THEN "unlock"
                           ELSE IF pc[t] = "asleep" THEN "woken" ELSE pc[t]]

MainBroadcast ==
  /\ pc[Main] = "broadcast"
  /\ Broadcasted
  /\ UNCHANGED <<global, m>>

MainUnlock ==
  /\ pc[Main] = "unlock"
  /\ Unlock(Main, "done")
  /\ UNCHANGED global

-------------------------------------------------------------------------------
(* tfn *)

(* pthread_mutex_lock, or the end of pthread_cond_wait. *)
TakeMutex(w) ==
  /\ pc[w] \in {"start", "woken"}
  /\ Lock(w, "test")
  /\ UNCHANGED global

Test(w) ==
  /\ pc[w] = "test"
  /\ Go(w, IF global # 100 THEN "wait" ELSE "show")
  /\ UNCHANGED <<global, m>>

(* pthread_cond_wait gives the mutex up and sleeps in one step, ...          *)
Wait(w) ==
  /\ pc[w] = "wait"
  /\ Unlock(w, "asleep")
  /\ UNCHANGED global

(* ... but may wake up for no reason. *)
WakeUp(w) ==
  /\ pc[w] = "asleep"
  /\ Go(w, "woken")
  /\ UNCHANGED <<global, m>>

Show(w) ==
  /\ pc[w] = "show"
  /\ Unlock(w, "done")
  /\ UNCHANGED global

MainStep == MainLock \/ MainSet \/ MainBroadcast \/ MainUnlock
Step(w)  == TakeMutex(w) \/ Test(w) \/ Wait(w) \/ Show(w)

Next == MainStep \/ CreateFails \/ \E w \in Waiters : Create(w) \/ Step(w) \/ WakeUp(w)

(* Threads are scheduled, and one that waits for the mutex gets it at last:  *)
(* it is taken only a bounded number of times, spurious wake-ups apart.      *)
Fairness ==
  /\ WF_vars(\E w \in Waiters : Create(w))
  /\ SF_vars(MainStep)
  /\ \A w \in Waiters : SF_vars(Step(w))

Spec == Init /\ [][Next]_vars /\ Fairness

-------------------------------------------------------------------------------
(* Properties *)

(* Every variable has its type, and the mutex is held by who is past its     *)
(* lock.                                                                     *)
TypeOK ==
  /\ global \in {0, 100}
  /\ m \in Everyone \cup {None}
  /\ pc \in [Everyone -> {"create", "set", "broadcast", "unlock", "off", "start", "woken",
                         "test", "wait", "asleep", "show", "done", "ended"}]
  /\ \A t \in Everyone :
       m = t <=> pc[t] \in {"set", "broadcast", "unlock", "test", "wait", "show"}

(* The broadcast, made once, misses nobody: no thread that found global not  *)
(* yet set, and was not asleep yet, sleeps afterwards.                       *)
NobodySleepsOn ==
  pc[Main] \in {"unlock", "done"} =>
    \A w \in Waiters : pc[w] \notin {"asleep", "wait"}

(* "pthread_cond_wait() calling thread should test critical source again"    *)
(* (pthread_condition.c:83): whoever shows global shows 100, also after a    *)
(* wake-up for no reason.                                                    *)
ShowsTheValue == \A w \in Waiters : pc[w] \in {"show", "done"} => global = 100

(* Every thread leaves, whether it comes before or after the broadcast,      *)
(* unless the process ends because one of them cannot be created.            *)
EveryoneLeaves == \A w \in Waiters : <>(pc[w] \in {"done", "ended"})
===============================================================================
