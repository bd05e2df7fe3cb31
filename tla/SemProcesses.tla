----------------------------- MODULE SemProcesses -----------------------------
(***************************************************************************)
(* fork_sem: a parent and its child enter a critical section under a       *)
(* System V semaphore, with SEM_UNDO; the child removes the semaphore at   *)
(* its end, although the parent may not have entered yet, and nobody looks *)
(* at what sem_p returns.  The program is run several times; the semaphore *)
(* outlives a run that is killed.                                          *)
(***************************************************************************)
EXTENDS Integers

CONSTANT Runs   \* how many times the program is run, each after the one before

ASSUME RunsAssumption == Runs \in Nat \ {0}

Processes == (1 .. Runs) \X {"parent", "child"}

Sibling(p) == IF p[2] = "parent" THEN <<p[1], "child">> ELSE <<p[1], "parent">>

VARIABLES
  semid, \* the semaphore that the key names, a number; 0: none
  made,  \* how many semaphores have been made
  val,   \* the value of semid
  held,  \* which semaphore each run got
  undo,  \* what the kernel will add to the semaphore when a process ends
  pc     \* "off", "set", "fork", "p", "inside", "del", "exit", "ended"; "killed"

vars == <<semid, made, val, held, undo, pc>>

Init ==
  /\ semid = 0
  /\ made = 0
  /\ val = 0
  /\ held = [r \in 1 .. Runs |-> 0]
  /\ undo = [p \in Processes |-> 0]
  /\ pc = [p \in Processes |-> "off"]

Over(p)  == pc[p] \in {"ended", "killed"}
Names(p) == semid # 0 /\ held[p[1]] = semid   \* its semaphore is still there

-------------------------------------------------------------------------------
(* main, until it forks *)

Alone(r) == r > 1 => Over(<<r - 1, "parent">>) /\ Over(<<r - 1, "child">>)

(* exit(1) before there is a child: there will be none. *)
GiveUp(r) ==
  pc' = [pc EXCEPT ![<<r, "parent">>] = "exit", ![<<r, "child">>] = "killed"]

Semget(r) ==
  /\ pc[<<r, "parent">>] = "off" /\ Alone(r)
  /\ IF semid = 0
       THEN semid' = made + 1 /\ made' = made + 1 /\ val' = 0
       ELSE UNCHANGED <<semid, made, val>>
  /\ held' = [held EXCEPT ![r] = semid']
  /\ pc' = [pc EXCEPT ![<<r, "parent">>] = "set"]
  /\ UNCHANGED undo

SemgetFails(r) ==
  /\ pc[<<r, "parent">>] = "off" /\ Alone(r)
  /\ GiveUp(r)
  /\ UNCHANGED <<semid, made, val, held, undo>>

init_semTwo(r) ==
  IF Names(<<r, "parent">>)
    THEN val' = 2 /\ undo' = [p \in Processes |-> 0]
    ELSE UNCHANGED <<val, undo>>

(* SETVAL also clears what the kernel would undo. *)
init_sem(r) ==
  IF Names(<<r, "parent">>)
    THEN val' = 1 /\ undo' = [p \in Processes |-> 0]
    ELSE UNCHANGED <<val, undo>>

Setval(r) ==
  /\ pc[<<r, "parent">>] = "set"
  /\ init_sem(r)
  /\ pc' = [pc EXCEPT ![<<r, "parent">>] = "fork"]
  /\ UNCHANGED <<semid, made, held>>

Fork(r) ==
  /\ pc[<<r, "parent">>] = "fork"
  /\ pc' = [pc EXCEPT ![<<r, "parent">>] = "p", ![<<r, "child">>] = "p"]
  /\ UNCHANGED <<semid, made, val, held, undo>>

ForkFails(r) ==
  /\ pc[<<r, "parent">>] = "fork"
  /\ GiveUp(r)
  /\ UNCHANGED <<semid, made, val, held, undo>>

-------------------------------------------------------------------------------
(* Parent and child *)

sem_pWithoutUndo(p) ==
  IF Names(p)
    THEN val > 0 /\ val' = val - 1 /\ UNCHANGED undo
    ELSE UNCHANGED <<val, undo>>

(* semop fails at once, or as soon as it waits, when there is no semaphore.  *)
sem_p(p) ==
  IF Names(p)
    THEN val > 0 /\ val' = val - 1 /\ undo' = [undo EXCEPT ![p] = @ + 1]
    ELSE UNCHANGED <<val, undo>>

sem_v(p) ==
  IF Names(p)
    THEN val' = val + 1 /\ undo' = [undo EXCEPT ![p] = @ - 1]
    ELSE UNCHANGED <<val, undo>>

Enter(p) ==
  /\ pc[p] = "p"
  /\ sem_p(p)
  /\ pc' = [pc EXCEPT ![p] = "inside"]
  /\ UNCHANGED <<semid, made, held>>

Leave(p) ==
  /\ pc[p] = "inside"
  /\ sem_v(p)
  /\ pc' = [pc EXCEPT ![p] = IF p[2] = "child" THEN "del" ELSE "exit"]
  /\ UNCHANGED <<semid, made, held>>

del_sem(p) ==
  IF Names(p)
    THEN semid' = 0 /\ undo' = [q \in Processes |-> 0]
    ELSE UNCHANGED <<semid, undo>>

Delete(p) ==
  /\ pc[p] = "del"
  /\ del_sem(p)
  /\ pc' = [pc EXCEPT ![p] = "exit"]
  /\ UNCHANGED <<made, val, held>>

(* The end of a process, of its own or killed: the kernel undoes what it did *)
(* to the semaphore, but not below 0.                                        *)
Undone(p) ==
  /\ val' = IF val + undo[p] < 0 THEN 0 ELSE val + undo[p]
  /\ undo' = [undo EXCEPT ![p] = 0]

Exit(p) ==
  /\ pc[p] = "exit"
  /\ Undone(p)
  /\ pc' = [pc EXCEPT ![p] = "ended"]
  /\ UNCHANGED <<semid, made, held>>

(* A parent that is killed before it forks leaves no child. *)
Kill(p) ==
  /\ pc[p] # "off" /\ ~Over(p)
  /\ Undone(p)
  /\ pc' = [q \in Processes |->
              IF q = p \/ (q = Sibling(p) /\ pc[q] = "off") THEN "killed" ELSE pc[q]]
  /\ UNCHANGED <<semid, made, held>>

Step(p) == Enter(p) \/ Leave(p) \/ Delete(p) \/ Exit(p)

Next ==
  \/ \E r \in 1 .. Runs :
        Semget(r) \/ SemgetFails(r) \/ Setval(r) \/ Fork(r) \/ ForkFails(r)
  \/ \E p \in Processes : Step(p) \/ Kill(p)

Spec == Init /\ [][Next]_vars

(* The kernel schedules every process; a user need not start or kill one.    *)
FairSpec ==
  /\ Spec
  /\ \A r \in 1 .. Runs : WF_vars(Setval(r) \/ Fork(r) \/ ForkFails(r))
  /\ \A p \in Processes : WF_vars(Step(p))

-------------------------------------------------------------------------------
(* Properties *)

(* Every variable has its type. *)
TypeOK ==
  /\ made \in Nat /\ semid \in {0, made}
  /\ val \in {0, 1}
  /\ held \in [1 .. Runs -> 0 .. made]
  /\ undo \in [Processes -> {0, 1}]
  /\ pc \in [Processes -> {"off", "set", "fork", "p", "inside", "del", "exit",
                           "ended", "killed"}]

(* "Mutual exclusion of parent and child" (sem_main.c:1), though the child   *)
(* removes the semaphore and any of them may be killed anywhere.             *)
ParentChildExclusive ==
  \A p, q \in Processes : pc[p] = "inside" /\ pc[q] = "inside" => p = q

(* The semaphore is free exactly when nobody is inside by its leave: what is *)
(* killed gives it back, and nothing is given back twice.                    *)
UndoBalances ==
  semid # 0 /\ (\E p \in Processes : pc[p] = "p" /\ Names(p)) =>
    (val = 0 <=> \E p \in Processes : pc[p] = "inside" /\ Names(p))

(* Whoever has asked gets in, or is killed, whatever becomes of the others.  *)
EveryoneEnters ==
  \A p \in Processes : pc[p] = "p" ~> pc[p] # "p"
===============================================================================
