------------------------------ MODULE Dispatch ------------------------------
(***************************************************************************)
(* How the gateway's main loop hands epoll events to threads (main.c,      *)
(* thread_pool.c).  Threads live in a list of pools, the first with        *)
(* BASESIZE threads and the later ones with ELEMSIZE; a thread is          *)
(* addressed by one index over all pools.  tPara[pos][0] says whether the  *)
(* thread is busy, tPara[pos][1] is its event, and tMtx[pos] is a binary   *)
(* semaphore: locked when the pool is created, unlocked by the main loop,  *)
(* locked again by the thread.                                             *)
(*                                                                         *)
(* The threads clear their flags without a lock while the main loop scans, *)
(* so each read of a flag is an action.  Thread_handleMsg is not part of   *)
(* the repository: Begin and End are what the main loop requires of it.    *)
(* The process may be asked to stop at any time, from its start on.        *)
(***************************************************************************)
EXTENDS Integers, Sequences, FiniteSets

CONSTANTS Events,         \* the events to hand over, each once
          BASESIZE, ELEMSIZE, WARNSIZE,   \* THREADPOLL_..., 300, 50 and 10
          MayFail,        \* may sockets, memory and threads run out?
          NoEvent

(* With WARNSIZE = 1 the loop would grow only after its scan had failed.     *)
ASSUME SizesAssumption ==
  /\ BASESIZE \in Nat /\ ELEMSIZE \in Nat /\ WARNSIZE \in Nat
  /\ 2 <= WARNSIZE /\ WARNSIZE <= BASESIZE /\ WARNSIZE <= ELEMSIZE
ASSUME ModeAssumption == MayFail \in BOOLEAN
ASSUME NoEventAssumption == NoEvent \notin Events

VARIABLES
  pools,    \* kPoolLinker: each pool a sequence of its threads
  pc,       \* the main thread: "start", "arrays", "lists", "pool" and "register"
            \* before the loop; "test", "wait", "next", "scan", "grow" and
            \* "assign" in it; "join", "destroy" and "freed" after it; at last
            \* "exited" or "crashed"
  running,  \* FALSE once a signal has asked the process to stop
  batch,    \* pEvts: reported events that the loop has not come to
  evt,      \* EvtIndex, the event being handed over
  sum,      \* ThreadSum, the capacity when the scan began
  j,        \* the index being scanned
  path,     \* pPath and pos: the thread found last, or Nobody
  arrived,  \* history: events epoll_wait has reported
  handled,  \* history: events some thread has finished
  failures, \* history: has an expansion failed?
  listed    \* FALSE if the first pool did not get into the list

scan == <<sum, j, path>>
past == <<arrived, handled, failures, listed>>
vars == <<pools, pc, running, batch, evt, scan, past>>

(* A thread: its tPara entry, its mutex, and what it is working on. *)
Idler == [flag |-> 0, event |-> NoEvent, locked |-> TRUE, doing |-> NoEvent]

AThreadPool_create(n) == [pos \in 1 .. n |-> Idler]

Nobody == <<0, 0>>   \* pPath is NULL

Init ==
  /\ pools = <<>>
  /\ pc = "start"
  /\ running = TRUE
  /\ batch = {}
  /\ evt = NoEvent
  /\ sum = 0
  /\ j = 0
  /\ path = Nobody
  /\ arrived = {}
  /\ handled = {}
  /\ failures = FALSE
  /\ listed = TRUE

Over == pc \in {"exited", "crashed"}

-------------------------------------------------------------------------------
(* Start-up: whatever cannot be had ends the process. *)

To(next) == pc' = next \/ (MayFail /\ pc' = "exited")

(* A socket, bound to the port, that listens. *)
createTCPSrv ==
  /\ pc = "start"
  /\ To("arrays")
  /\ UNCHANGED <<pools, running, batch, evt, scan, past>>

(* The end point of the services and the arrays of slots and of events. *)
createConnectArray ==
  /\ pc = "arrays"
  /\ To("lists")
  /\ UNCHANGED <<pools, running, batch, evt, scan, past>>

(* The list of idle slots, the epoll descriptor, Thread_srv and the list of  *)
(* pools.                                                                    *)
CreateLists ==
  /\ pc = "lists"
  /\ To("pool")
  /\ UNCHANGED <<pools, running, batch, evt, scan, past>>

(* Without memory for its node the first pool does not get into the list,    *)
(* which linkList_addElement does not report; its threads wait for ever.     *)
PoolLinker_init ==
  /\ pc = "pool"
  /\ \/ /\ pools' = << AThreadPool_create(BASESIZE) >>
        /\ pc' = "register"
        /\ UNCHANGED listed
     \/ /\ MayFail
        /\ listed' = FALSE
        /\ pc' = "register"
        /\ UNCHANGED pools
     \/ /\ MayFail
        /\ pc' \in {"exited", "crashed"}
        /\ UNCHANGED <<pools, listed>>
  /\ UNCHANGED <<running, batch, evt, scan, arrived, handled, failures>>

(* The listening socket is given to epoll. *)
Register ==
  /\ pc = "register"
  /\ To("test")
  /\ UNCHANGED <<pools, running, batch, evt, scan, past>>

-------------------------------------------------------------------------------
(* Addressing.  Prefix[n] is how many threads the first n pools have; the    *)
(* walk stops at the first pool e with index <= CurSum = Prefix[e] - 1.      *)
(* Positions count from 1 here, from 0 in the code.                          *)
Prefix == LET p[n \in 0 .. Len(pools)] ==
                IF n = 0 THEN 0 ELSE p[n - 1] + Len(pools[n])
          IN  p

PoolOf(i) == CHOOSE e \in 1 .. Len(pools) :
               i <= Prefix[e] - 1 /\ \A d \in 1 .. e - 1 : i > Prefix[d] - 1

ElemIOffByOne(i) ==
  LET e == PoolOf(i) IN <<e, Len(pools[e]) - (Prefix[e] - 1 - i) + 1>>

PoolLinker_getElemI(i) ==
  LET e == PoolOf(i)
      CurSum == Prefix[e] - 1
  IN  <<e, Len(pools[e]) - (CurSum - i + 1) + 1>>

PoolLinker_getCapacity ==
  IF Len(pools) > 0 THEN (Len(pools) - 1) * ELEMSIZE + BASESIZE ELSE 0

thread(at) == pools[at[1]][at[2]]

-------------------------------------------------------------------------------
(* The main loop looks at running before each wait, and only there. *)

RunningUnread == pc = "test" /\ pc' = "wait"
TestRunning   == pc = "test" /\ pc' = IF running THEN "wait" ELSE "join"

Test == TestRunning /\ UNCHANGED <<pools, running, batch, evt, scan, past>>

EpollWait ==
  /\ pc = "wait"
  /\ \E new \in SUBSET (Events \ arrived) \ {{}} :
       batch' = new /\ arrived' = arrived \cup new
  /\ pc' = "next"
  /\ UNCHANGED <<pools, running, evt, scan, handled, failures, listed>>

(* epoll_wait is interrupted (EINTR), or fails for another reason. *)
EpollFails ==
  /\ MayFail
  /\ pc = "wait"
  /\ pc' \in {"test", "exited"}
  /\ UNCHANGED <<pools, running, batch, evt, scan, past>>

NextEvent ==
  /\ pc = "next"
  /\ IF batch = {} THEN pc' = "test" /\ UNCHANGED <<batch, evt, scan>>
     ELSE /\ \E e \in batch : evt' = e /\ batch' = batch \ {e}
          /\ sum' = PoolLinker_getCapacity
          /\ j' = 0
          /\ path' = Nobody
          /\ pc' = "scan"
  /\ UNCHANGED <<pools, running, past>>

Scan ==
  /\ pc = "scan"
  /\ j < sum
  /\ path' = PoolLinker_getElemI(j)
  /\ IF thread(path').flag = 0
       THEN pc' = "grow" /\ UNCHANGED j
       ELSE j' = j + 1 /\ UNCHANGED pc
  /\ UNCHANGED <<pools, running, batch, evt, sum, past>>

ScanEnds ==
  /\ pc = "scan"
  /\ j = sum
  /\ pc' = "grow"
  /\ UNCHANGED <<pools, running, batch, evt, scan, past>>

NearlyFullLate == sum - j < 1
NearlyFull     == sum - j < WARNSIZE

Enough ==
  /\ pc = "grow" /\ ~NearlyFull
  /\ pc' = "assign"
  /\ UNCHANGED <<pools, running, batch, evt, scan, past>>

PoolLinker_expandCapacity ==
  /\ pc = "grow" /\ NearlyFull
  /\ pools' = Append(pools, AThreadPool_create(ELEMSIZE))
  /\ pc' = "assign"
  /\ UNCHANGED <<running, batch, evt, scan, past>>

(* No memory or no thread for a pool, or no list node for it (which          *)
(* linkList_addElement does not report): the list stays as it is.  Threads   *)
(* that were created wait for ever, each on its locked mutex.                *)
ExpandFails ==
  /\ MayFail
  /\ pc = "grow" /\ NearlyFull
  /\ failures' = TRUE
  /\ pc' = "assign"
  /\ UNCHANGED <<pools, running, batch, evt, scan, arrived, handled, listed>>

(* Without memory for tPara or a kMsgEntry, which are filled in before or    *)
(* without a test, the process crashes.                                      *)
CreateCrashes ==
  /\ MayFail
  /\ pc = "grow" /\ NearlyFull
  /\ pc' = "crashed"
  /\ UNCHANGED <<pools, running, batch, evt, scan, past>>

(* The pool with the fields of the thread that `at' addresses changed. *)
Put(at, t) == [pools EXCEPT ![at[1]][at[2]] = t]

GivenUnwoken(t) == [t EXCEPT !.flag = 1, !.event = evt]
Given(t)        == [t EXCEPT !.flag = 1, !.event = evt, !.locked = FALSE]

Assign ==
  /\ pc = "assign" /\ path # Nobody
  /\ pools' = Put(path, Given(thread(path)))
  /\ pc' = "next"
  /\ evt' = NoEvent
  /\ UNCHANGED <<running, batch, scan, past>>

(* The list was empty when the scan began: whether or not there is a pool in *)
(* it now, pPath is still NULL.                                              *)
AssignCrashes ==
  /\ pc = "assign" /\ path = Nobody
  /\ pc' = "crashed"
  /\ UNCHANGED <<pools, running, batch, evt, scan, past>>

-------------------------------------------------------------------------------
(* The end of the process *)

(* The signal interrupts epoll_wait if it is the main thread that takes it.  *)
Stop ==
  /\ running /\ ~Over
  /\ running' = FALSE
  /\ pc' \in IF pc = "wait" THEN {"wait", "test"} ELSE {pc}
  /\ UNCHANGED <<pools, batch, evt, scan, past>>

(* Thread_srv, which is external, ends when the process is to stop. *)
JoinSrv ==
  /\ pc = "join"
  /\ pc' = "destroy"
  /\ UNCHANGED <<pools, running, batch, evt, scan, past>>

(* The pools' memory is freed, and nobody has told or joined their threads:  *)
(* `pools' is now what these still believe to be there.                      *)
PoolLinker_destroy ==
  /\ pc = "destroy"
  /\ pc' = "freed"
  /\ UNCHANGED <<pools, running, batch, evt, scan, past>>

Exit ==
  /\ pc = "freed"
  /\ pc' = "exited"
  /\ UNCHANGED <<pools, running, batch, evt, scan, past>>

-------------------------------------------------------------------------------
(* External: Thread_handleMsg locks its mutex, reads its event, handles it,  *)
(* clears its flag and starts over.                                          *)

Ready(at)   == thread(at).doing = NoEvent /\ ~thread(at).locked
Working(at) == thread(at).doing # NoEvent
Intact      == ~Over /\ pc # "freed"

Begin(at) ==
  /\ Intact /\ Ready(at)
  /\ pools' = Put(at, [thread(at) EXCEPT !.locked = TRUE, !.doing = thread(at).event])
  /\ UNCHANGED <<pc, running, batch, evt, scan, past>>

End(at) ==
  /\ Intact /\ Working(at)
  /\ handled' = handled \cup {thread(at).doing}
  /\ pools' = Put(at, [thread(at) EXCEPT !.doing = NoEvent, !.flag = 0])
  /\ UNCHANGED <<pc, running, batch, evt, scan, arrived, failures, listed>>

Places == UNION {{<<k, p>> : p \in DOMAIN pools[k]} : k \in DOMAIN pools}

(* A thread that goes on in freed memory may crash the process. *)
UseFreed ==
  /\ pc = "freed"
  /\ \E at \in Places : Ready(at) \/ Working(at)
  /\ pc' = "crashed"
  /\ UNCHANGED <<pools, running, batch, evt, scan, past>>

(* The process is over, or every event was handed over and handled. *)
Quiet ==
  /\ \/ Over
     \/ pc = "wait" /\ arrived = Events /\ \A at \in Places : ~Ready(at) /\ ~Working(at)
  /\ UNCHANGED vars

StartStep == createTCPSrv \/ createConnectArray \/ CreateLists \/ PoolLinker_init \/ Register
LoopStep  == Test \/ NextEvent \/ Scan \/ ScanEnds \/ Enough
             \/ PoolLinker_expandCapacity \/ ExpandFails \/ CreateCrashes \/ Assign \/ AssignCrashes
EndStep   == JoinSrv \/ PoolLinker_destroy \/ Exit

Next ==
  \/ StartStep \/ LoopStep \/ EndStep
  \/ EpollWait \/ EpollFails \/ Stop
  \/ \E at \in Places : Begin(at) \/ End(at)
  \/ UseFreed
  \/ Quiet

Spec == Init /\ [][Next]_vars

(* The main thread goes on unless it waits for events, and threads are       *)
(* scheduled; MaxThreads bounds their number in a run.                       *)
MaxThreads == BASESIZE + ELEMSIZE * Cardinality(Events)
AllPlaces == (1 .. Cardinality(Events) + 1) \X (1 .. MaxThreads)
ThreadStep(at) == at \in Places /\ (Begin(at) \/ End(at))

FairSpec ==
  /\ Spec
  /\ WF_vars(StartStep \/ LoopStep \/ EndStep)
  /\ \A at \in AllPlaces : WF_vars(ThreadStep(at))

-------------------------------------------------------------------------------
(* Properties *)

(* The index arithmetic of PoolLinker_getElemI and PoolLinker_getCapacity,   *)
(* one counting capacities and one multiplying, addresses every thread of    *)
(* every pool by exactly one index.  Where the first pool did not get into   *)
(* the list, a later one takes its place and they disagree about its size,   *)
(* but then nothing is addressed at all: the process ends at its first event *)
(* with every thread of the list idle.                                       *)
EveryThreadAddressed ==
  LET indices == 0 .. PoolLinker_getCapacity - 1
  IN  IF listed
        THEN /\ {PoolLinker_getElemI(i) : i \in indices} = Places
             /\ \A i, k \in indices : PoolLinker_getElemI(i) = PoolLinker_getElemI(k) => i = k
        ELSE \A at \in Places : thread(at) = Idler /\ pc \in {"assign", "crashed"}

(* While every expansion has succeeded, no event is overwritten: each is in  *)
(* the batch, with the main loop, waiting in one thread's tPara, being       *)
(* handled by one thread, or handled, although flags change while the main   *)
(* loop scans.  This needs a spare thread at the end of every scan.          *)
EventsConserved ==
  LET waiting == {at \in Places : ~thread(at).locked}
      working == {at \in Places : Working(at)}
      inFlight(e) == Cardinality({at \in waiting : thread(at).event = e})
                      + Cardinality({at \in working : thread(at).doing = e})
                      + Cardinality({e} \cap batch) + Cardinality({e} \cap {evt})
                      + Cardinality({e} \cap handled)
  IN  ~failures => \A e \in arrived : inFlight(e) = 1

(* Every reported event is eventually handled, unless an expansion has       *)
(* failed or the process is asked to stop.                                   *)
EveryEventHandled ==
  \A e \in Events : e \in arrived ~> (e \in handled \/ failures \/ ~running \/ Over)

(* A process that is asked to stop ends, from its start-up or with the batch *)
(* it is at, unless the signal finds it between the test of running and the  *)
(* next event and does not interrupt epoll_wait.                             *)
StopEnds == (~running /\ pc # "wait") ~> Over
===============================================================================
