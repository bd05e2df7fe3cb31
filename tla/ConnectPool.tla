----------------------------- MODULE ConnectPool -----------------------------
(***************************************************************************)
(* The connection slots of the gateway: the array pConnects, the list of   *)
(* idle indices, the counters CurLinks and MaxLinks, and the part of the   *)
(* epoll loop of main.c that accepts, dispatches and closes connections    *)
(* (connnetpool.c, trace.c).  An epoll event carries the slot's index, so  *)
(* the whole gateway relies on an index naming one connection.             *)
(*                                                                         *)
(* Thread_handleMsg, which the pool's threads execute, is not part of the  *)
(* repository; WorkerBegin to WorkerCompare are what main.c, the comments  *)
(* of LINK_INFO and stop_mutex require of it.  What happens under          *)
(* stop_mutex excludes every other close, but not the branch of main.c     *)
(* that makes a new link, which does not take it and is split into the     *)
(* steps between which a thread may close one: they share the idle list    *)
(* and the counters.                                                       *)
(***************************************************************************)
EXTENDS Integers, Sequences, FiniteSets

CONSTANTS Fds,         \* descriptors that accept may return
          Workers,     \* threads that execute Thread_handleMsg
          In_MaxEpoll, \* length of pConnects, and of the event array
          MaxBatch,    \* bound: how many events one epoll_wait returns
          MaxIdle,     \* bound: no close puts more indices in the idle list, or
                       \* takes CurLinks below 0 (closing twice would)
          AfterRace,   \* bound: do we go on after a race (about which most of
                       \* the properties say nothing)?
          Faults,      \* what may go wrong, see below
          None         \* no descriptor, no slot

(* "accept", "epoll_ctl": the system call may fail; "malloc": there may be no *)
(* list node, which closeConnect is not told.  "worker_close": a thread that  *)
(* has handled a message calls stopConnect itself, as its IdleLinker and      *)
(* epollFd parameters and stop_mutex suggest; otherwise only the main loop    *)
(* does.  "threads": CurThreads may be negative, which nobody prevents.       *)
ASSUME FaultsAssumption ==
  Faults \subseteq {"accept", "epoll_ctl", "malloc", "worker_close", "threads"}
ASSUME SizeAssumption ==
  /\ IsFiniteSet(Fds)
  /\ In_MaxEpoll \in Nat /\ In_MaxEpoll > Cardinality(Fds)
  /\ MaxBatch \in Nat /\ MaxIdle \in Nat /\ AfterRace \in BOOLEAN
ASSUME NoneAssumption == None \notin Fds /\ None \notin Nat

Slots  == 0 .. In_MaxEpoll - 1
Listen == -1            \* the data.u32 of the listening socket
Index  == Slots \ {0}   \* of connections: slot 0 is the listening socket's

VARIABLES
  links,      \* pConnects
  idle,       \* kIdleConnectLinker
  CurLinks, MaxLinks,
  registered, \* epoll: the data.u32 of every registered descriptor, or None
  ready,      \* epoll: registered descriptors with an unreported event
  batch,      \* events of the current epoll_wait still to be handled
  at,         \* where the main loop is: "loop", or in the branch of a new link
  ConnectIndex, ConnectFd, \* the new link's, None in "loop"
  loaded,     \* what the main loop has read of CurLinks, to change it
  task,       \* of each worker: the slot it was given, where it is, what it has
              \* read of CurLinks
  overrun,    \* pConnects was accessed outside its bounds
  spoiled,    \* a call has failed, or a closed slot was closed again
  raced       \* a thread was closing while the main loop made a new link

kernel   == <<registered, ready>>
counters == <<CurLinks, MaxLinks>>
new      == <<ConnectIndex, ConnectFd, loaded>>
vars     == <<links, idle, counters, kernel, batch, at, new, task, overrun, spoiled, raced>>

LINK_INFO ==   \* used: ActiveTime # 0
  [used : BOOLEAN, fd : Fds \cup {None, 0}, ShutSig : {0, 1}, CopyCnt : Int]

Task ==
  [slot : Index \cup {None},
   at : {"free", "given", "busy", "stopping", "closing", "closed"},
   loaded : Int]

NoTask == [slot |-> None, at |-> "free", loaded |-> 0]

(* The counter starts at 1, for the listening socket. *)
Init ==
  /\ links = [k \in Slots |-> [used |-> FALSE, fd |-> None, ShutSig |-> 0, CopyCnt |-> 0]]
  /\ idle = <<>>
  /\ CurLinks = 1
  /\ MaxLinks = 1
  /\ registered = [f \in Fds |-> None]
  /\ ready = {}
  /\ batch = <<>>
  /\ at = "loop"
  /\ ConnectIndex = None /\ ConnectFd = None /\ loaded = 0
  /\ task = [w \in Workers |-> NoTask]
  /\ overrun = FALSE /\ spoiled = FALSE /\ raced = FALSE

Live == {registered[f] : f \in {g \in Fds : registered[g] # None}}

-------------------------------------------------------------------------------
(* The kernel and the clients *)

(* Data, or the peer's FIN, arrives on a connection. *)
Arrive(f) ==
  /\ registered[f] # None
  /\ f \notin ready
  /\ ready' = ready \cup {f}
  /\ UNCHANGED <<links, idle, counters, registered, batch, at, new, task, overrun, spoiled>>

(* epoll_wait reports some ready descriptors in any order; the listening     *)
(* socket is level-triggered, the connections are edge-triggered.  Bounds:   *)
(* clients wait to be accepted only while a descriptor is left for them, and *)
(* while CurLinks, which may drift, is not beyond In_MaxEpoll.               *)
Waiting ==
  IF (\E f \in Fds : registered[f] = None) /\ CurLinks <= In_MaxEpoll THEN {Listen} ELSE {}

EpollWait ==
  /\ at = "loop" /\ batch = <<>>
  /\ \E n \in 1 .. MaxBatch : \E s \in [1 .. n -> ready \cup Waiting] :
       /\ \A i, j \in 1 .. n : s[i] = s[j] => i = j
       /\ batch' = [i \in 1 .. n |-> IF s[i] = Listen THEN Listen ELSE registered[s[i]]]
       /\ ready' = ready \ {s[i] : i \in 1 .. n}
  /\ UNCHANGED <<links, idle, counters, registered, at, new, task, overrun, spoiled>>

-------------------------------------------------------------------------------
(* The counters.  Nothing protects ++ and --, a load and a store, nor what   *)
(* follows; the compare of CurLinks may find what another thread has stored. *)

Compared(current, spoilt) ==
  \/ /\ CurLinks' = current
     /\ MaxLinks' = IF current > MaxLinks THEN current ELSE MaxLinks
     /\ spoiled' = spoilt
  \/ /\ "threads" \in Faults   \* CurThreads < 0
     /\ CurLinks' = 0
     /\ spoiled' = TRUE
     /\ UNCHANGED MaxLinks

(* All of it at once, where nobody else is at it. *)
updateCurConnects(n, spoilt) == Compared(CurLinks + n, spoilt)

-------------------------------------------------------------------------------
(* A new link: take an idle index or, if there is none, the next fresh one,  *)
(* accept, count, register.                                                  *)

IdlePeeked    == idle
IdleAfterTake == IF idle = <<>> THEN idle ELSE Tail(idle)

PickIndex ==
  /\ at = "loop"
  /\ batch # <<>> /\ Head(batch) = Listen
  /\ batch' = Tail(batch)
  /\ ConnectIndex' = IF idle = <<>> THEN MaxLinks ELSE Head(idle)
  /\ idle' = IdleAfterTake
  /\ at' = "picked"
  /\ UNCHANGED <<links, counters, kernel, ConnectFd, loaded, task, overrun, spoiled>>

BackToLoop == at' = "loop" /\ ConnectIndex' = None /\ ConnectFd' = None /\ loaded' = 0

(* accept fails: the loop goes on, and the index is not given back. *)
AcceptFails ==
  /\ "accept" \in Faults
  /\ at = "picked"
  /\ BackToLoop
  /\ spoiled' = TRUE
  /\ UNCHANGED <<links, idle, counters, kernel, batch, task, overrun>>

initConnect(f) == [used |-> TRUE, fd |-> f, ShutSig |-> 0, CopyCnt |-> 0]
clearConnect   == [used |-> FALSE, fd |-> 0, ShutSig |-> 0, CopyCnt |-> 0]

Accept(f) ==
  /\ at = "picked"
  /\ registered[f] = None
  /\ ConnectFd' = f
  /\ IF ConnectIndex \in Slots
       THEN /\ links' = [links EXCEPT ![ConnectIndex] = initConnect(f)]
            /\ UNCHANGED overrun
       ELSE /\ overrun' = TRUE
            /\ UNCHANGED links
  /\ loaded' = CurLinks
  /\ at' = "counting"
  /\ UNCHANGED <<idle, counters, kernel, batch, ConnectIndex, task, spoiled>>

(* The new link is counted, or discounted. *)
Count ==
  /\ \/ at = "counting"   /\ CurLinks' = loaded + 1 /\ at' = "counted"
     \/ at = "uncounting" /\ CurLinks' = loaded - 1 /\ at' = "uncounted"
  /\ loaded' = 0
  /\ UNCHANGED <<links, idle, MaxLinks, kernel, batch, ConnectIndex, ConnectFd, task, overrun,
                 spoiled>>

Compare ==
  /\ at = "counted"
  /\ Compared(CurLinks, spoiled)
  /\ at' = "adding"
  /\ UNCHANGED <<links, idle, kernel, batch, new, task, overrun>>

Register ==
  /\ at = "adding"
  /\ registered' = [registered EXCEPT ![ConnectFd] = ConnectIndex]
  /\ BackToLoop
  /\ UNCHANGED <<links, idle, counters, ready, batch, task, overrun, spoiled>>

(* epoll_ctl fails: the link is discounted and cleared, and its index is not *)
(* given back either.                                                        *)
AddFails ==
  /\ "epoll_ctl" \in Faults
  /\ at = "adding"
  /\ loaded' = CurLinks
  /\ at' = "uncounting"
  /\ spoiled' = TRUE
  /\ UNCHANGED <<links, idle, counters, kernel, batch, ConnectIndex, ConnectFd, task, overrun>>

DropLink ==
  /\ at = "uncounted"
  /\ Compared(CurLinks, spoiled)
  /\ links' = [links EXCEPT ![ConnectIndex] = clearConnect]
  /\ BackToLoop
  /\ UNCHANGED <<idle, kernel, batch, task, overrun>>

NewLink ==
  \/ PickIndex \/ AcceptFails \/ Count \/ Compare \/ Register \/ AddFails \/ DropLink
  \/ \E f \in Fds : Accept(f)

-------------------------------------------------------------------------------
(* Closing.  stopConnect and closeConnect get the slot by value, so what     *)
(* they clear is their copy.  They run under stop_mutex.                     *)

Closing(w)   == task[w].at \in {"closing", "closed"}
StopMutexFree == \A w \in Workers : ~Closing(w)

ToBeClosed(link, useCnt) == link.ShutSig = 1 /\ link.CopyCnt = useCnt /\ link.used

(* What closeConnect does before it counts. *)
Release(k, link) ==
  /\ registered' = [f \in Fds |-> IF f = link.fd THEN None ELSE registered[f]]
  /\ ready' = ready \ {link.fd}
  /\ idle' = Append(idle, k) \/ ("malloc" \in Faults /\ idle' = idle)

Spoils(k) == spoiled \/ k \notin Live \/ idle' = idle

closeUncounted(k, link) == Release(k, link) /\ spoiled' = Spoils(k) /\ UNCHANGED counters

closeConnect(k, link) == Release(k, link) /\ updateCurConnects(-1, Spoils(k))

stopConnect(k, link, useCnt) ==
  IF ToBeClosed(link, useCnt)
    THEN closeConnect(k, link)
    ELSE UNCHANGED <<kernel, idle, counters, spoiled>>

Bound == Len(idle) < MaxIdle /\ CurLinks > 0

(* An event on a connection that is to be closed. *)
Shut ==
  /\ at = "loop" /\ StopMutexFree /\ Bound
  /\ batch # <<>> /\ Head(batch) # Listen
  /\ links[Head(batch)].ShutSig = 1
  /\ batch' = Tail(batch)
  /\ stopConnect(Head(batch), links[Head(batch)], 0)
  /\ UNCHANGED <<links, at, new, task, overrun>>

(* An event that is handed to an idle thread (the search is in Dispatch). *)
HandOver(w) ==
  /\ at = "loop"
  /\ batch # <<>> /\ Head(batch) # Listen
  /\ links[Head(batch)].ShutSig # 1
  /\ task[w] = NoTask
  /\ batch' = Tail(batch)
  /\ task' = [task EXCEPT ![w] = [slot |-> Head(batch), at |-> "given", loaded |-> 0]]
  /\ links' = [links EXCEPT ![Head(batch)].used = TRUE]
  /\ UNCHANGED <<idle, counters, kernel, at, new, overrun, spoiled>>

(* An event without EPOLLIN (EPOLLERR alone, say) is left at that. *)
Ignored ==
  /\ at = "loop"
  /\ batch # <<>> /\ Head(batch) # Listen
  /\ batch' = Tail(batch)
  /\ UNCHANGED <<links, idle, counters, kernel, at, new, task, overrun, spoiled>>

(* External: CopyCnt counts "the threads that handle messages of the slot". *)
WorkerBegin(w) ==
  /\ task[w].at = "given"
  /\ task' = [task EXCEPT ![w].at = "busy"]
  /\ links' = [links EXCEPT ![task[w].slot].CopyCnt = @ + 1]
  /\ UNCHANGED <<idle, counters, kernel, batch, at, new, overrun, spoiled>>

(* External: the message is handled; the thread may have found that the      *)
(* connection is to be closed.                                               *)
WorkerEnd(w) ==
  /\ task[w].at = "busy"
  /\ LET k == task[w].slot IN \E sig \in {links[k].ShutSig, 1} :
       links' = [links EXCEPT ![k] = [links[k] EXCEPT !.CopyCnt = @ - 1, !.ShutSig = sig]]
  /\ task' = IF "worker_close" \in Faults THEN [task EXCEPT ![w].at = "stopping"]
             ELSE [task EXCEPT ![w] = NoTask]
  /\ UNCHANGED <<idle, counters, kernel, batch, at, new, overrun, spoiled>>

(* External: the call of stopConnect by a thread, and what it does in detail. *)
WorkerStop(w) ==
  /\ task[w].at = "stopping" /\ StopMutexFree /\ Bound
  /\ LET k == task[w].slot IN
       IF ToBeClosed(links[k], 0)
         THEN /\ Release(k, links[k])
              /\ spoiled' = Spoils(k)
              /\ task' = [task EXCEPT ![w] = [slot |-> k, at |-> "closing", loaded |-> CurLinks]]
         ELSE /\ task' = [task EXCEPT ![w] = NoTask]
              /\ UNCHANGED <<kernel, idle, spoiled>>
  /\ UNCHANGED <<links, counters, batch, at, new, overrun>>

WorkerCount(w) ==
  /\ task[w].at = "closing"
  /\ CurLinks' = task[w].loaded - 1
  /\ task' = [task EXCEPT ![w] = [slot |-> task[w].slot, at |-> "closed", loaded |-> 0]]
  /\ UNCHANGED <<links, idle, MaxLinks, kernel, batch, at, new, overrun, spoiled>>

WorkerCompare(w) ==
  /\ task[w].at = "closed"
  /\ Compared(CurLinks, spoiled)
  /\ task' = [task EXCEPT ![w] = NoTask]
  /\ UNCHANGED <<links, idle, kernel, batch, at, new, overrun>>

Work(w) ==
  \/ HandOver(w) \/ WorkerBegin(w) \/ WorkerEnd(w)
  \/ WorkerStop(w) \/ WorkerCount(w) \/ WorkerCompare(w)

-------------------------------------------------------------------------------
(* A thread closes while the main loop is between its look at the idle list  *)
(* and its change of the counters.                                           *)
Racing == at \notin {"loop", "adding"} /\ ~StopMutexFree

Step ==
  \/ EpollWait \/ NewLink \/ Shut \/ Ignored
  \/ \E f \in Fds : Arrive(f)
  \/ \E w \in Workers : Work(w)

(* What is overwritten outside the array is anybody's guess. *)
Over    == overrun \/ (raced /\ ~AfterRace)
Stopped == Over /\ UNCHANGED vars

Next == Stopped \/ (~Over /\ Step /\ raced' = (raced \/ Racing'))

Spec == Init /\ [][Next]_vars

-------------------------------------------------------------------------------
(* Properties *)

Idle == {idle[i] : i \in DOMAIN idle}

(* Every variable has its type; a batch holds indices the kernel reported. *)
TypeOK ==
  /\ links \in [Slots -> LINK_INFO]
  /\ idle \in Seq(Index)
  /\ CurLinks \in Int /\ MaxLinks \in Nat \ {0}
  /\ registered \in [Fds -> Index \cup {None}]
  /\ ready \subseteq Fds
  /\ batch \in Seq(Index \cup {Listen})
  /\ at \in {"loop", "picked", "counting", "counted", "adding", "uncounting", "uncounted"}
  /\ ConnectIndex \in (Nat \ {0}) \cup {None}
  /\ ConnectFd \in Fds \cup {None}
  /\ loaded \in Int
  /\ task \in [Workers -> Task]
  /\ overrun \in BOOLEAN /\ spoiled \in BOOLEAN /\ raced \in BOOLEAN

(* "Each connection slot corresponds to one epoll event" (connectpool.h:38): *)
(* two open connections never share an index, and the slot an event names    *)
(* holds the descriptor the event is about.                                  *)
SlotsExclusive ==
  \A f \in Fds : registered[f] # None =>
    /\ \A g \in Fds : registered[g] = registered[f] => g = f
    /\ registered[f] \in Slots => links[registered[f]].fd = f

(* No index is lost or free twice: those below MaxLinks are either in use or *)
(* once in the idle list, and CurLinks counts the former.  This is said of   *)
(* the moments at which nobody makes a link or closes one.                   *)
SlotsAccounted ==
  at = "loop" /\ StopMutexFree =>
    /\ \A i, j \in DOMAIN idle : idle[i] = idle[j] => i = j
    /\ Idle \cap Live = {}
    /\ Idle \cup Live = 1 .. MaxLinks - 1
    /\ CurLinks + Len(idle) = MaxLinks

(* With threads that close, the first part of SlotsExclusive fails although   *)
(* no call has failed and no slot was closed twice: main.c:180-212 makes a    *)
(* new link without stop_mutex.                                               *)
ExclusiveUnlessClosedTwice == spoiled \/ SlotsExclusive

(* Both hold until a call has failed, a slot was closed twice, or a thread    *)
(* has closed one while the main loop made a link, which main.c:180-212 does  *)
(* without stop_mutex; so although threads close connections while events     *)
(* are outstanding that name their slots.                                     *)
ExclusiveUnlessSpoiled == spoiled \/ raced \/ SlotsExclusive
AccountedUnlessSpoiled == spoiled \/ raced \/ SlotsAccounted

(* pConnects is never indexed past its end, although no line checks it, as   *)
(* long as it has more elements than the process can have connections, and   *)
(* unless a close has met a new link: the counters then drift.               *)
NoOverrun == overrun => raced
===============================================================================
