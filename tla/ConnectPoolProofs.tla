-------------------------- MODULE ConnectPoolProofs --------------------------
(***************************************************************************)
(* What the connection slots promise for any number of descriptors and of  *)
(* threads, until a thread closes a connection while the main loop makes a *)
(* new link.  pConnects is never indexed past its end, whatever fails, if  *)
(* it has two more elements than the process can have connections: one is  *)
(* the listening socket's, one is for the link that is counted before      *)
(* epoll_ctl fails.  The argument is arithmetic: CurLinks counts no more   *)
(* than the open connections, the listening socket and what is about to be *)
(* counted or discounted; MaxLinks, the next fresh index, follows it.  An  *)
(* index names one connection and none is lost until a call fails or a     *)
(* slot is closed twice, so for ever if no call fails and no thread closes.*)
(***************************************************************************)
EXTENDS ConnectPool, FiniteSetTheorems, SequenceTheorems, TLAPS

Roomy == In_MaxEpoll >= Cardinality(Fds) + 2

Open == {f \in Fds : registered[f] # None}

-------------------------------------------------------------------------------
(* Types, and who is where, whatever fails and whoever races. *)

(* A new link's descriptor is not registered yet, and its slot exists.       *)
Places ==
  /\ ready \subseteq Open
  /\ \A w \in Workers : task[w].at # "free" => task[w].slot # None
  /\ at # "loop" => ConnectIndex # None
  /\ at \notin {"loop", "picked"} =>
       ConnectFd \in Fds \ Open /\ (overrun \/ ConnectIndex \in Index)

(* stop_mutex. *)
OneCloses == \A v, w \in Workers : Closing(v) /\ Closing(w) => v = w

Types == TypeOK /\ Places /\ OneCloses

LEMMA Numbers ==
  /\ In_MaxEpoll \in Nat /\ Index \subseteq Nat \ {0} /\ Index \subseteq Slots
  /\ None \notin Index /\ None \notin Nat
<1>1. In_MaxEpoll \in Nat /\ Index \subseteq Nat \ {0} /\ Index \subseteq Slots
  BY SizeAssumption DEF Index, Slots
<1> QED
  BY <1>1, NoneAssumption

LEMMA InitTypes == Init => Types
<1> SUFFICES ASSUME Init PROVE Types
  OBVIOUS
<1>1. TypeOK
  <2>1. links \in [Slots -> LINK_INFO] /\ task \in [Workers -> Task]
    BY DEF Init, LINK_INFO, Task, NoTask
  <2>2. idle \in Seq(Index) /\ batch \in Seq(Index \cup {Listen})
    BY DEF Init
  <2>3. registered \in [Fds -> Index \cup {None}] /\ ready \subseteq Fds
    BY DEF Init
  <2>4. overrun \in BOOLEAN /\ spoiled \in BOOLEAN /\ raced \in BOOLEAN
    BY DEF Init
  <2>5. /\ CurLinks \in Int /\ MaxLinks \in Nat \ {0} /\ loaded \in Int
        /\ ConnectIndex \in (Nat \ {0}) \cup {None} /\ ConnectFd \in Fds \cup {None}
        /\ at = "loop"
    BY DEF Init
  <2> QED
    BY <2>1, <2>2, <2>3, <2>4, <2>5 DEF TypeOK
<1>2. Places /\ OneCloses
  BY DEF Init, Places, OneCloses, Closing, NoTask, Open
<1> QED
  BY <1>1, <1>2 DEF Types

LEMMA ComparedTypes ==
  ASSUME Types, NEW current \in Int, NEW spoilt \in BOOLEAN, Compared(current, spoilt)
  PROVE  CurLinks' \in Int /\ MaxLinks' \in Nat \ {0} /\ spoiled' \in BOOLEAN
<1>1. MaxLinks \in Nat \ {0}
  BY DEF Types, TypeOK
<1>2. CurLinks' \in Int
  BY DEF Compared
<1>3. MaxLinks' \in Nat \ {0}
  BY <1>1 DEF Compared
<1>4. spoiled' = spoilt \/ spoiled' = TRUE
  BY DEF Compared
<1> QED
  BY <1>2, <1>3, <1>4

(* Neither links nor tasks change: what the variables that may be set have.  *)
LEMMA NewLinkTypes ==
  ASSUME Types, ~overrun, NewLink, raced' \in BOOLEAN PROVE Types'
<1> USE Numbers
<1>1. CASE PickIndex
  <2>1. Head(idle) \in Index \/ idle = <<>>
    BY DEF Types, TypeOK
  <2>2. ConnectIndex' \in Nat \ {0}
    BY <1>1, <2>1 DEF PickIndex, Types, TypeOK
  <2>3. idle' \in Seq(Index) /\ batch' \in Seq(Index \cup {Listen})
    BY <1>1 DEF PickIndex, IdleAfterTake, Types, TypeOK
  <2>4. TypeOK'
    BY <1>1, <2>2, <2>3 DEF PickIndex, counters, kernel, Types, TypeOK
  <2>5. Places' /\ OneCloses'
    BY <1>1, <2>2 DEF PickIndex, kernel, Types, Places, OneCloses, Closing, Open
  <2> QED
    BY <2>4, <2>5 DEF Types
<1>2. CASE AcceptFails
  <2>1. TypeOK'
    BY <1>2 DEF AcceptFails, BackToLoop, counters, kernel, Types, TypeOK
  <2>2. Places' /\ OneCloses'
    BY <1>2 DEF AcceptFails, BackToLoop, kernel, Types, Places, OneCloses, Closing, Open
  <2> QED
    BY <2>1, <2>2 DEF Types
<1>3. ASSUME NEW f \in Fds, Accept(f) PROVE Types'
  <2>1. /\ at' = "counting" /\ ConnectFd' = f /\ f \notin Open
        /\ UNCHANGED <<idle, CurLinks, MaxLinks, registered, ready, batch, ConnectIndex, task,
                       spoiled>>
        /\ loaded' = CurLinks
        /\ ConnectIndex \in Nat \ {0}
        /\ overrun' \in BOOLEAN /\ (overrun' \/ ConnectIndex \in Index)
    BY <1>3 DEF Accept, counters, kernel, Types, TypeOK, Places, Open, Index
  <2>2. links' \in [Slots -> LINK_INFO]
    <3>1. initConnect(f) \in LINK_INFO
      BY DEF initConnect, LINK_INFO
    <3> QED
      BY <1>3, <3>1 DEF Accept, Types, TypeOK
  <2>3. TypeOK'
    BY <2>1, <2>2 DEF Types, TypeOK
  <2>4. Places' /\ OneCloses'
    BY <2>1 DEF Types, TypeOK, Places, OneCloses, Closing, Open
  <2> QED
    BY <2>3, <2>4 DEF Types
<1>4. CASE Count
  <2>1. TypeOK'
    BY <1>4 DEF Count, kernel, Types, TypeOK
  <2>2. Places' /\ OneCloses'
    BY <1>4 DEF Count, kernel, Types, Places, OneCloses, Closing, Open
  <2> QED
    BY <2>1, <2>2 DEF Types
<1>5. CASE Compare
  <2>1. CurLinks' \in Int /\ MaxLinks' \in Nat \ {0} /\ spoiled' \in BOOLEAN
    BY <1>5, ComparedTypes DEF Compare, Types, TypeOK
  <2>2. TypeOK'
    BY <1>5, <2>1 DEF Compare, kernel, new, Types, TypeOK
  <2>3. Places' /\ OneCloses'
    BY <1>5 DEF Compare, kernel, new, Types, Places, OneCloses, Closing, Open
  <2> QED
    BY <2>2, <2>3 DEF Types
<1>6. CASE Register
  <2>1. ConnectIndex \in Index /\ ConnectFd \in Fds
    BY <1>6 DEF Register, Types, Places
  <2>2. registered' \in [Fds -> Index \cup {None}] /\ Open \subseteq Open'
    BY <1>6, <2>1 DEF Register, Types, TypeOK, Open
  <2>3. TypeOK'
    BY <1>6, <2>2 DEF Register, BackToLoop, counters, Types, TypeOK
  <2>4. Places' /\ OneCloses'
    BY <1>6, <2>2 DEF Register, BackToLoop, Types, Places, OneCloses, Closing
  <2> QED
    BY <2>3, <2>4 DEF Types
<1>7. CASE AddFails
  <2>1. TypeOK'
    BY <1>7 DEF AddFails, counters, kernel, Types, TypeOK
  <2>2. Places' /\ OneCloses'
    BY <1>7 DEF AddFails, kernel, Types, Places, OneCloses, Closing, Open
  <2> QED
    BY <2>1, <2>2 DEF Types
<1>8. CASE DropLink
  <2>1. CurLinks' \in Int /\ MaxLinks' \in Nat \ {0} /\ spoiled' \in BOOLEAN
    BY <1>8, ComparedTypes DEF DropLink, Types, TypeOK
  <2>2. links' \in [Slots -> LINK_INFO]
    <3>1. clearConnect \in LINK_INFO
      BY DEF clearConnect, LINK_INFO
    <3> QED
      BY <1>8, <3>1 DEF DropLink, Types, TypeOK
  <2>3. TypeOK'
    BY <1>8, <2>1, <2>2 DEF DropLink, BackToLoop, kernel, Types, TypeOK
  <2>4. Places' /\ OneCloses'
    BY <1>8 DEF DropLink, BackToLoop, kernel, Types, Places, OneCloses, Closing, Open
  <2> QED
    BY <2>3, <2>4 DEF Types
<1> QED
  BY <1>1, <1>2, <1>3, <1>4, <1>5, <1>6, <1>7, <1>8 DEF NewLink

(* A close may forget the descriptor of the link it is given. *)
LEMMA ReleaseTypes ==
  ASSUME Types, NEW k \in Index, NEW link, Release(k, link)
  PROVE  /\ idle' \in Seq(Index)
         /\ registered' \in [Fds -> Index \cup {None}]
         /\ Open' = Open \ {link.fd}
         /\ ready' \subseteq Open' /\ ready' \subseteq Fds
         /\ Spoils(k) \in BOOLEAN
<1>1. /\ registered' = [f \in Fds |-> IF f = link.fd THEN None ELSE registered[f]]
      /\ ready' = ready \ {link.fd}
      /\ idle' = Append(idle, k) \/ idle' = idle
  BY DEF Release
<1>2. Open' = Open \ {link.fd}
  BY <1>1 DEF Open
<1>3. idle' \in Seq(Index)
  <2>1. idle \in Seq(Index)
    BY DEF Types, TypeOK
  <2> QED
    BY <1>1, <2>1
<1>4. registered' \in [Fds -> Index \cup {None}]
  <2>1. registered \in [Fds -> Index \cup {None}]
    BY DEF Types, TypeOK
  <2> QED
    BY <1>1, <2>1
<1>5. Spoils(k) \in BOOLEAN
  BY DEF Spoils, Types, TypeOK
<1> QED
  BY <1>1, <1>2, <1>3, <1>4, <1>5 DEF Types, TypeOK, Places

(* The kernel, and the handling of an event by the main loop. *)
LEMMA LoopTypes ==
  ASSUME Types, raced' \in BOOLEAN, EpollWait \/ Shut \/ Ignored \/ \E f \in Fds : Arrive(f)
  PROVE  Types'
<1> USE Numbers
<1>1. ASSUME NEW f \in Fds, Arrive(f) PROVE Types'
  <2>1. TypeOK'
    BY <1>1 DEF Arrive, counters, new, Types, TypeOK
  <2>2. Places' /\ OneCloses'
    BY <1>1 DEF Arrive, new, Types, Places, OneCloses, Closing, Open
  <2> QED
    BY <2>1, <2>2 DEF Types
<1>2. CASE EpollWait
  <2>1. PICK n \in 1 .. MaxBatch : \E s \in [1 .. n -> ready \cup Waiting] :
          /\ batch' = [i \in 1 .. n |-> IF s[i] = Listen THEN Listen ELSE registered[s[i]]]
          /\ ready' = ready \ {s[i] : i \in 1 .. n}
    BY <1>2 DEF EpollWait
  <2>2. PICK s \in [1 .. n -> ready \cup Waiting] :
          /\ batch' = [i \in 1 .. n |-> IF s[i] = Listen THEN Listen ELSE registered[s[i]]]
          /\ ready' = ready \ {s[i] : i \in 1 .. n}
    BY <2>1
  <2>3. \A i \in 1 .. n : s[i] = Listen \/ registered[s[i]] \in Index
    BY <2>2 DEF Waiting, Types, TypeOK, Places, Open
  <2>4. batch' \in [1 .. n -> Index \cup {Listen}] /\ n \in Nat
    BY <2>2, <2>3, SizeAssumption
  <2>5. batch' \in Seq(Index \cup {Listen})
    BY <2>4
  <2>6. UNCHANGED <<links, idle, CurLinks, MaxLinks, registered, at, ConnectIndex, ConnectFd,
                    loaded, task, overrun, spoiled>>
    BY <1>2 DEF EpollWait, counters, new
  <2>7. TypeOK'
    BY <2>2, <2>5, <2>6 DEF Types, TypeOK
  <2>8. Places' /\ OneCloses'
    BY <2>2, <2>6 DEF Types, Places, OneCloses, Closing, Open
  <2> QED
    BY <2>7, <2>8 DEF Types
<1>3. CASE Ignored
  <2>1. batch' \in Seq(Index \cup {Listen})
    BY <1>3 DEF Ignored, Types, TypeOK
  <2>2. TypeOK'
    BY <1>3, <2>1 DEF Ignored, counters, kernel, new, Types, TypeOK
  <2>3. Places' /\ OneCloses'
    BY <1>3 DEF Ignored, kernel, new, Types, Places, OneCloses, Closing, Open
  <2> QED
    BY <2>2, <2>3 DEF Types
<1>4. CASE Shut
  <2>1. Head(batch) \in Index /\ batch' \in Seq(Index \cup {Listen})
    BY <1>4 DEF Shut, Types, TypeOK
  <2>2. UNCHANGED <<links, at, ConnectIndex, ConnectFd, loaded, task, overrun>> /\ at = "loop"
    BY <1>4 DEF Shut, new
  <2>3. /\ idle' \in Seq(Index) /\ registered' \in [Fds -> Index \cup {None}]
        /\ ready' \subseteq Open' /\ ready' \subseteq Fds
        /\ CurLinks' \in Int /\ MaxLinks' \in Nat \ {0} /\ spoiled' \in BOOLEAN
    <3>1. CASE closeConnect(Head(batch), links[Head(batch)])
      <4>1. /\ Release(Head(batch), links[Head(batch)])
            /\ Compared(CurLinks - 1, Spoils(Head(batch)))
        BY <3>1 DEF closeConnect, updateCurConnects
      <4>2. CurLinks - 1 \in Int
        BY DEF Types, TypeOK
      <4> QED
        BY <2>1, <4>1, <4>2, ReleaseTypes, ComparedTypes
    <3>2. CASE UNCHANGED <<kernel, idle, counters, spoiled>>
      BY <3>2 DEF kernel, counters, Types, TypeOK, Places, Open
    <3> QED
      BY <1>4, <3>1, <3>2 DEF Shut, stopConnect
  <2>4. TypeOK'
    BY <2>1, <2>2, <2>3 DEF Types, TypeOK
  <2>5. Places' /\ OneCloses'
    BY <2>2, <2>3 DEF Types, Places, OneCloses, Closing
  <2> QED
    BY <2>4, <2>5 DEF Types
<1> QED
  BY <1>1, <1>2, <1>3, <1>4

(* The other tasks stay; at most one closes, for one that begins to has seen *)
(* that nobody does.                                                         *)
LEMMA TaskTypes ==
  ASSUME Types, NEW w \in Workers, NEW t \in Task,
         task' = [task EXCEPT ![w] = t],
         t.at # "free" => t.slot # None,
         t.at \in {"closing", "closed"} => StopMutexFree \/ Closing(w)
  PROVE  /\ task' \in [Workers -> Task]
         /\ \A v \in Workers : task'[v].at # "free" => task'[v].slot # None
         /\ OneCloses'
<1>1. /\ task \in [Workers -> Task]
      /\ \A v \in Workers : task[v].at # "free" => task[v].slot # None
  BY DEF Types, TypeOK, Places
<1>2. task'[w] = t /\ \A v \in Workers : v # w => task'[v] = task[v]
  BY <1>1
<1>3. ASSUME NEW v \in Workers, v # w, Closing(v), t.at \in {"closing", "closed"} PROVE FALSE
  BY <1>3 DEF StopMutexFree, Types, OneCloses
<1>4. OneCloses'
  BY <1>2, <1>3 DEF Types, OneCloses, Closing
<1> QED
  BY <1>1, <1>2, <1>4

LEMMA WorkTypes ==
  ASSUME Types, raced' \in BOOLEAN, NEW w \in Workers, Work(w)
  PROVE  Types'
<1> USE Numbers
<1> DEFINE k == task[w].slot
<1>1. /\ task \in [Workers -> Task] /\ links \in [Slots -> LINK_INFO]
      /\ task[w].at # "free" => k \in Index /\ k \in Slots
      /\ task[w].loaded \in Int
  BY DEF Types, TypeOK, Places, Task
<1>2. NoTask \in Task
  BY DEF NoTask, Task
(* Whatever a thread does, it leaves the new link alone. *)
<1>3. ASSUME links' \in [Slots -> LINK_INFO], batch' \in Seq(Index \cup {Listen}),
             idle' \in Seq(Index), registered' \in [Fds -> Index \cup {None}],
             Open' \subseteq Open, ready' \subseteq Open', ready' \subseteq Fds,
             CurLinks' \in Int, MaxLinks' \in Nat \ {0}, spoiled' \in BOOLEAN,
             UNCHANGED <<at, new, overrun>>,
             task' \in [Workers -> Task],
             \A v \in Workers : task'[v].at # "free" => task'[v].slot # None,
             OneCloses'
      PROVE  Types'
  <2>1. TypeOK'
    BY <1>3 DEF new, Types, TypeOK
  <2>2. Places'
    BY <1>3 DEF new, Types, Places
  <2> QED
    BY <1>3, <2>1, <2>2 DEF Types
<1>4. ASSUME UNCHANGED <<idle, counters, kernel, spoiled>>
      PROVE  /\ idle' \in Seq(Index) /\ registered' \in [Fds -> Index \cup {None}]
             /\ Open' \subseteq Open /\ ready' \subseteq Open' /\ ready' \subseteq Fds
             /\ CurLinks' \in Int /\ MaxLinks' \in Nat \ {0} /\ spoiled' \in BOOLEAN
  BY <1>4 DEF counters, kernel, Types, TypeOK, Places, Open
<1>5. ASSUME UNCHANGED links PROVE links' \in [Slots -> LINK_INFO]
  BY <1>1, <1>5
<1>6. ASSUME UNCHANGED batch PROVE batch' \in Seq(Index \cup {Listen})
  BY <1>6 DEF Types, TypeOK
<1>7. CASE HandOver(w)
  <2> DEFINE t == [slot |-> Head(batch), at |-> "given", loaded |-> 0]
  <2>1. Head(batch) \in Index /\ batch' \in Seq(Index \cup {Listen})
    BY <1>7 DEF HandOver, Types, TypeOK
  <2>2. t \in Task /\ t.slot # None /\ t.at \notin {"closing", "closed"}
    BY <2>1 DEF Task
  <2>3. links' \in [Slots -> LINK_INFO]
    <3>1. Head(batch) \in Slots /\ links[Head(batch)] \in LINK_INFO
      BY <1>1, <2>1
    <3>2. [links[Head(batch)] EXCEPT !.used = TRUE] \in LINK_INFO
      BY <3>1 DEF LINK_INFO
    <3>3. links' = [links EXCEPT ![Head(batch)] = [links[Head(batch)] EXCEPT !.used = TRUE]]
      BY <1>1, <1>7 DEF HandOver
    <3> QED
      BY <1>1, <3>1, <3>2, <3>3
  <2>4. task' = [task EXCEPT ![w] = t]
    BY <1>7 DEF HandOver
  <2>5. UNCHANGED <<idle, counters, kernel, at, new, overrun, spoiled>>
    BY <1>7 DEF HandOver
  <2> HIDE DEF t
  <2> QED
    BY <1>3, <1>4, <2>1, <2>2, <2>3, <2>4, <2>5, TaskTypes
<1>8. CASE WorkerBegin(w)
  <2> DEFINE t == [task[w] EXCEPT !.at = "busy"]
  <2>1. k \in Slots /\ k \in Index
    BY <1>1, <1>8 DEF WorkerBegin
  <2>2. t \in Task /\ t.slot = k /\ t.at = "busy"
    BY <1>1 DEF Task
  <2>3. links' \in [Slots -> LINK_INFO]
    <3>1. links[k] \in LINK_INFO
      BY <1>1, <2>1
    <3>2. [links[k] EXCEPT !.CopyCnt = @ + 1] \in LINK_INFO
      BY <3>1 DEF LINK_INFO
    <3>3. links' = [links EXCEPT ![k] = [links[k] EXCEPT !.CopyCnt = @ + 1]]
      BY <1>1, <1>8 DEF WorkerBegin
    <3> QED
      BY <1>1, <2>1, <3>2, <3>3
  <2>4. task' = [task EXCEPT ![w] = t]
    BY <1>1, <1>8 DEF WorkerBegin
  <2>5. UNCHANGED <<idle, counters, kernel, batch, at, new, overrun, spoiled>>
    BY <1>8 DEF WorkerBegin
  <2> HIDE DEF t
  <2> QED
    BY <1>3, <1>4, <1>6, <2>1, <2>2, <2>3, <2>4, <2>5, TaskTypes
<1>9. CASE WorkerEnd(w)
  <2>1. k \in Slots /\ k \in Index
    BY <1>1, <1>9 DEF WorkerEnd
  <2>2. links' \in [Slots -> LINK_INFO]
    <3>1. PICK sig \in {links[k].ShutSig, 1} :
            links' = [links EXCEPT ![k] = [links[k] EXCEPT !.CopyCnt = @ - 1, !.ShutSig = sig]]
      BY <1>9 DEF WorkerEnd
    <3>2. sig \in {0, 1} /\ links[k] \in LINK_INFO
      BY <1>1, <2>1 DEF LINK_INFO
    <3>3. ASSUME NEW l \in LINK_INFO
          PROVE  [l EXCEPT !.CopyCnt = @ - 1, !.ShutSig = sig] \in LINK_INFO
      <4>1. [l EXCEPT !.CopyCnt = @ - 1] \in LINK_INFO
        BY DEF LINK_INFO
      <4>2. \A m \in LINK_INFO : [m EXCEPT !.ShutSig = sig] \in LINK_INFO
        BY <3>2 DEF LINK_INFO
      <4> QED
        BY <4>1, <4>2
    <3> DEFINE l == [links[k] EXCEPT !.CopyCnt = @ - 1, !.ShutSig = sig]
    <3>4. l \in LINK_INFO
      BY <3>2, <3>3
    <3>5. links' = [links EXCEPT ![k] = l]
      BY <3>1
    <3> HIDE DEF l
    <3> QED
      BY <1>1, <2>1, <3>4, <3>5
  <2>3. PICK t \in Task : /\ task' = [task EXCEPT ![w] = t]
                          /\ t.at # "free" => t.slot # None
                          /\ t.at \notin {"closing", "closed"}
    <3>1. CASE "worker_close" \in Faults
      <4> DEFINE t == [task[w] EXCEPT !.at = "stopping"]
      <4>1. t \in Task /\ t.slot = k /\ t.at = "stopping"
        BY <1>1 DEF Task
      <4>2. task' = [task EXCEPT ![w] = t]
        BY <1>1, <1>9, <3>1 DEF WorkerEnd
      <4> HIDE DEF t
      <4> QED
        BY <2>1, <4>1, <4>2
    <3>2. CASE "worker_close" \notin Faults
      BY <1>2, <1>9, <3>2 DEF WorkerEnd, NoTask
    <3> QED
      BY <3>1, <3>2
  <2>4. UNCHANGED <<idle, counters, kernel, batch, at, new, overrun, spoiled>>
    BY <1>9 DEF WorkerEnd
  <2> QED
    BY <1>3, <1>4, <1>6, <2>2, <2>3, <2>4, TaskTypes
<1>10. CASE WorkerStop(w)
  <2>1. k \in Slots /\ k \in Index /\ StopMutexFree /\ CurLinks \in Int
    BY <1>1, <1>10 DEF WorkerStop, Types, TypeOK
  <2>2. UNCHANGED <<links, counters, batch, at, new, overrun>>
    BY <1>10 DEF WorkerStop
  <2>3. CASE ToBeClosed(links[k], 0)
    <3> DEFINE t == [slot |-> k, at |-> "closing", loaded |-> CurLinks]
    <3>1. Release(k, links[k]) /\ spoiled' = Spoils(k) /\ task' = [task EXCEPT ![w] = t]
      BY <1>10, <2>3 DEF WorkerStop
    <3>2. t \in Task /\ t.slot # None
      BY <2>1 DEF Task
    <3>3. CurLinks' \in Int /\ MaxLinks' \in Nat \ {0}
      BY <2>2 DEF counters, Types, TypeOK
    <3> HIDE DEF t
    <3> QED
      BY <1>3, <1>5, <1>6, <2>1, <2>2, <3>1, <3>2, <3>3, ReleaseTypes, TaskTypes
  <2>4. CASE ~ToBeClosed(links[k], 0)
    <3>1. task' = [task EXCEPT ![w] = NoTask] /\ UNCHANGED <<kernel, idle, spoiled>>
      BY <1>10, <2>4 DEF WorkerStop
    <3>2. NoTask.at = "free"
      BY DEF NoTask
    <3> QED
      BY <1>2, <1>3, <1>4, <1>5, <1>6, <2>2, <3>1, <3>2, TaskTypes
  <2> QED
    BY <2>3, <2>4
<1>11. CASE WorkerCount(w)
  <2> DEFINE t == [slot |-> k, at |-> "closed", loaded |-> 0]
  <2>1. k \in Index /\ Closing(w)
    BY <1>1, <1>11 DEF WorkerCount, Closing
  <2>2. t \in Task /\ t.slot # None
    BY <2>1 DEF Task
  <2>3. task' = [task EXCEPT ![w] = t] /\ CurLinks' = task[w].loaded - 1
    BY <1>11 DEF WorkerCount
  <2>4. UNCHANGED <<links, idle, MaxLinks, kernel, batch, at, new, overrun, spoiled>>
    BY <1>11 DEF WorkerCount
  <2>5. /\ idle' \in Seq(Index) /\ registered' \in [Fds -> Index \cup {None}]
        /\ Open' \subseteq Open /\ ready' \subseteq Open' /\ ready' \subseteq Fds
        /\ CurLinks' \in Int /\ MaxLinks' \in Nat \ {0} /\ spoiled' \in BOOLEAN
    BY <1>1, <2>3, <2>4 DEF kernel, Types, TypeOK, Places, Open
  <2> HIDE DEF t
  <2> QED
    BY <1>3, <1>5, <1>6, <2>1, <2>2, <2>3, <2>4, <2>5, TaskTypes
<1>12. CASE WorkerCompare(w)
  <2>1. task' = [task EXCEPT ![w] = NoTask] /\ NoTask.at = "free" /\ Compared(CurLinks, spoiled)
    BY <1>12 DEF WorkerCompare, NoTask
  <2>2. UNCHANGED <<links, idle, kernel, batch, at, new, overrun>>
    BY <1>12 DEF WorkerCompare
  <2>3. CurLinks \in Int /\ spoiled \in BOOLEAN
    BY DEF Types, TypeOK
  <2>4. CurLinks' \in Int /\ MaxLinks' \in Nat \ {0} /\ spoiled' \in BOOLEAN
    BY <2>1, <2>3, ComparedTypes
  <2>5. /\ idle' \in Seq(Index) /\ registered' \in [Fds -> Index \cup {None}]
        /\ Open' \subseteq Open /\ ready' \subseteq Open' /\ ready' \subseteq Fds
    BY <2>2 DEF kernel, Types, TypeOK, Places, Open
  <2> QED
    BY <1>2, <1>3, <1>5, <1>6, <2>1, <2>2, <2>4, <2>5, TaskTypes
<1> QED
  BY <1>7, <1>8, <1>9, <1>10, <1>11, <1>12 DEF Work

LEMMA StepTypes == Types /\ [Next]_vars => Types'
<1> SUFFICES ASSUME Types, [Next]_vars PROVE Types'
  OBVIOUS
<1>1. CASE UNCHANGED vars
  <2>1. TypeOK'
    BY <1>1 DEF vars, counters, kernel, new, Types, TypeOK
  <2>2. Places' /\ OneCloses'
    BY <1>1 DEF vars, kernel, new, Types, Places, OneCloses, Closing, Open
  <2> QED
    BY <2>1, <2>2 DEF Types
<1>2. CASE ~Over /\ Step /\ raced' = (raced \/ Racing')
  <2>1. raced' \in BOOLEAN /\ ~overrun
    BY <1>2 DEF Over
  <2> QED
    BY <1>2, <2>1, NewLinkTypes, LoopTypes, WorkTypes DEF Step
<1> QED
  BY <1>1, <1>2 DEF Next, Stopped

(* Every variable has its type, whatever fails and whoever races: what the   *)
(* branch of main.c:174-224 and the threads leave in the slots, the idle     *)
(* list and the kernel are indices of connections.                           *)
THEOREM SlotsTypeCorrect == Spec => []TypeOK
<1>1. Types => TypeOK
  BY DEF Types
<1> QED
  BY <1>1, InitTypes, StepTypes, PTL DEF Spec

-------------------------------------------------------------------------------
(* Steps that leave descriptors, idle list, counters and the new link alone. *)

Quiet ==
  /\ UNCHANGED <<idle, CurLinks, MaxLinks, registered, at, ConnectIndex, ConnectFd, loaded,
                 overrun, spoiled>>
  /\ \A w \in Workers :
       task[w].at = "closing" \/ task'[w].at = "closing" => task'[w] = task[w]
  /\ \A k \in Slots : links'[k].fd = links[k].fd

QuietStep ==
  \/ EpollWait \/ Ignored \/ \E f \in Fds : Arrive(f)
  \/ \E w \in Workers : HandOver(w) \/ WorkerBegin(w) \/ WorkerEnd(w)
  \/ \E w \in Workers : WorkerStop(w) /\ ~ToBeClosed(links[task[w].slot], 0)

LEMMA QuietSteps == ASSUME Types, QuietStep PROVE Quiet
<1>1. /\ task \in [Workers -> Task] /\ links \in [Slots -> LINK_INFO]
      /\ \A w \in Workers : task[w].at # "free" => task[w].slot \in Slots
  BY Numbers DEF Types, TypeOK, Places, Task
<1>2. ASSUME NEW w \in Workers, task[w].at # "closing", task'[w].at # "closing",
             \A v \in Workers : v # w => task'[v] = task[v]
      PROVE  \A v \in Workers :
               task[v].at = "closing" \/ task'[v].at = "closing" => task'[v] = task[v]
  BY <1>2
<1>3. CASE EpollWait \/ Ignored \/ \E f \in Fds : Arrive(f)
  BY <1>3 DEF EpollWait, Ignored, Arrive, counters, kernel, new, Quiet
<1>4. ASSUME NEW w \in Workers, HandOver(w) PROVE Quiet
  <2>1. task'[w].at = "given" /\ task[w].at = "free"
        /\ \A v \in Workers : v # w => task'[v] = task[v]
    BY <1>1, <1>4 DEF HandOver, NoTask
  <2>2. Head(batch) \in Slots
    BY <1>4, Numbers DEF HandOver, Types, TypeOK
  <2>3. \A k \in Slots : links'[k].fd = links[k].fd
    BY <1>1, <1>4, <2>2 DEF HandOver, LINK_INFO
  <2> QED
    BY <1>2, <1>4, <2>1, <2>3 DEF HandOver, counters, kernel, new, Quiet
<1>5. ASSUME NEW w \in Workers, WorkerBegin(w) PROVE Quiet
  <2>1. task'[w].at = "busy" /\ task[w].at = "given"
        /\ \A v \in Workers : v # w => task'[v] = task[v]
    BY <1>1, <1>5 DEF WorkerBegin, Task
  <2>2. \A k \in Slots : links'[k].fd = links[k].fd
    BY <1>1, <1>5, <2>1 DEF WorkerBegin, LINK_INFO
  <2> QED
    BY <1>2, <1>5, <2>1, <2>2 DEF WorkerBegin, counters, kernel, new, Quiet
<1>6. ASSUME NEW w \in Workers, WorkerEnd(w) PROVE Quiet
  <2> DEFINE k == task[w].slot
  <2>1. task'[w].at \in {"stopping", "free"} /\ task[w].at = "busy"
        /\ \A v \in Workers : v # w => task'[v] = task[v]
    BY <1>1, <1>6 DEF WorkerEnd, Task, NoTask
  <2>2. PICK sig \in {links[k].ShutSig, 1} :
          links' = [links EXCEPT ![k] = [links[k] EXCEPT !.CopyCnt = @ - 1, !.ShutSig = sig]]
    BY <1>6 DEF WorkerEnd
  <2>3. k \in Slots /\ links[k] \in LINK_INFO
    BY <1>1, <2>1
  <2>4. [links[k] EXCEPT !.CopyCnt = @ - 1, !.ShutSig = sig].fd = links[k].fd
    BY <2>3 DEF LINK_INFO
  <2>5. \A m \in Slots : links'[m].fd = links[m].fd
    BY <1>1, <2>2, <2>3, <2>4
  <2> QED
    BY <1>2, <1>6, <2>1, <2>5 DEF WorkerEnd, counters, kernel, new, Quiet
<1>7. ASSUME NEW w \in Workers, WorkerStop(w), ~ToBeClosed(links[task[w].slot], 0) PROVE Quiet
  <2>1. task'[w].at = "free" /\ task[w].at = "stopping"
        /\ \A v \in Workers : v # w => task'[v] = task[v]
    BY <1>1, <1>7 DEF WorkerStop, Task, NoTask
  <2> QED
    BY <1>2, <1>7, <2>1 DEF WorkerStop, counters, kernel, new, Quiet
<1> QED
  BY <1>3, <1>4, <1>5, <1>6, <1>7 DEF QuietStep

-------------------------------------------------------------------------------
(* The counters: what is counted before it is registered, and what is closed *)
(* before it is discounted.  Who has loaded CurLinks stores what it was, for *)
(* only a race changes it in between.                                        *)

Pending == IF at \in {"counted", "adding", "uncounting"} THEN 1 ELSE 0
Leaving == IF \E w \in Workers : task[w].at = "closing" THEN 1 ELSE 0

Counted ==
  /\ CurLinks <= Cardinality(Open) + 1 + Pending + Leaving
  /\ MaxLinks <= Cardinality(Fds) + 1
  /\ at \in {"counting", "uncounting"} => loaded = CurLinks
  /\ \A w \in Workers : task[w].at = "closing" => task[w].loaded = CurLinks
  /\ at # "loop" => ConnectIndex \in Index
  /\ ~Racing
  /\ overrun = FALSE

LEMMA Arithmetic ==
  /\ Cardinality(Fds) \in Nat
  /\ IsFiniteSet(Open) /\ Cardinality(Open) \in Nat
  /\ Cardinality(Open) <= Cardinality(Fds)
<1>1. Open \in SUBSET Fds
  BY DEF Open
<1> QED
  BY <1>1, SizeAssumption, FS_Subset, FS_CardinalityType

(* While a descriptor is free, one more connection can be counted.           *)
LEMMA FreeDescriptor ==
  ASSUME NEW f \in Fds, f \notin Open
  PROVE  Cardinality(Open \cup {f}) = Cardinality(Open) + 1
         /\ Cardinality(Open) + 1 <= Cardinality(Fds)
<1>1. Cardinality(Open \cup {f}) = Cardinality(Open) + 1
  BY Arithmetic, FS_AddElement
<1>2. Open \cup {f} \in SUBSET Fds
  BY DEF Open
<1> QED
  BY <1>1, <1>2, SizeAssumption, FS_Subset

LEMMA InitCounted == Init => Counted
<1> SUFFICES ASSUME Init PROVE Counted
  OBVIOUS
<1>1. Open = {} /\ Cardinality(Open) = 0
  BY FS_EmptySet DEF Open, Init
<1>2. \A w \in Workers : task[w].at = "free"
  BY DEF Init, NoTask
<1> QED
  BY <1>1, <1>2, Arithmetic DEF Init, Counted, Racing, Pending, Leaving

(* Nobody else is closing when the main loop is at a new link, or closes.    *)
LEMMA NobodyLeaves ==
  ASSUME StopMutexFree PROVE Leaving = 0 /\ \A w \in Workers : task[w].at # "closing"
BY DEF StopMutexFree, Closing, Leaving

LEMMA QuietCounted == ASSUME Quiet, Counted, ~Racing' PROVE Counted'
<1>1. Open' = Open /\ Pending' = Pending
  BY DEF Quiet, Open, Pending
<1>2. Leaving' = Leaving
  BY DEF Quiet, Leaving
<1> QED
  BY <1>1, <1>2 DEF Quiet, Counted

(* The compare of CurLinks, once what is pending or leaving has been counted *)
(* and if a descriptor is free for it.                                       *)
LEMMA ComparedCounted ==
  ASSUME Types, Counted, NEW current \in Int, NEW spoilt, Compared(current, spoilt),
         NEW bound \in Nat, bound <= Cardinality(Fds) + 1, current <= bound
  PROVE  CurLinks' <= bound /\ MaxLinks' <= Cardinality(Fds) + 1
BY Arithmetic DEF Types, TypeOK, Counted, Compared

LEMMA NewLinkCounted ==
  ASSUME Roomy, Types, Counted, NewLink, ~Racing' PROVE Counted'
<1>1. /\ CurLinks \in Int /\ MaxLinks \in Nat \ {0}
      /\ Pending \in {0, 1} /\ Leaving \in {0, 1}
      /\ Cardinality(Open) \in Nat /\ Cardinality(Fds) \in Nat
  BY Arithmetic DEF Types, TypeOK, Pending, Leaving
<1>2. task' = task /\ Leaving' = Leaving
  BY DEF NewLink, PickIndex, AcceptFails, Accept, Count, Compare, Register, AddFails, DropLink,
         Leaving
<1>3. at # "loop" /\ at # "adding" => StopMutexFree
  BY DEF Counted, Racing
<1>4. CASE PickIndex
  <2>1. at = "loop" /\ at' = "picked" /\ UNCHANGED <<CurLinks, MaxLinks, registered, overrun>>
    BY <1>4 DEF PickIndex, counters, kernel
  <2>2. ConnectIndex' \in Index
    <3>1. CASE idle = <<>>
      <4>1. ConnectIndex' = MaxLinks
        BY <1>4, <3>1 DEF PickIndex
      <4> QED
        BY <1>1, <4>1, SizeAssumption DEF Roomy, Counted, Index, Slots
    <3>2. CASE idle # <<>>
      BY <1>4, <3>2 DEF PickIndex, Types, TypeOK
    <3> QED
      BY <3>1, <3>2
  <2>3. Pending' = Pending /\ Open' = Open
    BY <2>1 DEF Pending, Open
  <2> QED
    BY <1>2, <2>1, <2>2, <2>3 DEF Counted
<1>5. CASE AcceptFails
  <2>1. at = "picked" /\ at' = "loop" /\ UNCHANGED <<CurLinks, MaxLinks, registered, overrun>>
    BY <1>5 DEF AcceptFails, BackToLoop, counters, kernel
  <2>2. Pending' = Pending /\ Open' = Open
    BY <2>1 DEF Pending, Open
  <2> QED
    BY <1>2, <2>1, <2>2 DEF Counted
<1>6. CASE \E f \in Fds : Accept(f)
  <2>1. /\ at = "picked" /\ at' = "counting" /\ loaded' = CurLinks
        /\ UNCHANGED <<CurLinks, MaxLinks, registered, ConnectIndex>>
    BY <1>6 DEF Accept, counters, kernel
  <2>2. overrun' = overrun
    BY <1>6, Numbers DEF Accept, Counted
  <2>3. Pending' = Pending /\ Open' = Open
    BY <2>1 DEF Pending, Open
  <2> QED
    BY <1>2, <2>1, <2>2, <2>3 DEF Counted
<1>7. CASE Count
  <2>1. UNCHANGED <<MaxLinks, registered, ConnectIndex, overrun>> /\ Open' = Open
    BY <1>7 DEF Count, kernel, Open
  <2>2. Leaving = 0 /\ \A w \in Workers : task[w].at # "closing"
    BY <1>3, <1>7, NobodyLeaves DEF Count
  <2>3. \/ at = "counting" /\ at' = "counted" /\ CurLinks' = CurLinks + 1
        \/ at = "uncounting" /\ at' = "uncounted" /\ CurLinks' = CurLinks - 1
    BY <1>7 DEF Count, Counted
  <2>4. CurLinks' <= Cardinality(Open) + 1 + Pending'
    BY <1>1, <2>2, <2>3 DEF Counted, Pending
  <2>5. CurLinks' <= Cardinality(Open') + 1 + Pending' + Leaving'
    <3>1. Pending' \in {0, 1}
      BY DEF Pending
    <3> QED
      BY <1>1, <1>2, <2>1, <2>2, <2>4, <3>1
  <2>6. ConnectIndex' \in Index /\ at' \notin {"counting", "uncounting"}
    BY <2>1, <2>3 DEF Counted
  <2> QED
    BY <1>2, <2>1, <2>2, <2>5, <2>6 DEF Counted
<1>8. CASE Compare \/ DropLink
  <2>1. /\ at \in {"counted", "uncounted"} /\ Compared(CurLinks, spoiled)
        /\ at' \in {"loop", "adding"} /\ (at' # "loop" => ConnectIndex' = ConnectIndex)
        /\ UNCHANGED <<registered, overrun>> /\ Open' = Open /\ Pending' = Pending
    BY <1>8 DEF Compare, DropLink, BackToLoop, kernel, new, Open, Pending
  <2>2. Leaving = 0 /\ \A w \in Workers : task[w].at # "closing"
    BY <1>3, <2>1, NobodyLeaves
  <2>3. Cardinality(Open) + 1 <= Cardinality(Fds)
    BY <2>1, FreeDescriptor DEF Types, Places
  <2> DEFINE bound == Cardinality(Open) + 1 + Pending
  <2>4. bound \in Nat /\ bound <= Cardinality(Fds) + 1 /\ CurLinks <= bound
    BY <1>1, <2>2, <2>3 DEF Counted
  <2>5. CurLinks' <= bound /\ MaxLinks' <= Cardinality(Fds) + 1
    BY <1>1, <2>1, <2>4, ComparedCounted
  <2>6. CurLinks' <= Cardinality(Open') + 1 + Pending' + Leaving'
    BY <1>1, <1>2, <2>1, <2>2, <2>5
  <2>7. at # "loop" => ConnectIndex \in Index
    BY DEF Counted
  <2>8. at' # "loop" => ConnectIndex' \in Index
    BY <2>1, <2>7
  <2> QED
    BY <1>2, <2>1, <2>2, <2>5, <2>6, <2>8 DEF Counted
<1>9. CASE Register
  <2>1. /\ at = "adding" /\ at' = "loop" /\ UNCHANGED <<CurLinks, MaxLinks, overrun>>
        /\ registered' = [registered EXCEPT ![ConnectFd] = ConnectIndex]
        /\ ConnectFd \in Fds \ Open /\ ConnectIndex # None
    BY <1>9 DEF Register, BackToLoop, counters, Types, Places
  <2>2. Open' = Open \cup {ConnectFd}
    BY <2>1 DEF Open, Types, TypeOK
  <2>3. Pending = 1 /\ Pending' = 0 /\ Cardinality(Open') = Cardinality(Open) + 1
    BY <2>1, <2>2, FreeDescriptor DEF Pending
  <2>4. CurLinks' <= Cardinality(Open') + 1 + Pending' + Leaving'
    BY <1>1, <1>2, <2>1, <2>3 DEF Counted
  <2> QED
    BY <1>2, <2>1, <2>4 DEF Counted
<1>10. CASE AddFails
  <2>1. /\ at = "adding" /\ at' = "uncounting" /\ loaded' = CurLinks
        /\ UNCHANGED <<CurLinks, MaxLinks, registered, ConnectIndex, overrun>>
    BY <1>10 DEF AddFails, counters, kernel
  <2>2. Pending' = Pending /\ Open' = Open
    BY <2>1 DEF Pending, Open
  <2> QED
    BY <1>2, <2>1, <2>2 DEF Counted
<1> QED
  BY <1>4, <1>5, <1>6, <1>7, <1>8, <1>9, <1>10 DEF NewLink

(* A close forgets at most one descriptor.                                   *)
LEMMA OneForgotten ==
  ASSUME Types, NEW k \in Index, NEW link, Release(k, link)
  PROVE  /\ Cardinality(Open') \in Nat /\ Cardinality(Open') >= Cardinality(Open) - 1
         /\ Open' \subseteq Open
<1>1. Open' = Open \ {link.fd}
  BY ReleaseTypes
<1>2. Cardinality(Open \ {link.fd})
        = IF link.fd \in Open THEN Cardinality(Open) - 1 ELSE Cardinality(Open)
  BY Arithmetic, FS_RemoveElement
<1>3. Cardinality(Open \ {link.fd}) \in Nat
  BY Arithmetic, FS_RemoveElement, FS_CardinalityType
<1> QED
  BY <1>1, <1>2, <1>3, Arithmetic

LEMMA ShutCounted == ASSUME Types, Counted, Shut PROVE Counted'
<1>1. /\ CurLinks \in Int /\ Cardinality(Open) \in Nat /\ Cardinality(Fds) \in Nat
      /\ Head(batch) \in Index
  BY Arithmetic DEF Shut, Types, TypeOK
<1>2. /\ at = "loop" /\ StopMutexFree /\ UNCHANGED <<at, ConnectIndex, loaded, task, overrun>>
  BY DEF Shut, new
<1>3. /\ Leaving = 0 /\ Leaving' = 0 /\ Pending = 0 /\ Pending' = 0 /\ ~Racing'
      /\ \A w \in Workers : task[w].at # "closing"
  BY <1>2, NobodyLeaves DEF Leaving, Pending, Racing
<1>4. CASE closeConnect(Head(batch), links[Head(batch)])
  <2>1. /\ Release(Head(batch), links[Head(batch)])
        /\ Compared(CurLinks - 1, Spoils(Head(batch)))
    BY <1>4 DEF closeConnect, updateCurConnects
  <2>2. Cardinality(Open') \in Nat /\ Cardinality(Open') >= Cardinality(Open) - 1
        /\ Open' \subseteq Open
    BY <1>1, <2>1, OneForgotten
  <2>3. Cardinality(Open') <= Cardinality(Fds)
    <3>1. Open' \in SUBSET Fds
      BY <2>2 DEF Open
    <3> QED
      BY <3>1, SizeAssumption, FS_Subset
  <2> DEFINE bound == Cardinality(Open') + 1
  <2>4. bound \in Nat /\ bound <= Cardinality(Fds) + 1 /\ CurLinks - 1 <= bound
        /\ CurLinks - 1 \in Int
    BY <1>1, <1>3, <2>2, <2>3 DEF Counted
  <2>5. CurLinks' <= bound /\ MaxLinks' <= Cardinality(Fds) + 1
    BY <2>1, <2>4, ComparedCounted
  <2> QED
    BY <1>2, <1>3, <2>2, <2>5 DEF Counted
<1>5. CASE UNCHANGED <<kernel, idle, counters, spoiled>>
  <2>1. Open' = Open
    BY <1>5 DEF kernel, Open
  <2> QED
    BY <1>2, <1>3, <1>5, <2>1 DEF counters, Counted
<1> QED
  BY <1>4, <1>5 DEF Shut, stopConnect

LEMMA CloserCounted ==
  ASSUME Types, Counted, ~Racing', NEW w \in Workers,
         \/ WorkerStop(w) /\ ToBeClosed(links[task[w].slot], 0)
         \/ WorkerCount(w) \/ WorkerCompare(w)
  PROVE  Counted'
<1>1. /\ CurLinks \in Int /\ MaxLinks \in Nat \ {0} /\ Pending \in {0, 1}
      /\ Cardinality(Open) \in Nat /\ Cardinality(Fds) \in Nat
      /\ task \in [Workers -> Task]
      /\ task[w].at # "free" => task[w].slot \in Index
  BY Arithmetic DEF Types, TypeOK, Pending, Places, Task
<1>2. UNCHANGED <<at, ConnectIndex, loaded, overrun>> /\ Pending' = Pending
  BY DEF WorkerStop, WorkerCount, WorkerCompare, new, Pending
<1>3. at \in {"loop", "adding"}
  <2>1. CASE WorkerStop(w) /\ ToBeClosed(links[task[w].slot], 0)
    <3>1. task'[w].at = "closing"
      BY <1>1, <2>1 DEF WorkerStop
    <3> QED
      BY <1>2, <3>1 DEF Racing, StopMutexFree, Closing
  <2>2. CASE WorkerCount(w) \/ WorkerCompare(w)
    BY <2>2 DEF WorkerCount, WorkerCompare, Counted, Racing, StopMutexFree, Closing
  <2> QED
    BY <2>1, <2>2
<1>4. Cardinality(Open) + 1 + Pending <= Cardinality(Fds) + 1
  <2>1. CASE at = "loop"
    BY <1>1, <2>1, Arithmetic DEF Pending
  <2>2. CASE at = "adding"
    <3>1. ConnectFd \in Fds /\ ConnectFd \notin Open
      BY <2>2 DEF Types, Places
    <3>2. Cardinality(Open) + 1 <= Cardinality(Fds)
      BY <3>1, FreeDescriptor
    <3> QED
      BY <1>1, <2>2, <3>2 DEF Pending
  <2> QED
    BY <1>3, <2>1, <2>2
<1>5. CASE WorkerStop(w) /\ ToBeClosed(links[task[w].slot], 0)
  <2>1. /\ Release(task[w].slot, links[task[w].slot]) /\ UNCHANGED <<CurLinks, MaxLinks>>
        /\ task[w].slot \in Index /\ StopMutexFree
        /\ task' = [task EXCEPT ![w] =
                      [slot |-> task[w].slot, at |-> "closing", loaded |-> CurLinks]]
    BY <1>1, <1>5 DEF WorkerStop, counters
  <2>2. Leaving = 0 /\ \A v \in Workers : task[v].at # "closing"
    BY <2>1, NobodyLeaves
  <2>3. task'[w].at = "closing" /\ task'[w].loaded = CurLinks
        /\ \A v \in Workers : v # w => task'[v] = task[v]
    BY <1>1, <2>1
  <2>4. Leaving' = 1 /\ \A v \in Workers : task'[v].at = "closing" => task'[v].loaded = CurLinks
    BY <2>2, <2>3 DEF Leaving
  <2>5. Cardinality(Open') \in Nat /\ Cardinality(Open') >= Cardinality(Open) - 1
    BY <2>1, OneForgotten
  <2>6. CurLinks' <= Cardinality(Open') + 1 + Pending' + Leaving'
    BY <1>1, <1>2, <2>1, <2>2, <2>4, <2>5 DEF Counted
  <2> QED
    BY <1>2, <2>1, <2>4, <2>6 DEF Counted
<1>6. CASE WorkerCount(w)
  <2>1. /\ CurLinks' = CurLinks - 1 /\ UNCHANGED <<MaxLinks, registered>> /\ Open' = Open
        /\ task'[w].at = "closed" /\ Closing(w)
        /\ \A v \in Workers : v # w => task'[v] = task[v]
    BY <1>1, <1>6 DEF WorkerCount, kernel, Counted, Open, Closing
  <2>2. \A v \in Workers : task'[v].at # "closing"
    BY <2>1 DEF Types, OneCloses, Closing
  <2>3. Leaving \in {0, 1} /\ Leaving' = 0
    BY <2>2 DEF Leaving
  <2>4. CurLinks' <= Cardinality(Open') + 1 + Pending' + Leaving'
    BY <1>1, <1>2, <2>1, <2>3 DEF Counted
  <2> QED
    BY <1>2, <1>3, <2>1, <2>2, <2>4 DEF Counted
<1>7. CASE WorkerCompare(w)
  <2>1. /\ Compared(CurLinks, spoiled) /\ UNCHANGED registered /\ Open' = Open
        /\ task'[w].at = "free" /\ task[w].at = "closed" /\ Closing(w)
        /\ \A v \in Workers : v # w => task'[v] = task[v]
    BY <1>1, <1>7 DEF WorkerCompare, kernel, Open, Closing, NoTask
  <2>2. \A v \in Workers : task'[v].at # "closing" /\ task[v].at # "closing"
    BY <2>1 DEF Types, OneCloses, Closing
  <2>3. Leaving = 0 /\ Leaving' = 0
    BY <2>2 DEF Leaving
  <2> DEFINE bound == Cardinality(Open) + 1 + Pending
  <2>4. bound \in Nat /\ CurLinks <= bound
    BY <1>1, <2>3 DEF Counted
  <2>5. CurLinks' <= bound /\ MaxLinks' <= Cardinality(Fds) + 1
    BY <1>1, <1>4, <2>1, <2>4, ComparedCounted
  <2> QED
    BY <1>1, <1>2, <1>3, <2>1, <2>2, <2>3, <2>5 DEF Counted
<1> QED
  BY <1>5, <1>6, <1>7

(* The steps, as the two invariants tell them apart. *)
LEMMA StepCases ==
  ASSUME Step
  PROVE  \/ QuietStep \/ NewLink \/ Shut
         \/ \E w \in Workers : \/ WorkerStop(w) /\ ToBeClosed(links[task[w].slot], 0)
                              \/ WorkerCount(w) \/ WorkerCompare(w)
BY DEF Step, Work, QuietStep

LEMMA StepCounted ==
  Roomy /\ Types /\ (raced \/ Counted) /\ [Next]_vars => (raced \/ Counted)'
<1> SUFFICES ASSUME Roomy, Types, raced \/ Counted, [Next]_vars PROVE (raced \/ Counted)'
  OBVIOUS
<1>1. CASE UNCHANGED vars
  <2>1. Quiet /\ Racing' = Racing /\ raced' = raced
    BY <1>1 DEF vars, counters, kernel, new, Quiet, Racing, StopMutexFree, Closing
  <2> QED
    BY <2>1, QuietCounted DEF Counted
<1>2. CASE Step /\ raced' = (raced \/ Racing')
  <2>1. CASE raced \/ Racing'
    BY <1>2, <2>1
  <2>2. CASE Counted /\ ~Racing'
    BY <1>2, <2>2, StepCases, QuietSteps, QuietCounted, NewLinkCounted, ShutCounted, CloserCounted
  <2> QED
    BY <2>1, <2>2
<1> QED
  BY <1>1, <1>2 DEF Next, Stopped

(* No index past the end of pConnects is ever used (main.c:180-212), though  *)
(* indices are lost when accept, malloc or epoll_ctl fails and threads may   *)
(* close connections, too, unless one of them does while a new link is made. *)
THEOREM ArrayNeverOverrun == Roomy => (Spec => []NoOverrun)
<1> SUFFICES ASSUME Roomy PROVE Spec => []NoOverrun
  OBVIOUS
<1>1. raced \/ Counted => NoOverrun
  BY DEF Counted, NoOverrun
<1> QED
  BY <1>1, InitTypes, StepTypes, InitCounted, StepCounted, PTL DEF Spec

-------------------------------------------------------------------------------
(* An index names one connection, and none is lost, until a call fails, a    *)
(* slot is closed twice or a close meets a new link.  Each index below       *)
(* MaxLinks is in the idle list, once, or the index of one open descriptor,  *)
(* which its slot holds, or the new link's.  CurLinks counts the open ones,  *)
(* so a fresh index is taken only when the idle list is empty.               *)

(* A fresh index: it is the next one until CurLinks has been compared.       *)
Fresh == at # "loop" /\ ConnectIndex = MaxLinks

Holding ==
  /\ \A f \in Open : links[registered[f]].fd = f /\ registered[f] < MaxLinks
  /\ at \in {"counting", "counted", "adding"} => links[ConnectIndex].fd = ConnectFd

Apart ==
  /\ \A i, j \in DOMAIN idle : idle[i] = idle[j] => i = j
  /\ \A i \in DOMAIN idle : idle[i] < MaxLinks /\ idle[i] \notin Live
  /\ at # "loop" => /\ ConnectIndex \notin Live
                    /\ \A i \in DOMAIN idle : idle[i] # ConnectIndex
                    /\ ConnectIndex <= MaxLinks

Complete ==
  \A k \in 1 .. MaxLinks - 1 :
    k \in Live \/ (\E i \in DOMAIN idle : idle[i] = k) \/ (at # "loop" /\ ConnectIndex = k)

Balanced ==
  /\ at \in {"loop", "adding"} => CurLinks + Len(idle) = MaxLinks + Leaving
  /\ at \in {"picked", "counting", "counted"} =>
       CurLinks + Len(idle) + (IF Fresh THEN 0 ELSE 1)
         = MaxLinks + (IF at = "counted" THEN 1 ELSE 0)
  /\ Fresh => idle = <<>> /\ at # "adding"
  /\ at \notin {"uncounting", "uncounted"}

Owned == Holding /\ Apart /\ Complete /\ Balanced

LEMMA InitOwned == Init => Owned
<1> SUFFICES ASSUME Init PROVE Owned
  OBVIOUS
<1>1. Open = {} /\ idle = <<>> /\ CurLinks = 1 /\ MaxLinks = 1 /\ at = "loop"
  BY DEF Open, Init
<1>2. Leaving = 0
  BY DEF Init, Leaving, NoTask
<1> QED
  BY <1>1, <1>2 DEF Owned, Holding, Apart, Complete, Balanced, Fresh

LEMMA Ranges ==
  ASSUME Types
  PROVE  /\ CurLinks \in Int /\ MaxLinks \in Nat \ {0}
         /\ idle \in Seq(Index) /\ Len(idle) \in Nat /\ DOMAIN idle = 1 .. Len(idle)
         /\ \A i \in DOMAIN idle : idle[i] \in Index
         /\ \A f \in Open : registered[f] \in Index
         /\ \A k \in Index : k \in Slots /\ k \in Nat /\ k >= 1
         /\ Leaving \in {0, 1}
<1>1. CurLinks \in Int /\ MaxLinks \in Nat \ {0} /\ Leaving \in {0, 1}
  BY DEF Types, TypeOK, Leaving
<1>2. idle \in Seq(Index) /\ Len(idle) \in Nat /\ DOMAIN idle = 1 .. Len(idle)
      /\ \A i \in DOMAIN idle : idle[i] \in Index
  BY DEF Types, TypeOK
<1>3. \A f \in Open : registered[f] \in Index
  BY DEF Types, TypeOK, Open
<1>4. \A k \in Index : k \in Slots /\ k \in Nat /\ k >= 1
  BY Numbers
<1> QED
  BY <1>1, <1>2, <1>3, <1>4

LEMMA QuietOwned == ASSUME Types, Counted, Quiet, Owned PROVE Owned'
<1>1. Open' = Open /\ Live' = Live /\ Fresh' = Fresh /\ Leaving' = Leaving
  BY DEF Quiet, Open, Live, Fresh, Leaving
<1>2. \A f \in Open : registered[f] \in Slots
  BY Ranges
<1>3. at # "loop" => ConnectIndex \in Slots
  BY Numbers DEF Counted
<1>4. Holding'
  BY <1>1, <1>2, <1>3 DEF Quiet, Owned, Holding
<1>5. Apart'
  BY <1>1 DEF Quiet, Owned, Apart
<1>6. Complete'
  BY <1>1 DEF Quiet, Owned, Complete
<1>7. Balanced'
  BY <1>1 DEF Quiet, Owned, Balanced
<1> QED
  BY <1>4, <1>5, <1>6, <1>7 DEF Owned

(* The index taken is the first idle one or a fresh one: nobody has it.      *)
LEMMA PickOwned == ASSUME Types, Counted, Owned, PickIndex, ~Racing' PROVE Owned'
<1>1. /\ at = "loop" /\ at' = "picked" /\ UNCHANGED <<links, CurLinks, MaxLinks, registered, task>>
      /\ ConnectIndex' = IF idle = <<>> THEN MaxLinks ELSE Head(idle)
      /\ idle' = IdleAfterTake
  BY DEF PickIndex, counters, kernel
<1>2. Open' = Open /\ Live' = Live
  BY <1>1 DEF Open, Live
<1>3. Leaving = 0
  BY <1>1, NobodyLeaves DEF Racing, StopMutexFree, Closing
<1>4. CurLinks + Len(idle) = MaxLinks
  BY <1>1, <1>3, Ranges DEF Owned, Balanced
<1>5. Holding'
  BY <1>1, <1>2 DEF Owned, Holding
<1>6. CASE idle = <<>>
  <2>1. ConnectIndex' = MaxLinks /\ idle' = <<>> /\ Fresh'
    BY <1>1, <1>6 DEF IdleAfterTake, Fresh
  <2>2. MaxLinks \notin Live
    BY Ranges DEF Owned, Holding, Open, Live
  <2>3. Apart'
    BY <1>1, <1>2, <2>1, <2>2, Ranges DEF Apart
  <2>4. Complete'
    BY <1>1, <1>2, <1>6, <2>1 DEF Owned, Complete
  <2>5. Balanced'
    BY <1>1, <1>4, <1>6, <2>1, Ranges DEF Balanced
  <2> QED
    BY <1>5, <2>3, <2>4, <2>5 DEF Owned
<1>7. CASE idle # <<>>
  <2>1. /\ ConnectIndex' = idle[1] /\ 1 \in DOMAIN idle
        /\ Len(idle') = Len(idle) - 1 /\ DOMAIN idle' = 1 .. Len(idle) - 1
        /\ \A i \in DOMAIN idle' : i + 1 \in DOMAIN idle /\ idle'[i] = idle[i + 1] /\ i + 1 # 1
    BY <1>1, <1>7, Ranges DEF IdleAfterTake
  <2>2. idle[1] < MaxLinks /\ idle[1] \notin Live /\ idle[1] \in Nat
    BY <2>1, Ranges DEF Owned, Apart
  <2>3. ~Fresh'
    BY <1>1, <2>1, <2>2, Ranges DEF Fresh
  <2>4. Apart'
    <3>1. ASSUME NEW i \in DOMAIN idle', NEW j \in DOMAIN idle', idle'[i] = idle'[j]
          PROVE  i = j
      <4>1. i + 1 = j + 1 /\ i \in Int /\ j \in Int
        BY <2>1, <3>1, Ranges DEF Owned, Apart
      <4> QED
        BY <4>1
    <3>2. \A i \in DOMAIN idle' : idle'[i] < MaxLinks /\ idle'[i] \notin Live
                                  /\ idle'[i] # idle[1]
      BY <2>1 DEF Owned, Apart
    <3>3. idle[1] <= MaxLinks
      BY <2>2, Ranges
    <3> QED
      BY <1>1, <1>2, <2>1, <2>2, <3>1, <3>2, <3>3 DEF Apart
  <2>5. ASSUME NEW k \in 1 .. MaxLinks - 1
        PROVE  k \in Live \/ (\E i \in DOMAIN idle' : idle'[i] = k) \/ idle[1] = k
    <3>1. ASSUME NEW i \in DOMAIN idle, idle[i] = k, i # 1
          PROVE  \E h \in DOMAIN idle' : idle'[h] = k
      <4>1. i - 1 \in DOMAIN idle'
        BY <2>1, <3>1, Ranges
      <4>2. idle'[i - 1] = k
        BY <2>1, <3>1, <4>1, Ranges
      <4> QED
        BY <4>1, <4>2
    <3> QED
      BY <1>1, <3>1 DEF Owned, Complete
  <2>6. Complete'
    BY <1>1, <1>2, <2>1, <2>5 DEF Complete
  <2>7. Balanced'
    BY <1>1, <1>4, <2>1, <2>3, Ranges DEF Balanced
  <2> QED
    BY <1>5, <2>4, <2>6, <2>7 DEF Owned
<1> QED
  BY <1>6, <1>7

(* The new link's slot is nobody else's.                                     *)
LEMMA AcceptOwned ==
  ASSUME Types, Counted, Owned, NEW f \in Fds, Accept(f) PROVE Owned'
<1>1. /\ at = "picked" /\ at' = "counting" /\ ConnectFd' = f
      /\ UNCHANGED <<idle, CurLinks, MaxLinks, registered, ConnectIndex, task>>
  BY DEF Accept, counters, kernel
<1>2. ConnectIndex \in Index /\ ConnectIndex \in Slots
  BY <1>1, Ranges DEF Counted
<1>3. links' = [links EXCEPT ![ConnectIndex] = initConnect(f)] /\ links \in [Slots -> LINK_INFO]
  BY <1>2 DEF Accept, Types, TypeOK
<1>4. Open' = Open /\ Live' = Live /\ Fresh' = Fresh
  BY <1>1 DEF Open, Live, Fresh
<1>5. links'[ConnectIndex].fd = f /\ \A k \in Slots : k # ConnectIndex => links'[k] = links[k]
  BY <1>2, <1>3 DEF initConnect
<1>6. \A g \in Open : registered[g] # ConnectIndex /\ registered[g] \in Slots
  BY <1>1, Ranges DEF Owned, Apart, Live, Open
<1>7. Holding'
  BY <1>1, <1>4, <1>5, <1>6 DEF Owned, Holding
<1>8. Apart' /\ Complete'
  BY <1>1, <1>4 DEF Owned, Apart, Complete
<1>9. Balanced'
  BY <1>1, <1>4 DEF Owned, Balanced
<1> QED
  BY <1>7, <1>8, <1>9 DEF Owned

LEMMA CountOwned == ASSUME Types, Counted, Owned, Count PROVE Owned'
<1>1. /\ at = "counting" /\ at' = "counted" /\ CurLinks' = CurLinks + 1
      /\ UNCHANGED <<links, idle, MaxLinks, registered, ConnectIndex, ConnectFd>>
  BY DEF Count, kernel, Counted, Owned, Balanced
<1>2. Open' = Open /\ Live' = Live /\ Fresh' = Fresh
  BY <1>1 DEF Open, Live, Fresh
<1>3. Holding'
  BY <1>1, <1>2 DEF Owned, Holding
<1>4. Apart' /\ Complete'
  BY <1>1, <1>2 DEF Owned, Apart, Complete
<1>5. Balanced'
  BY <1>1, <1>2, Ranges DEF Owned, Balanced
<1> QED
  BY <1>3, <1>4, <1>5 DEF Owned

(* A fresh index is below MaxLinks once CurLinks has been compared.          *)
LEMMA CompareOwned == ASSUME Types, Counted, Owned, Compare, ~spoiled, ~spoiled' PROVE Owned'
<1>1. /\ at = "counted" /\ at' = "adding" /\ CurLinks' = CurLinks
      /\ MaxLinks' = IF CurLinks > MaxLinks THEN CurLinks ELSE MaxLinks
      /\ UNCHANGED <<links, idle, registered, ConnectIndex, ConnectFd, task>>
  BY DEF Compare, Compared, kernel, new
<1>2. Open' = Open /\ Live' = Live
  BY <1>1 DEF Open, Live
<1>3. ConnectIndex \in Nat
  BY <1>1, Ranges DEF Counted
<1>4. Leaving' = 0
  <2>1. StopMutexFree
    BY <1>1 DEF Counted, Racing
  <2> QED
    BY <1>1, <2>1, NobodyLeaves DEF Leaving
<1>5. CurLinks + Len(idle) + (IF Fresh THEN 0 ELSE 1) = MaxLinks + 1
  BY <1>1 DEF Owned, Balanced
<1>6. CASE Fresh
  <2>1. idle = <<>> /\ ConnectIndex = MaxLinks
    BY <1>6 DEF Owned, Balanced, Fresh
  <2>2. CurLinks = MaxLinks + 1 /\ MaxLinks' = MaxLinks + 1
    BY <1>1, <1>5, <1>6, <2>1, Ranges
  <2>3. ~Fresh'
    BY <1>1, <2>1, <2>2, Ranges DEF Fresh
  <2>4. \A g \in Open : registered[g] < MaxLinks'
    BY <2>2, Ranges DEF Owned, Holding
  <2>5. Holding'
    BY <1>1, <1>2, <2>4 DEF Owned, Holding
  <2>6. Apart'
    BY <1>1, <1>2, <2>1, <2>2, Ranges DEF Owned, Apart
  <2>7. Complete'
    <3> SUFFICES ASSUME NEW k \in 1 .. MaxLinks' - 1, k # MaxLinks
                 PROVE  k \in Live
      BY <1>1, <1>2, <2>1 DEF Complete
    <3>1. k \in 1 .. MaxLinks - 1
      BY <2>2, Ranges
    <3> QED
      BY <2>1, <3>1 DEF Owned, Complete
  <2>8. Balanced'
    BY <1>1, <1>4, <2>1, <2>2, <2>3, Ranges DEF Balanced
  <2> QED
    BY <2>5, <2>6, <2>7, <2>8 DEF Owned
<1>7. CASE ~Fresh
  <2>1. CurLinks + Len(idle) = MaxLinks
    BY <1>5, <1>7, Ranges
  <2>2. MaxLinks' = MaxLinks
    BY <1>1, <2>1, Ranges
  <2>3. ~Fresh'
    BY <1>1, <1>7, <2>2 DEF Fresh
  <2>4. Holding'
    BY <1>1, <1>2, <2>2 DEF Owned, Holding
  <2>5. Apart' /\ Complete'
    BY <1>1, <1>2, <2>2 DEF Owned, Apart, Complete
  <2>6. Balanced'
    BY <1>1, <1>4, <2>1, <2>2, <2>3, Ranges DEF Balanced
  <2> QED
    BY <2>4, <2>5, <2>6 DEF Owned
<1> QED
  BY <1>6, <1>7

LEMMA RegisterOwned == ASSUME Types, Counted, Owned, Register PROVE Owned'
<1> DEFINE c == ConnectIndex
           f == ConnectFd
<1>1. /\ at = "adding" /\ at' = "loop"
      /\ UNCHANGED <<links, idle, CurLinks, MaxLinks, task>>
      /\ registered' = [registered EXCEPT ![f] = c]
  BY DEF Register, BackToLoop, counters
<1>2. f \in Fds /\ f \notin Open /\ c \in Index /\ c # None
  BY <1>1 DEF Types, Places, Counted
<1>3. c \notin Live /\ c < MaxLinks /\ links[c].fd = f
  <2>1. c <= MaxLinks /\ c # MaxLinks
    BY <1>1 DEF Owned, Apart, Balanced, Fresh
  <2>2. c \in Nat
    BY <1>2, Ranges
  <2> QED
    BY <1>1, <2>1, <2>2, Ranges DEF Owned, Apart, Holding
<1> HIDE DEF c, f
<1>4. registered \in [Fds -> Index \cup {None}]
  BY DEF Types, TypeOK
<1>5. /\ Open' = Open \cup {f} /\ Live' = Live \cup {c} /\ registered'[f] = c
      /\ \A g \in Open : registered'[g] = registered[g]
  <2>1. registered'[f] = c /\ \A g \in Fds : g # f => registered'[g] = registered[g]
    BY <1>1, <1>2, <1>4
  <2>2. Open' = Open \cup {f}
    BY <1>2, <2>1 DEF Open
  <2>3. Live' = Live \cup {c}
    <3>1. \A x : x \in Live' <=> \E g \in Open' : registered'[g] = x
      BY DEF Live, Open
    <3>2. \A x : x \in Live <=> \E g \in Open : registered[g] = x
      BY DEF Live, Open
    <3>3. \A g \in Open : registered'[g] = registered[g]
      BY <1>2, <2>1 DEF Open
    <3> QED
      BY <2>1, <2>2, <3>1, <3>2, <3>3
  <2> QED
    BY <1>2, <2>1, <2>2, <2>3 DEF Open
<1>6. Leaving' = Leaving /\ ~Fresh'
  BY <1>1 DEF Leaving, Fresh
<1>7. Holding'
  BY <1>1, <1>3, <1>5 DEF Owned, Holding
<1>8. \A i \in DOMAIN idle : idle[i] # c
  BY <1>1 DEF Owned, Apart, c
<1>9. Apart'
  BY <1>1, <1>5, <1>8 DEF Owned, Apart
<1>10. Complete'
  BY <1>1, <1>5 DEF Owned, Complete, c
<1>11. Balanced'
  BY <1>1, <1>6 DEF Owned, Balanced
<1> QED
  BY <1>7, <1>9, <1>10, <1>11 DEF Owned

(* A close gives an index back that was in use, or spoils the history.       *)
LEMMA ReleaseOwned ==
  ASSUME Types, Counted, Owned, at \in {"loop", "adding"}, NEW k \in Index,
         Release(k, links[k]), ~Spoils(k),
         UNCHANGED <<links, MaxLinks, at, ConnectIndex, ConnectFd>>
  PROVE  /\ Holding' /\ Apart' /\ Complete'
         /\ Len(idle') = Len(idle) + 1
         /\ ~Fresh'
<1>1. k \in Live /\ idle' = Append(idle, k)
      /\ registered' = [g \in Fds |-> IF g = links[k].fd THEN None ELSE registered[g]]
  BY DEF Release, Spoils
<1>2. PICK f \in Open : registered[f] = k
  BY <1>1 DEF Live, Open
<1>3. links[k].fd = f /\ k < MaxLinks
  BY <1>2 DEF Owned, Holding
<1>4. Open' = Open \ {f} /\ \A g \in Open' : registered'[g] = registered[g]
  BY <1>1, <1>3 DEF Open
<1>5. \A g \in Open : registered[g] = k => g = f
  BY <1>3 DEF Owned, Holding
<1>6. Live' = Live \ {k}
  <2>1. \A x : x \in Live' <=> \E g \in Open' : registered'[g] = x
    BY DEF Live, Open
  <2>2. \A x : x \in Live <=> \E g \in Open : registered[g] = x
    BY DEF Live, Open
  <2> QED
    BY <1>2, <1>4, <1>5, <2>1, <2>2
<1>7. /\ Len(idle') = Len(idle) + 1
      /\ DOMAIN idle' = 1 .. Len(idle) + 1
      /\ \A i \in 1 .. Len(idle) : idle'[i] = idle[i]
      /\ idle'[Len(idle) + 1] = k
  BY <1>1, Ranges
<1>8. /\ \A i \in DOMAIN idle : idle[i] # k /\ idle[i] < MaxLinks
      /\ at # "loop" => ConnectIndex # k
  BY <1>1 DEF Owned, Apart
<1>9. Holding'
  BY <1>4 DEF Owned, Holding
<1>10. Apart'
  <2>1. \A i, j \in DOMAIN idle' : idle'[i] = idle'[j] => i = j
    BY <1>7, <1>8, Ranges DEF Owned, Apart
  <2>2. \A i \in DOMAIN idle' : idle'[i] < MaxLinks /\ idle'[i] \notin Live'
    BY <1>3, <1>6, <1>7, <1>8, Ranges DEF Owned, Apart
  <2>3. at # "loop" => \A i \in DOMAIN idle' : idle'[i] # ConnectIndex
    BY <1>7, <1>8, Ranges DEF Owned, Apart
  <2> QED
    BY <1>6, <2>1, <2>2, <2>3 DEF Owned, Apart
<1>11. Complete'
  <2> SUFFICES ASSUME NEW x \in 1 .. MaxLinks - 1
               PROVE  \/ x \in Live' \/ \E i \in DOMAIN idle' : idle'[i] = x
                      \/ at # "loop" /\ ConnectIndex = x
    BY DEF Complete
  <2>1. CASE x = k
    BY <1>7, <2>1, Ranges
  <2>2. CASE x # k
    <3>1. x \in Live \/ (\E i \in DOMAIN idle : idle[i] = x) \/ (at # "loop" /\ ConnectIndex = x)
      BY DEF Owned, Complete
    <3> QED
      BY <1>6, <1>7, <2>2, <3>1, Ranges
  <2> QED
    BY <2>1, <2>2
<1>12. ~Fresh'
  BY DEF Owned, Balanced, Fresh
<1> QED
  BY <1>7, <1>9, <1>10, <1>11, <1>12

LEMMA ShutOwned == ASSUME Types, Counted, Owned, Shut, ~spoiled' PROVE Owned'
<1> DEFINE k == Head(batch)
<1>1. /\ at = "loop" /\ StopMutexFree /\ k \in Index
      /\ UNCHANGED <<links, at, ConnectIndex, ConnectFd, loaded, task, overrun>>
  BY DEF Shut, new, Types, TypeOK
<1>2. Leaving = 0 /\ Leaving' = 0
  BY <1>1, NobodyLeaves DEF Leaving
<1>3. CurLinks + Len(idle) = MaxLinks
  BY <1>1, <1>2, Ranges DEF Owned, Balanced
<1>4. CASE closeConnect(k, links[k])
  <2>1. Release(k, links[k]) /\ Compared(CurLinks - 1, Spoils(k))
    BY <1>4 DEF closeConnect, updateCurConnects
  <2>2. /\ CurLinks' = CurLinks - 1 /\ ~Spoils(k)
        /\ MaxLinks' = IF CurLinks - 1 > MaxLinks THEN CurLinks - 1 ELSE MaxLinks
    BY <2>1 DEF Compared
  <2>3. MaxLinks' = MaxLinks
    BY <1>3, <2>2, Ranges
  <2>4. Holding' /\ Apart' /\ Complete' /\ Len(idle') = Len(idle) + 1 /\ ~Fresh'
    BY <1>1, <2>1, <2>2, <2>3, ReleaseOwned
  <2>5. Balanced'
    BY <1>1, <1>2, <1>3, <2>2, <2>3, <2>4, Ranges DEF Balanced
  <2> QED
    BY <2>4, <2>5 DEF Owned
<1>5. CASE UNCHANGED <<kernel, idle, counters, spoiled>>
  <2>1. Quiet
    BY <1>1, <1>5 DEF kernel, counters, Quiet
  <2> QED
    BY <2>1, QuietOwned
<1> QED
  BY <1>4, <1>5 DEF Shut, stopConnect

LEMMA CloserOwned ==
  ASSUME Types, Counted, Owned, ~Racing', ~spoiled', NEW w \in Workers,
         \/ WorkerStop(w) /\ ToBeClosed(links[task[w].slot], 0)
         \/ WorkerCount(w) \/ WorkerCompare(w)
  PROVE  Owned'
<1>1. /\ task \in [Workers -> Task]
      /\ task[w].at # "free" => task[w].slot \in Index
  BY DEF Types, TypeOK, Places, Task
<1>2. UNCHANGED <<links, at, ConnectIndex, ConnectFd>>
  BY DEF WorkerStop, WorkerCount, WorkerCompare, new
<1>3. at \in {"loop", "adding"} /\ CurLinks + Len(idle) = MaxLinks + Leaving
  <2>1. CASE WorkerStop(w) /\ ToBeClosed(links[task[w].slot], 0)
    <3>1. task'[w].at = "closing"
      BY <1>1, <2>1 DEF WorkerStop
    <3> QED
      BY <1>2, <3>1 DEF Racing, StopMutexFree, Closing, Owned, Balanced
  <2>2. CASE WorkerCount(w) \/ WorkerCompare(w)
    BY <2>2 DEF WorkerCount, WorkerCompare, Counted, Racing, StopMutexFree, Closing, Owned, Balanced
  <2> QED
    BY <2>1, <2>2
<1>4. ~Fresh
  BY <1>3 DEF Owned, Balanced, Fresh
<1>5. CASE WorkerStop(w) /\ ToBeClosed(links[task[w].slot], 0)
  <2> DEFINE k == task[w].slot
  <2>1. /\ Release(k, links[k]) /\ ~Spoils(k) /\ UNCHANGED <<CurLinks, MaxLinks>>
        /\ k \in Index /\ StopMutexFree /\ task'[w].at = "closing"
    BY <1>1, <1>5 DEF WorkerStop, counters
  <2>2. Leaving = 0 /\ Leaving' = 1
    BY <2>1, NobodyLeaves DEF Leaving
  <2>3. Holding' /\ Apart' /\ Complete' /\ Len(idle') = Len(idle) + 1 /\ ~Fresh'
    BY <1>2, <1>3, <2>1, ReleaseOwned
  <2>4. Balanced'
    BY <1>2, <1>3, <2>1, <2>2, <2>3, Ranges DEF Balanced
  <2> QED
    BY <2>3, <2>4 DEF Owned
<1>6. CASE WorkerCount(w) \/ WorkerCompare(w)
  <2>1. /\ UNCHANGED <<idle, registered>> /\ Open' = Open /\ Live' = Live
        /\ task'[w].at # "closing" /\ Closing(w)
        /\ \A v \in Workers : v # w => task'[v] = task[v]
    BY <1>1, <1>6 DEF WorkerCount, WorkerCompare, kernel, Open, Live, Closing, NoTask
  <2>2. \A v \in Workers : v # w => task[v].at # "closing"
    BY <2>1 DEF Types, OneCloses, Closing
  <2>3. Leaving' = 0
    BY <2>1, <2>2 DEF Leaving
  <2>4. CurLinks' + Len(idle) = MaxLinks /\ MaxLinks' = MaxLinks
    <3>1. CASE WorkerCount(w)
      <4>1. Leaving = 1 /\ CurLinks' = CurLinks - 1 /\ MaxLinks' = MaxLinks
        BY <3>1 DEF WorkerCount, Counted, Leaving
      <4> QED
        BY <1>3, <4>1, Ranges
    <3>2. CASE WorkerCompare(w)
      <4>1. Leaving = 0
        BY <2>2, <3>2 DEF WorkerCompare, Leaving
      <4>2. CurLinks' = CurLinks /\ MaxLinks' = IF CurLinks > MaxLinks THEN CurLinks ELSE MaxLinks
        BY <3>2 DEF WorkerCompare, Compared
      <4> QED
        BY <1>3, <4>1, <4>2, Ranges
    <3> QED
      BY <1>6, <3>1, <3>2
  <2>5. ~Fresh'
    BY <1>2, <1>4, <2>4 DEF Fresh
  <2>6. Holding' /\ Apart' /\ Complete'
    BY <1>2, <2>1, <2>4 DEF Owned, Holding, Apart, Complete
  <2>7. CurLinks' + Len(idle') = MaxLinks' + Leaving'
    BY <2>1, <2>3, <2>4, Ranges
  <2>8. Balanced'
    BY <1>2, <1>3, <2>5, <2>7 DEF Balanced
  <2> QED
    BY <2>6, <2>8 DEF Owned
<1> QED
  BY <1>5, <1>6

LEMMA StepOwned ==
  /\ Roomy /\ Types /\ (raced \/ Counted) /\ (spoiled \/ raced \/ Owned) /\ [Next]_vars
  => (spoiled \/ raced \/ Owned)'
<1> SUFFICES ASSUME Roomy, Types, raced \/ Counted, spoiled \/ raced \/ Owned, [Next]_vars,
                    ~spoiled', ~raced'
             PROVE  Owned'
  OBVIOUS
<1>1. CASE UNCHANGED vars
  <2>1. Quiet /\ raced' = raced /\ spoiled' = spoiled
    BY <1>1 DEF vars, counters, kernel, new, Quiet
  <2> QED
    BY <2>1, QuietOwned
<1>2. CASE Step /\ raced' = (raced \/ Racing')
  <2>1. ~raced /\ ~Racing' /\ Counted
    BY <1>2
  <2>2. CASE spoiled
    <3>1. spoiled' = TRUE \/ spoiled' = spoiled \/ spoiled' = Spoils(Head(batch))
          \/ \E w \in Workers : spoiled' = Spoils(task[w].slot)
      <4>1. CASE NewLink
        BY <4>1 DEF NewLink, PickIndex, AcceptFails, Accept, Count, Compare, Register, AddFails,
                    DropLink, Compared
      <4>2. CASE Shut
        BY <4>2 DEF Shut, stopConnect, closeConnect, updateCurConnects, Compared
      <4>3. CASE QuietStep
        BY <4>3, QuietSteps DEF Quiet
      <4>4. ASSUME NEW w \in Workers,
                   \/ WorkerStop(w) /\ ToBeClosed(links[task[w].slot], 0)
                   \/ WorkerCount(w) \/ WorkerCompare(w)
            PROVE  spoiled' = TRUE \/ spoiled' = spoiled \/ spoiled' = Spoils(task[w].slot)
        BY <4>4 DEF WorkerStop, WorkerCount, WorkerCompare, Compared
      <4> QED
        BY <1>2, <4>1, <4>2, <4>3, <4>4, StepCases
    <3> QED
      BY <2>2, <3>1 DEF Spoils
  <2>3. CASE ~spoiled /\ NewLink
    <3>1. ~AcceptFails /\ ~AddFails
      BY DEF AcceptFails, AddFails
    <3>2. ~DropLink
      BY <2>1, <2>3 DEF DropLink, Owned, Balanced
    <3> QED
      BY <2>1, <2>3, <3>1, <3>2, PickOwned, AcceptOwned, CountOwned, CompareOwned, RegisterOwned
      DEF NewLink
  <2>4. CASE ~spoiled /\ ~NewLink
    BY <1>2, <2>1, <2>4, StepCases, QuietSteps, QuietOwned, ShutOwned, CloserOwned
  <2> QED
    BY <2>2, <2>3, <2>4
<1> QED
  BY <1>1, <1>2 DEF Next, Stopped

LEMMA OwnedAlways ==
  Roomy => (Spec => [](Types /\ (raced \/ Counted) /\ (spoiled \/ raced \/ Owned)))
<1> SUFFICES ASSUME Roomy
             PROVE  Spec => [](Types /\ (raced \/ Counted) /\ (spoiled \/ raced \/ Owned))
  OBVIOUS
<1> QED
  BY InitTypes, StepTypes, InitCounted, StepCounted, InitOwned, StepOwned, PTL DEF Spec

LEMMA OwnedExclusive == Owned => SlotsExclusive
BY DEF Owned, Holding, Open, SlotsExclusive

LEMMA OwnedAccounted == Types /\ Owned => SlotsAccounted
<1> SUFFICES ASSUME Types, Owned, at = "loop", StopMutexFree
             PROVE  /\ \A i, j \in DOMAIN idle : idle[i] = idle[j] => i = j
                    /\ Idle \cap Live = {}
                    /\ Idle \cup Live = 1 .. MaxLinks - 1
                    /\ CurLinks + Len(idle) = MaxLinks
  BY DEF SlotsAccounted
<1>1. \A i \in DOMAIN idle : idle[i] \in 1 .. MaxLinks - 1 /\ idle[i] \notin Live
  BY Ranges DEF Owned, Apart
<1>2. \A f \in Open : registered[f] \in 1 .. MaxLinks - 1
  BY Ranges DEF Owned, Holding
<1>3. Live \subseteq 1 .. MaxLinks - 1
  BY <1>2 DEF Live, Open
<1>4. Idle \cap Live = {} /\ Idle \cup Live = 1 .. MaxLinks - 1
  BY <1>1, <1>3 DEF Owned, Complete, Idle
<1>5. CurLinks + Len(idle) = MaxLinks
  BY NobodyLeaves, Ranges DEF Owned, Balanced
<1> QED
  BY <1>4, <1>5 DEF Owned, Apart

(* Until a call fails, a slot is closed twice or a close meets a new link,   *)
(* two open connections never share an index, and the slot an event names    *)
(* holds the event's descriptor: what main.c:178-239 relies on when it uses  *)
(* data.u32 as an index.                                                     *)
THEOREM IndexNamesOneConnection == Roomy => (Spec => []ExclusiveUnlessSpoiled)
<1> SUFFICES ASSUME Roomy PROVE Spec => []ExclusiveUnlessSpoiled
  OBVIOUS
<1>1. (spoiled \/ raced \/ Owned) => ExclusiveUnlessSpoiled
  BY OwnedExclusive DEF ExclusiveUnlessSpoiled
<1> QED
  BY <1>1, OwnedAlways, PTL

(* Until then no index is lost or free twice, and CurLinks counts those in   *)
(* use (connnetpool.c:157-162, main.c:180-212).                              *)
THEOREM NoIndexIsLost == Roomy => (Spec => []AccountedUnlessSpoiled)
<1> SUFFICES ASSUME Roomy PROVE Spec => []AccountedUnlessSpoiled
  OBVIOUS
<1>1. Types /\ (spoiled \/ raced \/ Owned) => AccountedUnlessSpoiled
  BY OwnedAccounted DEF AccountedUnlessSpoiled
<1> QED
  BY <1>1, OwnedAlways, PTL

-------------------------------------------------------------------------------
(* While no call fails and only the main loop closes, nothing is ever        *)
(* spoiled or raced: a slot is closed at an event that names it, an event    *)
(* names an open connection when it is reported, the events of one batch     *)
(* name different ones, and only its own event closes a connection.          *)

OnlyLoopCloses == \A w \in Workers : task[w].at \in {"free", "given", "busy"}

EventsNamed ==
  /\ \A i \in DOMAIN batch : batch[i] # Listen => batch[i] \in Live
  /\ \A i, j \in DOMAIN batch : batch[i] = batch[j] => i = j

Named == spoiled = FALSE /\ raced = FALSE /\ OnlyLoopCloses /\ EventsNamed

LEMMA StepOnlyLoopCloses ==
  ASSUME Faults = {}, Types, OnlyLoopCloses, Step PROVE OnlyLoopCloses' /\ ~Racing'
<1>1. task \in [Workers -> Task]
  BY DEF Types, TypeOK
<1>2. OnlyLoopCloses'
  <2>1. CASE EpollWait \/ NewLink \/ Shut \/ Ignored \/ \E f \in Fds : Arrive(f)
    <3>1. task' = task
      BY <2>1 DEF EpollWait, NewLink, Shut, Ignored, Arrive, PickIndex, AcceptFails, Accept, Count,
                  Compare, Register, AddFails, DropLink
    <3> QED
      BY <3>1 DEF OnlyLoopCloses
  <2>2. ASSUME NEW w \in Workers, Work(w) PROVE OnlyLoopCloses'
    <3>1. task'[w].at \in {"free", "given", "busy"}
          /\ \A v \in Workers : v # w => task'[v] = task[v]
      BY <1>1, <2>2 DEF Work, HandOver, WorkerBegin, WorkerEnd, WorkerStop, WorkerCount,
                        WorkerCompare, OnlyLoopCloses, NoTask, Task
    <3> QED
      BY <3>1 DEF OnlyLoopCloses
  <2> QED
    BY <2>1, <2>2 DEF Step
<1> QED
  BY <1>2 DEF OnlyLoopCloses, Racing, StopMutexFree, Closing

(* The rest of a batch after its first event.                                *)
LEMMA RestNamed ==
  ASSUME Types, EventsNamed, batch # <<>>, batch' = Tail(batch),
         \A k \in Live : k # Head(batch) => k \in Live'
  PROVE  EventsNamed'
<1>1. /\ Len(batch) \in Nat /\ DOMAIN batch = 1 .. Len(batch)
      /\ DOMAIN batch' = 1 .. Len(batch) - 1
      /\ \A i \in 1 .. Len(batch) - 1 : batch'[i] = batch[i + 1]
      /\ 1 \in DOMAIN batch /\ Head(batch) = batch[1]
  BY DEF Types, TypeOK
<1>2. ASSUME NEW i \in DOMAIN batch' PROVE i + 1 \in DOMAIN batch /\ batch'[i] = batch[i + 1]
                                          /\ i \in Nat /\ i + 1 # 1
  BY <1>1
<1>3. ASSUME NEW i \in DOMAIN batch', batch'[i] # Listen PROVE batch'[i] \in Live'
  <2>1. batch[i + 1] \in Live
    BY <1>2, <1>3 DEF EventsNamed
  <2>2. batch[i + 1] # Head(batch)
    BY <1>1, <1>2 DEF EventsNamed
  <2> QED
    BY <1>2, <2>1, <2>2
<1>4. ASSUME NEW i \in DOMAIN batch', NEW j \in DOMAIN batch', batch'[i] = batch'[j]
      PROVE  i = j
  <2>1. i + 1 = j + 1
    BY <1>2, <1>4 DEF EventsNamed
  <2> QED
    BY <1>2, <2>1
<1> QED
  BY <1>3, <1>4 DEF EventsNamed

(* Different connections are reported under different indices.               *)
LEMMA BatchNamed == ASSUME Types, Owned, EpollWait PROVE EventsNamed'
<1>1. PICK n \in 1 .. MaxBatch : \E s \in [1 .. n -> ready \cup Waiting] :
        /\ \A i, j \in 1 .. n : s[i] = s[j] => i = j
        /\ batch' = [i \in 1 .. n |-> IF s[i] = Listen THEN Listen ELSE registered[s[i]]]
  BY DEF EpollWait
<1>2. PICK s \in [1 .. n -> ready \cup Waiting] :
        /\ \A i, j \in 1 .. n : s[i] = s[j] => i = j
        /\ batch' = [i \in 1 .. n |-> IF s[i] = Listen THEN Listen ELSE registered[s[i]]]
  BY <1>1
<1>3. \A i \in 1 .. n : s[i] # Listen => s[i] \in Open
  BY <1>2 DEF Waiting, Types, Places
<1>4. \A f \in Open : registered[f] \in Live /\ registered[f] # Listen
  BY Ranges DEF Open, Live, Listen
<1>5. \A f, g \in Open : registered[f] = registered[g] => f = g
  BY DEF Owned, Holding
<1>6. Live' = Live
  BY DEF EpollWait, Live
<1>7. \A i \in 1 .. n : batch'[i] = IF s[i] = Listen THEN Listen ELSE registered[s[i]]
  BY <1>2
<1>8. DOMAIN batch' = 1 .. n
  BY <1>2
<1>9. ASSUME NEW i \in 1 .. n, NEW j \in 1 .. n, batch'[i] = batch'[j] PROVE i = j
  <2>1. s[i] = s[j]
    BY <1>3, <1>4, <1>5, <1>7, <1>9
  <2> QED
    BY <1>2, <2>1
<1> QED
  BY <1>3, <1>4, <1>6, <1>7, <1>8, <1>9 DEF EventsNamed

(* The event that closes a connection is about that connection.              *)
LEMMA ShutNamed ==
  ASSUME Faults = {}, Types, Owned, EventsNamed, spoiled = FALSE, Shut
  PROVE  EventsNamed' /\ spoiled' = FALSE
<1> DEFINE k == Head(batch)
<1>1. /\ batch # <<>> /\ k # Listen /\ batch' = Tail(batch)
      /\ stopConnect(k, links[k], 0)
  BY DEF Shut
<1>2. k \in Live
  BY <1>1 DEF EventsNamed, Types, TypeOK
<1>3. PICK f \in Open : registered[f] = k
  BY <1>2 DEF Live, Open
<1>4. links[k].fd = f
  BY <1>3 DEF Owned, Holding
<1>5. CASE UNCHANGED <<kernel, idle, counters, spoiled>>
  <2>1. Live' = Live
    BY <1>5 DEF kernel, Live
  <2> QED
    BY <1>1, <1>5, <2>1, RestNamed
<1>6. CASE closeConnect(k, links[k])
  <2>1. /\ registered' = [g \in Fds |-> IF g = f THEN None ELSE registered[g]]
        /\ idle' = Append(idle, k) /\ spoiled' = Spoils(k)
    BY <1>4, <1>6 DEF closeConnect, Release, updateCurConnects, Compared
  <2>2. Len(idle') = Len(idle) + 1 /\ Len(idle) \in Nat
    BY <2>1, Ranges
  <2>3. idle' # idle
    BY <2>2
  <2>4. spoiled' = FALSE
    BY <1>2, <2>1, <2>3 DEF Spoils
  <2>5. ASSUME NEW x \in Live, x # k PROVE x \in Live'
    <3>1. PICK g \in Fds : registered[g] # None /\ registered[g] = x
      BY DEF Live
    <3>2. g # f
      BY <1>3, <2>5, <3>1
    <3>3. registered'[g] = x /\ registered'[g] # None
      BY <2>1, <3>1, <3>2
    <3> QED
      BY <3>3 DEF Live
  <2> QED
    BY <1>1, <2>4, <2>5, RestNamed
<1> QED
  BY <1>1, <1>5, <1>6 DEF stopConnect

LEMMA StepNamed ==
  Faults = {} /\ Roomy /\ Types /\ Owned /\ Named /\ [Next]_vars => Named'
<1> SUFFICES ASSUME Faults = {}, Roomy, Types, Owned, Named, [Next]_vars
             PROVE  Named'
  OBVIOUS
<1>1. CASE UNCHANGED vars
  <2>1. UNCHANGED <<batch, spoiled, raced, task>> /\ Live' = Live
    BY <1>1 DEF vars, kernel, Live
  <2> QED
    BY <2>1 DEF Named, OnlyLoopCloses, EventsNamed
<1>2. CASE Step /\ raced' = (raced \/ Racing')
  <2>1. OnlyLoopCloses' /\ raced' = FALSE
    BY <1>2, StepOnlyLoopCloses DEF Named
  <2> SUFFICES EventsNamed' /\ spoiled' = FALSE
    BY <2>1 DEF Named
  <2>2. ASSUME UNCHANGED <<batch, registered, spoiled>> PROVE EventsNamed' /\ spoiled' = FALSE
    BY <2>2 DEF Named, EventsNamed, Live
  <2>3. ASSUME batch # <<>>, batch' = Tail(batch), UNCHANGED <<registered, spoiled>>
        PROVE  EventsNamed' /\ spoiled' = FALSE
    <3>1. Live' = Live
      BY <2>3 DEF Live
    <3> QED
      BY <2>3, <3>1, RestNamed DEF Named
  <2>4. CASE EpollWait
    BY <2>4, BatchNamed DEF EpollWait, Named
  <2>5. CASE Shut
    BY <2>5, ShutNamed DEF Named
  <2>6. CASE Ignored \/ PickIndex \/ \E w \in Workers : HandOver(w)
    BY <2>3, <2>6 DEF Ignored, PickIndex, HandOver, kernel
  <2>7. CASE \/ \E f \in Fds : Arrive(f) \/ Accept(f)
             \/ \E w \in Workers : WorkerBegin(w) \/ WorkerEnd(w)
    BY <2>2, <2>7 DEF Arrive, Accept, WorkerBegin, WorkerEnd, kernel
  <2>8. CASE Count \/ Compare
    BY <2>2, <2>8 DEF Count, Compare, Compared, kernel
  <2>9. CASE Register
    <3>1. /\ registered' = [registered EXCEPT ![ConnectFd] = ConnectIndex]
          /\ UNCHANGED <<batch, spoiled>> /\ ConnectFd \notin Open
      BY <2>9 DEF Register, Types, Places
    <3>2. \A x \in Live : x \in Live'
      <4> SUFFICES ASSUME NEW x \in Live PROVE x \in Live'
        OBVIOUS
      <4>1. PICK g \in Fds : registered[g] # None /\ registered[g] = x
        BY DEF Live
      <4>2. registered'[g] # None /\ registered'[g] = x
        BY <3>1, <4>1 DEF Types, TypeOK, Open
      <4> QED
        BY <4>2 DEF Live
    <3> QED
      BY <3>1, <3>2 DEF Named, EventsNamed
  <2>10. ~AcceptFails /\ ~AddFails /\ ~DropLink
    BY DEF AcceptFails, AddFails, DropLink, Owned, Balanced
  <2>11. \A w \in Workers : ~WorkerStop(w) /\ ~WorkerCount(w) /\ ~WorkerCompare(w)
    BY DEF WorkerStop, WorkerCount, WorkerCompare, Named, OnlyLoopCloses
  <2> QED
    BY <1>2, <2>4, <2>5, <2>6, <2>7, <2>8, <2>9, <2>10, <2>11 DEF Step, NewLink, Work
<1> QED
  BY <1>1, <1>2 DEF Next, Stopped

(* The promise of connectpool.h:38 without an exception, and no index lost:  *)
(* what conn_collision and conn_race show to fail needs a call that fails,   *)
(* or a thread that closes a connection.                                     *)
THEOREM FaultlessSlots ==
  Faults = {} /\ Roomy => (Spec => [](SlotsExclusive /\ SlotsAccounted))
<1> SUFFICES ASSUME Faults = {}, Roomy PROVE Spec => [](SlotsExclusive /\ SlotsAccounted)
  OBVIOUS
<1>1. Init => Named
  BY DEF Init, Named, OnlyLoopCloses, EventsNamed, NoTask
<1>2. Named /\ (spoiled \/ raced \/ Owned) => Owned
  BY DEF Named
<1>3. Types /\ (spoiled \/ raced \/ Owned) /\ Named /\ [Next]_vars => Named'
  BY <1>2, StepNamed
<1>4. Types /\ Owned => SlotsExclusive /\ SlotsAccounted
  BY OwnedExclusive, OwnedAccounted
<1> QED
  BY <1>1, <1>2, <1>3, <1>4, OwnedAlways, PTL DEF Spec
===============================================================================
