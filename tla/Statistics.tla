------------------------------ MODULE Statistics ------------------------------
(***************************************************************************)
(* The statistics of the gateway that threads update under a mutex of      *)
(* their own (trace.c): the list of the longest times, which replaceMini   *)
(* keeps in place, and the counters of errors, warnings and threads.       *)
(* Between lock and unlock every access to the shared data is a step; the  *)
(* threads' code, Thread_handleMsg, is not in the repository, so a thread  *)
(* may call any of the functions at any time.                              *)
(***************************************************************************)
EXTENDS Integers

CONSTANTS Threads,      \* threads of the gateway
          TIMELIST_LEN, \* how many of the longest times are kept
          Times,        \* times that may be reported
          MaxCalls,     \* bound: how many calls are made
          None          \* no thread, no mutex

ASSUME ListAssumption == TIMELIST_LEN \in Nat \ {0} /\ Times \subseteq Nat \ {0}
ASSUME CallsAssumption == MaxCalls \in Nat

Counters == {"SysErrNO", "SysWrnNO", "MsgErrNO", "CurThreads"}
Mutexes  == Counters \cup {"TimeList"}
ASSUME NoneAssumption == None \notin Threads /\ None \notin Mutexes

Places == 0 .. TIMELIST_LEN - 1

VARIABLES
  holder,     \* of each mutex: the thread that holds it, or None
  call,       \* of each thread: the mutex its function takes, its next step,
              \* its argument and its local variables
  TopWorst3, TopRecent3,
  count,      \* the counters
  MaxThreads,
  calls,      \* history: how many calls were begun
  atLeast,    \* history: of each time, how many recorded ones are not shorter
  total       \* history: of each counter, the sum of the calls' arguments

times    == <<TopWorst3, TopRecent3, atLeast>>
counts   == <<count, MaxThreads, total>>
vars     == <<holder, call, times, counts, calls>>

NoCall == [mutex |-> None, next |-> "begin", arg |-> 0, i |-> 0, j |-> 0]

Init ==
  /\ holder = [m \in Mutexes |-> None]
  /\ call = [t \in Threads |-> NoCall]
  /\ TopWorst3 = [n \in Places |-> 0]
  /\ TopRecent3 = [n \in Places |-> 0]
  /\ count = [c \in Counters |-> 0]
  /\ MaxThreads = 0
  /\ calls = 0
  /\ atLeast = [v \in Times |-> 0]
  /\ total = [c \in Counters |-> 0]

-------------------------------------------------------------------------------
(* A call begins when it has the mutex of its function and ends by giving it *)
(* back.                                                                     *)

Lockable(m) == holder[m] = None

Begin(t, m, first, x) ==
  /\ call[t] = NoCall
  /\ Lockable(m)
  /\ calls < MaxCalls
  /\ calls' = calls + 1
  /\ holder' = [holder EXCEPT ![m] = t]
  /\ call' = [call EXCEPT ![t] =
                [mutex |-> m, next |-> first, arg |-> x, i |-> 0, j |-> 0]]

Return(t) ==
  /\ holder' = [holder EXCEPT ![call[t].mutex] = None]
  /\ call' = [call EXCEPT ![t] = NoCall]
  /\ UNCHANGED calls

Go(t, c) ==
  /\ call' = [call EXCEPT ![t] = c]
  /\ UNCHANGED <<holder, calls>>

-------------------------------------------------------------------------------
(* updateTimeList.  TimeInsertPoint is never advanced, so that TopRecent3    *)
(* keeps the last time only.                                                 *)

RecordTime(t) ==
  /\ \E kTime \in Times :
       /\ Begin(t, "TimeList", "compare", kTime)
       /\ TopRecent3' = [TopRecent3 EXCEPT ![0] = kTime]
  /\ UNCHANGED <<TopWorst3, atLeast, counts>>

(* replaceMini looks for the first place that is not longer than elem, *)
Compare(t) ==
  LET c == call[t] IN
  /\ c.next = "compare"
  /\ \/ c.i \notin Places /\ Go(t, [c EXCEPT !.next = "unlock"])
     \/ c.i \in Places /\ c.arg < TopWorst3[c.i] /\ Go(t, [c EXCEPT !.i = @ + 1])
     \/ /\ c.i \in Places /\ c.arg >= TopWorst3[c.i]
        /\ Go(t, [c EXCEPT !.next = "move", !.j = TIMELIST_LEN - 1])
  /\ UNCHANGED <<times, counts>>

(* makes room for it, from the end of the list, and puts it there. *)
MovedFromTheFront(j) == TIMELIST_LEN - j
MovedPlace(j)        == j

Move(t) ==
  LET c == call[t]
      k == MovedPlace(c.j)
  IN
  /\ c.next = "move"
  /\ IF c.j > c.i
       THEN /\ TopWorst3' = [TopWorst3 EXCEPT ![k] = TopWorst3[k - 1]]
            /\ Go(t, [c EXCEPT !.j = @ - 1])
       ELSE /\ TopWorst3' = [TopWorst3 EXCEPT ![c.j] = c.arg]
            /\ Go(t, [c EXCEPT !.next = "unlock"])
  /\ UNCHANGED <<TopRecent3, atLeast, counts>>

TimeRecorded(t) ==
  /\ call[t].next = "unlock"
  /\ atLeast' = [v \in Times |-> atLeast[v] + IF call[t].arg >= v THEN 1 ELSE 0]
  /\ Return(t)
  /\ UNCHANGED <<TopWorst3, TopRecent3, counts>>

-------------------------------------------------------------------------------
(* The counters.  updateCurThreads takes a thread more or less; its test     *)
(* refuses every number above MaxThreads, so that MaxThreads never grows.    *)

Deltas(c) == IF c = "CurThreads" THEN {1, -1} ELSE {1}

CountCall(t) ==
  /\ \E c \in Counters : \E x \in Deltas(c) : Begin(t, c, "load", x)
  /\ UNCHANGED <<times, counts>>

CountLoad(t) ==
  /\ call[t].next = "load"
  /\ Go(t, [call[t] EXCEPT !.next = "store", !.i = count[call[t].mutex]])
  /\ UNCHANGED <<times, counts>>

updateCurThreads(n) ==
  MaxThreads' = IF n > MaxThreads \/ n < 0 THEN MaxThreads
                ELSE IF n > MaxThreads THEN n ELSE MaxThreads

CountStore(t) ==
  LET c == call[t].mutex
      n == call[t].i + call[t].arg
  IN
  /\ call[t].next = "store"
  /\ count' = [count EXCEPT ![c] = n]
  /\ total' = [total EXCEPT ![c] = @ + call[t].arg]
  /\ IF c = "CurThreads" THEN updateCurThreads(n) ELSE UNCHANGED MaxThreads
  /\ Return(t)
  /\ UNCHANGED times

Next == \E t \in Threads :
  \/ RecordTime(t) \/ Compare(t) \/ Move(t) \/ TimeRecorded(t)
  \/ CountCall(t) \/ CountLoad(t) \/ CountStore(t)

Spec == Init /\ [][Next]_vars

-------------------------------------------------------------------------------
(* Properties *)

(* TopWorst3 holds the longest times that were reported, longest first:      *)
(* whenever nobody updates it, its n-th place is v or longer exactly if n    *)
(* or more of the recorded times were.                                       *)
TopIsWorst ==
  holder["TimeList"] = None =>
    \A n \in Places, v \in Times : TopWorst3[n] >= v <=> atLeast[v] > n

(* Each call changes its counter by its argument, whoever else calls: no     *)
(* increment is lost between the load and the store of another thread.       *)
NoUpdateLost == \A c \in Counters : count[c] = total[c]
===============================================================================
