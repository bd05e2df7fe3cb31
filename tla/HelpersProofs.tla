---------------------------- MODULE HelpersProofs ----------------------------
(***************************************************************************)
(* Proofs about the parts that MCHelpers puts side by side.                *)
(*                                                                         *)
(* Statistics: the list of the longest times is right for any length, any  *)
(* times and any threads, and no counter loses a call.  While a thread     *)
(* updates the list in place, the invariant says of each place whether it  *)
(* has been moved already; what makes the end of the loop right is that    *)
(* fewer than i + 1 recorded times are longer than the one to be put in    *)
(* place i.                                                                *)
(*                                                                         *)
(* CondBroadcast: the broadcast misses none of any number of threads.  A   *)
(* thread between its test and its sleep holds the mutex, so main, which   *)
(* holds it too when it sets global, cannot set it in between.             *)
(*                                                                         *)
(* Signals: what is still to be executed of a program says which signals   *)
(* are blocked, ignored or handled in which thread.                        *)
(*                                                                         *)
(* ByteStrings: the loops of strstr_Arr and string_trim go on to the first *)
(* place where they stop.  That the recursive functions which say so exist *)
(* is proved by naming their values.  Words and bytes agree because up to  *)
(* four bytes are the digits of a number to the base BYTE.                 *)
(*                                                                         *)
(* Children: status is what the child has ended with once the parent goes  *)
(* on to report it.                                                        *)
(***************************************************************************)
EXTENDS MCHelpers, SequenceTheorems, NaturalsInduction, WellFoundedInduction, TLAPS

InList  == {"compare", "move", "unlock"}
InCount == {"load", "store"}

Types ==
  /\ holder \in [Mutexes -> Threads \cup {None}]
  /\ call \in [Threads -> [mutex : Mutexes \cup {None},
                           next : {"begin"} \cup InList \cup InCount,
                           arg : Int, i : Int, j : Int]]
  /\ TopWorst3 \in [Places -> Nat]
  /\ atLeast \in [Times -> Nat]
  /\ count \in [Counters -> Int] /\ total \in [Counters -> Int]

(* A thread holds exactly the mutex of the function it is in.                *)
Locks == \A t \in Threads :
  /\ call[t].next = "begin" <=> call[t].mutex = None
  /\ call[t].next \in InList <=> call[t].mutex = "TimeList"
  /\ call[t].mutex # None => holder[call[t].mutex] = t
  /\ \A m \in Mutexes : holder[m] = t => call[t].mutex = m

(* Place n is right if k(v) times that are v or longer are in the list.      *)
Exact(n)       == \A v \in Times : TopWorst3[n] >= v <=> atLeast[v] > n
ExactMoved(n)  == \A v \in Times : TopWorst3[n] >= v <=> atLeast[v] > n - 1
ExactWith(n, x) ==
  \A v \in Times : TopWorst3[n] >= v <=> atLeast[v] + (IF x >= v THEN 1 ELSE 0) > n

LongerBefore(x, i) == \A n \in Places : n < i => TopWorst3[n] > x

Comparing(c) ==
  /\ c.arg \in Times /\ c.i \in 0 .. TIMELIST_LEN
  /\ LongerBefore(c.arg, c.i)
  /\ \A n \in Places : Exact(n)

Moving(c) ==
  /\ c.arg \in Times /\ c.i \in Places /\ c.j \in Places /\ c.j >= c.i
  /\ LongerBefore(c.arg, c.i)
  /\ \A n \in Places : IF n <= c.j THEN Exact(n) ELSE ExactMoved(n)
  /\ \A v \in Times : v > c.arg => atLeast[v] <= c.i

Placed(c) ==
  /\ c.arg \in Times
  /\ \A n \in Places : ExactWith(n, c.arg)

Phase(c) ==
  /\ c.next = "compare" => Comparing(c)
  /\ c.next = "move" => Moving(c)
  /\ c.next = "unlock" => Placed(c)

Loaded == \A t \in Threads :
  call[t].next = "store" => call[t].i = count[call[t].mutex]

Inv ==
  /\ Types /\ Locks
  /\ holder["TimeList"] = None => \A n \in Places : Exact(n)
  /\ \A t \in Threads : Phase(call[t])
  /\ Loaded /\ NoUpdateLost

LEMMA Domains ==
  /\ TIMELIST_LEN \in Nat /\ TIMELIST_LEN >= 1
  /\ \A n \in Places : n \in Nat /\ n < TIMELIST_LEN
  /\ \A v \in Times : v \in Nat /\ v >= 1
  /\ "TimeList" \in Mutexes /\ "TimeList" \notin Counters /\ Counters \subseteq Mutexes
  BY ListAssumption DEF Places, Mutexes, Counters

LEMMA InitInv == Init => Inv
<1> SUFFICES ASSUME Init PROVE Inv
  OBVIOUS
<1>1. Types
  BY Domains, NoneAssumption DEF Init, Types, NoCall, Places
<1>2. Locks
  BY NoneAssumption, Domains DEF Init, Locks, NoCall, InList
<1>3. \A n \in Places : Exact(n)
  BY Domains DEF Init, Exact
<1>4. \A t \in Threads : Phase(call[t])
  BY DEF Init, Phase, NoCall
<1>5. Loaded /\ NoUpdateLost
  BY DEF Init, Loaded, NoUpdateLost, NoCall
<1> QED
  BY <1>1, <1>2, <1>3, <1>4, <1>5 DEF Inv

-------------------------------------------------------------------------------
(* Who holds what *)

(* Only one thread is at the list.                                           *)
LEMMA OneAtTheList ==
  ASSUME Inv, NEW t \in Threads, NEW u \in Threads,
         call[t].next \in InList, call[u].next \in InList
  PROVE  t = u
<1>1. call[t].mutex = "TimeList" /\ call[u].mutex = "TimeList"
  BY DEF Inv, Locks
<1>2. holder["TimeList"] = t /\ holder["TimeList"] = u
  BY <1>1, Domains, NoneAssumption DEF Inv, Locks
<1> QED
  BY <1>2

(* A step of t within a call leaves the locks as they are.                   *)
LEMMA GoLocks ==
  ASSUME Inv, NEW t \in Threads, NEW c, Go(t, c), c.mutex = call[t].mutex,
         c.next \in {"begin"} \cup InList \cup InCount,
         c.next \in InList <=> call[t].next \in InList,
         c.next = "begin" <=> call[t].next = "begin"
  PROVE  Locks'
<1>1. /\ call' = [call EXCEPT ![t] = c] /\ holder' = holder
  BY DEF Go
<1>2. call \in [Threads -> [mutex : Mutexes \cup {None},
                           next : {"begin"} \cup InList \cup InCount,
                           arg : Int, i : Int, j : Int]]
  BY DEF Inv, Types
<1>3. call'[t] = c /\ \A u \in Threads \ {t} : call'[u] = call[u]
  BY <1>1, <1>2
<1> SUFFICES ASSUME NEW u \in Threads
             PROVE  /\ call'[u].next = "begin" <=> call'[u].mutex = None
                    /\ call'[u].next \in InList <=> call'[u].mutex = "TimeList"
                    /\ call'[u].mutex # None => holder'[call'[u].mutex] = u
                    /\ \A m \in Mutexes : holder'[m] = u => call'[u].mutex = m
  BY DEF Locks
<1>4. CASE u = t
  <2>1. /\ call[t].next = "begin" <=> call[t].mutex = None
        /\ call[t].next \in InList <=> call[t].mutex = "TimeList"
        /\ call[t].mutex # None => holder[call[t].mutex] = t
        /\ \A m \in Mutexes : holder[m] = t => call[t].mutex = m
    BY DEF Inv, Locks
  <2>2. call'[u] = c /\ holder' = holder
    BY <1>1, <1>3, <1>4
  <2> QED
    BY <1>4, <2>1, <2>2
<1>5. CASE u # t
  BY <1>1, <1>3, <1>5 DEF Inv, Locks
<1> QED
  BY <1>4, <1>5

LEMMA BeginLocks ==
  ASSUME Inv, NEW t \in Threads, NEW m \in Mutexes, NEW x \in Int,
         NEW first \in InList \cup InCount, Begin(t, m, first, x),
         first \in InList <=> m = "TimeList"
  PROVE  /\ Locks'
         /\ call'[t] = [mutex |-> m, next |-> first, arg |-> x, i |-> 0, j |-> 0]
         /\ \A u \in Threads \ {t} : call'[u] = call[u]
         /\ holder[m] = None /\ holder' = [holder EXCEPT ![m] = t]
         /\ call' \in [Threads -> [mutex : Mutexes \cup {None},
                                  next : {"begin"} \cup InList \cup InCount,
                                  arg : Int, i : Int, j : Int]]
         /\ holder' \in [Mutexes -> Threads \cup {None}]
<1> DEFINE r == [mutex |-> m, next |-> first, arg |-> x, i |-> 0, j |-> 0]
<1>1. /\ call[t] = NoCall /\ holder[m] = None
      /\ holder' = [holder EXCEPT ![m] = t]
      /\ call' = [call EXCEPT ![t] = r]
  BY DEF Begin, Lockable
<1>2. /\ holder \in [Mutexes -> Threads \cup {None}]
      /\ call \in [Threads -> [mutex : Mutexes \cup {None},
                           next : {"begin"} \cup InList \cup InCount,
                           arg : Int, i : Int, j : Int]]
  BY DEF Inv, Types
<1>3. r = [mutex |-> m, next |-> first, arg |-> x, i |-> 0, j |-> 0]
  OBVIOUS
<1>4. /\ call'[t] = [mutex |-> m, next |-> first, arg |-> x, i |-> 0, j |-> 0]
      /\ \A u \in Threads \ {t} : call'[u] = call[u]
  BY <1>1, <1>2, <1>3
<1>5. call' \in [Threads -> [mutex : Mutexes \cup {None},
                            next : {"begin"} \cup InList \cup InCount,
                            arg : Int, i : Int, j : Int]]
  BY <1>1, <1>2, <1>3
<1>6. holder' \in [Mutexes -> Threads \cup {None}]
  BY <1>1, <1>2
<1>7. Locks'
  <2> SUFFICES ASSUME NEW u \in Threads
               PROVE  /\ call'[u].next = "begin" <=> call'[u].mutex = None
                      /\ call'[u].next \in InList <=> call'[u].mutex = "TimeList"
                      /\ call'[u].mutex # None => holder'[call'[u].mutex] = u
                      /\ \A k \in Mutexes : holder'[k] = u => call'[u].mutex = k
    BY DEF Locks
  <2>1. CASE u = t
    <3>1. call[t].mutex = None
      BY <1>1 DEF NoCall
    <3>2. \A k \in Mutexes : holder[k] # t
      BY <3>1, NoneAssumption DEF Inv, Locks
    <3>3. first # "begin" /\ m # None
      BY NoneAssumption DEF InList, InCount
    <3> QED
      BY <1>1, <1>2, <1>4, <2>1, <3>2, <3>3
  <2>2. CASE u # t
    <3>1. call'[u] = call[u] /\ \A k \in Mutexes : holder'[k] = u => holder[k] = u
      BY <1>1, <1>2, <1>4, <2>2
    <3>2. call[u].mutex # None => call[u].mutex # m
      BY <1>1, NoneAssumption DEF Inv, Locks
    <3> QED
      BY <1>1, <1>2, <3>1, <3>2 DEF Inv, Locks, Types
  <2> QED
    BY <2>1, <2>2
<1> QED
  BY <1>1, <1>4, <1>5, <1>6, <1>7

LEMMA ReturnLocks ==
  ASSUME Inv, NEW t \in Threads, call[t].next # "begin", Return(t)
  PROVE  /\ Locks'
         /\ call'[t] = NoCall /\ \A u \in Threads \ {t} : call'[u] = call[u]
         /\ call[t].mutex \in Mutexes /\ holder' = [holder EXCEPT ![call[t].mutex] = None]
         /\ call' \in [Threads -> [mutex : Mutexes \cup {None},
                                  next : {"begin"} \cup InList \cup InCount,
                                  arg : Int, i : Int, j : Int]]
         /\ holder' \in [Mutexes -> Threads \cup {None}]
<1>1. /\ holder' = [holder EXCEPT ![call[t].mutex] = None]
      /\ call' = [call EXCEPT ![t] = NoCall]
  BY DEF Return
<1>2. /\ holder \in [Mutexes -> Threads \cup {None}]
      /\ call \in [Threads -> [mutex : Mutexes \cup {None},
                           next : {"begin"} \cup InList \cup InCount,
                           arg : Int, i : Int, j : Int]]
  BY DEF Inv, Types
<1>3. call[t].mutex \in Mutexes /\ holder[call[t].mutex] = t
  BY <1>2 DEF Inv, Locks
<1>4. call'[t] = NoCall /\ \A u \in Threads \ {t} : call'[u] = call[u]
  BY <1>1, <1>2
<1>5. call' \in [Threads -> [mutex : Mutexes \cup {None},
                            next : {"begin"} \cup InList \cup InCount,
                            arg : Int, i : Int, j : Int]]
  BY <1>1, <1>2 DEF NoCall
<1>6. holder' \in [Mutexes -> Threads \cup {None}]
  BY <1>1, <1>2
<1>7. Locks'
  <2> SUFFICES ASSUME NEW u \in Threads
               PROVE  /\ call'[u].next = "begin" <=> call'[u].mutex = None
                      /\ call'[u].next \in InList <=> call'[u].mutex = "TimeList"
                      /\ call'[u].mutex # None => holder'[call'[u].mutex] = u
                      /\ \A k \in Mutexes : holder'[k] = u => call'[u].mutex = k
    BY DEF Locks
  <2>1. CASE u = t
    <3>1. \A k \in Mutexes : holder'[k] # t
      BY <1>1, <1>2, <1>3, NoneAssumption DEF Inv, Locks
    <3> QED
      BY <1>4, <2>1, <3>1, NoneAssumption, Domains DEF NoCall, InList
  <2>2. CASE u # t
    <3>1. call'[u] = call[u] /\ \A k \in Mutexes : holder'[k] = u => holder[k] = u
      BY <1>1, <1>2, <1>4, <2>2, NoneAssumption
    <3>2. call[u].mutex # None => call[u].mutex # call[t].mutex
      BY <1>3, <2>2 DEF Inv, Locks
    <3> QED
      BY <1>1, <1>2, <3>1, <3>2 DEF Inv, Locks, Types
  <2> QED
    BY <2>1, <2>2
<1> QED
  BY <1>1, <1>3, <1>4, <1>5, <1>6, <1>7
-------------------------------------------------------------------------------
(* The list *)

(* A thread begins with the list as the others left it. *)
LEMMA RecordInv == ASSUME Inv, NEW t \in Threads, RecordTime(t) PROVE Inv'
<1>1. PICK x \in Times : Begin(t, "TimeList", "compare", x)
  BY DEF RecordTime
<1>2. /\ UNCHANGED <<TopWorst3, atLeast, count, total>>
  BY DEF RecordTime, counts
<1>3. x \in Int /\ "TimeList" \in Mutexes /\ "compare" \in InList
  BY Domains DEF InList
<1>4. /\ Locks'
      /\ call'[t] = [mutex |-> "TimeList", next |-> "compare", arg |-> x, i |-> 0, j |-> 0]
      /\ \A u \in Threads \ {t} : call'[u] = call[u]
      /\ holder["TimeList"] = None /\ holder' = [holder EXCEPT !["TimeList"] = t]
      /\ call' \in [Threads -> [mutex : Mutexes \cup {None},
                                next : {"begin"} \cup InList \cup InCount,
                                arg : Int, i : Int, j : Int]]
      /\ holder' \in [Mutexes -> Threads \cup {None}]
  BY <1>1, <1>3, BeginLocks
<1>5. Types'
  BY <1>2, <1>4 DEF Inv, Types
<1>6. holder'["TimeList"] # None
  BY <1>3, <1>4, NoneAssumption DEF Inv, Types
<1>7. ASSUME NEW u \in Threads PROVE Phase(call[u])'
  <2>1. CASE u = t
    <3>1. \A n \in Places : Exact(n)'
      BY <1>2, <1>4 DEF Inv, Exact
    <3>2. LongerBefore(x, 0)'
      BY Domains DEF LongerBefore
    <3>3. Comparing(call[t])'
      BY <1>4, <3>1, <3>2, Domains DEF Comparing
    <3> QED
      BY <1>4, <2>1, <3>3 DEF Phase
  <2>2. CASE u # t
    <3>1. call[u].next \notin InList
      BY <1>4, Domains, NoneAssumption DEF Inv, Locks
    <3> QED
      BY <1>4, <2>2, <3>1 DEF Phase, InList
  <2> QED
    BY <2>1, <2>2
<1>8. Loaded' /\ NoUpdateLost'
  BY <1>2, <1>4 DEF Inv, Loaded, NoUpdateLost
<1> QED
  BY <1>4, <1>5, <1>6, <1>7, <1>8 DEF Inv

(* A step of the thread at the list that keeps the mutex: only its own phase *)
(* has to be shown.                                                          *)
LEMMA ListStep ==
  ASSUME Inv, NEW t \in Threads, NEW c, Go(t, c),
         call[t].next \in InList, c.next \in InList, c.mutex = call[t].mutex,
         c \in [mutex : Mutexes \cup {None}, next : {"begin"} \cup InList \cup InCount,
                arg : Int, i : Int, j : Int],
         TopWorst3' \in [Places -> Nat], UNCHANGED <<atLeast, count, total>>,
         Phase(c)'
  PROVE  Inv'
<1>1. Locks'
  BY GoLocks DEF InList
<1>2. /\ holder' = holder /\ call' = [call EXCEPT ![t] = c]
      /\ call \in [Threads -> [mutex : Mutexes \cup {None},
                               next : {"begin"} \cup InList \cup InCount,
                               arg : Int, i : Int, j : Int]]
  BY DEF Go, Inv, Types
<1>3. call'[t] = c /\ \A u \in Threads \ {t} : call'[u] = call[u]
  BY <1>2
<1>4. Types'
  BY <1>2 DEF Inv, Types
<1>5. holder'["TimeList"] # None
  BY <1>2, Domains, NoneAssumption DEF Inv, Locks
<1>6. ASSUME NEW u \in Threads PROVE Phase(call[u])'
  <2>1. CASE u = t
    BY <1>3, <2>1
  <2>2. CASE u # t
    <3>1. call[u].next \notin InList
      BY <2>2, OneAtTheList
    <3> QED
      BY <1>3, <2>2, <3>1 DEF Phase, InList
  <2> QED
    BY <2>1, <2>2
<1>7. Loaded' /\ NoUpdateLost'
  BY <1>3 DEF Inv, Loaded, NoUpdateLost, InList
<1> QED
  BY <1>1, <1>4, <1>5, <1>6, <1>7 DEF Inv

LEMMA CompareInv == ASSUME Inv, NEW t \in Threads, Compare(t) PROVE Inv'
<1>0. PICK c : c = call[t]
  OBVIOUS
<1>1. /\ c.next = "compare" /\ UNCHANGED <<TopWorst3, atLeast, count, total>>
      /\ c.next \in InList
  BY <1>0 DEF Compare, times, counts, InList
<1>2. /\ c \in [mutex : Mutexes \cup {None}, next : {"begin"} \cup InList \cup InCount,
                arg : Int, i : Int, j : Int]
      /\ TopWorst3 \in [Places -> Nat] /\ atLeast \in [Times -> Nat]
  BY <1>0 DEF Inv, Types
<1>3. Comparing(c)
  BY <1>0, <1>1 DEF Inv, Phase
<1>4. CASE c.i \notin Places /\ Go(t, [c EXCEPT !.next = "unlock"])
  <2> DEFINE d == [c EXCEPT !.next = "unlock"]
  <2>1. /\ d.next = "unlock" /\ d.mutex = c.mutex /\ d.arg = c.arg
        /\ d \in [mutex : Mutexes \cup {None}, next : {"begin"} \cup InList \cup InCount,
                  arg : Int, i : Int, j : Int]
    BY <1>2 DEF InList
  <2>2. c.i = TIMELIST_LEN
    BY <1>3, <1>4, Domains DEF Comparing, Places
  <2>3. \A n \in Places : TopWorst3[n] > c.arg /\ TopWorst3[n] \in Nat /\ n \in Nat
    BY <1>2, <1>3, <2>2, Domains DEF Comparing, LongerBefore
  <2>4. ASSUME NEW n \in Places, NEW v \in Times
        PROVE  TopWorst3[n] >= v <=> atLeast[v] + (IF c.arg >= v THEN 1 ELSE 0) > n
    <3>1. TopWorst3[n] >= v <=> atLeast[v] > n
      BY <1>3 DEF Comparing, Exact
    <3>2. v \in Nat /\ c.arg \in Nat /\ atLeast[v] \in Nat
      BY <1>2, <1>3, Domains DEF Comparing
    <3>3. CASE c.arg >= v
      BY <2>3, <3>1, <3>2, <3>3
    <3>4. CASE ~(c.arg >= v)
      BY <3>1, <3>2, <3>4
    <3> QED
      BY <3>3, <3>4
  <2>5. Phase(d)'
    BY <1>1, <1>3, <2>1, <2>4 DEF Phase, Placed, ExactWith, Comparing
  <2> HIDE DEF d
  <2> QED
    BY <1>0, <1>1, <1>2, <1>4, <2>1, <2>5, ListStep DEF d, InList
<1>5. CASE c.i \in Places /\ c.arg < TopWorst3[c.i] /\ Go(t, [c EXCEPT !.i = @ + 1])
  <2> DEFINE d == [c EXCEPT !.i = @ + 1]
  <2>1. /\ d.next = "compare" /\ d.mutex = c.mutex /\ d.arg = c.arg /\ d.i = c.i + 1
        /\ d \in [mutex : Mutexes \cup {None}, next : {"begin"} \cup InList \cup InCount,
                  arg : Int, i : Int, j : Int]
    BY <1>1, <1>2 DEF InList
  <2>2. c.i + 1 \in 0 .. TIMELIST_LEN
    BY <1>5, Domains
  <2>3. LongerBefore(c.arg, c.i + 1)
    BY <1>3, <1>5, Domains DEF LongerBefore, Comparing, Places
  <2>4. Phase(d)'
    BY <1>1, <1>3, <2>1, <2>2, <2>3 DEF Phase, Comparing, LongerBefore, Exact
  <2> HIDE DEF d
  <2> QED
    BY <1>0, <1>1, <1>2, <1>5, <2>1, <2>4, ListStep DEF d, InList
<1>6. CASE /\ c.i \in Places /\ c.arg >= TopWorst3[c.i]
           /\ Go(t, [c EXCEPT !.next = "move", !.j = TIMELIST_LEN - 1])
  <2> DEFINE d == [c EXCEPT !.next = "move", !.j = TIMELIST_LEN - 1]
  <2>1. /\ d.next = "move" /\ d.mutex = c.mutex /\ d.arg = c.arg /\ d.i = c.i
        /\ d.j = TIMELIST_LEN - 1
        /\ d \in [mutex : Mutexes \cup {None}, next : {"begin"} \cup InList \cup InCount,
                  arg : Int, i : Int, j : Int]
    <3> DEFINE e == [c EXCEPT !.next = "move"]
    <3>1. d = [e EXCEPT !.j = TIMELIST_LEN - 1]
      OBVIOUS
    <3>2. /\ e.next = "move" /\ e.mutex = c.mutex /\ e.arg = c.arg /\ e.i = c.i
          /\ e \in [mutex : Mutexes \cup {None}, next : {"begin"} \cup InList \cup InCount,
                    arg : Int, i : Int, j : Int]
      BY <1>2 DEF InList
    <3> HIDE DEF d, e
    <3> QED
      BY <3>1, <3>2, Domains
  <2>2. TIMELIST_LEN - 1 \in Places /\ TIMELIST_LEN - 1 >= c.i
        /\ \A n \in Places : n <= TIMELIST_LEN - 1
    BY <1>6, Domains DEF Places
  <2>3. ASSUME NEW v \in Times, v > c.arg PROVE atLeast[v] <= c.i
    <3>1. v \in Nat /\ c.arg \in Nat /\ atLeast[v] \in Nat /\ TopWorst3[c.i] \in Nat
          /\ c.i \in Nat
      BY <1>2, <1>3, <1>6, Domains DEF Comparing
    <3>2. ~(TopWorst3[c.i] >= v)
      BY <1>6, <2>3, <3>1
    <3> QED
      BY <1>3, <1>6, <3>1, <3>2 DEF Comparing, Exact
  <2>4. Phase(d)'
    BY <1>1, <1>3, <1>6, <2>1, <2>2, <2>3 DEF Phase, Comparing, Moving, LongerBefore, Exact
  <2> HIDE DEF d
  <2> QED
    BY <1>0, <1>1, <1>2, <1>6, <2>1, <2>4, ListStep DEF d, InList
<1> QED
  BY <1>0, <1>4, <1>5, <1>6 DEF Compare
LEMMA MoveInv == ASSUME Inv, NEW t \in Threads, Move(t) PROVE Inv'
<1>0. PICK c : c = call[t]
  OBVIOUS
<1>1. c.next = "move" /\ c.next \in InList /\ UNCHANGED <<atLeast, count, total>>
  BY <1>0 DEF Move, counts, InList
<1>2. /\ c \in [mutex : Mutexes \cup {None}, next : {"begin"} \cup InList \cup InCount,
                  arg : Int, i : Int, j : Int]
      /\ TopWorst3 \in [Places -> Nat] /\ atLeast \in [Times -> Nat]
  BY <1>0 DEF Inv, Types
<1>3. Moving(c)
  BY <1>0, <1>1 DEF Inv, Phase
<1>4. c.i \in Nat /\ c.j \in Nat /\ c.j >= c.i /\ c.j \in Places /\ c.i \in Places
      /\ c.arg \in Times /\ c.arg \in Nat
  BY <1>3, Domains DEF Moving
<1>5. CASE /\ c.j > c.i /\ Go(t, [c EXCEPT !.j = @ - 1])
           /\ TopWorst3' = [TopWorst3 EXCEPT ![c.j] = TopWorst3[c.j - 1]]
  <2> DEFINE d == [c EXCEPT !.j = @ - 1]
  <2>1. /\ d.next = "move" /\ d.mutex = c.mutex /\ d.arg = c.arg /\ d.i = c.i
        /\ d.j = c.j - 1
        /\ d \in [mutex : Mutexes \cup {None}, next : {"begin"} \cup InList \cup InCount,
                  arg : Int, i : Int, j : Int]
    BY <1>1, <1>2 DEF InList
  <2>2. c.j - 1 \in Places /\ c.j - 1 >= c.i
    BY <1>4, <1>5, Domains DEF Places
  <2>3. /\ TopWorst3'[c.j] = TopWorst3[c.j - 1]
        /\ \A n \in Places \ {c.j} : TopWorst3'[n] = TopWorst3[n]
        /\ TopWorst3' \in [Places -> Nat]
    BY <1>2, <1>4, <1>5, <2>2
  <2>4. LongerBefore(c.arg, c.i)'
    BY <1>3, <1>4, <1>5, <2>3, Domains DEF Moving, LongerBefore
  <2>5. ASSUME NEW n \in Places
        PROVE  (IF n <= c.j - 1 THEN Exact(n) ELSE ExactMoved(n))'
    <3>0. n \in Nat
      BY Domains
    <3>1. CASE n <= c.j - 1
      <4>1. n <= c.j /\ TopWorst3'[n] = TopWorst3[n]
        BY <1>4, <2>3, <3>0, <3>1
      <4>2. Exact(n)
        BY <1>3, <4>1 DEF Moving
      <4> QED
        BY <1>1, <3>1, <4>1, <4>2 DEF Exact
    <3>2. CASE n = c.j
      <4>1. Exact(c.j - 1) /\ ~(n <= c.j - 1)
        BY <1>3, <1>4, <2>2, <3>2, Domains DEF Moving
      <4> QED
        BY <1>1, <2>3, <3>2, <4>1 DEF Exact, ExactMoved
    <3>3. CASE n > c.j
      <4>1. ~(n <= c.j) /\ ~(n <= c.j - 1) /\ TopWorst3'[n] = TopWorst3[n]
        BY <1>4, <2>3, <3>0, <3>3
      <4>2. ExactMoved(n)
        BY <1>3, <4>1 DEF Moving
      <4> QED
        BY <1>1, <4>1, <4>2 DEF ExactMoved
    <3> QED
      BY <1>4, <3>0, <3>1, <3>2, <3>3
  <2>6. \A v \in Times : v > c.arg => atLeast'[v] <= c.i
    BY <1>1, <1>3 DEF Moving
  <2>7. Moving(d)'
    BY <1>4, <2>1, <2>2, <2>4, <2>5, <2>6 DEF Moving
  <2>8. Phase(d)'
    BY <2>1, <2>7 DEF Phase
  <2> HIDE DEF d
  <2> QED
    BY <1>0, <1>1, <1>2, <1>5, <2>1, <2>3, <2>8, ListStep DEF d, InList
<1>6. CASE /\ ~(c.j > c.i) /\ Go(t, [c EXCEPT !.next = "unlock"])
           /\ TopWorst3' = [TopWorst3 EXCEPT ![c.j] = c.arg]
  <2> DEFINE d == [c EXCEPT !.next = "unlock"]
  <2>1. /\ d.next = "unlock" /\ d.mutex = c.mutex /\ d.arg = c.arg
        /\ d \in [mutex : Mutexes \cup {None}, next : {"begin"} \cup InList \cup InCount,
                  arg : Int, i : Int, j : Int]
    BY <1>2 DEF InList
  <2>2. c.j = c.i
    BY <1>4, <1>6
  <2>3. /\ TopWorst3'[c.i] = c.arg
        /\ \A n \in Places \ {c.i} : TopWorst3'[n] = TopWorst3[n]
        /\ TopWorst3' \in [Places -> Nat]
    BY <1>2, <1>4, <1>6, <2>2
  <2>4. ASSUME NEW n \in Places, NEW v \in Times
        PROVE  TopWorst3'[n] >= v <=> atLeast[v] + (IF c.arg >= v THEN 1 ELSE 0) > n
    <3>0. n \in Nat /\ v \in Nat /\ atLeast[v] \in Nat /\ TopWorst3[n] \in Nat
      BY <1>2, Domains
    <3>1. v > c.arg => atLeast[v] <= c.i
      BY <1>3 DEF Moving
    <3>2. CASE n < c.i   \* a longer time, left where it was
      <4>1. TopWorst3'[n] = TopWorst3[n] /\ TopWorst3[n] > c.arg
        BY <1>3, <1>4, <2>3, <3>0, <3>2 DEF Moving, LongerBefore
      <4>2. TopWorst3[n] >= v <=> atLeast[v] > n
        BY <1>3, <1>4, <2>2, <3>0, <3>2 DEF Moving, Exact
      <4>3. CASE c.arg >= v
        BY <1>4, <3>0, <4>1, <4>2, <4>3
      <4>4. CASE ~(c.arg >= v)
        BY <3>0, <4>1, <4>2, <4>4
      <4> QED
        BY <4>3, <4>4
    <3>3. CASE n = c.i   \* the time itself
      <4>1. CASE c.arg >= v /\ n = 0
        BY <1>4, <2>3, <3>0, <3>3, <4>1
      <4>2. CASE c.arg >= v /\ n > 0
        <5>1. n - 1 \in Places /\ n - 1 < c.i /\ n - 1 <= c.j /\ n - 1 \in Nat
          BY <2>2, <3>0, <3>3, <4>2, Domains DEF Places
        <5>2. TopWorst3[n - 1] > c.arg /\ TopWorst3[n - 1] \in Nat
          BY <1>2, <1>3, <5>1 DEF Moving, LongerBefore
        <5>3. TopWorst3[n - 1] >= v <=> atLeast[v] > n - 1
          BY <1>3, <5>1 DEF Moving, Exact
        <5>4. atLeast[v] > n - 1
          BY <1>4, <3>0, <4>2, <5>2, <5>3
        <5> QED
          BY <1>4, <2>3, <3>0, <3>3, <4>2, <5>4
      <4>3. CASE ~(c.arg >= v)
        BY <1>4, <2>3, <3>0, <3>1, <3>3, <4>3
      <4> QED
        BY <3>0, <4>1, <4>2, <4>3
    <3>4. CASE n > c.i   \* a time moved by one place
      <4>1. TopWorst3'[n] = TopWorst3[n] /\ ~(n <= c.j)
        BY <1>4, <2>2, <2>3, <3>0, <3>4
      <4>2. TopWorst3[n] >= v <=> atLeast[v] > n - 1
        BY <1>3, <4>1 DEF Moving, ExactMoved
      <4>3. CASE c.arg >= v
        BY <3>0, <4>1, <4>2, <4>3
      <4>4. CASE ~(c.arg >= v)
        BY <1>4, <3>0, <3>1, <3>4, <4>1, <4>2, <4>4
      <4> QED
        BY <4>3, <4>4
    <3> QED
      BY <1>4, <3>0, <3>2, <3>3, <3>4
  <2>5. Phase(d)'
    BY <1>1, <1>4, <2>1, <2>4 DEF Phase, Placed, ExactWith
  <2> HIDE DEF d
  <2> QED
    BY <1>0, <1>1, <1>2, <1>6, <2>1, <2>3, <2>5, ListStep DEF d, InList
<1> QED
  BY <1>0, <1>5, <1>6 DEF Move, MovedPlace

(* The time counts as recorded when the mutex is given back. *)
LEMMA RecordedInv == ASSUME Inv, NEW t \in Threads, TimeRecorded(t) PROVE Inv'
<1>1. /\ call[t].next = "unlock" /\ call[t].next # "begin" /\ call[t].next \in InList
      /\ Return(t) /\ UNCHANGED <<TopWorst3, count, total>>
      /\ atLeast' = [v \in Times |-> atLeast[v] + IF call[t].arg >= v THEN 1 ELSE 0]
  BY DEF TimeRecorded, counts, InList
<1>2. /\ Locks'
      /\ call'[t] = NoCall /\ \A u \in Threads \ {t} : call'[u] = call[u]
      /\ call' \in [Threads -> [mutex : Mutexes \cup {None},
                                next : {"begin"} \cup InList \cup InCount,
                                arg : Int, i : Int, j : Int]]
      /\ holder' \in [Mutexes -> Threads \cup {None}]
  BY <1>1, ReturnLocks
<1>3. atLeast \in [Times -> Nat]
  BY DEF Inv, Types
<1>4. atLeast' \in [Times -> Nat]
  BY <1>1, <1>3
<1>5. Types'
  BY <1>1, <1>2, <1>4 DEF Inv, Types
<1>6. Placed(call[t])
  BY <1>1 DEF Inv, Phase
<1>7. \A n \in Places : Exact(n)'
  BY <1>1, <1>6 DEF Placed, ExactWith, Exact
<1>8. ASSUME NEW u \in Threads PROVE Phase(call[u])'
  <2>1. CASE u = t
    BY <1>2, <2>1 DEF Phase, NoCall
  <2>2. CASE u # t
    <3>1. call[u].next \notin InList
      BY <1>1, <2>2, OneAtTheList
    <3> QED
      BY <1>2, <2>2, <3>1 DEF Phase, InList
  <2> QED
    BY <2>1, <2>2
<1>9. Loaded' /\ NoUpdateLost'
  BY <1>1, <1>2 DEF Inv, Loaded, NoUpdateLost, NoCall
<1> QED
  BY <1>2, <1>5, <1>7, <1>8, <1>9 DEF Inv
-------------------------------------------------------------------------------
(* The counters *)

(* Steps of a counter's call leave the list alone: no place changes, and no  *)
(* thread that is at the list moves.                                         *)
LEMMA CounterStep ==
  ASSUME Inv, NEW t \in Threads, call[t].next \notin InList, call'[t].next \notin InList,
         \A u \in Threads \ {t} : call'[u] = call[u],
         UNCHANGED <<TopWorst3, atLeast>>,
         holder'["TimeList"] = holder["TimeList"]
  PROVE  /\ holder'["TimeList"] = None => \A n \in Places : Exact(n)'
         /\ \A u \in Threads : Phase(call[u])'
<1>1. holder'["TimeList"] = None => \A n \in Places : Exact(n)'
  BY DEF Inv, Exact
<1>2. ASSUME NEW u \in Threads PROVE Phase(call[u])'
  <2>1. CASE u = t
    BY <2>1 DEF Phase, InList
  <2>2. CASE u # t
    <3>1. PICK c : c = call[u]
      OBVIOUS
    <3>2. c = call'[u] /\ Phase(c)
      BY <2>2, <3>1 DEF Inv
    <3>3. Phase(c)'
      BY <3>2 DEF Phase, Comparing, Moving, Placed, LongerBefore, Exact, ExactMoved, ExactWith
    <3> QED
      BY <3>2, <3>3 DEF Phase
  <2> QED
    BY <2>1, <2>2
<1> QED
  BY <1>1, <1>2

LEMMA CountCallInv == ASSUME Inv, NEW t \in Threads, CountCall(t) PROVE Inv'
<1>1. PICK m \in Counters, x \in Int : Begin(t, m, "load", x)
  <2>1. PICK m \in Counters : \E x \in Deltas(m) : Begin(t, m, "load", x)
    BY DEF CountCall
  <2> QED
    BY <2>1 DEF Deltas
<1>2. UNCHANGED <<TopWorst3, atLeast, count, total>> /\ call[t] = NoCall
  BY <1>1 DEF CountCall, times, counts, Begin
<1>3. /\ m \in Mutexes /\ m # "TimeList" /\ "load" \in InCount /\ "load" \notin InList
      /\ "begin" \notin InList /\ "TimeList" \in Mutexes
  BY Domains DEF InList, InCount
<1>4. /\ Locks'
      /\ call'[t] = [mutex |-> m, next |-> "load", arg |-> x, i |-> 0, j |-> 0]
      /\ \A u \in Threads \ {t} : call'[u] = call[u]
      /\ holder[m] = None /\ holder' = [holder EXCEPT ![m] = t]
      /\ call' \in [Threads -> [mutex : Mutexes \cup {None},
                                next : {"begin"} \cup InList \cup InCount,
                                arg : Int, i : Int, j : Int]]
      /\ holder' \in [Mutexes -> Threads \cup {None}]
  BY <1>1, <1>3, BeginLocks
<1>5. Types'
  BY <1>2, <1>4 DEF Inv, Types
<1>6. holder'["TimeList"] = holder["TimeList"]
  BY <1>3, <1>4 DEF Inv, Types
<1>7. call[t].next \notin InList /\ call'[t].next \notin InList
  BY <1>2, <1>3, <1>4 DEF NoCall
<1>8. /\ holder'["TimeList"] = None => \A n \in Places : Exact(n)'
      /\ \A u \in Threads : Phase(call[u])'
  BY <1>2, <1>4, <1>6, <1>7, CounterStep
<1>9. Loaded' /\ NoUpdateLost'
  BY <1>2, <1>4 DEF Inv, Loaded, NoUpdateLost
<1> QED
  BY <1>4, <1>5, <1>8, <1>9 DEF Inv

LEMMA CountLoadInv == ASSUME Inv, NEW t \in Threads, CountLoad(t) PROVE Inv'
<1> DEFINE e == [call[t] EXCEPT !.next = "store"]
           d == [e EXCEPT !.i = count[call[t].mutex]]
<1>1. /\ call[t].next = "load" /\ Go(t, d)
      /\ UNCHANGED <<TopWorst3, atLeast, count, total>>
  BY DEF CountLoad, times, counts
<1>2. /\ call \in [Threads -> [mutex : Mutexes \cup {None},
                               next : {"begin"} \cup InList \cup InCount,
                               arg : Int, i : Int, j : Int]]
      /\ holder \in [Mutexes -> Threads \cup {None}]
      /\ count \in [Counters -> Int] /\ total \in [Counters -> Int]
  BY DEF Inv, Types
<1>3. /\ call[t].mutex \in Counters
      /\ "load" \notin InList /\ "store" \notin InList /\ "store" \in InCount
  BY <1>1, <1>2 DEF Inv, Locks, InList, InCount, Mutexes
<1>4. /\ e.next = "store" /\ e.mutex = call[t].mutex
      /\ e \in [mutex : Mutexes \cup {None},
                next : {"begin"} \cup InList \cup InCount,
                arg : Int, i : Int, j : Int]
  BY <1>2, <1>3
<1>5. count[call[t].mutex] \in Int
  BY <1>2, <1>3
<1>6. /\ d.next = "store" /\ d.mutex = call[t].mutex /\ d.i = count[call[t].mutex]
      /\ d \in [mutex : Mutexes \cup {None},
                next : {"begin"} \cup InList \cup InCount,
                arg : Int, i : Int, j : Int]
  <2> HIDE DEF e
  <2> QED
    BY <1>4, <1>5
<1> HIDE DEF d
<1>7. Locks'
  BY <1>1, <1>3, <1>6, GoLocks DEF InList, InCount
<1>8. /\ call' = [call EXCEPT ![t] = d] /\ holder' = holder
      /\ call'[t] = d /\ \A u \in Threads \ {t} : call'[u] = call[u]
  BY <1>1, <1>2 DEF Go
<1>9. Types'
  BY <1>1, <1>2, <1>6, <1>8 DEF Inv, Types
<1>10. /\ holder'["TimeList"] = None => \A n \in Places : Exact(n)'
       /\ \A u \in Threads : Phase(call[u])'
  BY <1>1, <1>3, <1>6, <1>8, CounterStep
<1>11. Loaded' /\ NoUpdateLost'
  BY <1>1, <1>6, <1>8 DEF Inv, Loaded, NoUpdateLost
<1> QED
  BY <1>7, <1>9, <1>10, <1>11 DEF Inv

(* The mutex of the counter keeps what was loaded true until it is stored. *)
LEMMA CountStoreInv == ASSUME Inv, NEW t \in Threads, CountStore(t) PROVE Inv'
<1> DEFINE m == call[t].mutex
           x == call[t].arg
<1>1. /\ call[t].next = "store" /\ Return(t) /\ UNCHANGED <<TopWorst3, atLeast>>
      /\ count' = [count EXCEPT ![m] = call[t].i + x]
      /\ total' = [total EXCEPT ![m] = @ + x]
  BY DEF CountStore, times
<1>2. /\ call \in [Threads -> [mutex : Mutexes \cup {None},
                               next : {"begin"} \cup InList \cup InCount,
                               arg : Int, i : Int, j : Int]]
      /\ holder \in [Mutexes -> Threads \cup {None}]
      /\ count \in [Counters -> Int] /\ total \in [Counters -> Int]
  BY DEF Inv, Types
<1>3. /\ m \in Counters /\ m # "TimeList" /\ "store" \notin InList /\ "store" # "begin"
      /\ "TimeList" \in Mutexes
  BY <1>1, <1>2, Domains DEF Inv, Locks, InList, Mutexes
<1>4. call[t].i = count[m] /\ count[m] = total[m] /\ x \in Int
  BY <1>1, <1>2, <1>3 DEF Inv, Loaded, NoUpdateLost
<1>5. /\ Locks'
      /\ call'[t] = NoCall /\ \A u \in Threads \ {t} : call'[u] = call[u]
      /\ call' \in [Threads -> [mutex : Mutexes \cup {None},
                                next : {"begin"} \cup InList \cup InCount,
                                arg : Int, i : Int, j : Int]]
      /\ holder' \in [Mutexes -> Threads \cup {None}]
  BY <1>1, <1>3, ReturnLocks
<1>6. /\ count' = [count EXCEPT ![m] = count[m] + x]
      /\ count' \in [Counters -> Int] /\ total' \in [Counters -> Int]
  BY <1>1, <1>2, <1>3, <1>4
<1>7. Types'
  BY <1>1, <1>5, <1>6 DEF Inv, Types
<1>8. holder'["TimeList"] = holder["TimeList"]
  BY <1>1, <1>2, <1>3 DEF Return
<1>9. /\ holder'["TimeList"] = None => \A n \in Places : Exact(n)'
      /\ \A u \in Threads : Phase(call[u])'
  <2>1. call'[t].next \notin InList
    BY <1>5 DEF NoCall, InList
  <2> QED
    BY <1>1, <1>3, <1>5, <1>8, <2>1, CounterStep
<1>10. NoUpdateLost'
  BY <1>1, <1>2, <1>4, <1>6 DEF Inv, NoUpdateLost
<1>11. Loaded'
  <2> SUFFICES ASSUME NEW u \in Threads, call'[u].next = "store"
               PROVE  call'[u].i = count'[call'[u].mutex]
    BY DEF Loaded
  <2>1. u # t /\ call'[u] = call[u]
    BY <1>5 DEF NoCall
  <2>2. /\ call[u].mutex \in Mutexes
        /\ call[u].mutex # "TimeList" /\ call[u].mutex # None
    BY <1>2, <1>3, <2>1 DEF Inv, Locks
  <2>3. call[u].mutex \in Counters /\ call[u].mutex # m
    BY <1>2, <1>3, <2>1, <2>2, NoneAssumption DEF Inv, Locks, Mutexes
  <2> QED
    BY <1>2, <1>6, <2>1, <2>3 DEF Inv, Loaded
<1> QED
  BY <1>5, <1>7, <1>9, <1>10, <1>11 DEF Inv

-------------------------------------------------------------------------------

LEMMA StepInv == Inv /\ [Next]_vars => Inv'
<1> SUFFICES ASSUME Inv, [Next]_vars PROVE Inv'
  OBVIOUS
<1>1. CASE UNCHANGED vars
  BY <1>1 DEF Inv, Types, Locks, Exact, Phase, Comparing, Moving, Placed, LongerBefore,
     ExactMoved, ExactWith, Loaded, NoUpdateLost, vars, times, counts
<1>2. ASSUME NEW t \in Threads,
             \/ RecordTime(t) \/ Compare(t) \/ Move(t) \/ TimeRecorded(t)
             \/ CountCall(t) \/ CountLoad(t) \/ CountStore(t)
      PROVE  Inv'
  BY <1>2, RecordInv, CompareInv, MoveInv, RecordedInv, CountCallInv, CountLoadInv,
     CountStoreInv
<1> QED
  BY <1>1, <1>2 DEF Next

LEMMA Invariance == Spec => []Inv
  BY InitInv, StepInv, PTL DEF Spec

(* Whenever nobody updates it, TopWorst3 holds the longest of the times      *)
(* recorded so far, longest first: for every length of the list and any      *)
(* number of threads that call updateTimeList.                               *)
THEOREM WorstTimesKept == Spec => []TopIsWorst
<1>1. Inv => TopIsWorst
  BY DEF Inv, TopIsWorst, Exact
<1> QED
  BY <1>1, Invariance, PTL

(* Every counter is the sum of the arguments of the calls that have changed  *)
(* it, for any number of threads that update it at the same time.            *)
THEOREM CountersExact == Spec => []NoUpdateLost
<1>1. Inv => NoUpdateLost
  BY DEF Inv
<1> QED
  BY <1>1, Invariance, PTL
-------------------------------------------------------------------------------
(* The broadcast of pthread_condition.c *)

MainPlaces   == {"create", "set", "broadcast", "unlock", "done", "ended"}
WaiterPlaces == {"off", "start", "woken", "test", "wait", "asleep", "show", "done", "ended"}

(* Main and the waiters are at places of their own; global is set by main's  *)
(* progress; who is about to sleep has seen it unset.                        *)
CondPlaces ==
  /\ place[MainThread] \in MainPlaces
  /\ \A w \in Waiters : place[w] \in WaiterPlaces
  /\ global = 100 <=> place[MainThread] \in {"broadcast", "unlock", "done"}
  /\ \A w \in Waiters : place[w] = "wait" => global # 100

CondInv == Cond!TypeOK /\ CondPlaces /\ NobodySleepsOn /\ ShowsTheValue

LEMMA CondInitInv == Cond!Init \/ CondAtRest => CondInv
<1> SUFFICES ASSUME Cond!Init \/ CondAtRest PROVE CondInv
  OBVIOUS
<1> USE ThreadsAssumption
    DEF Cond!Everyone, Cond!TypeOK, CondPlaces, NobodySleepsOn, ShowsTheValue, Cond!NobodySleepsOn,
        Cond!ShowsTheValue, MainPlaces, WaiterPlaces
<1>1. CASE Cond!Init
  <2>1. place[MainThread] = "create" /\ \A w \in Waiters : place[w] = "off"
    BY <1>1 DEF Cond!Init
  <2> QED
    BY <1>1, <2>1 DEF Cond!Init, CondInv
<1>2. CASE CondAtRest
  <2>1. place[MainThread] = "done" /\ \A w \in Waiters : place[w] = "done"
    BY <1>2 DEF CondAtRest
  <2> QED
    BY <1>2, <2>1 DEF CondAtRest, CondInv
<1> QED
  BY <1>1, <1>2

LEMMA CondMainInv == CondInv /\ Cond!MainStep => CondInv'
<1> SUFFICES ASSUME CondInv, Cond!MainStep PROVE CondInv'
  OBVIOUS
<1> USE ThreadsAssumption
    DEF CondInv, Cond!TypeOK, CondPlaces, NobodySleepsOn, ShowsTheValue, Cond!NobodySleepsOn,
        Cond!ShowsTheValue, MainPlaces, WaiterPlaces, Cond!Everyone, Cond!Go, Cond!Lock,
        Cond!Unlock
<1>1. CASE Cond!MainLock
  BY <1>1 DEF Cond!MainLock
<1>2. CASE Cond!MainSet
  BY <1>2 DEF Cond!MainSet
<1>3. CASE Cond!MainBroadcast
  BY <1>3 DEF Cond!MainBroadcast, Cond!Broadcasted
<1>4. CASE Cond!MainUnlock
  BY <1>4 DEF Cond!MainUnlock
<1> QED
  BY <1>1, <1>2, <1>3, <1>4 DEF Cond!MainStep

LEMMA CondFailInv == CondInv /\ Cond!CreateFails => CondInv'
<1> SUFFICES ASSUME CondInv, Cond!CreateFails PROVE CondInv'
  OBVIOUS
<1>1. global' = global /\ global # 100 /\ mutex' = None
  BY DEF CondInv, CondPlaces, Cond!CreateFails
<1>2. place' = [t \in Cond!Everyone |-> "ended"]
  BY DEF Cond!CreateFails
<1>3. \A t \in Cond!Everyone : place'[t] = "ended"
  BY <1>2
<1> QED
  BY <1>1, <1>2, <1>3, ThreadsAssumption
  DEF CondInv, Cond!TypeOK, CondPlaces, NobodySleepsOn, ShowsTheValue, Cond!NobodySleepsOn,
      Cond!ShowsTheValue, MainPlaces, WaiterPlaces, Cond!Everyone

LEMMA CondWaiterInv ==
  ASSUME NEW w \in Waiters, CondInv, Cond!Create(w) \/ Cond!Step(w) \/ Cond!WakeUp(w)
  PROVE  CondInv'
<1> USE ThreadsAssumption
    DEF CondInv, Cond!TypeOK, CondPlaces, NobodySleepsOn, ShowsTheValue, Cond!NobodySleepsOn,
        Cond!ShowsTheValue, MainPlaces, WaiterPlaces, Cond!Everyone, Cond!Go, Cond!Lock,
        Cond!Unlock
<1>1. CASE Cond!Create(w)
  BY <1>1 DEF Cond!Create
<1>2. CASE Cond!TakeMutex(w)
  BY <1>2 DEF Cond!TakeMutex
<1>3. CASE Cond!Test(w)
  BY <1>3 DEF Cond!Test
<1>4. CASE Cond!Wait(w)
  BY <1>4 DEF Cond!Wait
<1>5. CASE Cond!WakeUp(w)
  BY <1>5 DEF Cond!WakeUp
<1>6. CASE Cond!Show(w)
  BY <1>6 DEF Cond!Show
<1> QED
  BY <1>1, <1>2, <1>3, <1>4, <1>5, <1>6 DEF Cond!Step

LEMMA CondStepInv == CondInv /\ [HelpersNext]_allVars => CondInv'
<1> SUFFICES ASSUME CondInv, [HelpersNext]_allVars PROVE CondInv'
  OBVIOUS
<1>1. CASE UNCHANGED broadcast
  BY <1>1 DEF broadcast, CondInv, Cond!TypeOK, CondPlaces, NobodySleepsOn, ShowsTheValue,
     Cond!NobodySleepsOn, Cond!ShowsTheValue
<1> QED
  BY <1>1, CondMainInv, CondFailInv, CondWaiterInv DEF HelpersNext, allVars, Cond!Next

LEMMA CondSpecInv == HelpersSpec => []CondInv
<1>1. HelpersInit => CondInv
  BY CondInitInv DEF HelpersInit
<1> QED
  BY <1>1, CondStepInv, PTL DEF HelpersSpec, HelpersSafety

(* Every variable has its type, and the mutex one holder, for any number of  *)
(* threads (pthread_condition.c:29-49, 58-117).                              *)
THEOREM CondTypeCorrect == HelpersSpec => []Cond!TypeOK
<1>1. CondInv => Cond!TypeOK
  BY DEF CondInv
<1> QED
  BY <1>1, CondSpecInv, PTL

(* Nobody sleeps on v after main's only broadcast (pthread_condition.c:105). *)
THEOREM BroadcastMissesNobody == HelpersSpec => []NobodySleepsOn
<1>1. CondInv => NobodySleepsOn
  BY DEF CondInv
<1> QED
  BY <1>1, CondSpecInv, PTL

(* Whoever shows global shows the value that main has set, spurious wake-ups *)
(* notwithstanding (pthread_condition.c:38-41).                              *)
THEOREM ShownOnlyWhenSet == HelpersSpec => []ShowsTheValue
<1>1. CondInv => ShowsTheValue
  BY DEF CondInv
<1> QED
  BY <1>1, CondSpecInv, PTL
-------------------------------------------------------------------------------
(* The programs that get signals *)

Statements == {"malloc", "block", "create_writer", "create_reader", "join_writer", "join_reader",
               "free", "exit", "handle", "ignore", "unblock", "loop", "alarm", "pause", "use",
               "leave"}

(* The last n statements of s. *)
Rest(s, n) == SubSeq(s, Len(s) - n + 1, Len(s))

SigTypes ==
  /\ program \in Signal!Programs
  /\ todo \in [Signal!ProgramThreads -> Seq(Statements)]
  /\ blocked \in [Signal!ProgramThreads -> SUBSET Signal!Signals]
  /\ action \in [Signal!Signals -> {"default", "ignore", "handler"}]
  /\ pending \subseteq Signal!Signals
  /\ freed \in Nat
  /\ ended \in {"no", "exit"} \cup Signal!Signals

Left(t) == Len(todo[t])   \* how many statements thread t has left

(* thread_signal.c: main has m statements left, of 9, the last 8 of which     *)
(* follow malloc, the last 7 the blocking of the signals, and so on; the     *)
(* writer has w left, of 2; and the reader r, of 4, or those of exit, if it  *)
(* has got a SIGINT: r = 6 before it frees the record, and 5 after that.     *)
ReaderText(r) ==
  CASE r \in 0 .. 4 -> Rest(Signal!Reader, r)
    [] r = 5       -> <<"exit">>
    [] r = 6       -> <<"free", "exit">>

WriterText(w) ==
  CASE w = 0 -> <<>>
    [] w = 1 -> <<"leave">>
    [] w = 2 -> <<"use", "leave">>

Threads3(m, r, w) ==
  /\ todo["main"] = Rest(Signal!Main("thread_signal"), m)
  /\ todo["reader"] = ReaderText(r)
  /\ todo["writer"] = WriterText(w)
  /\ w > 0 => m \in {5, 6}
  /\ r > 0 => m \in {4, 5}
  /\ m = 0 => ended = "exit"

Masks3(m, r, w) ==
  /\ "ALRM" \notin pending
  /\ m <= 7 => Signal!Keys \subseteq blocked["main"]
  /\ w > 0  => Signal!Keys \subseteq blocked["writer"]
  /\ r >= 2 => Signal!Keys \subseteq blocked["reader"]
  /\ m > 5 => action["INT"] = "default"
  /\ r \in {1, 2, 3, 5, 6} => action["INT"] = "handler"
  /\ r \in {1, 2, 5, 6} => action["QUIT"] = "ignore"
  /\ action["QUIT"] # "handler"

Record3(m, r) ==
  /\ m <= 1 => freed = 2
  /\ m = 2 => freed = 1
  /\ m = 3 => freed = 0
  /\ m >= 4 => freed = 0 \/ (freed = 1 /\ (r = 5 \/ (r = 0 /\ ended = "exit")))
  /\ misused # {} => misused = {"writer"} /\ m >= 4 /\ freed = 1

Place3(m, r, w) == Threads3(m, r, w) /\ Masks3(m, r, w) /\ Record3(m, r)

OfThreadSignal == \E m \in 0 .. 9, r \in 0 .. 6, w \in 0 .. 2 : Place3(m, r, w)

(* The other programs have no thread but main, and no record. *)
MainOnly ==
  /\ todo["writer"] = <<>> /\ todo["reader"] = <<>>
  /\ freed = 0 /\ misused = {}

OfSigSet ==
  /\ MainOnly /\ "ALRM" \notin pending
  /\ \/ /\ todo["main"] = Rest(Signal!Main(program), Left("main")) /\ Left("main") \in 1 .. 5
        /\ Left("main") \in 2 .. 4 => "QUIT" \in blocked["main"]
        /\ Left("main") <= 2 => action["QUIT"] = "ignore"
        /\ Left("main") <= 3 => action["INT"] = "handler"
     \/ /\ todo["main"] \in {<<"exit">>, <<>>} /\ (todo["main"] = <<>> => ended = "exit")
        /\ Signal!Keys \subseteq blocked["main"]

OfSimple ==
  /\ MainOnly /\ "ALRM" \notin pending
  /\ todo["main"] = Rest(Signal!Main(program), Left("main")) /\ Left("main") \in 1 .. 3
  /\ Left("main") <= 2 => action["QUIT"] = "ignore"
  /\ Left("main") <= 1 => action["INT"] = "handler"

OfAlarm ==
  /\ MainOnly
  /\ todo["main"] = Rest(Signal!Main(program), Left("main")) /\ Left("main") \in 0 .. 4
  /\ Left("main") = 0 => ended = "exit"
  /\ Left("main") <= 3 /\ ended = "no" => action["ALRM"] = "handler"

SigInv ==
  /\ SigTypes /\ KilledUnprepared
  /\ program = "thread_signal" => OfThreadSignal
  /\ program = "sig_set" => OfSigSet
  /\ program = "simple" => OfSimple
  /\ program = "alarm" => OfAlarm

LEMMA RestFacts ==
  ASSUME NEW s \in Seq(Statements), NEW n \in 0 .. Len(s)
  PROVE  /\ Rest(s, n) \in Seq(Statements) /\ Len(Rest(s, n)) = n /\ (Rest(s, n) = <<>> <=> n = 0)
         /\ n > 0 => Head(Rest(s, n)) = s[Len(s) - n + 1] /\ Tail(Rest(s, n)) = Rest(s, n - 1)
         /\ \A x : Signal!Contains(Rest(s, n), x) <=>
                     \E i \in 1 .. Len(s) : i > Len(s) - n /\ s[i] = x
<1> DEFINE k == Len(s) - n + 1
           r == SubSeq(s, k, Len(s))
<1>1. k \in Int /\ Len(s) \in Int /\ \A i \in k .. Len(s) : s[i] \in Statements
  OBVIOUS
<1>2. /\ r \in Seq(Statements) /\ Len(r) = IF k <= Len(s) THEN Len(s) - k + 1 ELSE 0
      /\ \A i \in 1 .. Len(s) - k + 1 : r[i] = s[k + i - 1]
  BY <1>1, SubSeqProperties
<1>3. Len(r) = n /\ \A i \in 1 .. n : r[i] = s[Len(s) - n + i]
  BY <1>2
<1>4. Rest(s, n) = r
  BY DEF Rest
<1>5. r = <<>> <=> n = 0
  <2> HIDE DEF r
  <2> QED
    BY <1>2, <1>3
<1>6. n > 0 => Head(r) = s[k] /\ Tail(r) = SubSeq(s, k + 1, Len(s))
  BY <1>1, HeadTailOfSubSeq
<1>7. Rest(s, n - 1) = SubSeq(s, k + 1, Len(s))
  <2>1. Len(s) - (n - 1) + 1 = k + 1
    OBVIOUS
  <2> QED
    BY <2>1 DEF Rest
<1>8. ASSUME NEW x
      PROVE  Signal!Contains(r, x) <=> \E i \in 1 .. Len(s) : i > Len(s) - n /\ s[i] = x
  <2> HIDE DEF r
  <2>1. Signal!Contains(r, x) <=> \E i \in 1 .. n : r[i] = x
    BY <1>3 DEF Signal!Contains
  <2>2. ASSUME NEW i \in 1 .. Len(s), i > Len(s) - n
        PROVE  i - (Len(s) - n) \in 1 .. n /\ r[i - (Len(s) - n)] = s[i]
    <3>1. i - (Len(s) - n) \in 1 .. n /\ Len(s) - n + (i - (Len(s) - n)) = i
      BY <2>2
    <3> QED
      BY <3>1, <1>3
  <2>3. ASSUME NEW i \in 1 .. n
        PROVE  Len(s) - n + i \in 1 .. Len(s) /\ Len(s) - n + i > Len(s) - n
    OBVIOUS
  <2>4. ASSUME NEW i \in 1 .. n, r[i] = x
        PROVE  \E q \in 1 .. Len(s) : q > Len(s) - n /\ s[q] = x
    BY <2>3, <2>4, <1>3
  <2>5. ASSUME NEW i \in 1 .. Len(s), i > Len(s) - n, s[i] = x
        PROVE  \E q \in 1 .. n : r[q] = x
    BY <2>2, <2>5
  <2> QED
    BY <2>1, <2>4, <2>5
<1> QED
  BY <1>2, <1>3, <1>4, <1>5, <1>6, <1>7, <1>8

(* The statements of each program, exit's included, one by one.              *)
LEMMA ThreadSignalText ==
  LET s == Signal!Main("thread_signal") IN
  /\ s \in Seq(Statements) /\ Len(s) = 9
  /\ s[1] = "malloc" /\ s[2] = "block" /\ s[3] = "create_writer" /\ s[4] = "create_reader"
  /\ s[5] = "join_writer" /\ s[6] = "join_reader" /\ s[7] = "free" /\ s[8] = "free"
  /\ s[9] = "exit"
<1> DEFINE a == <<"malloc", "block", "create_writer", "create_reader", "join_writer",
                  "join_reader", "free">>
           b == <<"free", "exit">>
<1>1. a \in Seq(Statements) /\ Len(a) = 7 /\ b \in Seq(Statements) /\ Len(b) = 2
  BY DEF Statements
<1>2. /\ a[1] = "malloc" /\ a[2] = "block" /\ a[3] = "create_writer" /\ a[4] = "create_reader"
      /\ a[5] = "join_writer" /\ a[6] = "join_reader" /\ a[7] = "free"
      /\ b[1] = "free" /\ b[2] = "exit"
  OBVIOUS
<1>3. Signal!Main("thread_signal") = a \o b
  BY DEF Signal!Main, Signal!Exit
<1> HIDE DEF a, b
<1>4. a \o b \in Seq(Statements) /\ Len(a \o b) = 9
      /\ \A i \in 1 .. 9 : (a \o b)[i] = IF i <= 7 THEN a[i] ELSE b[i - 7]
  <2>1. /\ a \o b \in Seq(Statements) /\ Len(a \o b) = Len(a) + Len(b)
        /\ \A i \in 1 .. Len(a) + Len(b) :
             (a \o b)[i] = IF i <= Len(a) THEN a[i] ELSE b[i - Len(a)]
    BY <1>1, ConcatProperties, Zenon
  <2> QED
    BY <1>1, <2>1
<1> HIDE DEF Statements
<1>5. 1 \in 1 .. 9 /\ 2 \in 1 .. 9 /\ 3 \in 1 .. 9 /\ 4 \in 1 .. 9 /\ 5 \in 1 .. 9 /\ 6 \in 1 .. 9
      /\ 7 \in 1 .. 9 /\ 8 \in 1 .. 9 /\ 9 \in 1 .. 9
  OBVIOUS
<1> DEFINE s == a \o b
<1> HIDE DEF s
<1>6. \A i \in 1 .. 9 : s[i] = IF i <= 7 THEN a[i] ELSE b[i - 7]
  BY <1>4, Zenon DEF s
<1>7. /\ s[1] = "malloc" /\ s[2] = "block" /\ s[3] = "create_writer" /\ s[4] = "create_reader"
      /\ s[5] = "join_writer" /\ s[6] = "join_reader" /\ s[7] = "free"
  <2>1. /\ s[1] = a[1] /\ s[2] = a[2] /\ s[3] = a[3] /\ s[4] = a[4] /\ s[5] = a[5]
        /\ s[6] = a[6] /\ s[7] = a[7]
    BY <1>5, <1>6
  <2> QED
    BY <1>2, <2>1, Zenon
<1>8. s[8] = b[1] /\ s[9] = b[2]
  BY <1>5, <1>6
<1> QED
  BY <1>2, <1>3, <1>4, <1>7, <1>8 DEF s

LEMMA OtherTexts ==
  /\ LET s == Signal!Main("sig_set") IN
     /\ s \in Seq(Statements) /\ Len(s) = 5
     /\ s[1] = "block" /\ s[2] = "handle" /\ s[3] = "ignore" /\ s[4] = "unblock" /\ s[5] = "loop"
  /\ LET s == Signal!Main("simple") IN
     /\ s \in Seq(Statements) /\ Len(s) = 3
     /\ s[1] = "ignore" /\ s[2] = "handle" /\ s[3] = "loop"
  /\ LET s == Signal!Main("alarm") IN
     /\ s \in Seq(Statements) /\ Len(s) = 4
     /\ s[1] = "handle" /\ s[2] = "alarm" /\ s[3] = "pause" /\ s[4] = "exit"
  /\ LET s == Signal!Reader IN
     /\ s \in Seq(Statements) /\ Len(s) = 4
     /\ s[1] = "handle" /\ s[2] = "ignore" /\ s[3] = "unblock" /\ s[4] = "use"
<1> DEFINE a == <<"handle", "alarm", "pause">>
           b == <<"exit">>
<1>1. a \in Seq(Statements) /\ Len(a) = 3 /\ b \in Seq(Statements) /\ Len(b) = 1
      /\ a[1] = "handle" /\ a[2] = "alarm" /\ a[3] = "pause" /\ b[1] = "exit"
  BY DEF Statements
<1>2. Signal!Main("alarm") = a \o b
  BY DEF Signal!Main, Signal!Exit
<1> HIDE DEF a, b
<1>3. a \o b \in Seq(Statements) /\ Len(a \o b) = 4
      /\ \A i \in 1 .. 4 : (a \o b)[i] = IF i <= 3 THEN a[i] ELSE b[i - 3]
  <2>1. /\ a \o b \in Seq(Statements) /\ Len(a \o b) = Len(a) + Len(b)
        /\ \A i \in 1 .. Len(a) + Len(b) :
             (a \o b)[i] = IF i <= Len(a) THEN a[i] ELSE b[i - Len(a)]
    BY <1>1, ConcatProperties, Zenon
  <2> QED
    BY <1>1, <2>1
<1>4. LET s == Signal!Main("alarm") IN
     /\ s \in Seq(Statements) /\ Len(s) = 4
     /\ s[1] = "handle" /\ s[2] = "alarm" /\ s[3] = "pause" /\ s[4] = "exit"
  <2>1. 1 \in 1 .. 4 /\ 2 \in 1 .. 4 /\ 3 \in 1 .. 4 /\ 4 \in 1 .. 4
    OBVIOUS
  <2> DEFINE s == a \o b
  <2>2. s[1] = a[1] /\ s[2] = a[2] /\ s[3] = a[3] /\ s[4] = b[1]
    BY <1>3, <2>1
  <2> QED
    BY <1>1, <1>2, <1>3, <2>2
<1> QED
  BY <1>4 DEF Signal!Main, Signal!Reader, Statements

LEMMA Stage ==
  ASSUME NEW s \in Seq(Statements), NEW l, Len(s) = l, NEW n \in 0 .. l, NEW T, T = Rest(s, n)
  PROVE  /\ T \in Seq(Statements) /\ Len(T) = n /\ (T = <<>> <=> n = 0)
         /\ n > 0 => Head(T) = s[l - n + 1] /\ Tail(T) = Rest(s, n - 1)
         /\ \A i \in 1 .. l : i > l - n => Signal!Contains(T, s[i])
  BY RestFacts

(* Of each program: what the next statement is, by how many are left.        *)
LEMMA ThreadSignalStage ==
  ASSUME NEW n \in 0 .. 9, NEW T, T = Rest(Signal!Main("thread_signal"), n)
  PROVE  /\ T \in Seq(Statements) /\ Len(T) = n /\ (T = <<>> <=> n = 0)
         /\ n > 0 => Tail(T) = Rest(Signal!Main("thread_signal"), n - 1)
         /\ n = 9 => Head(T) = "malloc"
         /\ n = 8 => Head(T) = "block"
         /\ n = 7 => Head(T) = "create_writer"
         /\ n = 6 => Head(T) = "create_reader"
         /\ n = 5 => Head(T) = "join_writer"
         /\ n = 4 => Head(T) = "join_reader"
         /\ n = 3 => Head(T) = "free"
         /\ n = 2 => Head(T) = "free"
         /\ n = 1 => Head(T) = "exit"
         /\ n >= 8 => Signal!Contains(T, "block")
         /\ n >= 4 => Signal!Contains(T, "join_reader")
         /\ n >= 1 => Signal!Contains(T, "exit")
<1> DEFINE s == Signal!Main("thread_signal")
<1>1. s \in Seq(Statements) /\ Len(s) = 9 /\ T = Rest(s, n)
  BY ThreadSignalText
<1>2. /\ s[1] = "malloc" /\ s[2] = "block" /\ s[3] = "create_writer"
      /\ s[4] = "create_reader" /\ s[5] = "join_writer" /\ s[6] = "join_reader"
      /\ s[7] = "free" /\ s[8] = "free" /\ s[9] = "exit"
  BY ThreadSignalText
<1> HIDE DEF s
<1>3. /\ T \in Seq(Statements) /\ Len(T) = n /\ (T = <<>> <=> n = 0)
      /\ n > 0 => Head(T) = s[9 - n + 1] /\ Tail(T) = Rest(s, n - 1)
      /\ \A i \in 1 .. 9 : i > 9 - n => Signal!Contains(T, s[i])
  BY <1>1, Stage
<1>4. /\ n = 9 => Head(T) = "malloc"
      /\ n = 8 => Head(T) = "block"
      /\ n = 7 => Head(T) = "create_writer"
      /\ n = 6 => Head(T) = "create_reader"
      /\ n = 5 => Head(T) = "join_writer"
      /\ n = 4 => Head(T) = "join_reader"
      /\ n = 3 => Head(T) = "free"
      /\ n = 2 => Head(T) = "free"
      /\ n = 1 => Head(T) = "exit"
      /\ n >= 8 => Signal!Contains(T, "block")
      /\ n >= 4 => Signal!Contains(T, "join_reader")
      /\ n >= 1 => Signal!Contains(T, "exit")
  BY <1>2, <1>3
<1> QED
  BY <1>3, <1>4 DEF s

LEMMA SigSetStage ==
  ASSUME NEW n \in 0 .. 5, NEW T, T = Rest(Signal!Main("sig_set"), n)
  PROVE  /\ T \in Seq(Statements) /\ Len(T) = n /\ (T = <<>> <=> n = 0)
         /\ n > 0 => Tail(T) = Rest(Signal!Main("sig_set"), n - 1)
         /\ n = 5 => Head(T) = "block"
         /\ n = 4 => Head(T) = "handle"
         /\ n = 3 => Head(T) = "ignore"
         /\ n = 2 => Head(T) = "unblock"
         /\ n = 1 => Head(T) = "loop"
         /\ n >= 5 => Signal!Contains(T, "block")
         /\ n >= 4 => Signal!Contains(T, "handle")
<1> DEFINE s == Signal!Main("sig_set")
<1>1. s \in Seq(Statements) /\ Len(s) = 5 /\ T = Rest(s, n)
  BY OtherTexts
<1>2. /\ s[1] = "block" /\ s[2] = "handle" /\ s[3] = "ignore" /\ s[4] = "unblock"
      /\ s[5] = "loop"
  BY OtherTexts
<1> HIDE DEF s
<1>3. /\ T \in Seq(Statements) /\ Len(T) = n /\ (T = <<>> <=> n = 0)
      /\ n > 0 => Head(T) = s[5 - n + 1] /\ Tail(T) = Rest(s, n - 1)
      /\ \A i \in 1 .. 5 : i > 5 - n => Signal!Contains(T, s[i])
  BY <1>1, Stage
<1>4. /\ n = 5 => Head(T) = "block"
      /\ n = 4 => Head(T) = "handle"
      /\ n = 3 => Head(T) = "ignore"
      /\ n = 2 => Head(T) = "unblock"
      /\ n = 1 => Head(T) = "loop"
      /\ n >= 5 => Signal!Contains(T, "block")
      /\ n >= 4 => Signal!Contains(T, "handle")
  BY <1>2, <1>3
<1> QED
  BY <1>3, <1>4 DEF s

LEMMA SimpleStage ==
  ASSUME NEW n \in 0 .. 3, NEW T, T = Rest(Signal!Main("simple"), n)
  PROVE  /\ T \in Seq(Statements) /\ Len(T) = n /\ (T = <<>> <=> n = 0)
         /\ n > 0 => Tail(T) = Rest(Signal!Main("simple"), n - 1)
         /\ n = 3 => Head(T) = "ignore"
         /\ n = 2 => Head(T) = "handle"
         /\ n = 1 => Head(T) = "loop"
         /\ n >= 3 => Signal!Contains(T, "ignore")
         /\ n >= 2 => Signal!Contains(T, "handle")
<1> DEFINE s == Signal!Main("simple")
<1>1. s \in Seq(Statements) /\ Len(s) = 3 /\ T = Rest(s, n)
  BY OtherTexts
<1>2. s[1] = "ignore" /\ s[2] = "handle" /\ s[3] = "loop"
  BY OtherTexts
<1> HIDE DEF s
<1>3. /\ T \in Seq(Statements) /\ Len(T) = n /\ (T = <<>> <=> n = 0)
      /\ n > 0 => Head(T) = s[3 - n + 1] /\ Tail(T) = Rest(s, n - 1)
      /\ \A i \in 1 .. 3 : i > 3 - n => Signal!Contains(T, s[i])
  BY <1>1, Stage
<1>4. /\ n = 3 => Head(T) = "ignore"
      /\ n = 2 => Head(T) = "handle"
      /\ n = 1 => Head(T) = "loop"
      /\ n >= 3 => Signal!Contains(T, "ignore")
      /\ n >= 2 => Signal!Contains(T, "handle")
  BY <1>2, <1>3
<1> QED
  BY <1>3, <1>4 DEF s

LEMMA AlarmStage ==
  ASSUME NEW n \in 0 .. 4, NEW T, T = Rest(Signal!Main("alarm"), n)
  PROVE  /\ T \in Seq(Statements) /\ Len(T) = n /\ (T = <<>> <=> n = 0)
         /\ n > 0 => Tail(T) = Rest(Signal!Main("alarm"), n - 1)
         /\ n = 4 => Head(T) = "handle"
         /\ n = 3 => Head(T) = "alarm"
         /\ n = 2 => Head(T) = "pause"
         /\ n = 1 => Head(T) = "exit"
         /\ n >= 4 => Signal!Contains(T, "handle")
         /\ n >= 1 => Signal!Contains(T, "exit")
<1> DEFINE s == Signal!Main("alarm")
<1>1. s \in Seq(Statements) /\ Len(s) = 4 /\ T = Rest(s, n)
  BY OtherTexts
<1>2. s[1] = "handle" /\ s[2] = "alarm" /\ s[3] = "pause" /\ s[4] = "exit"
  BY OtherTexts
<1> HIDE DEF s
<1>3. /\ T \in Seq(Statements) /\ Len(T) = n /\ (T = <<>> <=> n = 0)
      /\ n > 0 => Head(T) = s[4 - n + 1] /\ Tail(T) = Rest(s, n - 1)
      /\ \A i \in 1 .. 4 : i > 4 - n => Signal!Contains(T, s[i])
  BY <1>1, Stage
<1>4. /\ n = 4 => Head(T) = "handle"
      /\ n = 3 => Head(T) = "alarm"
      /\ n = 2 => Head(T) = "pause"
      /\ n = 1 => Head(T) = "exit"
      /\ n >= 4 => Signal!Contains(T, "handle")
      /\ n >= 1 => Signal!Contains(T, "exit")
  BY <1>2, <1>3
<1> QED
  BY <1>3, <1>4 DEF s

LEMMA ReaderStage ==
  ASSUME NEW n \in 0 .. 4, NEW T, T = Rest(Signal!Reader, n)
  PROVE  /\ T \in Seq(Statements) /\ Len(T) = n /\ (T = <<>> <=> n = 0)
         /\ n > 0 => Tail(T) = Rest(Signal!Reader, n - 1)
         /\ n = 4 => Head(T) = "handle"
         /\ n = 3 => Head(T) = "ignore"
         /\ n = 2 => Head(T) = "unblock"
         /\ n = 1 => Head(T) = "use"
<1> DEFINE s == Signal!Reader
<1>1. s \in Seq(Statements) /\ Len(s) = 4 /\ T = Rest(s, n)
  BY OtherTexts
<1>2. s[1] = "handle" /\ s[2] = "ignore" /\ s[3] = "unblock" /\ s[4] = "use"
  BY OtherTexts
<1> HIDE DEF s
<1>3. /\ T \in Seq(Statements) /\ Len(T) = n /\ (T = <<>> <=> n = 0)
      /\ n > 0 => Head(T) = s[4 - n + 1] /\ Tail(T) = Rest(s, n - 1)
      /\ \A i \in 1 .. 4 : i > 4 - n => Signal!Contains(T, s[i])
  BY <1>1, Stage
<1> QED
  BY <1>2, <1>3 DEF s

LEMMA ShortTexts ==
  /\ <<"exit">> \in Seq(Statements) /\ Head(<<"exit">>) = "exit" /\ Tail(<<"exit">>) = <<>>
  /\ <<"free", "exit">> \in Seq(Statements)
  /\ Head(<<"free", "exit">>) = "free" /\ Tail(<<"free", "exit">>) = <<"exit">>
  /\ <<"use", "leave">> \in Seq(Statements)
  /\ Head(<<"use", "leave">>) = "use" /\ Tail(<<"use", "leave">>) = <<"leave">>
  /\ <<"leave">> \in Seq(Statements) /\ Head(<<"leave">>) = "leave" /\ Tail(<<"leave">>) = <<>>
  /\ <<>> \in Seq(Statements)
  /\ <<"exit">> # <<>> /\ <<"free", "exit">> # <<>> /\ <<"use", "leave">> # <<>>
  /\ <<"leave">> # <<>> /\ <<"free", "exit">> # <<"exit">>
  BY DEF Statements

-------------------------------------------------------------------------------
(* Types *)

LEMMA DoTypes ==
  ASSUME SigTypes, NEW t \in Signal!ProgramThreads, NEW x, Signal!Do(t, x)
  PROVE  /\ todo' \in [Signal!ProgramThreads -> Seq(Statements)]
         /\ todo'[t] = Tail(todo[t]) /\ todo[t] # <<>> /\ Head(todo[t]) = x /\ ended = "no"
         /\ \A u \in Signal!ProgramThreads : u # t => todo'[u] = todo[u]
         /\ UNCHANGED <<program, sent, misused>>
<1>1. todo[t] \in Seq(Statements) /\ todo[t] # <<>> /\ Head(todo[t]) = x /\ ended = "no"
  BY DEF SigTypes, Signal!Do, Signal!At
<1>2. Tail(todo[t]) \in Seq(Statements)
  BY <1>1, HeadTailProperties
<1> QED
  BY <1>1, <1>2 DEF SigTypes, Signal!Do

LEMMA SigTypesStep ==
  ASSUME SigTypes, Signal!Next PROVE SigTypes' /\ program' = program /\ ended = "no"
<1> USE DEF SigTypes, Signal!ProgramThreads, Signal!Signals, Signal!Keys
<1>1. ASSUME NEW t \in Signal!ProgramThreads, NEW x, Signal!Do(t, x)
      PROVE  /\ todo' \in [Signal!ProgramThreads -> Seq(Statements)]
             /\ UNCHANGED <<program, sent, misused>> /\ ended = "no"
  BY <1>1, DoTypes
<1>2. \A p : Signal!Mask(p) \subseteq Signal!Signals
  BY DEF Signal!Mask
<1>4. ASSUME NEW t \in {"main", "reader"}, Signal!Step(t)
      PROVE  SigTypes' /\ program' = program /\ ended = "no"
  <2>1. CASE Signal!Unblock(t)
    BY <2>1, <1>1, <1>2 DEF Signal!Unblock, Signal!UnblockedMask
  <2>2. CASE Signal!Handle(t)
    BY <2>2, <1>1 DEF Signal!Handle
  <2>3. CASE Signal!Ignore(t)
    BY <2>3, <1>1 DEF Signal!Ignore
  <2>4. CASE Signal!Free(t)
    BY <2>4, <1>1 DEF Signal!Free
  <2>5. CASE Signal!ExitProcess(t)
    BY <2>5, <1>1 DEF Signal!ExitProcess
  <2> QED
    BY <1>4, <2>1, <2>2, <2>3, <2>4, <2>5 DEF Signal!Step
<1>3. CASE Signal!MainStep
  <2>1. CASE Signal!Malloc
    BY <2>1, <1>1 DEF Signal!Malloc
  <2>2. CASE Signal!Block
    BY <2>2, <1>1, <1>2 DEF Signal!Block
  <2>3. CASE Signal!Alarm
    BY <2>3, <1>1 DEF Signal!Alarm
  <2>4. ASSUME NEW t \in {"writer", "reader"}, NEW r \in Seq(Statements), Signal!Create(t, r)
        PROVE  SigTypes' /\ program' = program /\ ended = "no"
    <3>1. ended = "no" /\ Tail(todo["main"]) \in Seq(Statements)
      <4>1. todo["main"] # <<>> /\ todo["main"] \in Seq(Statements) /\ ended = "no"
        BY <2>4 DEF Signal!Create, Signal!At
      <4> QED
        BY <4>1, HeadTailProperties
    <3> QED
      BY <2>4, <3>1 DEF Signal!Create
  <2>5. Signal!Writer \in Seq(Statements) /\ Signal!Reader \in Seq(Statements)
    BY ShortTexts, OtherTexts DEF Signal!Writer
  <2>6. CASE Signal!Join("writer") \/ Signal!Join("reader")
    BY <2>6, <1>1 DEF Signal!Join
  <2>7. CASE Signal!Create("writer", Signal!Writer) \/ Signal!Create("reader", Signal!Reader)
    BY <2>4, <2>5, <2>7
  <2> HIDE DEF SigTypes
  <2> QED
    BY <1>3, <1>4, <2>1, <2>2, <2>3, <2>6, <2>7 DEF Signal!MainStep
<1>5. CASE Signal!WriterQuits \/ Signal!WriterLeaves \/ Signal!ReaderLeaves
  BY <1>5, <1>1 DEF Signal!WriterQuits, Signal!WriterLeaves, Signal!ReaderLeaves
<1>6. ASSUME NEW t \in Signal!ProgramThreads, Signal!Use(t)
      PROVE  SigTypes' /\ program' = program /\ ended = "no"
  BY <1>6 DEF Signal!Use, Signal!At
<1>7. ASSUME NEW t \in Signal!ProgramThreads, NEW s \in Signal!Signals, Signal!Deliver(s, t)
      PROVE  SigTypes' /\ program' = program /\ ended = "no"
  <2>1. Signal!Exit(program) \in Seq(Statements)
    BY ShortTexts DEF Signal!Exit
  <2>2. CASE action[s] # "handler"
    BY <1>7, <2>2 DEF Signal!Deliver
  <2>3. CASE action[s] = "handler" /\ program \in {"thread_signal", "sig_set"}
    BY <1>7, <2>1, <2>3 DEF Signal!Deliver, Signal!ctrl_c_handler
  <2>4. CASE action[s] = "handler" /\ program \notin {"thread_signal", "sig_set"}
    <3>1. Signal!At(t, "pause") => Tail(todo[t]) \in Seq(Statements)
      BY HeadTailProperties DEF Signal!At
    <3>2. todo' \in [Signal!ProgramThreads -> Seq(Statements)]
      <4>1. CASE Signal!At(t, "pause")
        <5>1. todo' = [todo EXCEPT ![t] = Tail(todo[t])]
          BY <1>7, <2>4, <4>1, Zenon DEF Signal!Deliver, Signal!ctrl_c_handler
        <5>2. todo \in [Signal!ProgramThreads -> Seq(Statements)]
          OBVIOUS
        <5> QED
          BY <3>1, <4>1, <5>1, <5>2, Zenon
      <4>2. CASE ~Signal!At(t, "pause")
        BY <1>7, <2>4, <4>2 DEF Signal!Deliver, Signal!ctrl_c_handler
      <4> QED
        BY <4>1, <4>2
    <3>3. /\ pending' \subseteq pending /\ ended = "no" /\ ended' = "no"
          /\ UNCHANGED <<program, blocked, action, freed>>
      BY <1>7, <2>4 DEF Signal!Deliver, Signal!ctrl_c_handler
    <3> QED
      BY <3>2, <3>3
  <2> QED
    BY <2>2, <2>3, <2>4
<1>8. ASSUME NEW s \in Signal!Keys, Signal!Send(s)
      PROVE  SigTypes' /\ program' = program /\ ended = "no"
  BY <1>8 DEF Signal!Send
<1> HIDE DEF SigTypes
<1> QED
  BY <1>3, <1>4, <1>5, <1>6, <1>7, <1>8 DEF Signal!Next
-------------------------------------------------------------------------------
(* The programs that have no thread but main *)

(* Only main moves, and it never comes to a statement of thread_signal.c's.  *)
LEMMA MainAlone ==
  ASSUME SigTypes, MainOnly, Signal!Next,
         todo["main"] # <<>> =>
           Head(todo["main"]) \notin {"malloc", "create_writer", "create_reader", "join_writer",
                                      "join_reader", "free", "use"}
  PROVE  /\ MainOnly'
         /\ \/ Signal!Block \/ Signal!Alarm
            \/ Signal!Unblock("main") \/ Signal!Handle("main") \/ Signal!Ignore("main")
            \/ Signal!ExitProcess("main")
            \/ \E s \in Signal!Signals : Signal!Deliver(s, "main")
            \/ \E s \in Signal!Keys : Signal!Send(s)
<1> USE DEF Signal!ProgramThreads
<1>1. todo["writer"] = <<>> /\ todo["reader"] = <<>> /\ freed = 0 /\ misused = {}
      /\ DOMAIN todo = Signal!ProgramThreads
  BY DEF MainOnly, SigTypes
<1>2. \A x : \A t \in {"writer", "reader"} : ~Signal!Do(t, x) /\ ~Signal!At(t, x)
  BY <1>1 DEF Signal!Do, Signal!At
<1>3. \A x : Signal!At("main", x) =>
        x \notin {"malloc", "create_writer", "create_reader", "join_writer", "join_reader",
                  "free", "use"}
  BY DEF Signal!At
<1>4. ~Signal!Malloc /\ ~Signal!Free("main") /\ ~Signal!Use("main")
      /\ ~Signal!Create("writer", Signal!Writer) /\ ~Signal!Create("reader", Signal!Reader)
      /\ ~Signal!Join("writer") /\ ~Signal!Join("reader")
  BY <1>3 DEF Signal!Malloc, Signal!Free, Signal!Use, Signal!Create, Signal!Join,
     Signal!Do, Signal!Creation, Signal!Joining
<1>5. ~Signal!Step("reader") /\ ~Signal!WriterQuits /\ ~Signal!WriterLeaves
      /\ ~Signal!ReaderLeaves /\ ~Signal!Use("writer") /\ ~Signal!Use("reader")
  BY <1>2 DEF Signal!Step, Signal!Unblock, Signal!Handle, Signal!Ignore, Signal!Free,
     Signal!ExitProcess, Signal!WriterQuits, Signal!WriterLeaves, Signal!ReaderLeaves, Signal!Use
<1>6. \A s : ~Signal!Deliver(s, "writer") /\ ~Signal!Deliver(s, "reader")
  BY <1>1 DEF Signal!Deliver
<1>7. \/ Signal!Block \/ Signal!Alarm
      \/ Signal!Unblock("main") \/ Signal!Handle("main") \/ Signal!Ignore("main")
      \/ Signal!ExitProcess("main")
      \/ \E s \in Signal!Signals : Signal!Deliver(s, "main")
      \/ \E s \in Signal!Keys : Signal!Send(s)
  BY <1>4, <1>5, <1>6 DEF Signal!Next, Signal!MainStep, Signal!Step
<1>8. todo'["writer"] = <<>> /\ todo'["reader"] = <<>> /\ UNCHANGED <<freed, misused>>
  <2>1. ASSUME NEW x, Signal!Do("main", x)
        PROVE  todo'["writer"] = <<>> /\ todo'["reader"] = <<>> /\ misused' = misused
    BY <2>1, <1>1 DEF Signal!Do
  <2>2. ASSUME NEW s, Signal!Deliver(s, "main")
        PROVE  todo'["writer"] = <<>> /\ todo'["reader"] = <<>> /\ UNCHANGED <<freed, misused>>
    BY <2>2, <1>1 DEF Signal!Deliver, Signal!ctrl_c_handler
  <2> QED
    BY <1>1, <1>7, <2>1, <2>2
       DEF Signal!Block, Signal!Alarm, Signal!Unblock, Signal!Handle, Signal!Ignore,
           Signal!ExitProcess, Signal!Send
<1> QED
  BY <1>1, <1>7, <1>8 DEF MainOnly

LEMMA SigSetNext ==
  ASSUME NEW n \in 1 .. 5, NEW T, T = Rest(Signal!Main("sig_set"), n)
  PROVE  /\ T # <<>> /\ Len(T) = n
         /\ Tail(T) = Rest(Signal!Main("sig_set"), n - 1) /\ Len(Tail(T)) = n - 1
<1>1. n \in 0 .. 5 /\ n # 0 /\ n > 0 /\ n - 1 \in 0 .. 5
  OBVIOUS
<1>2. Len(T) = n /\ (T = <<>> <=> n = 0)
      /\ (n > 0 => Tail(T) = Rest(Signal!Main("sig_set"), n - 1))
  BY <1>1, SigSetStage, Zenon
<1>3. Len(Rest(Signal!Main("sig_set"), n - 1)) = n - 1
  BY <1>1, SigSetStage, Zenon
<1> QED
  BY <1>1, <1>2, <1>3

LEMMA SigSetStep ==
  ASSUME SigInv, program = "sig_set", Signal!Next PROVE OfSigSet' /\ KilledUnprepared'
<1> DEFINE text == Signal!Main("sig_set")
           T == todo["main"]
           n == Len(T)
           exits == T \in {<<"exit">>, <<>>}
<1>1. SigTypes /\ OfSigSet /\ program' = program /\ ended = "no" /\ SigTypes' /\ MainOnly
  BY SigTypesStep DEF SigInv, OfSigSet
<1>2. \/ n \in 1 .. 5 /\ T = Rest(text, n)
         /\ (n \in 2 .. 4 => "QUIT" \in blocked["main"])
         /\ (n <= 2 => action["QUIT"] = "ignore")
         /\ (n <= 3 => action["INT"] = "handler")
      \/ exits /\ T # <<>> /\ Signal!Keys \subseteq blocked["main"]
  BY <1>1 DEF OfSigSet, Left
<1>3. ASSUME n \in 1 .. 5, T = Rest(text, n)
      PROVE  /\ T # <<>>
             /\ Tail(T) = Rest(text, n - 1) /\ Len(Tail(T)) = n - 1
             /\ n = 5 => Head(T) = "block" /\ Signal!Contains(T, "block")
             /\ n = 4 => Head(T) = "handle"
             /\ n = 3 => Head(T) = "ignore"
             /\ n = 2 => Head(T) = "unblock"
             /\ n = 1 => Head(T) = "loop"
             /\ n >= 4 => Signal!Contains(T, "handle")
  <2> HIDE DEF T, n, text
  <2>1. n \in 0 .. 5 /\ (n = 5 => n >= 5)
    BY <1>3
  <2>2. T = Rest(Signal!Main("sig_set"), n)
    BY <1>3 DEF text
  <2>3. /\ n = 5 => Head(T) = "block"
        /\ n = 4 => Head(T) = "handle"
        /\ n = 3 => Head(T) = "ignore"
        /\ n = 2 => Head(T) = "unblock"
        /\ n = 1 => Head(T) = "loop"
        /\ n >= 5 => Signal!Contains(T, "block")
        /\ n >= 4 => Signal!Contains(T, "handle")
    BY <2>1, <2>2, SigSetStage, Zenon
  <2>4. T # <<>> /\ Tail(T) = Rest(text, n - 1) /\ Len(Tail(T)) = n - 1
    BY <1>3, <2>2, SigSetNext, Zenon DEF text
  <2> QED
    BY <2>1, <2>3, <2>4
<1>4. exits /\ T # <<>> => T = <<"exit">> /\ Head(T) = "exit" /\ Tail(T) = <<>>
  BY ShortTexts
<1> HIDE DEF text
<1>5. T # <<>> => Head(T) \in {"block", "handle", "ignore", "unblock", "loop", "exit"}
  <2> HIDE DEF T, n
  <2>1. ASSUME n \in 1 .. 5 PROVE n = 1 \/ n = 2 \/ n = 3 \/ n = 4 \/ n = 5
    BY <2>1
  <2> QED
    BY <1>2, <1>3, <1>4, <2>1
<1>6. /\ MainOnly'
      /\ \/ Signal!Block \/ Signal!Alarm
         \/ Signal!Unblock("main") \/ Signal!Handle("main") \/ Signal!Ignore("main")
         \/ Signal!ExitProcess("main")
         \/ \E s \in Signal!Signals : Signal!Deliver(s, "main")
         \/ \E s \in Signal!Keys : Signal!Send(s)
  BY <1>1, <1>5, MainAlone
<1>7. ASSUME NEW x, Signal!Do("main", x)
      PROVE  /\ x # "alarm"
             /\ x = "block" => n = 5
             /\ x = "handle" => n = 4
             /\ x = "ignore" => n = 3
             /\ x = "unblock" => n = 2
             /\ x \in {"block", "handle", "ignore", "unblock"} =>
                  /\ T' = Rest(text, n - 1) /\ Len(T') = n - 1
                  /\ n <= 4 => "QUIT" \in blocked["main"]
                  /\ n <= 2 => action["QUIT"] = "ignore"
                  /\ n <= 3 => action["INT"] = "handler"
             /\ x = "exit" => T' = <<>> /\ Signal!Keys \subseteq blocked["main"]
  <2>1. T' = Tail(T) /\ T # <<>> /\ Head(T) = x
    BY <1>1, <1>7, DoTypes DEF Signal!ProgramThreads
  <2> HIDE DEF T, n, Signal!Keys
  <2>2. CASE n \in 1 .. 5 /\ T = Rest(text, n)
         /\ (n \in 2 .. 4 => "QUIT" \in blocked["main"])
         /\ (n <= 2 => action["QUIT"] = "ignore")
         /\ (n <= 3 => action["INT"] = "handler")
    <3>1. n = 1 \/ n = 2 \/ n = 3 \/ n = 4 \/ n = 5
      BY <2>2
    <3> QED
      BY <2>1, <2>2, <3>1, <1>3
  <2>3. CASE exits /\ T # <<>> /\ Signal!Keys \subseteq blocked["main"]
    BY <2>1, <2>3, <1>4
  <2> QED
    BY <1>2, <2>2, <2>3
<1>8. ended' \in {"no", "exit"} => KilledUnprepared'
  BY DEF KilledUnprepared, Signal!KilledUnprepared, Signal!Signals, Signal!Keys
<1>9. blocked \in [Signal!ProgramThreads -> SUBSET Signal!Signals]
      /\ action \in [Signal!Signals -> {"default", "ignore", "handler"}]
  BY <1>1 DEF SigTypes
<1>10. OfSigSet' <=>
         /\ MainOnly' /\ "ALRM" \notin pending'
         /\ \/ /\ T' = Rest(text, Len(T')) /\ Len(T') \in 1 .. 5
               /\ Len(T') \in 2 .. 4 => "QUIT" \in blocked'["main"]
               /\ Len(T') <= 2 => action'["QUIT"] = "ignore"
               /\ Len(T') <= 3 => action'["INT"] = "handler"
            \/ /\ T' \in {<<"exit">>, <<>>} /\ (T' = <<>> => ended' = "exit")
               /\ Signal!Keys \subseteq blocked'["main"]
  BY <1>1 DEF OfSigSet, Left, text
<1>11. "ALRM" \notin pending
  BY <1>1 DEF OfSigSet
<1> USE DEF Signal!Signals, Signal!Keys, Signal!ProgramThreads
<1>12. CASE Signal!Block
  <2>1. /\ blocked'["main"] = blocked["main"] \cup {"QUIT"} /\ n = 5
        /\ T' = Rest(text, n - 1) /\ Len(T') = n - 1
        /\ UNCHANGED <<action, pending, ended>>
    BY <1>1, <1>7, <1>9, <1>12 DEF Signal!Block, Signal!Mask
  <2>2. T' = Rest(text, 4) /\ Len(T') = 4
    <3> HIDE DEF T, n
    <3> QED
      BY <2>1
  <2>3. ended' = "no" /\ "ALRM" \notin pending'
    BY <2>1, <1>1, <1>11
  <2> HIDE DEF T, n
  <2>4. T' = Rest(text, Len(T')) /\ Len(T') \in 1 .. 5
    <3>1. T' = Rest(text, Len(T'))
      BY <2>2, Zenon
    <3>2. Len(T') \in 1 .. 5
      BY <2>2
    <3> QED
      BY <3>1, <3>2
  <2> QED
    BY <2>1, <2>2, <2>3, <2>4, <1>6, <1>8, <1>10
<1>13. CASE Signal!Handle("main")
  <2>1. /\ action'["INT"] = "handler" /\ action'["QUIT"] = action["QUIT"] /\ n = 4
        /\ T' = Rest(text, n - 1) /\ Len(T') = n - 1 /\ "QUIT" \in blocked["main"]
        /\ UNCHANGED <<blocked, pending, ended>>
    <3>1. /\ Signal!Do("main", "handle") /\ UNCHANGED <<blocked, pending, ended>>
          /\ action' = [action EXCEPT !["INT"] = "handler"]
      BY <1>1, <1>13 DEF Signal!Handle
    <3>2. action'["INT"] = "handler" /\ action'["QUIT"] = action["QUIT"]
      BY <3>1, <1>9
    <3>3. /\ n = 4 /\ T' = Rest(text, n - 1) /\ Len(T') = n - 1
          /\ (n <= 4 => "QUIT" \in blocked["main"])
      BY <3>1, <1>7
    <3> HIDE DEF T, n
    <3> QED
      BY <3>1, <3>2, <3>3
  <2>2. T' = Rest(text, 3) /\ Len(T') = 3
    <3> HIDE DEF T, n
    <3> QED
      BY <2>1
  <2>3. ended' = "no" /\ "ALRM" \notin pending'
    BY <2>1, <1>1, <1>11
  <2> HIDE DEF T, n
  <2>4. T' = Rest(text, Len(T')) /\ Len(T') \in 1 .. 5
    <3>1. T' = Rest(text, Len(T'))
      BY <2>2, Zenon
    <3>2. Len(T') \in 1 .. 5
      BY <2>2
    <3> QED
      BY <3>1, <3>2
  <2> QED
    BY <2>1, <2>2, <2>3, <2>4, <1>6, <1>8, <1>10
<1>14. CASE Signal!Ignore("main")
  <2>1. /\ action'["QUIT"] = "ignore" /\ action'["INT"] = action["INT"] /\ n = 3
        /\ T' = Rest(text, n - 1) /\ Len(T') = n - 1 /\ "QUIT" \in blocked["main"]
        /\ action["INT"] = "handler" /\ pending' \subseteq pending
        /\ UNCHANGED <<blocked, ended>>
    <3>1. /\ Signal!Do("main", "ignore") /\ UNCHANGED <<blocked, ended>>
          /\ action' = [action EXCEPT !["QUIT"] = "ignore"] /\ pending' \subseteq pending
      BY <1>14 DEF Signal!Ignore
    <3>2. action'["QUIT"] = "ignore" /\ action'["INT"] = action["INT"]
      BY <3>1, <1>9
    <3>3. /\ n = 3 /\ T' = Rest(text, n - 1) /\ Len(T') = n - 1
          /\ (n <= 4 => "QUIT" \in blocked["main"])
          /\ (n <= 3 => action["INT"] = "handler")
      BY <3>1, <1>7
    <3> HIDE DEF T, n
    <3> QED
      BY <3>1, <3>2, <3>3
  <2>2. T' = Rest(text, 2) /\ Len(T') = 2
    <3> HIDE DEF T, n
    <3> QED
      BY <2>1
  <2>3. ended' = "no" /\ "ALRM" \notin pending'
    BY <2>1, <1>1, <1>11
  <2> HIDE DEF T, n
  <2>4. T' = Rest(text, Len(T')) /\ Len(T') \in 1 .. 5
    <3>1. T' = Rest(text, Len(T'))
      BY <2>2, Zenon
    <3>2. Len(T') \in 1 .. 5
      BY <2>2
    <3> QED
      BY <3>1, <3>2
  <2> QED
    BY <2>1, <2>2, <2>3, <2>4, <1>6, <1>8, <1>10
<1>15. CASE Signal!Unblock("main")
  <2>1. /\ n = 2 /\ T' = Rest(text, n - 1) /\ Len(T') = n - 1
        /\ action["INT"] = "handler" /\ action["QUIT"] = "ignore"
        /\ UNCHANGED <<action, pending, ended>>
    <3>1. Signal!Do("main", "unblock") /\ UNCHANGED <<action, pending, ended>>
      BY <1>15 DEF Signal!Unblock
    <3>2. /\ n = 2 /\ T' = Rest(text, n - 1) /\ Len(T') = n - 1
          /\ (n <= 3 => action["INT"] = "handler") /\ (n <= 2 => action["QUIT"] = "ignore")
      BY <3>1, <1>7
    <3> HIDE DEF T, n
    <3> QED
      BY <3>1, <3>2
  <2>2. T' = Rest(text, 1) /\ Len(T') = 1
    <3> HIDE DEF T, n
    <3> QED
      BY <2>1
  <2>3. ended' = "no" /\ "ALRM" \notin pending'
    BY <2>1, <1>1, <1>11
  <2> HIDE DEF T, n
  <2>4. T' = Rest(text, Len(T')) /\ Len(T') \in 1 .. 5
    <3>1. T' = Rest(text, Len(T'))
      BY <2>2, Zenon
    <3>2. Len(T') \in 1 .. 5
      BY <2>2
    <3> QED
      BY <3>1, <3>2
  <2>5. /\ Len(T') \notin 2 .. 4
        /\ action'["QUIT"] = "ignore" /\ action'["INT"] = "handler"
    BY <2>1, <2>2
  <2>6. OfSigSet'
    BY <1>6, <1>10, <2>3, <2>4, <2>5
  <2> QED
    BY <1>6, <1>8, <2>3, <2>6
<1>16. CASE Signal!ExitProcess("main")
  <2>1. T' = <<>> /\ Signal!Keys \subseteq blocked["main"] /\ ended' = "exit"
        /\ UNCHANGED <<blocked, pending>>
    BY <1>7, <1>16 DEF Signal!ExitProcess
  <2> HIDE DEF T, n
  <2> QED
    BY <2>1, <1>6, <1>8, <1>10, <1>11
<1>17. CASE Signal!Alarm
  BY <1>7, <1>17 DEF Signal!Alarm
<1>18. CASE \E s \in Signal!Keys : Signal!Send(s)
  <2>1. UNCHANGED <<todo, blocked, action, ended>> /\ pending' \subseteq pending \cup Signal!Keys
    BY <1>18 DEF Signal!Send
  <2>2. T' = T /\ Len(T') = n
    BY <2>1
  <2> HIDE DEF T, n
  <2> QED
    BY <2>1, <2>2, <1>1, <1>2, <1>6, <1>8, <1>10, <1>11
<1>19. ASSUME NEW s \in Signal!Signals, Signal!Deliver(s, "main")
       PROVE  OfSigSet' /\ KilledUnprepared'
  <2>1. /\ s \in Signal!Keys /\ s \notin blocked["main"] /\ pending' \subseteq pending
        /\ action' = action
    BY <1>11, <1>19 DEF Signal!Deliver
  <2>2. n \in 1 .. 5 /\ T = Rest(text, n)
         /\ (n \in 2 .. 4 => "QUIT" \in blocked["main"])
         /\ (n <= 2 => action["QUIT"] = "ignore")
         /\ (n <= 3 => action["INT"] = "handler")
    <3> HIDE DEF T, n
    <3> QED
      BY <1>2, <2>1
  <2>3. CASE action[s] = "handler"
    <3>1. T' = <<"exit">> /\ blocked'["main"] = blocked["main"] \cup Signal!Keys /\ ended' = ended
      BY <1>1, <1>9, <1>19, <2>3
         DEF Signal!Deliver, Signal!ctrl_c_handler, Signal!Exit, SigTypes
    <3> HIDE DEF T, n
    <3> QED
      BY <3>1, <1>1, <1>6, <1>8, <1>10, <1>11, <2>1, ShortTexts
  <2>4. CASE action[s] # "handler"
    <3>1. UNCHANGED <<todo, blocked>> /\ ended' = IF action[s] = "default" THEN s ELSE ended
      BY <1>19, <2>4 DEF Signal!Deliver
    <3>2. T' = T /\ Len(T') = n
      BY <3>1
    <3>3. action[s] = "default" => KilledUnprepared'
      <4>1. KilledUnprepared' <=>
              (ended' \in Signal!Signals => Signal!Contains(T', Signal!Prepares(program', ended')))
        BY DEF KilledUnprepared, Signal!KilledUnprepared
      <4>2. Signal!Prepares("sig_set", "QUIT") = "block"
            /\ Signal!Prepares("sig_set", "INT") = "handle"
        BY DEF Signal!Prepares
      <4> HIDE DEF T, n
      <4>3. ASSUME action[s] = "default"
            PROVE  (s = "QUIT" => n = 5) /\ (s = "INT" => n >= 4)
        BY <4>3, <2>1, <2>2
      <4> QED
        BY <3>1, <3>2, <4>1, <4>2, <4>3, <1>1, <1>3, <2>1, <2>2
    <3> HIDE DEF T, n
    <3> QED
      BY <3>1, <3>2, <3>3, <1>1, <1>6, <1>8, <1>9, <1>10, <1>11, <2>1, <2>2
  <2> QED
    BY <2>3, <2>4
<1> QED
  BY <1>6, <1>12, <1>13, <1>14, <1>15, <1>16, <1>17, <1>18, <1>19
LEMMA SimpleNext ==
  ASSUME NEW n \in 1 .. 3, NEW T, T = Rest(Signal!Main("simple"), n)
  PROVE  /\ T # <<>> /\ Len(T) = n
         /\ Tail(T) = Rest(Signal!Main("simple"), n - 1) /\ Len(Tail(T)) = n - 1
<1>1. n \in 0 .. 3 /\ n # 0 /\ n > 0 /\ n - 1 \in 0 .. 3
  OBVIOUS
<1>2. Len(T) = n /\ (T = <<>> <=> n = 0)
      /\ (n > 0 => Tail(T) = Rest(Signal!Main("simple"), n - 1))
  BY <1>1, SimpleStage, Zenon
<1>3. Len(Rest(Signal!Main("simple"), n - 1)) = n - 1
  BY <1>1, SimpleStage, Zenon
<1> QED
  BY <1>1, <1>2, <1>3

LEMMA SimpleStep ==
  ASSUME SigInv, program = "simple", Signal!Next PROVE OfSimple' /\ KilledUnprepared'
<1> DEFINE text == Signal!Main("simple")
           T == todo["main"]
           n == Len(T)
<1>1. SigTypes /\ OfSimple /\ program' = program /\ ended = "no" /\ SigTypes' /\ MainOnly
  BY SigTypesStep DEF SigInv, OfSimple
<1>2. n \in 1 .. 3 /\ T = Rest(text, n) /\ "ALRM" \notin pending
      /\ (n <= 2 => action["QUIT"] = "ignore")
      /\ (n <= 1 => action["INT"] = "handler")
  BY <1>1 DEF OfSimple, Left
<1>3. /\ T # <<>>
      /\ Tail(T) = Rest(text, n - 1) /\ Len(Tail(T)) = n - 1
      /\ n = 3 => Head(T) = "ignore" /\ Signal!Contains(T, "ignore")
      /\ n = 2 => Head(T) = "handle"
      /\ n = 1 => Head(T) = "loop"
      /\ n >= 2 => Signal!Contains(T, "handle")
  <2> HIDE DEF T, n, text
  <2>1. n \in 0 .. 3 /\ (n = 3 => n >= 3)
    BY <1>2
  <2>2. T = Rest(Signal!Main("simple"), n)
    BY <1>2 DEF text
  <2>3. /\ n = 3 => Head(T) = "ignore"
        /\ n = 2 => Head(T) = "handle"
        /\ n = 1 => Head(T) = "loop"
        /\ n >= 3 => Signal!Contains(T, "ignore")
        /\ n >= 2 => Signal!Contains(T, "handle")
    BY <2>1, <2>2, SimpleStage, Zenon
  <2>4. T # <<>> /\ Tail(T) = Rest(text, n - 1) /\ Len(Tail(T)) = n - 1
    BY <1>2, <2>2, SimpleNext, Zenon DEF text
  <2> QED
    BY <2>1, <2>3, <2>4
<1> HIDE DEF text
<1>5. Head(T) \in {"ignore", "handle", "loop"}
  <2> HIDE DEF T, n
  <2>1. n = 1 \/ n = 2 \/ n = 3
    BY <1>2
  <2> QED
    BY <1>3, <2>1
<1>6. /\ MainOnly'
      /\ \/ Signal!Block \/ Signal!Alarm
         \/ Signal!Unblock("main") \/ Signal!Handle("main") \/ Signal!Ignore("main")
         \/ Signal!ExitProcess("main")
         \/ \E s \in Signal!Signals : Signal!Deliver(s, "main")
         \/ \E s \in Signal!Keys : Signal!Send(s)
  BY <1>1, <1>5, MainAlone
<1>7. ASSUME NEW x, Signal!Do("main", x)
      PROVE  /\ x \in {"handle", "ignore", "loop"}
             /\ x = "ignore" => n = 3
             /\ x = "handle" => n = 2
             /\ T' = Rest(text, n - 1) /\ Len(T') = n - 1
  <2>1. T' = Tail(T) /\ T # <<>> /\ Head(T) = x
    BY <1>1, <1>7, DoTypes DEF Signal!ProgramThreads
  <2> HIDE DEF T, n
  <2>2. n = 1 \/ n = 2 \/ n = 3
    BY <1>2
  <2> QED
    BY <2>1, <2>2, <1>3
<1>8. ended' \in {"no", "exit"} => KilledUnprepared'
  BY DEF KilledUnprepared, Signal!KilledUnprepared, Signal!Signals, Signal!Keys
<1>9. action \in [Signal!Signals -> {"default", "ignore", "handler"}]
  BY <1>1 DEF SigTypes
<1>10. OfSimple' <=>
         /\ MainOnly' /\ "ALRM" \notin pending'
         /\ T' = Rest(text, Len(T')) /\ Len(T') \in 1 .. 3
         /\ Len(T') <= 2 => action'["QUIT"] = "ignore"
         /\ Len(T') <= 1 => action'["INT"] = "handler"
  BY <1>1 DEF OfSimple, Left, text
<1> USE DEF Signal!Signals, Signal!Keys, Signal!ProgramThreads
<1>11. ~Signal!Block /\ ~Signal!Alarm /\ ~Signal!Unblock("main") /\ ~Signal!ExitProcess("main")
  BY <1>7 DEF Signal!Block, Signal!Alarm, Signal!Unblock, Signal!ExitProcess
<1>12. CASE Signal!Handle("main")
  <2>1. /\ Signal!Do("main", "handle") /\ UNCHANGED <<pending, ended>>
        /\ action' = [action EXCEPT !["INT"] = "handler"]
    BY <1>1, <1>12 DEF Signal!Handle
  <2>2. action'["INT"] = "handler" /\ action'["QUIT"] = action["QUIT"]
    BY <2>1, <1>9
  <2>3. n = 2 /\ T' = Rest(text, n - 1) /\ Len(T') = n - 1
    BY <2>1, <1>7
  <2> HIDE DEF T, n
  <2>4. T' = Rest(text, 1) /\ Len(T') = 1
    BY <2>3
  <2>5. T' = Rest(text, Len(T'))
    BY <2>4, Zenon
  <2> QED
    BY <2>1, <2>2, <2>3, <2>4, <2>5, <1>1, <1>2, <1>6, <1>8, <1>10
<1>13. CASE Signal!Ignore("main")
  <2>1. /\ Signal!Do("main", "ignore") /\ UNCHANGED ended
        /\ action' = [action EXCEPT !["QUIT"] = "ignore"] /\ pending' \subseteq pending
    BY <1>13 DEF Signal!Ignore
  <2>2. action'["QUIT"] = "ignore"
    BY <2>1, <1>9
  <2>3. n = 3 /\ T' = Rest(text, n - 1) /\ Len(T') = n - 1
    BY <2>1, <1>7
  <2> HIDE DEF T, n
  <2>4. T' = Rest(text, 2) /\ Len(T') = 2
    BY <2>3
  <2>5. T' = Rest(text, Len(T'))
    BY <2>4, Zenon
  <2> QED
    BY <2>1, <2>2, <2>4, <2>5, <1>1, <1>2, <1>6, <1>8, <1>10
<1>14. CASE \E s \in Signal!Keys : Signal!Send(s)
  <2>1. UNCHANGED <<todo, action, ended>> /\ pending' \subseteq pending \cup Signal!Keys
    BY <1>14 DEF Signal!Send
  <2>2. T' = T /\ Len(T') = n
    BY <2>1
  <2> HIDE DEF T, n
  <2> QED
    BY <2>1, <2>2, <1>1, <1>2, <1>6, <1>8, <1>10
<1>15. ASSUME NEW s \in Signal!Signals, Signal!Deliver(s, "main")
       PROVE  OfSimple' /\ KilledUnprepared'
  <2>1. s \in Signal!Keys /\ pending' \subseteq pending /\ action' = action
    BY <1>2, <1>15 DEF Signal!Deliver
  <2>2. ~Signal!At("main", "pause")
    BY <1>5 DEF Signal!At
  <2>3. todo' = todo /\ ended' = IF action[s] = "default" THEN s ELSE ended
    BY <1>1, <1>15, <2>2 DEF Signal!Deliver, Signal!ctrl_c_handler
  <2>4. T' = T /\ Len(T') = n
    BY <2>3
  <2>5. action[s] = "default" => KilledUnprepared'
    <3>1. KilledUnprepared' <=>
            (ended' \in Signal!Signals => Signal!Contains(T', Signal!Prepares(program', ended')))
      BY DEF KilledUnprepared, Signal!KilledUnprepared
    <3>2. Signal!Prepares("simple", "QUIT") = "ignore"
          /\ Signal!Prepares("simple", "INT") = "handle"
      BY DEF Signal!Prepares
    <3> HIDE DEF T, n
    <3>3. ASSUME action[s] = "default"
          PROVE  (s = "QUIT" => n = 3) /\ (s = "INT" => n >= 2)
      BY <3>3, <1>2
    <3> QED
      BY <2>1, <2>3, <2>4, <3>1, <3>2, <3>3, <1>1, <1>3
  <2> HIDE DEF T, n
  <2> QED
    BY <2>1, <2>3, <2>4, <2>5, <1>1, <1>2, <1>6, <1>8, <1>10
<1> QED
  BY <1>6, <1>11, <1>12, <1>13, <1>14, <1>15

LEMMA AlarmNext ==
  ASSUME NEW n \in 1 .. 4, NEW T, T = Rest(Signal!Main("alarm"), n)
  PROVE  /\ T # <<>> /\ Len(T) = n
         /\ Tail(T) = Rest(Signal!Main("alarm"), n - 1) /\ Len(Tail(T)) = n - 1
<1>1. n \in 0 .. 4 /\ n # 0 /\ n > 0 /\ n - 1 \in 0 .. 4
  OBVIOUS
<1>2. Len(T) = n /\ (T = <<>> <=> n = 0)
      /\ (n > 0 => Tail(T) = Rest(Signal!Main("alarm"), n - 1))
  BY <1>1, AlarmStage, Zenon
<1>3. Len(Rest(Signal!Main("alarm"), n - 1)) = n - 1
  BY <1>1, AlarmStage, Zenon
<1> QED
  BY <1>1, <1>2, <1>3

LEMMA AlarmStep ==
  ASSUME SigInv, program = "alarm", Signal!Next PROVE OfAlarm' /\ KilledUnprepared'
<1> DEFINE text == Signal!Main("alarm")
           T == todo["main"]
           n == Len(T)
<1>1. SigTypes /\ OfAlarm /\ program' = program /\ ended = "no" /\ SigTypes' /\ MainOnly
  BY SigTypesStep DEF SigInv, OfAlarm
<1>2. n \in 1 .. 4 /\ T = Rest(text, n) /\ (n <= 3 => action["ALRM"] = "handler")
  <2>1. n \in 0 .. 4 /\ T = Rest(text, n) /\ (n <= 3 => action["ALRM"] = "handler") /\ n # 0
    BY <1>1 DEF OfAlarm, Left
  <2> HIDE DEF T, n
  <2> QED
    BY <2>1
<1>3. /\ T # <<>>
      /\ Tail(T) = Rest(text, n - 1) /\ Len(Tail(T)) = n - 1
      /\ n = 4 => Head(T) = "handle" /\ Signal!Contains(T, "handle")
      /\ n = 3 => Head(T) = "alarm"
      /\ n = 2 => Head(T) = "pause"
      /\ n = 1 => Head(T) = "exit"
      /\ n >= 1 => Signal!Contains(T, "exit")
  <2> HIDE DEF T, n, text
  <2>1. n \in 0 .. 4 /\ (n = 4 => n >= 4)
    BY <1>2
  <2>2. T = Rest(Signal!Main("alarm"), n)
    BY <1>2 DEF text
  <2>3. /\ n = 4 => Head(T) = "handle"
        /\ n = 3 => Head(T) = "alarm"
        /\ n = 2 => Head(T) = "pause"
        /\ n = 1 => Head(T) = "exit"
        /\ n >= 4 => Signal!Contains(T, "handle")
        /\ n >= 1 => Signal!Contains(T, "exit")
    BY <2>1, <2>2, AlarmStage, Zenon
  <2>4. T # <<>> /\ Tail(T) = Rest(text, n - 1) /\ Len(Tail(T)) = n - 1
    BY <1>2, <2>2, AlarmNext, Zenon DEF text
  <2> QED
    BY <2>1, <2>3, <2>4
<1> HIDE DEF text
<1>4. /\ Head(T) \in {"handle", "alarm", "pause", "exit"}
      /\ Head(T) = "handle" => n = 4
      /\ Head(T) = "alarm" => n = 3
      /\ Head(T) = "pause" => n = 2
      /\ Head(T) = "exit" => n = 1
  <2> HIDE DEF T, n
  <2>1. n = 1 \/ n = 2 \/ n = 3 \/ n = 4
    BY <1>2
  <2> QED
    BY <1>3, <2>1
<1>6. /\ MainOnly'
      /\ \/ Signal!Block \/ Signal!Alarm
         \/ Signal!Unblock("main") \/ Signal!Handle("main") \/ Signal!Ignore("main")
         \/ Signal!ExitProcess("main")
         \/ \E s \in Signal!Signals : Signal!Deliver(s, "main")
         \/ \E s \in Signal!Keys : Signal!Send(s)
  BY <1>1, <1>4, MainAlone
<1>7. ASSUME NEW x, Signal!Do("main", x)
      PROVE  Head(T) = x /\ T' = Rest(text, n - 1) /\ Len(T') = n - 1
  <2>1. T' = Tail(T) /\ Head(T) = x
    BY <1>1, <1>7, DoTypes DEF Signal!ProgramThreads
  <2> QED
    BY <2>1, <1>3
<1>8. ended' \in {"no", "exit"} => KilledUnprepared'
  BY DEF KilledUnprepared, Signal!KilledUnprepared, Signal!Signals, Signal!Keys
<1>9. action \in [Signal!Signals -> {"default", "ignore", "handler"}]
  BY <1>1 DEF SigTypes
<1>10. OfAlarm' <=>
         /\ MainOnly'
         /\ T' = Rest(text, Len(T')) /\ Len(T') \in 0 .. 4
         /\ Len(T') = 0 => ended' = "exit"
         /\ Len(T') <= 3 /\ ended' = "no" => action'["ALRM"] = "handler"
  BY <1>1 DEF OfAlarm, Left, text
<1> USE DEF Signal!Signals, Signal!Keys, Signal!ProgramThreads
(* From n statements to one less. *)
<1>11. ASSUME T' = Rest(text, n - 1), Len(T') = n - 1
       PROVE  T' = Rest(text, Len(T')) /\ Len(T') \in 0 .. 4 /\ (n # 1 => Len(T') # 0)
  <2> HIDE DEF T, n
  <2>1. T' = Rest(text, Len(T'))
    BY <1>11, Zenon
  <2>2. n \in 1 .. 4 /\ Len(T') = n - 1
    BY <1>2, <1>11
  <2>3. Len(T') \in 0 .. 4 /\ (n # 1 => Len(T') # 0)
    BY <2>2
  <2> QED
    BY <2>1, <2>3
<1>12. ~Signal!Block /\ ~Signal!Unblock("main") /\ ~Signal!Ignore("main")
  BY <1>4, <1>7 DEF Signal!Block, Signal!Unblock, Signal!Ignore
<1>13. CASE Signal!Handle("main")
  <2>1. /\ Signal!Do("main", "handle") /\ UNCHANGED ended
        /\ action' = [action EXCEPT !["ALRM"] = "handler"]
    BY <1>1, <1>13 DEF Signal!Handle
  <2>2. action'["ALRM"] = "handler"
    BY <2>1, <1>9
  <2>3. n = 4 /\ T' = Rest(text, n - 1) /\ Len(T') = n - 1
    BY <2>1, <1>4, <1>7
  <2>4. T' = Rest(text, Len(T')) /\ Len(T') \in 0 .. 4 /\ Len(T') # 0
    <3> HIDE DEF T, n
    <3> QED
      BY <2>3, <1>11
  <2> HIDE DEF T, n
  <2> QED
    BY <2>1, <2>2, <2>4, <1>1, <1>6, <1>8, <1>10
<1>14. CASE Signal!Alarm
  <2>1. Signal!Do("main", "alarm") /\ UNCHANGED <<action, ended>>
    BY <1>14 DEF Signal!Alarm
  <2>2. n = 3 /\ T' = Rest(text, n - 1) /\ Len(T') = n - 1
    BY <2>1, <1>4, <1>7
  <2> HIDE DEF T, n
  <2> QED
    BY <2>1, <2>2, <1>1, <1>2, <1>6, <1>8, <1>10, <1>11
<1>15. CASE Signal!ExitProcess("main")
  <2>1. Signal!Do("main", "exit") /\ ended' = "exit"
    BY <1>15 DEF Signal!ExitProcess
  <2>2. T' = Rest(text, n - 1) /\ Len(T') = n - 1
    BY <2>1, <1>7
  <2> HIDE DEF T, n
  <2> QED
    BY <2>1, <2>2, <1>6, <1>8, <1>10, <1>11
<1>16. CASE \E s \in Signal!Keys : Signal!Send(s)
  <2>1. UNCHANGED <<todo, action, ended>>
    BY <1>16 DEF Signal!Send
  <2>2. T' = T /\ Len(T') = n
    BY <2>1
  <2> HIDE DEF T, n
  <2> QED
    BY <2>1, <2>2, <1>1, <1>2, <1>6, <1>8, <1>10
<1>17. ASSUME NEW s \in Signal!Signals, Signal!Deliver(s, "main")
       PROVE  OfAlarm' /\ KilledUnprepared'
  <2>1. action' = action /\ ended' = IF action[s] = "default" THEN s ELSE ended
    BY <1>17 DEF Signal!Deliver
  <2>2. CASE action[s] = "handler"
    <3>1. Signal!At("main", "pause") => n = 2
      BY <1>4 DEF Signal!At
    <3>2. (todo' = todo) \/ (n = 2 /\ T' = Tail(T))
      <4>1. todo' = IF Signal!At("main", "pause") THEN [todo EXCEPT !["main"] = Tail(@)] ELSE todo
        BY <1>1, <1>17, <2>2 DEF Signal!Deliver, Signal!ctrl_c_handler
      <4> QED
        BY <1>1, <3>1, <4>1 DEF SigTypes
    <3>3. ended' = ended
      BY <2>1, <2>2
    <3>4. CASE todo' = todo
      <4>1. T' = T /\ Len(T') = n
        BY <3>4
      <4> HIDE DEF T, n
      <4> QED
        BY <2>1, <3>3, <4>1, <1>1, <1>2, <1>6, <1>8, <1>10
    <3>5. CASE n = 2 /\ T' = Tail(T)
      <4>1. T' = Rest(text, n - 1) /\ Len(T') = n - 1
        BY <3>5, <1>3
      <4>2. T' = Rest(text, Len(T')) /\ Len(T') \in 0 .. 4 /\ Len(T') # 0
        <5> HIDE DEF T, n
        <5> QED
          BY <3>5, <4>1, <1>11
      <4>3. action["ALRM"] = "handler"
        <5> HIDE DEF T, n
        <5> QED
          BY <3>5, <1>2
      <4> HIDE DEF T, n
      <4> QED
        BY <2>1, <3>3, <4>2, <4>3, <1>1, <1>6, <1>8, <1>10
    <3> QED
      BY <3>2, <3>4, <3>5
  <2>3. CASE action[s] # "handler"
    <3>1. todo' = todo
      BY <1>17, <2>3 DEF Signal!Deliver
    <3>2. T' = T /\ Len(T') = n
      BY <3>1
    <3>3. action[s] = "default" => KilledUnprepared'
      <4>1. KilledUnprepared' <=>
              (ended' \in Signal!Signals => Signal!Contains(T', Signal!Prepares(program', ended')))
        BY DEF KilledUnprepared, Signal!KilledUnprepared
      <4>2. Signal!Prepares("alarm", "QUIT") = "exit" /\ Signal!Prepares("alarm", "INT") = "exit"
            /\ Signal!Prepares("alarm", "ALRM") = "handle"
        BY DEF Signal!Prepares
      <4> HIDE DEF T, n
      <4>3. action[s] = "default" /\ s = "ALRM" => n = 4
        BY <1>2
      <4> QED
        BY <2>1, <3>2, <4>1, <4>2, <4>3, <1>1, <1>2, <1>3
    <3>4. ended' = "no" \/ (action[s] = "default" /\ ended' = s)
      BY <2>1, <1>1
    <3> HIDE DEF T, n
    <3> QED
      BY <2>1, <3>2, <3>3, <3>4, <1>1, <1>2, <1>6, <1>8, <1>10
  <2> QED
    BY <2>2, <2>3
<1> QED
  BY <1>6, <1>12, <1>13, <1>14, <1>15, <1>16, <1>17-------------------------------------------------------------------------------
(* thread_signal.c *)

MainHead3(m) ==
  CASE m = 9 -> "malloc" [] m = 8 -> "block" [] m = 7 -> "create_writer"
    [] m = 6 -> "create_reader" [] m = 5 -> "join_writer" [] m = 4 -> "join_reader"
    [] m = 3 -> "free" [] m = 2 -> "free" [] m = 1 -> "exit"

ReaderHead(r) ==
  CASE r = 4 -> "handle" [] r = 3 -> "ignore" [] r = 2 -> "unblock" [] r = 1 -> "use"
    [] r = 5 -> "exit" [] r = 6 -> "free"

AfterReader(r) == IF r = 5 THEN 0 ELSE r - 1

(* What the texts say, by position. *)
LEMMA MainTexts3 ==
  ASSUME NEW m \in 0 .. 9
  PROVE  LET M == Rest(Signal!Main("thread_signal"), m) IN
         /\ M = <<>> <=> m = 0
         /\ m > 0 => Head(M) = MainHead3(m) /\ Tail(M) = Rest(Signal!Main("thread_signal"), m - 1)
         /\ m >= 8 => Signal!Contains(M, "block")
         /\ m >= 4 => Signal!Contains(M, "join_reader")
         /\ m = 1 => M = <<"exit">>
<1> DEFINE M == Rest(Signal!Main("thread_signal"), m)
<1>1. /\ M \in Seq(Statements) /\ Len(M) = m /\ (M = <<>> <=> m = 0)
      /\ m > 0 => Tail(M) = Rest(Signal!Main("thread_signal"), m - 1)
      /\ m = 9 => Head(M) = "malloc"
      /\ m = 8 => Head(M) = "block"
      /\ m = 7 => Head(M) = "create_writer"
      /\ m = 6 => Head(M) = "create_reader"
      /\ m = 5 => Head(M) = "join_writer"
      /\ m = 4 => Head(M) = "join_reader"
      /\ m = 3 => Head(M) = "free"
      /\ m = 2 => Head(M) = "free"
      /\ m = 1 => Head(M) = "exit"
      /\ m >= 8 => Signal!Contains(M, "block")
      /\ m >= 4 => Signal!Contains(M, "join_reader")
  BY ThreadSignalStage, Zenon
<1> HIDE DEF M
<1>2. m > 0 => Head(M) = MainHead3(m)
  BY <1>1 DEF MainHead3
<1>3. m = 1 => M = <<"exit">>
  <2> SUFFICES ASSUME m = 1 PROVE M = <<"exit">>
    OBVIOUS
  <2>1. Len(M) = 1 /\ M[1] = "exit" /\ M \in Seq(Statements)
    BY <1>1
  <2> QED
    BY <2>1
<1> QED
  BY <1>1, <1>2, <1>3 DEF M

LEMMA ReaderTexts ==
  ASSUME NEW r \in 0 .. 6
  PROVE  /\ ReaderText(r) = <<>> <=> r = 0
         /\ r > 0 => /\ Head(ReaderText(r)) = ReaderHead(r)
                     /\ Tail(ReaderText(r)) = ReaderText(AfterReader(r))
         /\ ReaderText(0) = <<>> /\ ReaderText(4) = Signal!Reader
         /\ ReaderText(5) = <<"exit">> /\ ReaderText(6) = <<"free", "exit">>
<1>1. Rest(Signal!Reader, 0) = <<>>
  <2>1. 0 \in 0 .. 4
    OBVIOUS
  <2> QED
    BY <2>1, ReaderStage, Zenon
<1>2. ReaderText(0) = <<>> /\ ReaderText(5) = <<"exit">> /\ ReaderText(6) = <<"free", "exit">>
  BY <1>1 DEF ReaderText
<1>3. ASSUME r \in 0 .. 4
      PROVE  /\ ReaderText(r) = <<>> <=> r = 0
             /\ r > 0 => /\ Head(ReaderText(r)) = ReaderHead(r)
                         /\ Tail(ReaderText(r)) = ReaderText(AfterReader(r))
  <2> DEFINE R == ReaderText(r)
  <2>1. R = Rest(Signal!Reader, r)
    BY <1>3 DEF ReaderText
  <2> HIDE DEF R
  <2>2. /\ R = <<>> <=> r = 0
        /\ r > 0 => Tail(R) = Rest(Signal!Reader, r - 1)
        /\ r = 4 => Head(R) = "handle"
        /\ r = 3 => Head(R) = "ignore"
        /\ r = 2 => Head(R) = "unblock"
        /\ r = 1 => Head(R) = "use"
    BY <1>3, <2>1, ReaderStage, Zenon
  <2>3. r > 0 => AfterReader(r) = r - 1 /\ r - 1 \in 0 .. 4
    BY <1>3 DEF AfterReader
  <2>4. r > 0 => ReaderText(AfterReader(r)) = Rest(Signal!Reader, r - 1)
    BY <2>3 DEF ReaderText
  <2>5. r > 0 => Head(R) = ReaderHead(r)
    BY <1>3, <2>2 DEF ReaderHead
  <2> QED
    BY <2>2, <2>4, <2>5 DEF R
<1>4. ASSUME r \in {5, 6}
      PROVE  /\ ReaderText(r) # <<>>
             /\ Head(ReaderText(r)) = ReaderHead(r)
             /\ Tail(ReaderText(r)) = ReaderText(AfterReader(r))
  <2>1. /\ ReaderHead(5) = "exit" /\ ReaderHead(6) = "free"
        /\ AfterReader(5) = 0 /\ AfterReader(6) = 5
    BY DEF ReaderHead, AfterReader
  <2>2. CASE r = 5
    BY <2>1, <2>2, <1>2, ShortTexts, Zenon
  <2>3. CASE r = 6
    BY <2>1, <2>3, <1>2, ShortTexts, Zenon
  <2> QED
    BY <1>4, <2>2, <2>3
<1>5. r = 0 \/ r \in 0 .. 4 \/ r \in {5, 6}
  OBVIOUS
<1>6. ReaderText(4) = Signal!Reader
  <2> DEFINE T == Signal!Reader
  <2>1. T \in Seq(Statements) /\ Len(T) = 4
    BY OtherTexts
  <2>2. ReaderText(4) = SubSeq(T, 1, Len(T))
    BY <2>1 DEF ReaderText, Rest
  <2> HIDE DEF T
  <2>3. SubSeq(T, 1, Len(T)) = T
    BY <2>1
  <2> QED
    BY <2>2, <2>3 DEF T
<1>7. r \in {5, 6} => r # 0
  OBVIOUS
<1> QED
  BY <1>2, <1>3, <1>4, <1>5, <1>6, <1>7

LEMMA WriterTexts ==
  ASSUME NEW w \in 0 .. 2
  PROVE  /\ WriterText(w) = <<>> <=> w = 0
         /\ w > 0 => /\ Head(WriterText(w)) = IF w = 2 THEN "use" ELSE "leave"
                     /\ Tail(WriterText(w)) = WriterText(w - 1)
         /\ WriterText(2) = Signal!Writer
  BY ShortTexts DEF WriterText, Signal!Writer

(* A statement of a thread, by position. *)
LEMMA DoMain3 ==
  ASSUME SigTypes, NEW m \in 0 .. 9, NEW r \in 0 .. 6, NEW w \in 0 .. 2, Threads3(m, r, w),
         NEW x, Signal!Do("main", x)
  PROVE  /\ m > 0 /\ x = MainHead3(m)
         /\ todo'["main"] = Rest(Signal!Main("thread_signal"), m - 1)
         /\ todo'["reader"] = ReaderText(r) /\ todo'["writer"] = WriterText(w)
         /\ misused' = misused
<1>1. /\ todo'["main"] = Tail(todo["main"]) /\ todo["main"] # <<>> /\ Head(todo["main"]) = x
      /\ todo'["reader"] = todo["reader"] /\ todo'["writer"] = todo["writer"]
      /\ misused' = misused
  BY DoTypes DEF Signal!ProgramThreads
<1>2. /\ todo["main"] = Rest(Signal!Main("thread_signal"), m)
      /\ todo["reader"] = ReaderText(r) /\ todo["writer"] = WriterText(w)
  BY DEF Threads3
<1>3. m # 0 => m > 0
  OBVIOUS
<1> QED
  BY <1>1, <1>2, <1>3, MainTexts3, Zenon

LEMMA DoReader3 ==
  ASSUME SigTypes, NEW m \in 0 .. 9, NEW r \in 0 .. 6, NEW w \in 0 .. 2, Threads3(m, r, w),
         NEW x, Signal!Do("reader", x)
  PROVE  /\ r > 0 /\ x = ReaderHead(r)
         /\ todo'["main"] = Rest(Signal!Main("thread_signal"), m)
         /\ todo'["reader"] = ReaderText(AfterReader(r)) /\ todo'["writer"] = WriterText(w)
         /\ misused' = misused
<1>1. /\ todo'["reader"] = Tail(todo["reader"]) /\ todo["reader"] # <<>> /\ Head(todo["reader"]) = x
      /\ todo'["main"] = todo["main"] /\ todo'["writer"] = todo["writer"]
      /\ misused' = misused
  BY DoTypes DEF Signal!ProgramThreads
<1>2. /\ todo["main"] = Rest(Signal!Main("thread_signal"), m)
      /\ todo["reader"] = ReaderText(r) /\ todo["writer"] = WriterText(w)
  BY DEF Threads3
<1>3. r # 0 => r > 0
  OBVIOUS
<1> QED
  BY <1>1, <1>2, <1>3, ReaderTexts, Zenon

LEMMA DoWriter3 ==
  ASSUME SigTypes, NEW m \in 0 .. 9, NEW r \in 0 .. 6, NEW w \in 0 .. 2, Threads3(m, r, w),
         NEW x, Signal!Do("writer", x)
  PROVE  /\ w > 0 /\ x = (IF w = 2 THEN "use" ELSE "leave")
         /\ todo'["main"] = Rest(Signal!Main("thread_signal"), m)
         /\ todo'["reader"] = ReaderText(r) /\ todo'["writer"] = WriterText(w - 1)
         /\ misused' = misused
<1>1. /\ todo'["writer"] = Tail(todo["writer"]) /\ todo["writer"] # <<>> /\ Head(todo["writer"]) = x
      /\ todo'["main"] = todo["main"] /\ todo'["reader"] = todo["reader"]
      /\ misused' = misused
  BY DoTypes DEF Signal!ProgramThreads
<1>2. /\ todo["main"] = Rest(Signal!Main("thread_signal"), m)
      /\ todo["reader"] = ReaderText(r) /\ todo["writer"] = WriterText(w)
  BY DEF Threads3
<1>3. w # 0 => w > 0
  OBVIOUS
<1> QED
  BY <1>1, <1>2, <1>3, WriterTexts, Zenon
LEMMA ThreadSignalStep ==
  ASSUME SigInv, program = "thread_signal", Signal!Next
  PROVE  OfThreadSignal' /\ KilledUnprepared'
<1>1. SigTypes /\ program' = program /\ ended = "no" /\ OfThreadSignal
  BY SigTypesStep DEF SigInv
<1>2. PICK m \in 0 .. 9, r \in 0 .. 6, w \in 0 .. 2 : Place3(m, r, w)
  BY <1>1 DEF OfThreadSignal
<1>3. SUFFICES /\ \E m2 \in 0 .. 9, r2 \in 0 .. 6, w2 \in 0 .. 2 : Place3(m2, r2, w2)'
               /\ KilledUnprepared'
  BY DEF OfThreadSignal
<1>4. Threads3(m, r, w) /\ Masks3(m, r, w) /\ Record3(m, r)
  BY <1>2 DEF Place3
<1>5. ended' \in {"no", "exit"} => KilledUnprepared'
  BY DEF KilledUnprepared, Signal!KilledUnprepared, Signal!Signals, Signal!Keys
<1>6. /\ DOMAIN todo = Signal!ProgramThreads
      /\ blocked \in [Signal!ProgramThreads -> SUBSET Signal!Signals]
      /\ action \in [Signal!Signals -> {"default", "ignore", "handler"}]
      /\ freed \in Nat
  BY <1>1 DEF SigTypes
<1> USE DEF Signal!Signals, Signal!Keys, Signal!ProgramThreads
<1>7. ASSUME NEW x, Signal!Do("main", x)
      PROVE  /\ m \in 1 .. 9 /\ m - 1 \in 0 .. 9 /\ x = MainHead3(m)
             /\ todo'["main"] = Rest(Signal!Main("thread_signal"), m - 1)
             /\ todo'["reader"] = ReaderText(r) /\ todo'["writer"] = WriterText(w)
             /\ misused' = misused
  BY <1>1, <1>4, <1>7, DoMain3
<1>8. ASSUME NEW x, Signal!Do("reader", x)
      PROVE  /\ r \in 1 .. 6 /\ AfterReader(r) \in 0 .. 6 /\ x = ReaderHead(r)
             /\ todo'["main"] = Rest(Signal!Main("thread_signal"), m)
             /\ todo'["reader"] = ReaderText(AfterReader(r)) /\ todo'["writer"] = WriterText(w)
             /\ misused' = misused
  BY <1>1, <1>4, <1>8, DoReader3 DEF AfterReader
<1>9. ASSUME NEW x, Signal!Do("writer", x)
      PROVE  /\ w \in 1 .. 2 /\ w - 1 \in 0 .. 2 /\ x = (IF w = 2 THEN "use" ELSE "leave")
             /\ todo'["main"] = Rest(Signal!Main("thread_signal"), m)
             /\ todo'["reader"] = ReaderText(r) /\ todo'["writer"] = WriterText(w - 1)
             /\ misused' = misused
  BY <1>1, <1>4, <1>9, DoWriter3
<1>10. /\ MainHead3(9) = "malloc" /\ MainHead3(8) = "block" /\ MainHead3(7) = "create_writer"
       /\ MainHead3(6) = "create_reader" /\ MainHead3(5) = "join_writer"
       /\ MainHead3(4) = "join_reader" /\ MainHead3(3) = "free" /\ MainHead3(2) = "free"
       /\ MainHead3(1) = "exit"
       /\ ReaderHead(4) = "handle" /\ ReaderHead(3) = "ignore" /\ ReaderHead(2) = "unblock"
       /\ ReaderHead(1) = "use" /\ ReaderHead(5) = "exit" /\ ReaderHead(6) = "free"
  BY DEF MainHead3, ReaderHead
<1>11. /\ m \in 1 .. 9 => m = 1 \/ m = 2 \/ m = 3 \/ m = 4 \/ m = 5 \/ m = 6 \/ m = 7 \/ m = 8 \/ m = 9
       /\ r \in 1 .. 6 => r = 1 \/ r = 2 \/ r = 3 \/ r = 4 \/ r = 5 \/ r = 6
  OBVIOUS
<1>12. AfterReader(1) = 0 /\ AfterReader(2) = 1 /\ AfterReader(3) = 2 /\ AfterReader(4) = 3
       /\ AfterReader(5) = 0 /\ AfterReader(6) = 5
  BY DEF AfterReader
<1>13. CASE Signal!Malloc
  <2>1. m = 9 /\ Signal!Do("main", "malloc")
    BY <1>7, <1>10, <1>11, <1>13 DEF Signal!Malloc
  <2>2. UNCHANGED <<blocked, action, pending, freed>> /\ ended' \in {"no", "exit"}
    BY <1>13 DEF Signal!Malloc
  <2>3. Place3(8, r, w)'
    BY <1>1, <1>4, <1>7, <2>1, <2>2 DEF Place3, Threads3, Masks3, Record3
  <2> QED
    BY <2>2, <2>3, <1>5
<1>14. CASE Signal!Block
  <2>1. m = 8 /\ Signal!Do("main", "block")
    BY <1>7, <1>10, <1>11, <1>14 DEF Signal!Block
  <2>2. /\ UNCHANGED <<action, pending, freed, ended>> /\ Signal!Keys \subseteq blocked'["main"]
        /\ blocked'["reader"] = blocked["reader"] /\ blocked'["writer"] = blocked["writer"]
    BY <1>6, <1>14 DEF Signal!Block, Signal!Mask
  <2>3. Place3(7, r, w)'
    BY <1>4, <1>7, <2>1, <2>2 DEF Place3, Threads3, Masks3, Record3
  <2> QED
    BY <2>2, <2>3, <1>1, <1>5
<1>15. CASE Signal!Alarm
  BY <1>7, <1>10, <1>11, <1>15 DEF Signal!Alarm
<1>16. ASSUME NEW x, Signal!At("main", x)
       PROVE  m > 0 /\ x = MainHead3(m) /\ todo["main"] # <<>>
              /\ Tail(todo["main"]) = Rest(Signal!Main("thread_signal"), m - 1)
  <2>1. /\ todo["main"] = Rest(Signal!Main("thread_signal"), m)
        /\ todo["main"] # <<>> /\ Head(todo["main"]) = x
    BY <1>4, <1>16 DEF Signal!At, Threads3
  <2>2. m # 0 => m > 0
    OBVIOUS
  <2> QED
    BY <2>1, <2>2, MainTexts3, Zenon
<1>17. CASE Signal!Create("writer", Signal!Writer)
  <2>1. Signal!At("main", "create_writer")
    BY <1>17 DEF Signal!Create, Signal!Creation
  <2>2. m = 7 /\ Tail(todo["main"]) = Rest(Signal!Main("thread_signal"), m - 1)
    BY <1>10, <1>11, <1>16, <2>1
  <2>3. /\ todo'["main"] = Tail(todo["main"]) /\ todo'["writer"] = WriterText(2)
        /\ todo'["reader"] = todo["reader"]
        /\ blocked'["writer"] = blocked["main"] /\ blocked'["main"] = blocked["main"]
        /\ blocked'["reader"] = blocked["reader"]
        /\ UNCHANGED <<misused, action, pending, freed, ended>>
    BY <1>6, <1>17, WriterTexts DEF Signal!Create
  <2>4. todo'["main"] = Rest(Signal!Main("thread_signal"), 6)
    BY <2>2, <2>3
  <2>5. Place3(6, r, 2)'
    BY <1>4, <2>2, <2>3, <2>4 DEF Place3, Threads3, Masks3, Record3
  <2> QED
    BY <2>3, <2>5, <1>1, <1>5
<1>18. CASE Signal!Create("reader", Signal!Reader)
  <2>1. Signal!At("main", "create_reader")
    BY <1>18 DEF Signal!Create, Signal!Creation
  <2>2. m = 6 /\ Tail(todo["main"]) = Rest(Signal!Main("thread_signal"), m - 1)
    BY <1>10, <1>11, <1>16, <2>1
  <2>3. /\ todo'["main"] = Tail(todo["main"]) /\ todo'["reader"] = ReaderText(4)
        /\ todo'["writer"] = todo["writer"]
        /\ blocked'["reader"] = blocked["main"] /\ blocked'["main"] = blocked["main"]
        /\ blocked'["writer"] = blocked["writer"]
        /\ UNCHANGED <<misused, action, pending, freed, ended>>
    BY <1>6, <1>18, ReaderTexts DEF Signal!Create
  <2>4. todo'["main"] = Rest(Signal!Main("thread_signal"), 5)
    BY <2>2, <2>3
  <2>5. Place3(5, 4, w)'
    BY <1>1, <1>4, <2>2, <2>3, <2>4 DEF Place3, Threads3, Masks3, Record3
  <2> QED
    BY <2>3, <2>5, <1>1, <1>5
<1>19. CASE Signal!Join("writer")
  <2>1. /\ Signal!Do("main", "join_writer") /\ todo["writer"] = <<>>
        /\ UNCHANGED <<blocked, action, pending, freed, ended>>
    BY <1>19 DEF Signal!Join, Signal!Joining, Signal!Returned
  <2>2. m = 5
    BY <1>7, <1>10, <1>11, <2>1
  <2>3. w = 0
    BY <2>1, <1>4, WriterTexts DEF Threads3
  <2>4. Place3(4, r, w)'
    BY <1>4, <1>7, <2>1, <2>2, <2>3 DEF Place3, Threads3, Masks3, Record3
  <2> QED
    BY <2>1, <2>4, <1>1, <1>5
<1>20. CASE Signal!Join("reader")
  <2>1. /\ Signal!Do("main", "join_reader") /\ todo["reader"] = <<>>
        /\ UNCHANGED <<blocked, action, pending, freed, ended>>
    BY <1>20 DEF Signal!Join, Signal!Joining, Signal!Returned
  <2>2. m = 4
    BY <1>7, <1>10, <1>11, <2>1
  <2>3. r = 0
    BY <2>1, <1>4, ReaderTexts DEF Threads3
  <2>4. Place3(3, r, w)'
    BY <1>1, <1>4, <1>7, <2>1, <2>2, <2>3 DEF Place3, Threads3, Masks3, Record3
  <2> QED
    BY <2>1, <2>4, <1>1, <1>5
<1>21. CASE Signal!Step("main")
  <2>1. CASE Signal!Free("main")
    <3>1. /\ Signal!Do("main", "free") /\ freed' = freed + 1
          /\ UNCHANGED <<blocked, action, pending, ended>>
      BY <2>1 DEF Signal!Free
    <3>2. m = 3 \/ m = 2
      BY <1>7, <1>10, <1>11, <3>1
    <3>3. Place3(m - 1, r, w)'
      BY <1>4, <1>7, <3>1, <3>2 DEF Place3, Threads3, Masks3, Record3
    <3>4. m - 1 \in 0 .. 9
      BY <3>2
    <3> QED
      BY <3>1, <3>3, <3>4, <1>1, <1>5
  <2>2. CASE Signal!ExitProcess("main")
    <3>1. /\ Signal!Do("main", "exit") /\ ended' = "exit"
          /\ UNCHANGED <<blocked, action, pending, freed>>
      BY <2>2 DEF Signal!ExitProcess
    <3>2. m = 1
      BY <1>7, <1>10, <1>11, <3>1
    <3>3. Place3(0, r, w)'
      BY <1>4, <1>7, <3>1, <3>2 DEF Place3, Threads3, Masks3, Record3
    <3> QED
      BY <3>1, <3>3, <1>5
  <2>3. ~Signal!Unblock("main") /\ ~Signal!Handle("main") /\ ~Signal!Ignore("main")
    BY <1>7, <1>10, <1>11 DEF Signal!Unblock, Signal!Handle, Signal!Ignore
  <2> QED
    BY <2>1, <2>2, <2>3, <1>21 DEF Signal!Step
<1>22. CASE Signal!Step("reader")
  <2>1. CASE Signal!Unblock("reader")
    <3>1. Signal!Do("reader", "unblock")
      BY <2>1 DEF Signal!Unblock
    <3>2. r = 2
      BY <1>8, <1>10, <1>11, <3>1
    <3>3. /\ UNCHANGED <<action, pending, freed, ended>>
          /\ blocked'["main"] = blocked["main"] /\ blocked'["writer"] = blocked["writer"]
      BY <1>6, <2>1 DEF Signal!Unblock
    <3>4. Place3(m, 1, w)'
      BY <1>4, <1>8, <1>12, <3>1, <3>2, <3>3 DEF Place3, Threads3, Masks3, Record3
    <3> QED
      BY <3>3, <3>4, <1>1, <1>5
  <2>2. CASE Signal!Handle("reader")
    <3>1. Signal!Do("reader", "handle")
      BY <2>2 DEF Signal!Handle
    <3>2. r = 4
      BY <1>8, <1>10, <1>11, <3>1
    <3>3. /\ UNCHANGED <<blocked, pending, freed, ended>>
          /\ action'["INT"] = "handler" /\ action'["QUIT"] = action["QUIT"]
      BY <1>6, <2>2 DEF Signal!Handle
    <3>4. Place3(m, 3, w)'
      BY <1>4, <1>8, <1>12, <3>1, <3>2, <3>3 DEF Place3, Threads3, Masks3, Record3
    <3> QED
      BY <3>3, <3>4, <1>1, <1>5
  <2>3. CASE Signal!Ignore("reader")
    <3>1. Signal!Do("reader", "ignore")
      BY <2>3 DEF Signal!Ignore
    <3>2. r = 3
      BY <1>8, <1>10, <1>11, <3>1
    <3>3. /\ UNCHANGED <<blocked, freed, ended>> /\ pending' \subseteq pending
          /\ action'["INT"] = action["INT"] /\ action'["QUIT"] = "ignore"
      BY <1>6, <2>3 DEF Signal!Ignore
    <3>4. Place3(m, 2, w)'
      BY <1>4, <1>8, <1>12, <3>1, <3>2, <3>3 DEF Place3, Threads3, Masks3, Record3
    <3> QED
      BY <3>3, <3>4, <1>1, <1>5
  <2>4. CASE Signal!Free("reader")
    <3>1. /\ Signal!Do("reader", "free") /\ freed' = freed + 1
          /\ UNCHANGED <<blocked, action, pending, ended>>
      BY <2>4 DEF Signal!Free
    <3>2. r = 6
      BY <1>8, <1>10, <1>11, <3>1
    <3>3. Place3(m, 5, w)'
      BY <1>4, <1>8, <1>12, <3>1, <3>2 DEF Place3, Threads3, Masks3, Record3
    <3> QED
      BY <3>1, <3>3, <1>1, <1>5
  <2>5. CASE Signal!ExitProcess("reader")
    <3>1. /\ Signal!Do("reader", "exit") /\ ended' = "exit"
          /\ UNCHANGED <<blocked, action, pending, freed>>
      BY <2>5 DEF Signal!ExitProcess
    <3>2. r = 5
      BY <1>8, <1>10, <1>11, <3>1
    <3>3. Place3(m, 0, w)'
      BY <1>4, <1>8, <1>12, <3>1, <3>2 DEF Place3, Threads3, Masks3, Record3
    <3> QED
      BY <3>1, <3>3, <1>5
  <2> QED
    BY <2>1, <2>2, <2>3, <2>4, <2>5, <1>22 DEF Signal!Step
<1>23. CASE Signal!WriterQuits \/ Signal!WriterLeaves
  <2>1. /\ Signal!Do("writer", "use") \/ Signal!Do("writer", "leave")
        /\ UNCHANGED <<blocked, action, pending, freed, ended>>
    BY <1>23 DEF Signal!WriterQuits, Signal!WriterLeaves
  <2>2. w \in 1 .. 2 /\ w - 1 \in 0 .. 2 /\ misused' = misused
        /\ todo'["main"] = Rest(Signal!Main("thread_signal"), m)
        /\ todo'["reader"] = ReaderText(r) /\ todo'["writer"] = WriterText(w - 1)
    BY <2>1, <1>9
  <2>3. Place3(m, r, w - 1)'
    BY <1>4, <2>1, <2>2 DEF Place3, Threads3, Masks3, Record3
  <2> QED
    BY <2>1, <2>2, <2>3, <1>1, <1>5
<1>24. CASE Signal!ReaderLeaves
  <2>1. /\ Signal!Do("reader", "use")
        /\ UNCHANGED <<blocked, action, pending, freed, ended>>
    BY <1>24 DEF Signal!ReaderLeaves
  <2>2. r = 1
    BY <1>8, <1>10, <1>11, <2>1
  <2>3. Place3(m, 0, w)'
    BY <1>4, <1>8, <1>12, <2>1, <2>2 DEF Place3, Threads3, Masks3, Record3
  <2> QED
    BY <2>1, <2>3, <1>1, <1>5
<1>25. ASSUME NEW t \in Signal!ProgramThreads, Signal!Use(t)
       PROVE  Place3(m, r, w)' /\ KilledUnprepared'
  <2>1. /\ UNCHANGED <<todo, blocked, action, pending, freed, ended>>
        /\ misused' = IF freed > 0 THEN misused \cup {t} ELSE misused
        /\ Signal!At(t, "use")
    BY <1>25 DEF Signal!Use
  <2>2. t # "main"
    BY <1>10, <1>11, <1>16, <2>1
  <2>3. t = "reader" => freed = 0
    <3> SUFFICES ASSUME t = "reader" PROVE freed = 0
      OBVIOUS
    <3>1. r > 0 /\ ReaderHead(r) = "use"
      BY <2>1, <1>4, ReaderTexts DEF Signal!At, Threads3
    <3>2. r = 1
      BY <3>1, <1>10, <1>11
    <3> QED
      BY <3>2, <1>1, <1>4 DEF Record3, Threads3
  <2>4. t = "writer" => w > 0
    BY <2>1, <1>4, WriterTexts DEF Signal!At, Threads3
  <2>5. Record3(m, r)'
    BY <2>1, <2>2, <2>3, <2>4, <1>1, <1>4, <1>6 DEF Record3, Threads3
  <2> QED
    BY <2>1, <2>5, <1>1, <1>4, <1>5 DEF Place3, Threads3, Masks3
<1>26. ASSUME NEW s \in Signal!Keys, Signal!Send(s)
       PROVE  Place3(m, r, w)' /\ KilledUnprepared'
  <2>1. /\ UNCHANGED <<todo, blocked, action, freed, misused, ended>>
        /\ pending' = pending \cup {s}
    BY <1>26 DEF Signal!Send
  <2> QED
    BY <2>1, <1>1, <1>4, <1>5 DEF Place3, Threads3, Masks3, Record3
<1>27. ASSUME NEW t \in Signal!ProgramThreads, NEW s \in Signal!Signals, Signal!Deliver(s, t)
       PROVE  /\ \E r2 \in 0 .. 6 : Place3(m, r2, w)'
              /\ KilledUnprepared'
  <2>1. /\ s \in Signal!Keys /\ s \notin blocked[t] /\ todo[t] # <<>> /\ pending' \subseteq pending
        /\ ended' = (IF action[s] = "default" THEN s ELSE ended)
        /\ UNCHANGED <<action, freed, misused>>
    BY <1>4, <1>27 DEF Signal!Deliver, Masks3
  <2>2. (t = "reader" /\ r = 1) \/ (t = "main" /\ m >= 8)
    <3>1. t = "main" => m >= 8
      BY <2>1, <1>4 DEF Masks3
    <3>2. t # "writer"
      BY <2>1, <1>4, WriterTexts DEF Masks3, Threads3
    <3>3. t = "reader" => r # 0
      BY <2>1, <1>4, ReaderTexts DEF Threads3
    <3>4. t = "reader" => r < 2
      BY <2>1, <1>4 DEF Masks3
    <3> QED
      BY <3>1, <3>2, <3>3, <3>4
  <2>3. CASE t = "reader" /\ r = 1 /\ s = "INT"
    <3>1. action[s] = "handler" /\ ended' = ended
      BY <2>1, <2>3, <1>4 DEF Masks3
    <3>2. /\ todo' = [todo EXCEPT !["reader"] = <<"free", "exit">>]
          /\ blocked' = [blocked EXCEPT !["reader"] = @ \cup Signal!Keys]
      BY <3>1, <2>3, <1>27 DEF Signal!Deliver, Signal!ctrl_c_handler, Signal!Exit
    <3>3. /\ todo'["main"] = todo["main"] /\ todo'["writer"] = todo["writer"]
          /\ todo'["reader"] = ReaderText(6)
          /\ blocked'["main"] = blocked["main"] /\ blocked'["writer"] = blocked["writer"]
          /\ Signal!Keys \subseteq blocked'["reader"]
      BY <3>2, <1>6, ReaderTexts
    <3>4. action["QUIT"] = "ignore" /\ action["INT"] = "handler" /\ freed = 0 /\ m \in {4, 5}
      BY <2>3, <1>1, <1>4 DEF Masks3, Record3, Threads3
    <3>5. Place3(m, 6, w)'
      BY <3>1, <3>3, <3>4, <2>1, <1>1, <1>4 DEF Place3, Threads3, Masks3, Record3
    <3> QED
      BY <3>1, <3>5, <1>1, <1>5
  <2>4. CASE action[s] # "handler"
    <3>1. UNCHANGED <<todo, blocked>>
      BY <2>4, <1>27 DEF Signal!Deliver
    <3>2. m <= 7 => ended' = ended
      BY <2>1, <2>2, <2>4, <1>4 DEF Masks3
    <3>3. Place3(m, r, w)'
      BY <3>1, <3>2, <2>1, <1>1, <1>4 DEF Place3, Threads3, Masks3, Record3
    <3>4. KilledUnprepared'
      <4>1. CASE m <= 7
        BY <4>1, <3>2, <1>1, <1>5
      <4>2. CASE m >= 8
        <5>1. Signal!Contains(todo'["main"], "block")
          BY <3>1, <4>2, <1>4, MainTexts3 DEF Threads3
        <5>2. ended' \in Signal!Keys \/ ended' = "no"
          BY <2>1, <1>1
        <5>3. ended' \in Signal!Keys => Signal!Prepares(program', ended') = "block"
          BY <1>1 DEF Signal!Prepares
        <5> QED
          BY <5>1, <5>2, <5>3 DEF KilledUnprepared, Signal!KilledUnprepared
      <4> QED
        BY <4>1, <4>2
    <3> QED
      BY <3>3, <3>4
  <2>5. action[s] # "handler" \/ (t = "reader" /\ r = 1 /\ s = "INT")
    BY <2>1, <2>2, <1>4 DEF Masks3
  <2> QED
    BY <2>3, <2>4, <2>5
<1> QED
  BY <1>13, <1>14, <1>15, <1>17, <1>18, <1>19, <1>20, <1>21, <1>22, <1>23, <1>24, <1>25,
     <1>26, <1>27 DEF Signal!Next, Signal!MainStep-------------------------------------------------------------------------------
(* All four *)

LEMMA SigInitInv == Signal!Init \/ SignalAtRest => SigInv
<1> SUFFICES ASSUME Signal!Init \/ SignalAtRest PROVE SigInv
  OBVIOUS
<1> USE DEF Signal!ProgramThreads, Signal!Signals, Signal!Keys
<1>1. /\ todo \in [Signal!ProgramThreads -> Seq(Statements)]
      /\ program \in Signal!Programs /\ ended \in {"no", "exit"}
      /\ blocked = [t \in Signal!ProgramThreads |-> {}]
      /\ action = [s \in Signal!Signals |-> "default"] /\ pending = {}
      /\ freed = 0 /\ misused = {} /\ todo["writer"] = <<>> /\ todo["reader"] = <<>>
      /\ \/ todo["main"] = Signal!Main(program)
         \/ program = "alarm" /\ ended = "exit" /\ todo["main"] = <<>>
  <2>1. \A p \in Signal!Programs : Signal!Main(p) \in Seq(Statements)
    BY ThreadSignalText, OtherTexts DEF Signal!Programs
  <2>2. CASE Signal!Init
    BY <2>1, <2>2, ShortTexts DEF Signal!Init
  <2>3. CASE SignalAtRest
    BY <2>3, ShortTexts DEF SignalAtRest, Signal!Programs
  <2> QED
    BY <2>2, <2>3
<1>2. SigTypes /\ KilledUnprepared /\ MainOnly
  BY <1>1 DEF SigTypes, KilledUnprepared, Signal!KilledUnprepared, MainOnly
<1>3. ASSUME NEW s \in Seq(Statements)
      PROVE  Rest(s, Len(s)) = s
  <2>1. Len(s) \in Nat /\ Len(s) - Len(s) + 1 = 1
    OBVIOUS
  <2>2. SubSeq(s, 1, Len(s)) = s
    OBVIOUS
  <2> QED
    BY <2>1, <2>2 DEF Rest
<1>4. program = "thread_signal" => OfThreadSignal
  <2> SUFFICES ASSUME program = "thread_signal" PROVE OfThreadSignal
    OBVIOUS
  <2>1. todo["main"] = Rest(Signal!Main("thread_signal"), 9)
    BY <1>1, <1>3, ThreadSignalText, Zenon
  <2>2. 0 \in 0 .. 6 /\ 0 \in 0 .. 2 /\ 9 \in 0 .. 9
    OBVIOUS
  <2>3. todo["reader"] = ReaderText(0) /\ todo["writer"] = WriterText(0)
    BY <1>1, <2>2, ReaderTexts, WriterTexts DEF WriterText
  <2>4. Place3(9, 0, 0)
    BY <1>1, <2>1, <2>3 DEF Place3, Threads3, Masks3, Record3
  <2> QED
    BY <2>2, <2>4 DEF OfThreadSignal
<1>5. program = "sig_set" => OfSigSet
  <2> SUFFICES ASSUME program = "sig_set" PROVE OfSigSet
    OBVIOUS
  <2> DEFINE T == todo["main"]
  <2>1. T \in Seq(Statements) /\ Len(T) = 5 /\ T = Signal!Main("sig_set")
    BY <1>1, OtherTexts
  <2>2. T = Rest(T, Len(T))
    BY <2>1, <1>3
  <2> QED
    BY <1>1, <1>2, <2>1, <2>2 DEF OfSigSet, Left
<1>6. program = "simple" => OfSimple
  <2> SUFFICES ASSUME program = "simple" PROVE OfSimple
    OBVIOUS
  <2> DEFINE T == todo["main"]
  <2>1. T \in Seq(Statements) /\ Len(T) = 3 /\ T = Signal!Main("simple")
    BY <1>1, OtherTexts
  <2>2. T = Rest(T, Len(T))
    BY <2>1, <1>3
  <2> QED
    BY <1>1, <1>2, <2>1, <2>2 DEF OfSimple, Left
<1>7. program = "alarm" => OfAlarm
  <2> SUFFICES ASSUME program = "alarm" PROVE OfAlarm
    OBVIOUS
  <2> DEFINE T == todo["main"]
  <2>1. CASE T = Signal!Main(program)
    <3>1. T \in Seq(Statements) /\ Len(T) = 4 /\ T = Signal!Main("alarm")
      BY <2>1, OtherTexts
    <3>2. T = Rest(T, Len(T))
      BY <3>1, <1>3
    <3> QED
      BY <1>1, <1>2, <3>1, <3>2 DEF OfAlarm, Left
  <2>2. CASE T = <<>> /\ ended = "exit"
    <3>1. Len(T) = 0
      BY <2>2
    <3>2. 0 \in 0 .. 4
      OBVIOUS
    <3>3. T = Rest(Signal!Main("alarm"), 0)
      BY <2>2, <3>2, AlarmStage, Zenon
    <3> QED
      BY <1>2, <2>2, <3>1, <3>3 DEF OfAlarm, Left
  <2> QED
    BY <1>1, <2>1, <2>2
<1> QED
  BY <1>2, <1>4, <1>5, <1>6, <1>7 DEF SigInv

LEMMA SigStepInv == SigInv /\ [HelpersNext]_allVars => SigInv'
<1> SUFFICES ASSUME SigInv, [HelpersNext]_allVars PROVE SigInv'
  OBVIOUS
<1>1. CASE UNCHANGED signal
  <2>1. /\ program' = program /\ todo' = todo /\ blocked' = blocked /\ action' = action
        /\ pending' = pending /\ freed' = freed /\ misused' = misused /\ ended' = ended
    BY <1>1 DEF signal
  <2>2. SigTypes' = SigTypes /\ KilledUnprepared' = KilledUnprepared
    BY <2>1 DEF SigTypes, KilledUnprepared, Signal!KilledUnprepared
  <2>3. OfThreadSignal' = OfThreadSignal
    BY <2>1 DEF OfThreadSignal, Place3, Threads3, Masks3, Record3
  <2>4. OfSigSet' = OfSigSet /\ OfSimple' = OfSimple /\ OfAlarm' = OfAlarm
    BY <2>1 DEF OfSigSet, OfSimple, OfAlarm, MainOnly, Left
  <2> QED
    BY <2>1, <2>2, <2>3, <2>4 DEF SigInv
<1>2. CASE Signal!Next
  <2>1. SigTypes' /\ program' = program /\ program \in Signal!Programs
    BY <1>2, SigTypesStep DEF SigInv, SigTypes
  <2>2. program \in {"thread_signal", "sig_set", "simple", "alarm"}
    BY <2>1 DEF Signal!Programs
  <2> QED
    BY <1>2, <2>1, <2>2, ThreadSignalStep, SigSetStep, SimpleStep, AlarmStep DEF SigInv
<1> QED
  BY <1>1, <1>2 DEF HelpersNext, allVars

LEMMA SigSpecInv == HelpersSpec => []SigInv
<1>1. HelpersInit => SigInv
  BY SigInitInv DEF HelpersInit
<1> QED
  BY <1>1, SigStepInv, PTL DEF HelpersSpec, HelpersSafety

(* A program that has prepared for a signal is not killed by it, however     *)
(* many are sent and whichever thread they reach: the threads of             *)
(* thread_signal.c inherit main's mask, and the reader unblocks SIGINT only  *)
(* when it handles it (thread_signal.c:96-116, 167-174; sig_set.c:22-56).     *)
THEOREM PreparedSurvives == HelpersSpec => []KilledUnprepared
<1>1. SigInv => KilledUnprepared
  BY DEF SigInv
<1> QED
  BY <1>1, SigSpecInv, PTL

(* Nobody but the writer uses the record of thread_signal.c after it is      *)
(* freed, and only while the reader exits because of a SIGINT; it is freed a *)
(* second time only at exit (thread_signal.c:137-144, 176-181).               *)
THEOREM RecordFreedAfterUse == HelpersSpec => []FreedAfterUse
<1>1. SigInv => FreedAfterUse
  <2> SUFFICES ASSUME SigInv PROVE Signal!FreedAfterUse
    BY DEF FreedAfterUse
  <2>1. CASE program = "thread_signal"
    <3>1. PICK m \in 0 .. 9, r \in 0 .. 6, w \in 0 .. 2 : Place3(m, r, w)
      BY <2>1 DEF SigInv, OfThreadSignal
    <3>2. misused # {} => misused = {"writer"} /\ m >= 4 /\ r \in {0, 5}
      BY <3>1 DEF Place3, Record3
    <3>3. m >= 4 => Signal!Contains(todo["main"], "join_reader")
      BY <3>1, MainTexts3 DEF Place3, Threads3
    <3>4. r \in {0, 5} => todo["reader"] \in {<<"exit">>, <<>>}
      BY <3>1, ReaderTexts DEF Place3, Threads3
    <3>5. freed = 2 => m = 0 \/ m = 1
      BY <3>1 DEF Place3, Record3
    <3>6. m = 0 \/ m = 1 => todo["main"] \in {<<"exit">>, <<>>}
      BY <3>1, MainTexts3 DEF Place3, Threads3
    <3> QED
      BY <3>2, <3>3, <3>4, <3>5, <3>6 DEF Signal!FreedAfterUse
  <2>2. CASE program # "thread_signal"
    <3>1. freed = 0 /\ misused = {}
      BY <2>2 DEF SigInv, SigTypes, Signal!Programs, OfSigSet, OfSimple, OfAlarm, MainOnly
    <3> QED
      BY <3>1 DEF Signal!FreedAfterUse
  <2> QED
    BY <2>1, <2>2
<1> QED
  BY <1>1, SigSpecInv, PTL
-------------------------------------------------------------------------------
(* Induction and loops *)

LEMMA LeastNat ==
  ASSUME NEW S \in SUBSET Nat, S # {}
  PROVE  \E m \in S : \A n \in S : m <= n
<1> DEFINE R == {ss \in Nat \X Nat : ss[1] < ss[2]}
<1>1. IsWellFoundedOn(R, Nat)
  <2>1. OpToRel(<, Nat) = R
    BY Zenon DEF OpToRel
  <2> QED
    BY <2>1, NatLessThanWellFounded, Zenon
<1>2. \A x, y \in Nat : <<x, y>> \in R <=> x < y
  BY Zenon
<1> HIDE DEF R
<1>3. PICK m \in S : \A n \in S : <<n, m>> \notin R
  BY <1>1, WFMin
<1>4. \A n \in S : ~(n < m)
  BY <1>2, <1>3
<1> QED
  BY <1>4

LEMMA NatSetInduction ==
  ASSUME NEW S, 0 \in S, \A n \in S \cap Nat : n + 1 \in S
  PROVE  Nat \subseteq S
<1> SUFFICES ASSUME Nat \ S # {} PROVE FALSE
  OBVIOUS
<1>1. PICK m \in Nat \ S : \A n \in Nat \ S : m <= n
  BY LeastNat
<1>2. m # 0 /\ m - 1 \in Nat /\ (m - 1) + 1 = m
  BY <1>1
<1>3. m - 1 \in S
  BY <1>1, <1>2
<1> QED
  BY <1>1, <1>2, <1>3

(* f is what a loop computes that goes up, or down, from j to the first       *)
(* member of S, where its end is, and answers the value V has there.          *)
Upward(S, V, lo, hi, f) == f = [j \in lo .. hi |-> IF j \in S THEN V[j] ELSE f[j + 1]]
Downward(S, lo, hi, f)  == f = [j \in lo .. hi |-> IF j \in S THEN j ELSE f[j - 1]]

FirstUp(S, j, k)   == k \in S /\ j <= k /\ \A i \in j .. k - 1 : i \notin S
FirstDown(S, j, k) == k \in S /\ k <= j /\ \A i \in k + 1 .. j : i \notin S

LEMMA FirstUpExists ==
  ASSUME NEW lo \in Int, NEW hi \in Int, NEW S \in SUBSET (lo .. hi), hi \in S
  PROVE  \A j \in lo .. hi : \E k : FirstUp(S, j, k)
<1> DEFINE P == {d \in Nat : d <= hi - lo => \E k : FirstUp(S, hi - d, k)}
<1>1. 0 \in P
  <2>1. FirstUp(S, hi, hi)
    BY DEF FirstUp
  <2>2. hi - 0 = hi
    OBVIOUS
  <2> QED
    BY <2>1, <2>2
<1>2. ASSUME NEW d \in P PROVE d + 1 \in P
  <2> SUFFICES ASSUME d + 1 <= hi - lo PROVE \E k : FirstUp(S, hi - (d + 1), k)
    OBVIOUS
  <2> DEFINE j == hi - (d + 1)
  <2>1. d \in Nat /\ j \in Int /\ hi - d = j + 1 /\ d <= hi - lo
    OBVIOUS
  <2>2. PICK k : FirstUp(S, j + 1, k)
    BY <2>1
  <2> HIDE DEF j
  <2>3. CASE j \in S
    <3>1. FirstUp(S, j, j)
      BY <2>1, <2>3 DEF FirstUp
    <3> QED
      BY <3>1 DEF j
  <2>4. CASE j \notin S
    <3>1. FirstUp(S, j, k)
      BY <2>1, <2>2, <2>4 DEF FirstUp
    <3> QED
      BY <3>1 DEF j
  <2> QED
    BY <2>3, <2>4
<1> HIDE DEF P
<1>3. Nat \subseteq P
  BY <1>1, <1>2, NatSetInduction
<1> SUFFICES ASSUME NEW j \in lo .. hi PROVE \E k : FirstUp(S, j, k)
  OBVIOUS
<1>4. hi - j \in Nat /\ hi - j <= hi - lo /\ hi - (hi - j) = j
  OBVIOUS
<1>5. hi - j \in P
  BY <1>3, <1>4
<1> QED
  BY <1>4, <1>5 DEF P

LEMMA UpwardExists ==
  ASSUME NEW lo \in Int, NEW hi \in Int, NEW S \in SUBSET (lo .. hi), hi \in S, NEW V
  PROVE  \E f : Upward(S, V, lo, hi, f)
<1> DEFINE c(i) == CHOOSE n : FirstUp(S, i, n)
           g == [i \in lo .. hi |-> V[c(i)]]
<1>1. \A i \in S : i \in Int
  OBVIOUS
<1>2. ASSUME NEW i \in lo .. hi, NEW n, FirstUp(S, i, n) PROVE c(i) = n
  <2>1. FirstUp(S, i, c(i))
    BY <1>2
  <2> HIDE DEF c
  <2>2. n \in Int /\ c(i) \in Int
    <3>1. n \in S /\ c(i) \in S
      BY <1>2, <2>1 DEF FirstUp
    <3> QED
      BY <1>1, <3>1, Zenon
  <2>3. ~(n < c(i)) /\ ~(c(i) < n)
    BY <1>2, <2>1, <2>2 DEF FirstUp
  <2> QED
    BY <2>2, <2>3
<1>3. ASSUME NEW i \in lo .. hi PROVE FirstUp(S, i, c(i))
  BY FirstUpExists
<1> HIDE DEF c
<1>4. ASSUME NEW i \in lo .. hi PROVE g[i] = IF i \in S THEN V[i] ELSE g[i + 1]
  <2>1. CASE i \in S
    <3>1. FirstUp(S, i, i)
      BY <2>1 DEF FirstUp
    <3> QED
      BY <1>2, <2>1, <3>1
  <2>2. CASE i \notin S
    <3>1. i # hi /\ i + 1 \in lo .. hi
      BY <2>2
    <3>2. FirstUp(S, i + 1, c(i))
      <4>1. FirstUp(S, i, c(i)) /\ c(i) \in Int
        BY <1>1, <1>3 DEF FirstUp
      <4> QED
        BY <2>2, <4>1 DEF FirstUp
    <3>3. c(i + 1) = c(i)
      BY <1>2, <3>1, <3>2
    <3> QED
      BY <2>2, <3>1, <3>3
  <2> QED
    BY <2>1, <2>2
<1>5. Upward(S, V, lo, hi, g)
  BY <1>4 DEF Upward
<1> QED
  BY <1>5

LEMMA UpwardValue ==
  ASSUME NEW lo \in Int, NEW hi \in Int, NEW S \in SUBSET (lo .. hi), hi \in S, NEW V,
         NEW f, Upward(S, V, lo, hi, f), NEW j \in lo .. hi, NEW k, FirstUp(S, j, k)
  PROVE  f[j] = V[k]
<1> DEFINE P == {d \in Nat : d <= k - j => f[k - d] = V[k]}
<1>1. k \in S /\ k \in lo .. hi /\ j <= k /\ \A i \in j .. k - 1 : i \notin S
  BY DEF FirstUp
<1>2. 0 \in P
  BY <1>1 DEF Upward
<1>3. ASSUME NEW d \in P PROVE d + 1 \in P
  <2> SUFFICES ASSUME d + 1 <= k - j PROVE f[k - (d + 1)] = V[k]
    OBVIOUS
  <2>1. k - (d + 1) \in j .. k - 1 /\ k - (d + 1) \in lo .. hi /\ (k - (d + 1)) + 1 = k - d
    BY <1>1
  <2>2. f[k - d] = V[k]
    BY <1>1
  <2> QED
    BY <1>1, <2>1, <2>2 DEF Upward
<1> HIDE DEF P
<1>4. Nat \subseteq P
  BY <1>2, <1>3, NatSetInduction
<1>5. k - j \in Nat /\ k - (k - j) = j /\ k - j <= k - j
  BY <1>1
<1>6. k - j \in P
  BY <1>4, <1>5
<1> QED
  BY <1>5, <1>6 DEF P

LEMMA FirstDownExists ==
  ASSUME NEW lo \in Int, NEW hi \in Int, NEW S \in SUBSET (lo .. hi), lo \in S
  PROVE  \A j \in lo .. hi : \E k : FirstDown(S, j, k)
<1> DEFINE P == {d \in Nat : d <= hi - lo => \E k : FirstDown(S, lo + d, k)}
<1>1. 0 \in P
  <2>1. FirstDown(S, lo, lo)
    BY DEF FirstDown
  <2>2. lo + 0 = lo
    OBVIOUS
  <2> QED
    BY <2>1, <2>2
<1>2. ASSUME NEW d \in P PROVE d + 1 \in P
  <2> SUFFICES ASSUME d + 1 <= hi - lo PROVE \E k : FirstDown(S, lo + (d + 1), k)
    OBVIOUS
  <2> DEFINE j == lo + (d + 1)
  <2>1. d \in Nat /\ j \in Int /\ lo + d = j - 1 /\ d <= hi - lo
    OBVIOUS
  <2>2. PICK k : FirstDown(S, j - 1, k)
    BY <2>1
  <2> HIDE DEF j
  <2>3. CASE j \in S
    <3>1. FirstDown(S, j, j)
      BY <2>1, <2>3 DEF FirstDown
    <3> QED
      BY <3>1 DEF j
  <2>4. CASE j \notin S
    <3>1. FirstDown(S, j, k)
      BY <2>1, <2>2, <2>4 DEF FirstDown
    <3> QED
      BY <3>1 DEF j
  <2> QED
    BY <2>3, <2>4
<1> HIDE DEF P
<1>3. Nat \subseteq P
  BY <1>1, <1>2, NatSetInduction
<1> SUFFICES ASSUME NEW j \in lo .. hi PROVE \E k : FirstDown(S, j, k)
  OBVIOUS
<1>4. j - lo \in Nat /\ j - lo <= hi - lo /\ lo + (j - lo) = j
  OBVIOUS
<1>5. j - lo \in P
  BY <1>3, <1>4
<1> QED
  BY <1>4, <1>5 DEF P

LEMMA DownwardExists ==
  ASSUME NEW lo \in Int, NEW hi \in Int, NEW S \in SUBSET (lo .. hi), lo \in S
  PROVE  \E f : Downward(S, lo, hi, f)
<1> DEFINE c(i) == CHOOSE n : FirstDown(S, i, n)
           g == [i \in lo .. hi |-> c(i)]
<1>1. \A i \in S : i \in Int
  OBVIOUS
<1>2. ASSUME NEW i \in lo .. hi, NEW n, FirstDown(S, i, n) PROVE c(i) = n
  <2>1. FirstDown(S, i, c(i))
    BY <1>2
  <2> HIDE DEF c
  <2>2. n \in Int /\ c(i) \in Int
    <3>1. n \in S /\ c(i) \in S
      BY <1>2, <2>1 DEF FirstDown
    <3> QED
      BY <1>1, <3>1, Zenon
  <2>3. ~(n < c(i)) /\ ~(c(i) < n)
    BY <1>2, <2>1, <2>2 DEF FirstDown
  <2> QED
    BY <2>2, <2>3
<1>3. ASSUME NEW i \in lo .. hi PROVE FirstDown(S, i, c(i))
  BY FirstDownExists
<1> HIDE DEF c
<1>4. ASSUME NEW i \in lo .. hi PROVE g[i] = IF i \in S THEN i ELSE g[i - 1]
  <2>1. CASE i \in S
    <3>1. FirstDown(S, i, i)
      BY <2>1 DEF FirstDown
    <3> QED
      BY <1>2, <2>1, <3>1
  <2>2. CASE i \notin S
    <3>1. i # lo /\ i - 1 \in lo .. hi
      BY <2>2
    <3>2. FirstDown(S, i - 1, c(i))
      <4>1. FirstDown(S, i, c(i)) /\ c(i) \in Int
        BY <1>1, <1>3 DEF FirstDown
      <4> QED
        BY <2>2, <4>1 DEF FirstDown
    <3>3. c(i - 1) = c(i)
      BY <1>2, <3>1, <3>2
    <3> QED
      BY <2>2, <3>1, <3>3
  <2> QED
    BY <2>1, <2>2
<1>5. Downward(S, lo, hi, g)
  BY <1>4 DEF Downward
<1> QED
  BY <1>5

LEMMA DownwardValue ==
  ASSUME NEW lo \in Int, NEW hi \in Int, NEW S \in SUBSET (lo .. hi), lo \in S,
         NEW f, Downward(S, lo, hi, f), NEW j \in lo .. hi, NEW k, FirstDown(S, j, k)
  PROVE  f[j] = k
<1> DEFINE P == {d \in Nat : d <= j - k => f[k + d] = k}
<1>1. k \in S /\ k \in lo .. hi /\ k <= j /\ \A i \in k + 1 .. j : i \notin S
  BY DEF FirstDown
<1>2. 0 \in P
  BY <1>1 DEF Downward
<1>3. ASSUME NEW d \in P PROVE d + 1 \in P
  <2> SUFFICES ASSUME d + 1 <= j - k PROVE f[k + (d + 1)] = k
    OBVIOUS
  <2>1. k + (d + 1) \in k + 1 .. j /\ k + (d + 1) \in lo .. hi /\ (k + (d + 1)) - 1 = k + d
    BY <1>1
  <2>2. f[k + d] = k
    BY <1>1
  <2> QED
    BY <1>1, <2>1, <2>2 DEF Downward
<1> HIDE DEF P
<1>4. Nat \subseteq P
  BY <1>2, <1>3, NatSetInduction
<1>5. j - k \in Nat /\ k + (j - k) = j /\ j - k <= j - k
  BY <1>1
<1>6. j - k \in P
  BY <1>4, <1>5
<1> QED
  BY <1>5, <1>6 DEF P
-------------------------------------------------------------------------------
(* The search of string_utility.c *)

FirstLine(h, nd, p) == \A i \in 0 .. Len(nd) - 1 : h[p + i] = nd[i + 1]

LEMMA MatchedIs ==
  ASSUME NEW h, NEW nd, Len(nd) \in Nat, NEW p \in Int
  PROVE  String!Matched(h, nd, p) = Len(nd) <=> FirstLine(h, nd, p)
<1> DEFINE n == Len(nd)
           same(j) == h[p + j] = nd[j + 1]
           S == {j \in 0 .. n : j = n \/ ~same(j)}
           V == [j \in 0 .. n |-> j]
           Loop(f) == f = [j \in 0 .. n |-> IF j < n /\ same(j) THEN f[j + 1] ELSE j]
           m == CHOOSE f : Loop(f)
<1>1. n \in Nat /\ 0 \in Int /\ n \in Int /\ S \in SUBSET (0 .. n) /\ n \in S /\ 0 \in 0 .. n
  OBVIOUS
<1>2. ASSUME NEW f PROVE Loop(f) <=> Upward(S, V, 0, n, f)
  <2>1. ASSUME NEW j \in 0 .. n PROVE j < n /\ same(j) <=> j \notin S
    BY <1>1
  <2> HIDE DEF S, same
  <2>2. [j \in 0 .. n |-> IF j < n /\ same(j) THEN f[j + 1] ELSE j]
          = [j \in 0 .. n |-> IF j \in S THEN V[j] ELSE f[j + 1]]
    BY <2>1
  <2> QED
    BY <2>2 DEF Upward
<1>3. \E f : Loop(f)
  <2> HIDE DEF S, V, Loop
  <2> QED
    BY <1>1, <1>2, UpwardExists
<1>4. Upward(S, V, 0, n, m)
  <2> HIDE DEF S, V, Loop
  <2> QED
    BY <1>2, <1>3
<1>5. String!Matched(h, nd, p) = m[0]
  BY DEF String!Matched
<1>6. PICK k : FirstUp(S, 0, k)
  <2> HIDE DEF S
  <2> QED
    BY <1>1, FirstUpExists
<1> HIDE DEF m
<1>7. m[0] = V[k]
  <2> HIDE DEF S, V
  <2> QED
    BY <1>1, <1>4, <1>6, UpwardValue
<1>8. k \in 0 .. n /\ V[k] = k
  BY <1>6 DEF FirstUp
<1>9. k = n => \A i \in 0 .. n - 1 : same(i)
  <2>1. \A i \in 0 .. n - 1 : i \in 0 .. n /\ i # n
    BY <1>1
  <2> QED
    BY <1>6, <1>8, <2>1 DEF FirstUp
<1>10. k # n => k \in 0 .. n - 1 /\ ~same(k)
  BY <1>1, <1>6, <1>8 DEF FirstUp
<1> QED
  BY <1>5, <1>7, <1>8, <1>9, <1>10 DEF FirstLine

(* Where needle may begin in an array of length l. *)
Room(l, n) == 1 .. l - n + 1

LEMMA SearchIs ==
  ASSUME NEW h, NEW nd, Len(h) \in Nat, Len(nd) \in Nat, h # <<>>, nd # <<>>, Len(nd) # 0
  PROVE  LET r == String!strstr_Arr(h, nd)
             room == Room(Len(h), Len(nd))
         IN  \/ r = None /\ \A p \in room : ~FirstLine(h, nd, p)
             \/ /\ r \in room /\ FirstLine(h, nd, r)
                /\ \A p \in room : FirstLine(h, nd, p) => r <= p
<1> DEFINE l == Len(h)
           n == Len(nd)
           room == Room(l, n)
           over(p) == p > l \/ ~(l - p + 1 >= n)
           S == {p \in 1 .. l + 1 : over(p) \/ FirstLine(h, nd, p)}
           V == [p \in 1 .. l + 1 |-> IF over(p) THEN None ELSE p]
           Loop(f) == f = [p \in 1 .. l + 1 |->
                             IF over(p) THEN None
                             ELSE IF String!Matched(h, nd, p) = n THEN p ELSE f[p + 1]]
           from == CHOOSE f : Loop(f)
<1>1. /\ l \in Nat /\ n \in Nat /\ n # 0 /\ 1 \in Int /\ l + 1 \in Int /\ 1 \in 1 .. l + 1
      /\ S \in SUBSET (1 .. l + 1) /\ l + 1 \in S
  OBVIOUS
<1>2. ASSUME NEW f PROVE Loop(f) <=> Upward(S, V, 1, l + 1, f)
  <2>1. ASSUME NEW p \in 1 .. l + 1
        PROVE  (IF over(p) THEN None ELSE IF String!Matched(h, nd, p) = n THEN p ELSE f[p + 1])
                 = IF p \in S THEN V[p] ELSE f[p + 1]
    <3>1. String!Matched(h, nd, p) = n <=> FirstLine(h, nd, p)
      BY MatchedIs
    <3> HIDE DEF over
    <3> QED
      BY <3>1
  <2> HIDE DEF S, V, over
  <2>2. [p \in 1 .. l + 1 |->
           IF over(p) THEN None ELSE IF String!Matched(h, nd, p) = n THEN p ELSE f[p + 1]]
          = [p \in 1 .. l + 1 |-> IF p \in S THEN V[p] ELSE f[p + 1]]
    BY <2>1
  <2> QED
    BY <2>2 DEF Upward
<1>3. \E f : Loop(f)
  <2> HIDE DEF S, V, Loop
  <2> QED
    BY <1>1, <1>2, UpwardExists
<1>4. Upward(S, V, 1, l + 1, from)
  <2> HIDE DEF S, V, Loop
  <2> QED
    BY <1>2, <1>3
<1>5. String!strstr_Arr(h, nd) = from[1]
  BY DEF String!strstr_Arr, String!Enough
<1>6. PICK k : FirstUp(S, 1, k)
  <2> HIDE DEF S
  <2> QED
    BY <1>1, FirstUpExists
<1> HIDE DEF from
<1>7. from[1] = V[k]
  <2> HIDE DEF S, V
  <2> QED
    BY <1>1, <1>4, <1>6, UpwardValue
<1>8. k \in 1 .. l + 1 /\ (over(k) \/ FirstLine(h, nd, k))
  BY <1>6 DEF FirstUp
<1>9. ASSUME NEW p \in room, FirstLine(h, nd, p) PROVE k <= p
  <2>1. p \in S
    BY <1>1, <1>9 DEF Room
  <2> QED
    BY <1>1, <1>6, <1>8, <2>1 DEF FirstUp
<1>10. CASE over(k)
  <2>1. V[k] = None
    BY <1>8, <1>10
  <2>2. \A p \in room : p < k
    BY <1>1, <1>8, <1>10 DEF Room
  <2>3. \A p \in room : ~FirstLine(h, nd, p)
    <3> SUFFICES ASSUME NEW p \in room, FirstLine(h, nd, p) PROVE FALSE
      OBVIOUS
    <3>1. p \in Int /\ p < k /\ k <= p
      BY <1>9, <2>2 DEF Room
    <3> QED
      BY <1>8, <3>1
  <2> QED
    BY <1>5, <1>7, <2>1, <2>3
<1>11. CASE ~over(k)
  <2>1. V[k] = k /\ k \in room /\ FirstLine(h, nd, k)
    BY <1>1, <1>8, <1>11 DEF Room
  <2> QED
    BY <1>5, <1>7, <1>9, <2>1
<1> QED
  BY <1>10, <1>11

LEMMA OccursIs ==
  ASSUME NEW A, NEW h \in Seq(A), NEW nd \in Seq(A), nd # <<>>
  PROVE  String!Occurs(h, nd) = {p \in Room(Len(h), Len(nd)) : FirstLine(h, nd, p)}
<1> DEFINE n == Len(nd)
<1>1. Len(h) \in Nat /\ n \in Nat /\ n # 0
  BY EmptySeq
<1> SUFFICES ASSUME NEW p \in Room(Len(h), n)
             PROVE  SubSeq(h, p, p + n - 1) = nd <=> FirstLine(h, nd, p)
  BY DEF String!Occurs, Room
<1> DEFINE w == SubSeq(h, p, p + n - 1)
<1>2. p \in Int /\ p + n - 1 \in Int /\ p >= 1 /\ p + n - 1 <= Len(h)
  BY <1>1 DEF Room
<1>3. \A i \in p .. p + n - 1 : h[i] \in A
  <2>1. \A i \in p .. p + n - 1 : i \in 1 .. Len(h)
    BY <1>1, <1>2
  <2> QED
    BY <2>1, ElementOfSeq
<1>4. /\ w \in Seq(A) /\ Len(w) = IF p <= p + n - 1 THEN (p + n - 1) - p + 1 ELSE 0
      /\ \A i \in 1 .. (p + n - 1) - p + 1 : w[i] = h[p + i - 1]
  BY <1>2, <1>3, SubSeqProperties
<1> HIDE DEF w
<1>5. Len(w) = n /\ \A i \in 1 .. n : w[i] = h[p + i - 1]
  BY <1>1, <1>2, <1>4
<1>6. FirstLine(h, nd, p) <=> \A i \in 1 .. n : w[i] = nd[i]
  <2>1. ASSUME FirstLine(h, nd, p), NEW i \in 1 .. n PROVE w[i] = nd[i]
    <3>1. i - 1 \in 0 .. n - 1 /\ p + (i - 1) = p + i - 1 /\ (i - 1) + 1 = i
      BY <1>1, <1>2
    <3>2. h[p + (i - 1)] = nd[(i - 1) + 1]
      BY <2>1, <3>1, Zenon DEF FirstLine
    <3> QED
      BY <1>5, <3>1, <3>2
  <2>2. ASSUME \A i \in 1 .. n : w[i] = nd[i], NEW i \in 0 .. n - 1 PROVE h[p + i] = nd[i + 1]
    <3>1. i + 1 \in 1 .. n /\ p + (i + 1) - 1 = p + i
      BY <1>1, <1>2
    <3> QED
      BY <1>5, <2>2, <3>1
  <2> QED
    BY <2>1, <2>2 DEF FirstLine
<1>7. (\A i \in 1 .. n : w[i] = nd[i]) <=> w = nd
  BY <1>1, <1>4, <1>5, SeqEqual
<1> QED
  BY <1>6, <1>7 DEF w
-------------------------------------------------------------------------------
(* Trimming *)

(* a and b are the first and the last character that are kept of s; of a     *)
(* string of blanks, none is.                                                *)
Kept(s, a, b) ==
  /\ a \in 1 .. Len(s) + 1 /\ b \in 0 .. Len(s) /\ a <= b + 1
  /\ \A i \in 1 .. a - 1 : s[i] = 0
  /\ \A i \in b + 1 .. Len(s) : s[i] = 0
  /\ a <= b => s[a] # 0 /\ s[b] # 0

LEMMA TrimIs ==
  ASSUME NEW s, Len(s) \in Nat
  PROVE  \E a, b : String!string_trim(s) = SubSeq(s, a, b) /\ Kept(s, a, b)
<1> DEFINE l == Len(s)
           blank(p) == s[p] = 0
           S == {p \in 1 .. l + 1 : p = l + 1 \/ ~blank(p)}
           V == [p \in 1 .. l + 1 |-> p]
           Loop(f) == f = [p \in 1 .. l + 1 |-> IF p <= l /\ blank(p) THEN f[p + 1] ELSE p]
           first == CHOOSE f : Loop(f)
           a == first[1]
           T == {p \in 0 .. l : p <= a \/ ~blank(p)}
           Back(f) == f = [p \in 0 .. l |-> IF p > a /\ blank(p) THEN f[p - 1] ELSE p]
           end == CHOOSE f : Back(f)
           b == end[l]
<1>1. /\ l \in Nat /\ 0 \in Int /\ 1 \in Int /\ l \in Int /\ l + 1 \in Int
      /\ 1 \in 1 .. l + 1 /\ l \in 0 .. l
      /\ S \in SUBSET (1 .. l + 1) /\ l + 1 \in S
  OBVIOUS
<1>2. String!string_trim(s) = SubSeq(s, a, b)
  BY DEF String!string_trim, String!Blank
<1>3. ASSUME NEW f PROVE Loop(f) <=> Upward(S, V, 1, l + 1, f)
  <2>1. ASSUME NEW p \in 1 .. l + 1 PROVE p <= l /\ blank(p) <=> p \notin S
    BY <1>1
  <2> HIDE DEF S, blank
  <2>2. [p \in 1 .. l + 1 |-> IF p <= l /\ blank(p) THEN f[p + 1] ELSE p]
          = [p \in 1 .. l + 1 |-> IF p \in S THEN V[p] ELSE f[p + 1]]
    BY <2>1
  <2> QED
    BY <2>2 DEF Upward
<1>4. \E f : Loop(f)
  <2> HIDE DEF S, V, Loop
  <2> QED
    BY <1>1, <1>3, UpwardExists
<1>5. Upward(S, V, 1, l + 1, first)
  <2> HIDE DEF S, V, Loop
  <2> QED
    BY <1>3, <1>4
<1>6. PICK k : FirstUp(S, 1, k)
  <2> HIDE DEF S
  <2> QED
    BY <1>1, FirstUpExists
<1>7. a = k
  <2>1. k \in 1 .. l + 1
    BY <1>6 DEF FirstUp
  <2>2. V[k] = k
    BY <2>1
  <2>3. first[1] = V[k]
    <3> HIDE DEF S, V, first
    <3> QED
      BY <1>1, <1>5, <1>6, UpwardValue
  <2> QED
    BY <2>2, <2>3
<1>8. a \in 1 .. l + 1 /\ a \in Int /\ (a <= l => ~blank(a))
  BY <1>1, <1>6, <1>7 DEF FirstUp
<1>9. \A i \in 1 .. a - 1 : blank(i)
  <2>1. ASSUME NEW i \in 1 .. a - 1 PROVE blank(i)
    <3>1. i \in 1 .. l + 1 /\ i # l + 1 /\ i \notin S
      BY <1>1, <1>6, <1>7, <1>8 DEF FirstUp
    <3> QED
      BY <3>1
  <2> QED
    BY <2>1
<1> HIDE DEF a
<1>10. T \in SUBSET (0 .. l) /\ 0 \in T
  BY <1>1, <1>8
<1>11. ASSUME NEW f PROVE Back(f) <=> Downward(T, 0, l, f)
  <2>1. ASSUME NEW p \in 0 .. l PROVE p > a /\ blank(p) <=> p \notin T
    BY <1>1, <1>8
  <2> HIDE DEF T, blank
  <2>2. [p \in 0 .. l |-> IF p > a /\ blank(p) THEN f[p - 1] ELSE p]
          = [p \in 0 .. l |-> IF p \in T THEN p ELSE f[p - 1]]
    BY <2>1
  <2> QED
    BY <2>2 DEF Downward
<1>12. \E f : Back(f)
  <2> HIDE DEF T, Back
  <2> QED
    BY <1>1, <1>10, <1>11, DownwardExists
<1>13. Downward(T, 0, l, end)
  <2> HIDE DEF T, Back
  <2> QED
    BY <1>11, <1>12
<1>14. PICK d : FirstDown(T, l, d)
  <2> HIDE DEF T
  <2> QED
    BY <1>1, <1>10, FirstDownExists
<1>15. b = d
  <2> HIDE DEF T, end
  <2> QED
    BY <1>1, <1>10, <1>13, <1>14, DownwardValue
<1> HIDE DEF b
<1>16. b \in 0 .. l /\ b \in Int /\ (b <= a \/ ~blank(b))
  BY <1>14, <1>15 DEF FirstDown
<1>17. \A i \in b + 1 .. l : i > a /\ blank(i)
  <2>1. ASSUME NEW i \in b + 1 .. l PROVE i > a /\ blank(i)
    <3>1. i \in 0 .. l /\ i \notin T
      BY <1>1, <1>14, <1>15, <1>16 DEF FirstDown
    <3> QED
      BY <1>8, <3>1
  <2> QED
    BY <2>1
<1>18. a <= b + 1
  <2> SUFFICES ASSUME b + 1 < a PROVE FALSE
    BY <1>8, <1>16
  <2>1. b + 1 \in b + 1 .. l
    BY <1>1, <1>8, <1>16
  <2> QED
    BY <1>8, <1>16, <1>17, <2>1
<1>19. a <= b => ~blank(a) /\ ~blank(b)
  <2>1. a <= b => a <= l /\ (b <= a => b = a)
    BY <1>1, <1>8, <1>16
  <2> QED
    BY <1>8, <1>16, <2>1
<1>20. Kept(s, a, b)
  BY <1>8, <1>9, <1>16, <1>17, <1>18, <1>19 DEF Kept
<1> QED
  BY <1>2, <1>20 DEF a, b

Blanks(n) == [i \in 1 .. n |-> 0]

Middle(A, s, a, b, r) ==
  /\ s = Blanks(a - 1) \o r \o Blanks(Len(s) - b)
  /\ r \in Seq(A) /\ Len(r) = b - a + 1
  /\ r # <<>> => a <= b /\ r[1] = s[a] /\ r[Len(r)] = s[b]

LEMMA KeptMiddle ==
  ASSUME NEW A, 0 \in A, NEW s \in Seq(A), NEW a, NEW b, Kept(s, a, b)
  PROVE  Middle(A, s, a, b, SubSeq(s, a, b))
<1> DEFINE l == Len(s)
           r == SubSeq(s, a, b)
           x == Blanks(a - 1)
           y == Blanks(l - b)
           xr == x \o r
           w == xr \o y
<1>1. /\ l \in Nat /\ a \in Int /\ b \in Int /\ 1 <= a /\ a <= l + 1 /\ 0 <= b /\ b <= l /\ a <= b + 1
      /\ a - 1 \in Nat /\ l - b \in Nat
  BY LenProperties DEF Kept
<1>2. \A i \in a .. b : s[i] \in A
  <2>1. \A i \in a .. b : i \in 1 .. l
    BY <1>1
  <2> QED
    BY <2>1, ElementOfSeq
<1>3. /\ r \in Seq(A) /\ Len(r) = IF a <= b THEN b - a + 1 ELSE 0
      /\ \A i \in 1 .. b - a + 1 : r[i] = s[a + i - 1]
  BY <1>1, <1>2, SubSeqProperties
<1>4. x \in Seq(A) /\ Len(x) = a - 1 /\ y \in Seq(A) /\ Len(y) = l - b
  BY <1>1 DEF Blanks
<1>5. (\A i \in 1 .. a - 1 : x[i] = 0) /\ (\A i \in 1 .. l - b : y[i] = 0)
  BY DEF Blanks
<1> HIDE DEF r, x, y
<1>6. Len(r) = b - a + 1
  BY <1>1, <1>3
<1>7. /\ xr \in Seq(A) /\ Len(xr) = Len(x) + Len(r)
      /\ \A i \in 1 .. Len(x) + Len(r) : xr[i] = IF i <= Len(x) THEN x[i] ELSE r[i - Len(x)]
  BY <1>3, <1>4, ConcatProperties, Zenon
<1> HIDE DEF xr
<1>8. /\ w \in Seq(A) /\ Len(w) = Len(xr) + Len(y)
      /\ \A i \in 1 .. Len(xr) + Len(y) : w[i] = IF i <= Len(xr) THEN xr[i] ELSE y[i - Len(xr)]
  <2>1. xr \in Seq(A) /\ y \in Seq(A)
    BY <1>4, <1>7
  <2> QED
    BY <2>1, ConcatProperties, Zenon
<1> HIDE DEF w
<1>9. Len(xr) = b /\ Len(w) = l
  BY <1>1, <1>4, <1>6, <1>7, <1>8
<1>10. ASSUME NEW i \in 1 .. l PROVE w[i] = s[i]
  <2>1. CASE i <= a - 1
    <3>1. i \in 1 .. a - 1 /\ i <= b /\ i \in 1 .. b
      BY <1>1, <2>1
    <3>2. w[i] = x[i]
      BY <1>1, <1>4, <1>6, <1>7, <1>8, <1>9, <2>1, <3>1
    <3> QED
      BY <1>5, <3>1, <3>2 DEF Kept
  <2>2. CASE i > a - 1 /\ i <= b
    <3>1. i - (a - 1) \in 1 .. b - a + 1 /\ a + (i - (a - 1)) - 1 = i /\ i \in 1 .. b
      BY <1>1, <2>2
    <3>2. w[i] = xr[i]
      BY <1>1, <1>4, <1>8, <1>9, <2>2, <3>1
    <3>3. xr[i] = r[i - (a - 1)]
      BY <1>1, <1>4, <1>6, <1>7, <2>2, <3>1
    <3>4. r[i - (a - 1)] = s[a + (i - (a - 1)) - 1]
      BY <1>3, <3>1
    <3> QED
      BY <3>1, <3>2, <3>3, <3>4
  <2>3. CASE i > b
    <3>1. i - b \in 1 .. l - b /\ i \in b + 1 .. l
      BY <1>1, <2>3
    <3>2. w[i] = y[i - b]
      BY <1>1, <1>4, <1>8, <1>9, <2>3, <3>1
    <3> QED
      BY <1>5, <3>1, <3>2 DEF Kept
  <2> QED
    BY <1>1, <2>1, <2>2, <2>3
<1>11. w = s
  BY <1>8, <1>9, <1>10, SeqEqual
<1>12. r # <<>> => a <= b /\ r[1] = s[a] /\ r[Len(r)] = s[b]
  <2> SUFFICES ASSUME r # <<>> PROVE a <= b /\ r[1] = s[a] /\ r[Len(r)] = s[b]
    OBVIOUS
  <2>1. Len(r) # 0
    BY <1>3, EmptySeq
  <2>2. /\ a <= b /\ 1 \in 1 .. b - a + 1 /\ a + 1 - 1 = a
        /\ b - a + 1 \in 1 .. b - a + 1 /\ a + (b - a + 1) - 1 = b
    BY <1>1, <1>6, <2>1
  <2>3. r[1] = s[a + 1 - 1] /\ r[b - a + 1] = s[a + (b - a + 1) - 1]
    BY <1>3, <2>2
  <2> QED
    BY <1>6, <2>2, <2>3
<1> QED
  BY <1>3, <1>6, <1>11, <1>12 DEF w, xr, x, y, r, Middle
-------------------------------------------------------------------------------
(* Words and bytes *)

(* Division with remainder, where the divisor is a power of BYTE.            *)
LEMMA DivideExact ==
  ASSUME NEW M \in Nat, M > 0, NEW q \in Nat, NEW r \in 0 .. M - 1
  PROVE  (q * M + r) \div M = q /\ (q * M + r) % M = r
  OBVIOUS

LEMMA Divide ==
  ASSUME NEW M \in Nat, M > 0, NEW x \in Nat
  PROVE  x = (x \div M) * M + (x % M) /\ x \div M \in Nat /\ x % M \in 0 .. M - 1
  OBVIOUS

LEMMA DigitAndRest ==
  ASSUME NEW M \in Nat, NEW B \in Nat, NEW q \in 0 .. B - 1, NEW r \in 0 .. M - 1
  PROVE  q * M + r \in 0 .. M * B - 1
<1>1. q * M + M <= B * M
  OBVIOUS
<1> QED
  BY <1>1

LEMMA DivideTwice ==
  ASSUME NEW M \in Nat, M > 0, NEW B \in Nat, B > 0, NEW x \in Nat
  PROVE  x \div (M * B) = (x \div M) \div B
<1> DEFINE y == x \div M
           z == y \div B
<1>1. y \in Nat /\ z \in Nat /\ x = y * M + (x % M) /\ x % M \in 0 .. M - 1
  BY Divide
<1>2. y = z * B + (y % B) /\ y % B \in 0 .. B - 1
  BY Divide, <1>1
<1> HIDE DEF y, z
<1>3. (y % B) * M + (x % M) \in 0 .. M * B - 1
  BY <1>1, <1>2, DigitAndRest
<1>4. x = z * (M * B) + ((y % B) * M + (x % M))
  <2>1. y * M = (z * B) * M + (y % B) * M
    BY <1>1, <1>2
  <2>2. (z * B) * M = z * (M * B)
    BY <1>1
  <2> QED
    BY <1>1, <1>2, <2>1, <2>2
<1>5. M * B \in Nat /\ M * B > 0
  OBVIOUS
<1>6. x \div (M * B) = z
  BY <1>1, <1>3, <1>4, <1>5, DivideExact
<1> QED
  BY <1>6 DEF y, z

LEMMA UpTo ==
  ASSUME NEW n \in Nat, NEW S, 0 \in S, \A k \in 1 .. n : k - 1 \in S => k \in S
  PROVE  0 .. n \subseteq S
<1> DEFINE P == {k \in Nat : k <= n => k \in S}
<1>1. 0 \in P
  OBVIOUS
<1>2. \A k \in P \cap Nat : k + 1 \in P
  <2> SUFFICES ASSUME NEW k \in P, k + 1 <= n PROVE k + 1 \in S
    OBVIOUS
  <2>1. k + 1 \in 1 .. n /\ (k + 1) - 1 = k /\ k \in S
    OBVIOUS
  <2> QED
    BY <2>1
<1> HIDE DEF P
<1>3. Nat \subseteq P
  BY <1>1, <1>2, NatSetInduction
<1> QED
  BY <1>3 DEF P

(* f is what a loop computes that starts with z and in its k-th round goes    *)
(* from x to F[k][x].                                                         *)
Rounds(n, z, F, f) == f = [k \in 0 .. n |-> IF k = 0 THEN z ELSE F[k][f[k - 1]]]

LEMMA RoundsExist ==
  ASSUME NEW n \in Nat, NEW D, NEW z \in D, NEW F \in [1 .. n -> [D -> D]]
  PROVE  \E f \in [0 .. n -> D] : Rounds(n, z, F, f)
<1> DEFINE S == {m \in 0 .. n : \E f \in [0 .. m -> D] : Rounds(m, z, F, f)}
<1>1. 0 \in S
  <2> DEFINE f == [k \in 0 .. 0 |-> z]
  <2>1. f \in [0 .. 0 -> D] /\ Rounds(0, z, F, f)
    BY DEF Rounds
  <2> QED
    BY <2>1
<1>2. ASSUME NEW m \in 1 .. n, m - 1 \in S PROVE m \in S
  <2>1. PICK f \in [0 .. m - 1 -> D] : Rounds(m - 1, z, F, f)
    BY <1>2
  <2> DEFINE g == [k \in 0 .. m |-> IF k = m THEN F[m][f[m - 1]] ELSE f[k]]
  <2>2. F[m][f[m - 1]] \in D
    OBVIOUS
  <2>3. g \in [0 .. m -> D]
    BY <2>2
  <2>4. ASSUME NEW k \in 0 .. m PROVE g[k] = IF k = 0 THEN z ELSE F[k][g[k - 1]]
    <3>1. CASE k = m
      BY <3>1
    <3>2. CASE k # m
      <4>1. k \in 0 .. m - 1 /\ f[k] = IF k = 0 THEN z ELSE F[k][f[k - 1]]
        BY <2>1, <3>2 DEF Rounds
      <4> QED
        BY <3>2, <4>1
    <3> QED
      BY <3>1, <3>2
  <2>5. Rounds(m, z, F, g)
    BY <2>4 DEF Rounds
  <2> QED
    BY <2>3, <2>5
<1>3. 0 .. n \subseteq S
  <2> HIDE DEF S
  <2> QED
    BY <1>1, <1>2, UpTo
<1> QED
  BY <1>3

LEMMA PowerIs ==
  /\ String!Power \in [0 .. 4 -> Nat] /\ String!Power[0] = 1
  /\ \A n \in 1 .. 4 : String!Power[n] = String!Power[n - 1] * BYTE
  /\ \A n \in 0 .. 4 : String!Power[n] > 0
  /\ \A n \in 0 .. 4 : String!Power[n] <= String!Power[4]
<1> DEFINE F == [k \in 1 .. 4 |-> [x \in Nat |-> x * BYTE]]
           P == String!Power
           Is(f) == f = [n \in 0 .. 4 |-> IF n = 0 THEN 1 ELSE f[n - 1] * BYTE]
<1>1. \E f : Is(f)
  <2>1. F \in [1 .. 4 -> [Nat -> Nat]]
    BY ByteAssumption
  <2>2. PICK f \in [0 .. 4 -> Nat] : Rounds(4, 1, F, f)
    BY <2>1, RoundsExist
  <2>3. ASSUME NEW n \in 0 .. 4 PROVE f[n] = IF n = 0 THEN 1 ELSE f[n - 1] * BYTE
    BY <2>2 DEF Rounds
  <2>4. Is(f)
    BY <2>2, <2>3 DEF Rounds
  <2> QED
    BY <2>4
<1>2. Is(P)
  <2> HIDE DEF Is
  <2>1. P = CHOOSE f : Is(f)
    BY DEF Is, String!Power
  <2> QED
    BY <1>1, <2>1
<1> HIDE DEF P
<1>3. P[0] = 1 /\ P[1] = BYTE /\ P[2] = P[1] * BYTE /\ P[3] = P[2] * BYTE /\ P[4] = P[3] * BYTE
  BY <1>2, ByteAssumption
<1>4. ASSUME NEW x \in Nat, x > 0 PROVE x * BYTE \in Nat /\ x * BYTE > 0 /\ x <= x * BYTE
  <2>1. BYTE - 1 \in Nat /\ x * BYTE = x + x * (BYTE - 1)
    BY <1>4, ByteAssumption
  <2>2. x * (BYTE - 1) \in Nat
    BY <2>1
  <2> QED
    BY <1>4, <2>1, <2>2
<1>5. /\ P[1] \in Nat /\ P[2] \in Nat /\ P[3] \in Nat /\ P[4] \in Nat
      /\ P[1] > 0 /\ P[2] > 0 /\ P[3] > 0 /\ P[4] > 0
      /\ 1 <= P[1] /\ P[1] <= P[2] /\ P[2] <= P[3] /\ P[3] <= P[4]
  BY <1>3, <1>4, ByteAssumption
<1>6. \A n \in 0 .. 4 : n = 0 \/ n = 1 \/ n = 2 \/ n = 3 \/ n = 4
  OBVIOUS
<1>7. \A n \in 0 .. 4 : P[n] \in Nat /\ P[n] > 0 /\ P[n] <= P[4]
  BY <1>3, <1>5, <1>6
<1>8. P \in [0 .. 4 -> Nat] /\ \A n \in 1 .. 4 : P[n] = P[n - 1] * BYTE
  BY <1>2, <1>7
<1> QED
  BY <1>3, <1>7, <1>8 DEF P

(* What the loop of Value has when it has read k bytes.                       *)
Read(s, v) ==
  /\ v \in [0 .. Len(s) -> Nat] /\ v[0] = 0
  /\ \A k \in 1 .. Len(s) : v[k] = v[k - 1] * BYTE + s[k]

LEMMA BytesAre == ASSUME NEW s \in Seq(String!Bytes) PROVE
  /\ Len(s) \in Nat
  /\ \A k \in 1 .. Len(s) : s[k] \in 0 .. BYTE - 1 /\ s[k] \in Nat
<1>1. \A k \in 1 .. Len(s) : s[k] \in String!Bytes
  OBVIOUS
<1>2. \A k \in 1 .. Len(s) : s[k] \in 0 .. BYTE - 1
  BY <1>1 DEF String!Bytes
<1> QED
  BY <1>2, ByteAssumption

LEMMA ValueIs ==
  ASSUME NEW s \in Seq(String!Bytes)
  PROVE  \E v : Read(s, v) /\ String!Value(s) = v[Len(s)]
<1> DEFINE n == Len(s)
           F == [k \in 1 .. n |-> [x \in Nat |-> x * BYTE + s[k]]]
           Is(f) == f = [k \in 0 .. n |-> IF k = 0 THEN 0 ELSE f[k - 1] * BYTE + s[k]]
           v == CHOOSE f : Is(f)
<1>1. n \in Nat /\ \A k \in 1 .. n : s[k] \in Nat
  BY BytesAre
<1> HIDE DEF n
<1>2. \E f : Is(f)
  <2>1. F \in [1 .. n -> [Nat -> Nat]]
    BY <1>1, ByteAssumption
  <2>2. PICK f \in [0 .. n -> Nat] : Rounds(n, 0, F, f)
    BY <1>1, <2>1, RoundsExist
  <2>3. ASSUME NEW k \in 0 .. n PROVE f[k] = IF k = 0 THEN 0 ELSE f[k - 1] * BYTE + s[k]
    <3>1. f[k] = IF k = 0 THEN 0 ELSE F[k][f[k - 1]]
      BY <1>1, <2>2 DEF Rounds
    <3>2. k # 0 => k \in 1 .. n /\ f[k - 1] \in Nat
      BY <1>1, <2>2
    <3> QED
      BY <3>1, <3>2
  <2>4. Is(f)
    BY <2>2, <2>3 DEF Rounds
  <2> QED
    BY <2>4
<1>3. Is(v)
  <2> HIDE DEF Is
  <2> QED
    BY <1>2
<1>4. String!Value(s) = v[n]
  BY DEF String!Value, n
<1> HIDE DEF v
<1>5. v[0] = 0 /\ \A k \in 1 .. n : v[k] = v[k - 1] * BYTE + s[k]
  BY <1>1, <1>3
<1>6. 0 .. n \subseteq {k \in 0 .. n : v[k] \in Nat}
  <2> DEFINE S == {k \in 0 .. n : v[k] \in Nat}
  <2>1. 0 \in S
    BY <1>1, <1>5
  <2>2. ASSUME NEW k \in 1 .. n, k - 1 \in S PROVE k \in S
    <3>1. k - 1 \in 0 .. n /\ k \in 0 .. n /\ v[k - 1] \in Nat /\ s[k] \in Nat
      BY <1>1, <2>2
    <3>2. v[k - 1] * BYTE \in Nat /\ v[k] = v[k - 1] * BYTE + s[k]
      BY <1>5, <3>1, ByteAssumption
    <3> QED
      BY <3>1, <3>2
  <2> HIDE DEF S
  <2>3. 0 .. n \subseteq S
    BY <1>1, <2>1, <2>2, UpTo
  <2> QED
    BY <2>3 DEF S
<1>7. v \in [0 .. n -> Nat]
  BY <1>3, <1>6
<1>8. Read(s, v)
  BY <1>5, <1>7 DEF Read, n
<1> QED
  BY <1>4, <1>8 DEF n

(* The same for string2uint.                                                  *)
Summed(s, order, r) ==
  /\ r \in [0 .. Len(s) -> Nat] /\ r[0] = 0
  /\ \A i \in 1 .. Len(s) :
       r[i] = (r[i - 1] + s[i] * String!Weight(Len(s), i, order)) % String!Power[4]

LEMMA WeightIs ==
  ASSUME NEW n \in 0 .. 4, NEW i \in 1 .. n, NEW order
  PROVE  String!Weight(n, i, order) \in Nat
<1>1. n - i \in 0 .. 4 /\ i - 1 \in 0 .. 4
  OBVIOUS
<1> QED
  BY <1>1, PowerIs DEF String!Weight

LEMMA UintIs ==
  ASSUME NEW s \in Seq(String!Bytes), Len(s) <= 4, NEW order
  PROVE  \E r : Summed(s, order, r) /\ String!string2uint(s, order) = r[Len(s)]
<1> DEFINE n == Len(s)
           G(i, x) == (x + s[i] * String!Weight(n, i, order)) % String!Power[4]
           F == [i \in 1 .. n |-> [x \in Nat |-> G(i, x)]]
           Is(f) == f = [i \in 0 .. n |-> IF i = 0 THEN 0 ELSE G(i, f[i - 1])]
           r == CHOOSE f : Is(f)
<1>1. /\ n \in Nat /\ n \in 0 .. 4
      /\ \A i \in 1 .. n : s[i] \in Nat
  <2>1. n \in Nat /\ \A i \in 1 .. n : s[i] \in Nat
    BY BytesAre
  <2> HIDE DEF n
  <2>2. n <= 4
    BY DEF n
  <2> QED
    BY <2>1, <2>2
<1>2. String!string2uint(s, order) = r[n]
  BY DEF String!string2uint
<1> HIDE DEF n
<1>3. ASSUME NEW i \in 1 .. n, NEW x \in Nat PROVE G(i, x) \in Nat
  <2>1. /\ s[i] \in Nat /\ String!Weight(n, i, order) \in Nat
        /\ String!Power[4] \in Nat /\ String!Power[4] > 0
    <3>1. s[i] \in Nat
      BY <1>1
    <3>2. String!Weight(n, i, order) \in Nat
      BY <1>1, WeightIs, Zenon
    <3>3. 4 \in 0 .. 4
      OBVIOUS
    <3>4. String!Power[4] \in Nat /\ String!Power[4] > 0
      BY <3>3, PowerIs, Zenon
    <3> QED
      BY <3>1, <3>2, <3>4
  <2>2. s[i] * String!Weight(n, i, order) \in Nat
    BY <2>1
  <2> QED
    BY <2>1, <2>2
<1> HIDE DEF G
<1>4. \E f : Is(f)
  <2>1. F \in [1 .. n -> [Nat -> Nat]]
    BY <1>3
  <2>2. PICK f \in [0 .. n -> Nat] : Rounds(n, 0, F, f)
    BY <1>1, <2>1, RoundsExist
  <2>3. ASSUME NEW i \in 0 .. n PROVE f[i] = IF i = 0 THEN 0 ELSE G(i, f[i - 1])
    <3>1. f[i] = IF i = 0 THEN 0 ELSE F[i][f[i - 1]]
      BY <1>1, <2>2 DEF Rounds
    <3>2. i # 0 => i \in 1 .. n /\ f[i - 1] \in Nat
      BY <1>1, <2>2
    <3> QED
      BY <3>1, <3>2
  <2>4. Is(f)
    BY <2>2, <2>3 DEF Rounds
  <2> QED
    BY <2>4
<1>5. Is(r)
  <2> HIDE DEF Is
  <2> QED
    BY <1>4
<1> HIDE DEF r
<1>6. r[0] = 0 /\ \A i \in 1 .. n : r[i] = G(i, r[i - 1])
  BY <1>1, <1>5
<1>7. 0 .. n \subseteq {i \in 0 .. n : r[i] \in Nat}
  <2> DEFINE S == {i \in 0 .. n : r[i] \in Nat}
  <2>1. 0 \in S
    BY <1>1, <1>6
  <2>2. ASSUME NEW i \in 1 .. n, i - 1 \in S PROVE i \in S
    <3>1. i - 1 \in 0 .. n /\ i \in 0 .. n /\ r[i - 1] \in Nat
      BY <1>1, <2>2
    <3>2. r[i] \in Nat
      BY <1>3, <1>6, <3>1
    <3> QED
      BY <3>1, <3>2
  <2> HIDE DEF S
  <2>3. 0 .. n \subseteq S
    BY <1>1, <2>1, <2>2, UpTo
  <2> QED
    BY <2>3 DEF S
<1>8. r \in [0 .. n -> Nat]
  BY <1>5, <1>7
<1>9. Summed(s, order, r)
  BY <1>6, <1>8 DEF Summed, G, n
<1> QED
  BY <1>2, <1>9 DEF n

(* w[j] is the value of the last j bytes of s.                                *)
LastBytes(s, w) ==
  /\ w \in [0 .. Len(s) -> Nat] /\ w[0] = 0
  /\ \A j \in 1 .. Len(s) :
       w[j] = (w[j - 1] + s[Len(s) - j + 1] * String!Power[j - 1]) % String!Power[4]

LEMMA FrontAndLast ==
  ASSUME NEW s \in Seq(String!Bytes), Len(s) <= 4,
         NEW v, Read(s, v), NEW w, LastBytes(s, w)
  PROVE  \A j \in 0 .. Len(s) :
           /\ v[Len(s)] = v[Len(s) - j] * String!Power[j] + w[j]
           /\ w[j] \in 0 .. String!Power[j] - 1
<1> DEFINE n == Len(s)
           P == String!Power
           S == {j \in 0 .. n : v[n] = v[n - j] * P[j] + w[j] /\ w[j] \in 0 .. P[j] - 1}
<1>1. n \in Nat /\ n <= 4 /\ \A k \in 1 .. n : s[k] \in 0 .. BYTE - 1
  BY BytesAre
<1>2. /\ v \in [0 .. n -> Nat] /\ \A k \in 1 .. n : v[k] = v[k - 1] * BYTE + s[k]
      /\ w \in [0 .. n -> Nat] /\ w[0] = 0
      /\ \A j \in 1 .. n : w[j] = (w[j - 1] + s[n - j + 1] * P[j - 1]) % P[4]
  BY DEF Read, LastBytes
<1>3. /\ P[0] = 1 /\ \A k \in 1 .. 4 : P[k] = P[k - 1] * BYTE
      /\ \A k \in 0 .. 4 : P[k] \in Nat /\ P[k] > 0 /\ P[k] <= P[4]
  BY PowerIs
<1> HIDE DEF n, P
<1>4. 0 \in S
  <2>1. v[n] \in Nat /\ n - 0 = n /\ 0 \in 0 .. n
    BY <1>1, <1>2
  <2> QED
    BY <1>2, <1>3, <2>1
<1>5. ASSUME NEW j \in 1 .. n, j - 1 \in S PROVE j \in S
  <2> DEFINE d == s[n - j + 1]
             M == P[j - 1]
             x == v[n - j]
             u == w[j - 1]
  <2>1. n - j + 1 \in 1 .. n /\ (n - j + 1) - 1 = n - j /\ n - (j - 1) = n - j + 1
        /\ n - j \in 0 .. n /\ j \in 1 .. 4 /\ j \in 0 .. n /\ j - 1 \in 0 .. n /\ j - 1 \in 0 .. 4
    BY <1>1
  <2>2. d \in 0 .. BYTE - 1 /\ d \in Nat /\ M \in Nat /\ x \in Nat /\ u \in 0 .. M - 1 /\ u \in Nat
    <3>1. d \in 0 .. BYTE - 1 /\ M \in Nat /\ x \in Nat
      BY <1>1, <1>2, <1>3, <2>1
    <3>2. u \in 0 .. M - 1 /\ u \in Nat
      BY <1>2, <1>5, <2>1
    <3> QED
      BY <3>1, <3>2, ByteAssumption
  <2>3. /\ v[n] = v[n - j + 1] * M + u
        /\ v[n - j + 1] = x * BYTE + d
        /\ P[j] = M * BYTE /\ P[j] \in Nat /\ P[j] <= P[4] /\ P[4] \in Nat
        /\ w[j] = (u + d * M) % P[4]
    <3>1. v[n] = v[n - (j - 1)] * M + u
      BY <1>5
    <3>2. v[n - j + 1] = x * BYTE + d
      BY <1>2, <2>1
    <3>3. P[j] = M * BYTE /\ P[j] \in Nat /\ P[j] <= P[4] /\ P[4] \in Nat
      <4>1. P[j] = P[j - 1] * BYTE
        BY <1>3, <2>1, Zenon
      <4>2. j \in 0 .. 4 /\ 4 \in 0 .. 4
        BY <2>1
      <4>3. P[j] \in Nat /\ P[j] <= P[4] /\ P[4] \in Nat
        BY <1>3, <4>2, Zenon
      <4> QED
        BY <4>1, <4>3, Zenon
    <3>4. w[j] = (u + d * M) % P[4]
      BY <1>2
    <3> QED
      BY <2>1, <3>1, <3>2, <3>3, <3>4
  <2> HIDE DEF d, M, x, u
  <2>4. d * M + u \in 0 .. P[j] - 1
    BY <2>2, <2>3, DigitAndRest, ByteAssumption
  <2>5. w[j] = d * M + u
    <3>1. u + d * M = d * M + u /\ d * M + u \in 0 .. P[4] - 1
      BY <2>2, <2>3, <2>4
    <3> QED
      BY <2>3, <3>1
  <2>6. v[n] = x * P[j] + w[j]
    <3>1. (x * BYTE + d) * M = x * (M * BYTE) + d * M
      BY <2>2, ByteAssumption
    <3>2. x * (M * BYTE) \in Nat /\ d * M \in Nat
      BY <2>2, ByteAssumption
    <3> QED
      BY <2>2, <2>3, <2>5, <3>1, <3>2
  <2> QED
    BY <2>1, <2>4, <2>5, <2>6 DEF x
<1>6. 0 .. n \subseteq S
  <2> HIDE DEF S
  <2> QED
    BY <1>1, <1>4, <1>5, UpTo
<1> QED
  BY <1>6 DEF n, P

(* There are such numbers for every s.                                       *)
LEMMA LastBytesExist ==
  ASSUME NEW s \in Seq(String!Bytes), Len(s) <= 4
  PROVE  \E w : LastBytes(s, w)
<1> DEFINE n == Len(s)
           P == String!Power
           G(j, x) == (x + s[n - j + 1] * P[j - 1]) % P[4]
           F == [j \in 1 .. n |-> [x \in Nat |-> G(j, x)]]
<1>1. n \in Nat /\ n <= 4 /\ \A k \in 1 .. n : s[k] \in Nat
  BY BytesAre
<1>2. \A k \in 0 .. 4 : P[k] \in Nat /\ P[k] > 0
  BY PowerIs
<1> HIDE DEF n, P
<1>3. ASSUME NEW j \in 1 .. n, NEW x \in Nat PROVE G(j, x) \in Nat
  <2>1. n - j + 1 \in 1 .. n /\ j - 1 \in 0 .. 4 /\ 4 \in 0 .. 4
    BY <1>1
  <2>2. s[n - j + 1] \in Nat /\ P[j - 1] \in Nat /\ P[4] \in Nat /\ P[4] > 0
    BY <1>1, <1>2, <2>1
  <2>3. s[n - j + 1] * P[j - 1] \in Nat
    BY <2>2
  <2> QED
    BY <2>2, <2>3
<1> HIDE DEF G
<1>4. F \in [1 .. n -> [Nat -> Nat]]
  BY <1>3
<1>5. PICK w \in [0 .. n -> Nat] : Rounds(n, 0, F, w)
  BY <1>1, <1>4, RoundsExist
<1>6. w[0] = 0
  BY <1>1, <1>5 DEF Rounds
<1>7. ASSUME NEW j \in 1 .. n PROVE w[j] = G(j, w[j - 1])
  <2>1. j \in 0 .. n /\ j # 0 /\ j - 1 \in 0 .. n
    BY <1>1
  <2>2. w[j] = F[j][w[j - 1]]
    BY <1>5, <2>1 DEF Rounds
  <2>3. w[j - 1] \in Nat
    BY <2>1
  <2> QED
    BY <2>2, <2>3
<1>8. LastBytes(s, w)
  BY <1>6, <1>7 DEF LastBytes, G, n, P
<1> QED
  BY <1>8

(* What a word of s is split into is s again.                                 *)
LEMMA DigitsOfValue ==
  ASSUME NEW s \in Seq(String!Bytes), Len(s) <= 4
  PROVE  /\ String!Value(s) \in 0 .. String!Power[Len(s)] - 1
         /\ String!Digits(String!Value(s), Len(s)) = s
<1> DEFINE n == Len(s)
           P == String!Power
<1>1. PICK v : Read(s, v) /\ String!Value(s) = v[n]
  BY ValueIs
<1>2. PICK w : LastBytes(s, w)
  BY LastBytesExist
<1>3. \A j \in 0 .. n : v[n] = v[n - j] * P[j] + w[j] /\ w[j] \in 0 .. P[j] - 1
  BY <1>1, <1>2, FrontAndLast
<1>4. /\ n \in Nat /\ n <= 4 /\ s = [k \in 1 .. n |-> s[k]]
      /\ \A k \in 1 .. n : s[k] \in 0 .. BYTE - 1
  BY BytesAre
<1>5. \A k \in 0 .. 4 : P[k] \in Nat /\ P[k] > 0
  BY PowerIs
<1>6. /\ v \in [0 .. n -> Nat] /\ v[0] = 0
      /\ \A k \in 1 .. n : v[k] = v[k - 1] * BYTE + s[k]
  BY <1>1 DEF Read
<1> HIDE DEF n, P
<1>7. v[n] \in 0 .. P[n] - 1
  <2>1. n \in 0 .. n /\ n \in 0 .. 4 /\ n - n = 0
    BY <1>4
  <2>2. v[n] = v[n - n] * P[n] + w[n] /\ w[n] \in 0 .. P[n] - 1 /\ P[n] \in Nat
    BY <1>3, <1>5, <2>1
  <2>3. v[n - n] * P[n] = 0
    BY <1>6, <2>1, <2>2
  <2> QED
    BY <2>2, <2>3
<1>8. ASSUME NEW k \in 1 .. n PROVE (v[n] \div P[n - k]) % BYTE = s[k]
  <2>1. n - k \in 0 .. n /\ n - k \in 0 .. 4 /\ n - (n - k) = k /\ k \in 0 .. n /\ k - 1 \in 0 .. n
    BY <1>4
  <2>2. v[n] = v[k] * P[n - k] + w[n - k] /\ w[n - k] \in 0 .. P[n - k] - 1
    BY <1>3, <2>1
  <2>3. v[n] \div P[n - k] = v[k]
    <3>1. P[n - k] \in Nat /\ P[n - k] > 0 /\ v[k] \in Nat
      BY <1>5, <1>6, <2>1
    <3>2. (v[k] * P[n - k] + w[n - k]) \div P[n - k] = v[k]
      BY <2>2, <3>1, DivideExact
    <3> QED
      BY <2>2, <3>2
  <2>4. v[k] % BYTE = s[k]
    <3>1. /\ v[k - 1] \in Nat /\ s[k] \in 0 .. BYTE - 1 /\ v[k] = v[k - 1] * BYTE + s[k]
          /\ BYTE \in Nat /\ BYTE > 0
      BY <1>4, <1>6, <2>1, ByteAssumption
    <3>2. (v[k - 1] * BYTE + s[k]) % BYTE = s[k]
      BY <3>1, DivideExact
    <3> QED
      BY <3>1, <3>2
  <2> QED
    BY <2>3, <2>4
<1>9. String!Digits(v[n], n) = s
  <2>1. String!Digits(v[n], n) = [k \in 1 .. n |-> (v[n] \div P[n - k]) % BYTE]
    BY DEF String!Digits, P
  <2> QED
    BY <1>4, <1>8, <2>1
<1> QED
  BY <1>1, <1>7, <1>9 DEF n, P

LEMMA DigitsAreBytes ==
  ASSUME NEW n \in 0 .. 4, NEW x \in Nat
  PROVE  String!Digits(x, n) \in Seq(String!Bytes) /\ Len(String!Digits(x, n)) = n
<1>1. ASSUME NEW k \in 1 .. n PROVE (x \div String!Power[n - k]) % BYTE \in String!Bytes
  <2>1. n - k \in 0 .. 4
    OBVIOUS
  <2>2. String!Power[n - k] \in Nat /\ String!Power[n - k] > 0
    BY <2>1, PowerIs
  <2>3. x \div String!Power[n - k] \in Nat
    BY <2>2, Divide
  <2> QED
    BY <2>3, Divide, ByteAssumption DEF String!Bytes
<1>2. n \in Nat /\ String!Digits(x, n) \in [1 .. n -> String!Bytes]
  BY <1>1 DEF String!Digits
<1> QED
  BY <1>2

(* What a word is split into has its value.                                   *)
LEMMA ValueOfDigits ==
  ASSUME NEW n \in 0 .. 4, NEW x \in 0 .. String!Power[n] - 1
  PROVE  String!Value(String!Digits(x, n)) = x
<1> DEFINE P == String!Power
           s == String!Digits(x, n)
<1>1. /\ P[0] = 1 /\ \A k \in 1 .. 4 : P[k] = P[k - 1] * BYTE
      /\ \A k \in 0 .. 4 : P[k] \in Nat /\ P[k] > 0
  BY PowerIs
<1>2. x \in Nat
  BY <1>1
<1>3. s \in Seq(String!Bytes) /\ Len(s) = n /\ \A k \in 1 .. n : s[k] = (x \div P[n - k]) % BYTE
  BY <1>2, DigitsAreBytes DEF String!Digits
<1>4. x < P[n]
  BY <1>1
<1> HIDE DEF P, s
<1>5. PICK v : Read(s, v) /\ String!Value(s) = v[n]
  BY <1>3, ValueIs
<1>6. v[0] = 0 /\ \A k \in 1 .. n : v[k] = v[k - 1] * BYTE + s[k]
  BY <1>3, <1>5 DEF Read
<1> DEFINE S == {k \in 0 .. n : v[k] = x \div P[n - k]}
<1>7. 0 \in S
  <2>1. P[n] \in Nat /\ P[n] > 0 /\ n - 0 = n /\ 0 \in 0 .. n
    BY <1>1
  <2>2. 0 * P[n] + x = x /\ x \in 0 .. P[n] - 1
    BY <1>2, <1>4, <2>1
  <2>3. (0 * P[n] + x) \div P[n] = 0
    BY <2>1, <2>2, DivideExact
  <2> QED
    BY <1>6, <2>1, <2>2, <2>3
<1>8. ASSUME NEW k \in 1 .. n, k - 1 \in S PROVE k \in S
  <2> DEFINE M == P[n - k]
             y == x \div M
  <2>1. n - k \in 0 .. 4 /\ n - k + 1 \in 1 .. 4 /\ n - (k - 1) = n - k + 1
        /\ (n - k + 1) - 1 = n - k /\ k \in 0 .. n
    OBVIOUS
  <2>2. M \in Nat /\ M > 0 /\ P[n - k + 1] = M * BYTE
    BY <1>1, <2>1
  <2>3. BYTE \in Nat /\ BYTE > 0
    BY ByteAssumption
  <2>4. v[k - 1] = x \div (M * BYTE)
    BY <1>8, <2>1, <2>2
  <2>5. v[k] = v[k - 1] * BYTE + (y % BYTE)
    BY <1>3, <1>6
  <2> HIDE DEF M
  <2>6. y \in Nat
    BY <1>2, <2>2, Divide
  <2>7. v[k - 1] = y \div BYTE
    BY <1>2, <2>2, <2>3, <2>4, DivideTwice
  <2> HIDE DEF y
  <2>8. y = (y \div BYTE) * BYTE + (y % BYTE)
    BY <2>3, <2>6, Divide
  <2>9. v[k] = y
    BY <2>5, <2>7, <2>8
  <2> QED
    BY <2>1, <2>9 DEF y, M
<1>9. n \in S
  <2> HIDE DEF S
  <2>1. 0 .. n \subseteq S
    BY <1>7, <1>8, UpTo
  <2> QED
    BY <2>1
<1>10. v[n] = x \div P[0] /\ x \div 1 = x
  <2>1. n - n = 0
    OBVIOUS
  <2> QED
    BY <1>2, <1>9, <2>1
<1> QED
  BY <1>1, <1>5, <1>10 DEF s

(* string2uint reads a word in either order.                                  *)
LEMMA UintBig ==
  ASSUME NEW s \in Seq(String!Bytes), Len(s) <= 4
  PROVE  String!string2uint(s, "BENDIAN") = String!Value(s)
<1> DEFINE n == Len(s)
           P == String!Power
<1>1. PICK v : Read(s, v) /\ String!Value(s) = v[n]
  BY ValueIs
<1>2. PICK w : LastBytes(s, w)
  BY LastBytesExist
<1>3. \A j \in 0 .. n : v[n] = v[n - j] * P[j] + w[j] /\ w[j] \in 0 .. P[j] - 1
  BY <1>1, <1>2, FrontAndLast
<1>4. v[n] \in 0 .. P[n] - 1
  BY <1>1, DigitsOfValue
<1>5. PICK r : Summed(s, "BENDIAN", r) /\ String!string2uint(s, "BENDIAN") = r[n]
  BY UintIs
<1>6. n \in Nat /\ n <= 4 /\ \A k \in 1 .. n : s[k] \in Nat
  BY BytesAre
<1>7. /\ P[0] = 1 /\ \A k \in 1 .. 4 : P[k] = P[k - 1] * BYTE
      /\ \A k \in 0 .. 4 : P[k] \in Nat /\ P[k] > 0 /\ P[k] <= P[4]
  BY PowerIs
<1>8. /\ v \in [0 .. n -> Nat] /\ v[0] = 0 /\ \A k \in 1 .. n : v[k] = v[k - 1] * BYTE + s[k]
      /\ r[0] = 0 /\ \A i \in 1 .. n : r[i] = (r[i - 1] + s[i] * P[n - i]) % P[4]
  BY <1>1, <1>5 DEF Read, Summed, String!Weight
<1> HIDE DEF n, P
<1> DEFINE S == {i \in 0 .. n : r[i] = v[i] * P[n - i]}
<1>9. 0 \in S
  <2>1. 0 \in 0 .. n /\ n - 0 \in 0 .. 4
    BY <1>6
  <2>2. 0 * P[n - 0] = 0
    BY <1>7, <2>1
  <2> QED
    BY <1>8, <2>1, <2>2
<1>10. ASSUME NEW i \in 1 .. n, i - 1 \in S PROVE i \in S
  <2> DEFINE M == P[n - i]
             x == v[i - 1]
             d == s[i]
  <2>1. n - i \in 0 .. 4 /\ n - i \in 0 .. n /\ n - (n - i) = i /\ n - i + 1 \in 1 .. 4
        /\ n - (i - 1) = n - i + 1 /\ (n - i + 1) - 1 = n - i /\ i \in 0 .. n /\ i - 1 \in 0 .. n
        /\ n \in 0 .. 4
    BY <1>6
  <2>2. M \in Nat /\ x \in Nat /\ d \in Nat /\ BYTE \in Nat /\ P[4] \in Nat /\ v[i] \in Nat
    <3>1. M \in Nat /\ P[4] \in Nat
      BY <1>7, <2>1
    <3>2. x \in Nat /\ v[i] \in Nat /\ d \in Nat
      BY <1>6, <1>8, <2>1
    <3> QED
      BY <3>1, <3>2, ByteAssumption
  <2>3. r[i - 1] = x * (M * BYTE)
    <3>1. r[i - 1] = x * P[n - (i - 1)]
      BY <1>10
    <3>2. P[n - i + 1] = M * BYTE
      BY <1>7, <2>1
    <3> QED
      BY <2>1, <3>1, <3>2
  <2>4. r[i] = (r[i - 1] + d * M) % P[4] /\ v[i] = x * BYTE + d
    BY <1>8
  <2>5. v[n] = v[i] * M + w[n - i] /\ w[n - i] \in Nat
    <3>1. w[n - i] \in 0 .. M - 1 /\ v[n] = v[n - (n - i)] * M + w[n - i]
      BY <1>3, <2>1
    <3> QED
      BY <2>1, <2>2, <3>1
  <2>6. v[n] < P[4] /\ v[n] \in Nat
    <3>1. P[n] \in Nat /\ P[n] <= P[4]
      BY <1>7, <2>1
    <3> QED
      BY <1>4, <2>2, <3>1
  <2> HIDE DEF M, x, d
  <2>7. x * (M * BYTE) + d * M = v[i] * M
    BY <2>2, <2>4
  <2>8. v[i] * M \in Nat
    BY <2>2
  <2>9. v[i] * M \in 0 .. P[4] - 1
    <3> DEFINE y == v[i] * M
               u == w[n - i]
               t == v[n]
               p == P[4]
    <3>1. y \in Nat /\ u \in Nat /\ t \in Nat /\ p \in Nat /\ t = y + u /\ t < p
      BY <2>2, <2>5, <2>6, <2>8, Zenon
    <3> HIDE DEF y, u, t, p
    <3>2. y \in 0 .. p - 1
      BY <3>1
    <3> QED
      BY <3>2 DEF y, p
  <2>10. r[i] = v[i] * M
    <3>1. r[i] = (v[i] * M) % P[4]
      BY <2>3, <2>4, <2>7
    <3> DEFINE y == v[i] * M
    <3>2. y \in 0 .. P[4] - 1
      BY <2>9
    <3> HIDE DEF y
    <3>3. y % P[4] = y
      BY <2>2, <3>2
    <3> QED
      BY <3>1, <3>3 DEF y
  <2> QED
    BY <2>1, <2>10 DEF M
<1>11. n \in S
  <2> HIDE DEF S
  <2>1. 0 .. n \subseteq S
    BY <1>6, <1>9, <1>10, UpTo
  <2> QED
    BY <1>6, <2>1
<1>12. r[n] = v[n] * P[0] /\ v[n] \in Nat
  <2>1. n - n = 0 /\ n \in 0 .. n
    BY <1>6
  <2> QED
    BY <1>8, <1>11, <2>1
<1> QED
  BY <1>1, <1>5, <1>7, <1>12 DEF n

LEMMA Reversed ==
  ASSUME NEW s \in Seq(String!Bytes)
  PROVE  /\ String!Reverse(s) \in Seq(String!Bytes) /\ Len(String!Reverse(s)) = Len(s)
         /\ \A k \in 1 .. Len(s) : String!Reverse(s)[k] = s[Len(s) - k + 1]
         /\ String!Reverse(String!Reverse(s)) = s
<1> DEFINE n == Len(s)
           t == String!Reverse(s)
<1>1. n \in Nat /\ s = [k \in 1 .. n |-> s[k]] /\ \A k \in 1 .. n : s[k] \in String!Bytes
  OBVIOUS
<1>2. t = [k \in 1 .. n |-> s[(n - k) + 1]]
  BY DEF String!Reverse
<1> HIDE DEF n, t
<1>3. \A k \in 1 .. n : (n - k) + 1 \in 1 .. n /\ n - k + 1 = (n - k) + 1 /\ (n - ((n - k) + 1)) + 1 = k
  BY <1>1
<1>4. t \in [1 .. n -> String!Bytes]
  BY <1>1, <1>2, <1>3
<1>5. t \in Seq(String!Bytes) /\ Len(t) = n
  BY <1>1, <1>4
<1>6. \A k \in 1 .. n : t[k] = s[n - k + 1] /\ t[(n - k) + 1] = s[k]
  BY <1>2, <1>3
<1>7. String!Reverse(t) = [k \in 1 .. n |-> t[(n - k) + 1]]
  BY <1>5 DEF String!Reverse
<1>8. String!Reverse(t) = s
  BY <1>1, <1>6, <1>7
<1> QED
  BY <1>5, <1>6, <1>8 DEF n, t

LEMMA UintLittle ==
  ASSUME NEW s \in Seq(String!Bytes), Len(s) <= 4
  PROVE  String!string2uint(s, "LENDIAN") = String!Value(String!Reverse(s))
<1> DEFINE n == Len(s)
           t == String!Reverse(s)
<1>1. t \in Seq(String!Bytes) /\ Len(t) = n /\ \A k \in 1 .. n : t[k] = s[n - k + 1]
  BY Reversed
<1>2. PICK r : Summed(s, "LENDIAN", r) /\ String!string2uint(s, "LENDIAN") = r[n]
  BY UintIs
<1>3. PICK v : Read(t, v) /\ String!Value(t) = v[n]
  BY <1>1, ValueIs
<1>4. n \in Nat /\ n <= 4
  OBVIOUS
<1> HIDE DEF n, t
<1>5. ASSUME NEW j \in 1 .. n
      PROVE  r[j] = (r[j - 1] + t[n - j + 1] * String!Power[j - 1]) % String!Power[4]
  <2>1. n - j + 1 \in 1 .. n /\ n - (n - j + 1) + 1 = j
    BY <1>4
  <2>2. t[n - j + 1] = s[j]
    BY <1>1, <2>1
  <2> QED
    BY <1>2, <2>2 DEF Summed, String!Weight, n
<1>6. LastBytes(t, r)
  BY <1>1, <1>2, <1>5 DEF Summed, LastBytes, n
<1>7. n \in 0 .. n /\ n - n = 0
  BY <1>4
<1>8. v[n] = v[n - n] * String!Power[n] + r[n] /\ r[n] \in 0 .. String!Power[n] - 1
  BY <1>1, <1>3, <1>4, <1>6, <1>7, FrontAndLast
<1>9. v[0] = 0 /\ String!Power[n] \in Nat
  BY <1>3, <1>4, PowerIs DEF Read
<1>10. v[n - n] * String!Power[n] = 0 /\ r[n] \in Nat
  BY <1>7, <1>8, <1>9
<1> QED
  BY <1>2, <1>3, <1>8, <1>10 DEF n, t

LEMMA NativeIs == \A h \in String!Orders : String!checkNativeEndianness(h) = h
<1> DEFINE x == BYTE + 2
           d == String!Digits(x, 2)
<1>1. String!Power[0] = 1 /\ String!Power[1] = BYTE
  BY PowerIs, ByteAssumption
<1>2. x \in Nat /\ x = 1 * BYTE + 2 /\ 2 \in 0 .. BYTE - 1
  BY ByteAssumption
<1>3. x \div BYTE = 1 /\ x % BYTE = 2 /\ x \div 1 = x /\ 1 % BYTE = 1
  <2>1. (1 * BYTE + 2) \div BYTE = 1 /\ (1 * BYTE + 2) % BYTE = 2
    BY <1>2, DivideExact, ByteAssumption
  <2> QED
    BY <1>2, <2>1, ByteAssumption
<1> HIDE DEF x
<1>4. d[1] = 1 /\ d[2] = 2 /\ Len(d) = 2
  <2>1. Len(d) = 2
    BY <1>2, DigitsAreBytes
  <2>2. /\ d[1] = (x \div String!Power[2 - 1]) % BYTE
        /\ d[2] = (x \div String!Power[2 - 2]) % BYTE
    BY DEF String!Digits
  <2> QED
    BY <1>1, <1>3, <2>1, <2>2
<1> HIDE DEF d
<1>5. String!Reverse(d)[1] = 2
  BY <1>4 DEF String!Reverse
<1>6. \A h : String!checkNativeEndianness(h)
              = IF (IF h = "BENDIAN" THEN d ELSE String!Reverse(d))[1] = 1 THEN "BENDIAN" ELSE "LENDIAN"
  BY DEF String!checkNativeEndianness, String!Memory, d, x
<1> QED
  BY <1>4, <1>5, <1>6 DEF String!Orders

LEMMA Reverse32Agrees ==
  ASSUME NEW h \in String!Orders, NEW x \in String!Words(4)
  PROVE  LET r == String!reverse32(h, x) IN
         /\ String!string2uint(String!Memory(h, r, 4), "BENDIAN") = x
         /\ String!reverse32(h, r) = x
         /\ String!string2uint(String!Memory(h, x, 4), String!checkNativeEndianness(h)) = x
<1> DEFINE s == String!Digits(x, 4)
           t == String!Reverse(s)
           r == String!reverse32(h, x)
<1>1. x \in 0 .. String!Power[4] - 1 /\ x \in Nat /\ 4 \in 0 .. 4
  BY PowerIs DEF String!Words
<1>2. s \in Seq(String!Bytes) /\ Len(s) = 4 /\ String!Value(s) = x
  BY <1>1, DigitsAreBytes, ValueOfDigits
<1> HIDE DEF s
<1>3. t \in Seq(String!Bytes) /\ Len(t) = 4 /\ String!Reverse(t) = s
  BY <1>2, Reversed
<1> HIDE DEF t
<1>4. String!checkNativeEndianness(h) = h /\ (h = "BENDIAN" \/ h = "LENDIAN")
  BY NativeIs DEF String!Orders
<1>5. r = IF h = "BENDIAN" THEN String!Value(s) ELSE String!Value(t)
  BY DEF String!reverse32, String!Load, s, t
<1>6. String!Digits(r, 4) = IF h = "BENDIAN" THEN s ELSE t
  <2>1. String!Digits(String!Value(s), Len(s)) = s /\ String!Digits(String!Value(t), Len(t)) = t
    BY <1>2, <1>3, DigitsOfValue
  <2> QED
    BY <1>2, <1>3, <1>5, <2>1
<1>7. String!Memory(h, r, 4) = s
  BY <1>3, <1>4, <1>6 DEF String!Memory
<1>8. String!Memory(h, x, 4) = IF h = "BENDIAN" THEN s ELSE t
  BY DEF String!Memory, s, t
<1>9. String!reverse32(h, r) = x
  BY <1>2, <1>3, <1>4, <1>6 DEF String!reverse32, String!Load
<1>10. /\ String!string2uint(s, "BENDIAN") = x
       /\ String!string2uint(t, "LENDIAN") = x
  <2>1. Len(s) <= 4 /\ Len(t) <= 4
    BY <1>2, <1>3
  <2>2. String!string2uint(s, "BENDIAN") = String!Value(s)
    BY <1>2, <2>1, UintBig
  <2>3. String!string2uint(t, "LENDIAN") = String!Value(String!Reverse(t))
    BY <1>3, <2>1, UintLittle
  <2> QED
    BY <1>2, <1>3, <2>2, <2>3
<1> HIDE DEF r
<1> QED
  BY <1>4, <1>7, <1>8, <1>9, <1>10 DEF r

LEMMA TwoBytes ==
  ASSUME NEW a \in String!Bytes, NEW b \in String!Bytes
  PROVE  /\ String!Digits(a * BYTE + b, 2) = <<a, b>>
         /\ String!reverse16(a * BYTE + b) = b * BYTE + a
<1> DEFINE x == a * BYTE + b
           y == b * BYTE + a
<1>1. /\ BYTE \in Nat /\ BYTE > 0 /\ a \in 0 .. BYTE - 1 /\ b \in 0 .. BYTE - 1
      /\ a \in Nat /\ b \in Nat
  BY ByteAssumption DEF String!Bytes
<1>2. String!Power[0] = 1 /\ String!Power[1] = BYTE /\ String!Power[2] = BYTE * BYTE
  BY PowerIs, ByteAssumption
<1>3. x \div BYTE = a /\ x % BYTE = b /\ x \in Nat
  BY <1>1, DivideExact
<1>4. y \in 0 .. BYTE * BYTE - 1 /\ y \in Nat
  BY <1>1, DigitAndRest
<1>5. a + x * BYTE = a * (BYTE * BYTE) + y
  BY <1>1
<1>6. BYTE * BYTE \in Nat /\ BYTE * BYTE > 0
  BY <1>1
<1> HIDE DEF x, y
<1>7. (a + x * BYTE) % (BYTE * BYTE) = y
  BY <1>1, <1>4, <1>5, <1>6, DivideExact
<1>8. a % BYTE = a /\ x \div 1 = x
  BY <1>1, <1>3
<1>9. String!reverse16(x) = y
  BY <1>2, <1>3, <1>7, <1>8 DEF String!reverse16
<1>10. String!Digits(x, 2) = <<a, b>>
  <2>1. (x \div String!Power[2 - 1]) % BYTE = a /\ (x \div String!Power[2 - 2]) % BYTE = b
    BY <1>2, <1>3, <1>8
  <2>2. String!Digits(x, 2) = [k \in 1 .. 2 |-> (x \div String!Power[2 - k]) % BYTE]
    BY DEF String!Digits
  <2>3. [k \in 1 .. 2 |-> (x \div String!Power[2 - k]) % BYTE] = <<a, b>>
    BY <2>1
  <2> QED
    BY <2>2, <2>3
<1> QED
  BY <1>9, <1>10 DEF x, y

LEMMA Reverse16Agrees ==
  ASSUME NEW x \in String!Words(2)
  PROVE  LET r == String!reverse16(x) IN
         /\ String!Memory("LENDIAN", r, 2) = String!Digits(x, 2)
         /\ String!reverse16(r) = x
<1>1. x \in Nat /\ x < BYTE * BYTE
  BY PowerIs, ByteAssumption DEF String!Words
<1>2. PICK a \in String!Bytes, b \in String!Bytes : x = a * BYTE + b
  <2>1. /\ BYTE \in Nat /\ BYTE > 0
        /\ x = (x \div BYTE) * BYTE + (x % BYTE) /\ x \div BYTE \in Nat /\ x % BYTE \in 0 .. BYTE - 1
    BY <1>1, Divide, ByteAssumption
  <2> DEFINE q == x \div BYTE
  <2>2. q < BYTE
    <3>1. q * BYTE < BYTE * BYTE
      <4>1. q * BYTE \in Nat /\ BYTE * BYTE \in Nat /\ q * BYTE <= x
        BY <2>1
      <4> QED
        BY <1>1, <4>1
    <3> HIDE DEF q
    <3>2. ASSUME q >= BYTE PROVE FALSE
      <4>1. q \in Nat
        BY <2>1 DEF q
      <4>2. q * BYTE = BYTE * BYTE + (q - BYTE) * BYTE /\ (q - BYTE) * BYTE \in Nat
        BY <2>1, <3>2, <4>1
      <4> QED
        BY <2>1, <3>1, <4>1, <4>2
    <3> QED
      BY <2>1, <3>2 DEF q
  <2>3. q \in String!Bytes
    <3> HIDE DEF q
    <3>1. q \in Nat
      BY <2>1 DEF q
    <3> QED
      BY <2>1, <2>2, <3>1 DEF String!Bytes
  <2> QED
    BY <2>1, <2>3 DEF String!Bytes
<1>3. /\ String!Digits(x, 2) = <<a, b>> /\ String!reverse16(x) = b * BYTE + a
      /\ String!Digits(b * BYTE + a, 2) = <<b, a>> /\ String!reverse16(b * BYTE + a) = x
  BY <1>2, TwoBytes
<1>4. String!Reverse(<<b, a>>) = <<a, b>>
  BY DEF String!Reverse
<1> QED
  BY <1>3, <1>4 DEF String!Memory

LEMMA Uint2Agrees ==
  ASSUME NEW s \in Seq(String!Bytes), Len(s) <= 4, NEW order \in String!Orders
  PROVE  String!Digits(String!string2uint(s, order), Len(s))
           = IF order = "BENDIAN" THEN s ELSE String!Reverse(s)
<1>1. order = "BENDIAN" \/ order = "LENDIAN"
  BY DEF String!Orders
<1>2. String!Reverse(s) \in Seq(String!Bytes) /\ Len(String!Reverse(s)) = Len(s)
  BY Reversed
<1> QED
  BY <1>1, <1>2, UintBig, UintLittle, DigitsOfValue

-------------------------------------------------------------------------------
(* Calls of the string functions *)

Answers(f, r) ==
  /\ f = "strstr_Arr" => /\ request.s \in Seq(Symbols) /\ request.needle \in Seq(Symbols)
                         /\ r = <<String!strstr_Arr(request.s, request.needle)>>
  /\ f = "string_trim" => request.s \in Seq(Symbols) /\ r = <<String!string_trim(request.s)>>
  /\ f = "reverse32" => request.x \in String!Words(4) /\ r = <<String!reverse32(host, request.x)>>
  /\ f = "reverse16" => request.x \in String!Words(2) /\ r = <<String!reverse16(request.x)>>
  /\ f = "string2uint" =>
       /\ request.s \in Seq(String!Bytes) /\ Len(request.s) <= 4 /\ request.order \in String!Orders
       /\ r = <<String!string2uint(request.s, request.order)>>

StringInv ==
  /\ part = "strings" => request \in String!Calls /\ host \in String!Orders
  /\ result # None =>
       request \in String!Calls /\ host \in String!Orders /\ Answers(request.f, result)

LEMMA BoundedIsSeq ==
  \A S : \A n \in Nat : \A s \in String!BoundedSeq(S, n) : s \in Seq(S) /\ Len(s) <= n
<1> SUFFICES ASSUME NEW S, NEW n \in Nat, NEW s \in String!BoundedSeq(S, n)
             PROVE  s \in Seq(S) /\ Len(s) <= n
  OBVIOUS
<1>1. PICK k \in 0 .. n : s \in [1 .. k -> S]
  BY DEF String!BoundedSeq, String!SeqOf
<1>2. k \in Nat
  OBVIOUS
<1> QED
  BY <1>1, <1>2, SeqDef

LEMMA CallsOfStrings ==
  ASSUME NEW c \in String!Calls
  PROVE  /\ c.f = "strstr_Arr" => c.s \in Seq(Symbols) /\ c.needle \in Seq(Symbols)
         /\ c.f = "string_trim" => c.s \in Seq(Symbols)
         /\ c.f = "reverse32" => c.x \in String!Words(4)
         /\ c.f = "reverse16" => c.x \in String!Words(2)
         /\ c.f = "string2uint" =>
              c.s \in Seq(String!Bytes) /\ Len(c.s) <= 4 /\ c.order \in String!Orders
<1> DEFINE A == String!BoundedSeq(Symbols, MaxArray)
           N == String!BoundedSeq(Symbols, MaxNeedle)
           T == String!BoundedSeq(Symbols, MaxString)
           B == String!BoundedSeq(String!Bytes, 4)
<1>1. /\ A \subseteq Seq(Symbols) /\ N \subseteq Seq(Symbols) /\ T \subseteq Seq(Symbols)
      /\ \A s \in B : s \in Seq(String!Bytes) /\ Len(s) <= 4
  BY BoundsAssumption, BoundedIsSeq
<1>2. \/ c \in [f : {"reverse32"}, x : String!Words(4)]
      \/ c \in [f : {"reverse16"}, x : String!Words(2)]
      \/ c \in [f : {"string2uint"}, s : B, order : String!Orders]
      \/ c \in [f : {"strstr_Arr"}, s : A, needle : N]
      \/ c \in [f : {"string_trim"}, s : T]
  BY DEF String!Calls
<1> HIDE DEF A, N, T, B
<1> QED
  BY <1>1, <1>2

LEMMA StringStep == StringInv /\ [HelpersNext]_allVars => StringInv'
<1> SUFFICES ASSUME StringInv, [HelpersNext]_allVars PROVE StringInv'
  OBVIOUS
<1>1. CASE UNCHANGED <<part, string>>
  BY <1>1, Zenon DEF StringInv, Answers, string
<1>2. CASE part = "strings" /\ part' = part /\ String!Return
  <2>1. request \in String!Calls /\ request' = request
    BY <1>2 DEF StringInv, String!Return
  <2>2. ASSUME request.f = "strstr_Arr"
        PROVE  result' = <<String!strstr_Arr(request.s, request.needle)>>
    BY <1>2, <2>2 DEF String!Return
  <2>3. ASSUME request.f = "string_trim" PROVE result' = <<String!string_trim(request.s)>>
    BY <1>2, <2>3 DEF String!Return
  <2>4. ASSUME request.f = "reverse32" PROVE result' = <<String!reverse32(host, request.x)>>
    BY <1>2, <2>4 DEF String!Return
  <2>5. ASSUME request.f = "reverse16" PROVE result' = <<String!reverse16(request.x)>>
    BY <1>2, <2>5 DEF String!Return
  <2>6. ASSUME request.f = "string2uint"
        PROVE  result' = <<String!string2uint(request.s, request.order)>>
    BY <1>2, <2>6 DEF String!Return
  <2>7. host \in String!Orders /\ host' = host
    BY <1>2 DEF StringInv, String!Return
  <2>8. Answers(request.f, result')
    BY <2>1, <2>2, <2>3, <2>4, <2>5, <2>6, CallsOfStrings DEF Answers
  <2>9. Answers(request.f, result)'
    BY <2>1, <2>7, <2>8 DEF Answers
  <2> QED
    BY <2>1, <2>7, <2>9 DEF StringInv
<1> QED
  BY <1>1, <1>2 DEF HelpersNext, allVars, string

LEMMA StringSpecInv == HelpersSpec => []StringInv
<1>1. HelpersInit => StringInv
  BY DEF HelpersInit, StringAtRest, String!Init, StringInv
<1> QED
  BY <1>1, StringStep, PTL DEF HelpersSpec, HelpersSafety

(* reverse32, reverse16, string2uint and checkNativeEndianness               *)
(* (string_utility.c:4-30, 162-176) agree on which byte of a word is first,  *)
(* on hosts of either kind and for bytes of any size: reverse32 puts the     *)
(* most significant byte first in memory, which is no change on a big-endian *)
(* host, and reverse16 swaps the two bytes on either.                        *)
THEOREM BytesAlwaysAgree == HelpersSpec => []BytesAgree
<1>1. ASSUME StringInv PROVE BytesAgree
  <2> DEFINE x == request.x
             s == request.s
  <2>1. CASE result = None
    BY <2>1 DEF BytesAgree, String!BytesAgree, String!Returned
  <2>2. CASE result # None
    <3>1. host \in String!Orders /\ Answers(request.f, result)
      BY <1>1, <2>2 DEF StringInv
    <3>2. ASSUME request.f = "reverse32"
          PROVE  /\ String!string2uint(String!Memory(host, result[1], 4), "BENDIAN") = x
                 /\ String!reverse32(host, result[1]) = x
                 /\ String!string2uint(String!Memory(host, x, 4), String!checkNativeEndianness(host)) = x
      <4>1. x \in String!Words(4) /\ result[1] = String!reverse32(host, x)
        BY <3>1, <3>2 DEF Answers
      <4> HIDE DEF x
      <4> QED
        BY <3>1, <4>1, Reverse32Agrees
    <3>3. ASSUME request.f = "reverse16"
          PROVE  /\ host = "LENDIAN" => String!Memory(host, result[1], 2) = String!Digits(x, 2)
                 /\ String!reverse16(result[1]) = x
      <4>1. x \in String!Words(2) /\ result[1] = String!reverse16(x)
        BY <3>1, <3>3 DEF Answers
      <4> HIDE DEF x
      <4> QED
        BY <4>1, Reverse16Agrees
    <3>4. ASSUME request.f = "string2uint"
          PROVE  String!Digits(result[1], Len(s))
                   = IF request.order = "BENDIAN" THEN s ELSE String!Reverse(s)
      <4>1. /\ s \in Seq(String!Bytes) /\ Len(s) <= 4 /\ request.order \in String!Orders
            /\ result[1] = String!string2uint(s, request.order)
        BY <3>1, <3>4 DEF Answers
      <4> HIDE DEF s
      <4> QED
        BY <4>1, Uint2Agrees
    <3> QED
      BY <3>2, <3>3, <3>4 DEF BytesAgree, String!BytesAgree, String!Returned
  <2> QED
    BY <2>1, <2>2
<1> QED
  BY <1>1, StringSpecInv, PTL

(* strstr_Arr (string_utility.c:85-107) answers where needle occurs first,   *)
(* at the end of the array and where a match breaks off, too, and NULL if it *)
(* occurs nowhere: for arrays of any length.                                 *)
THEOREM SearchIsRight == HelpersSpec => []SearchFindsFirst
<1>1. ASSUME StringInv PROVE SearchFindsFirst
  <2> SUFFICES ASSUME result # None, request.f = "strstr_Arr"
               PROVE  LET found == String!Occurs(request.s, request.needle) IN
                      IF found = {} THEN result[1] = None
                      ELSE result[1] \in found /\ \A p \in found : result[1] <= p
    BY DEF SearchFindsFirst, String!SearchFindsFirst, String!Returned
  <2> DEFINE h == request.s
             nd == request.needle
             found == String!Occurs(h, nd)
             r == String!strstr_Arr(h, nd)
  <2>1. h \in Seq(Symbols) /\ nd \in Seq(Symbols) /\ result[1] = r
    BY <1>1 DEF StringInv, Answers
  <2>2. Len(h) \in Nat /\ Len(nd) \in Nat /\ (Len(nd) = 0 => nd = <<>>) /\ (h = <<>> => Len(h) = 0)
    BY <2>1, EmptySeq
  <2>3. CASE nd = <<>>
    BY <2>1, <2>3 DEF String!Occurs, String!strstr_Arr
  <2>4. CASE nd # <<>>
    <3>1. found = {p \in Room(Len(h), Len(nd)) : FirstLine(h, nd, p)}
      BY <2>1, <2>4, OccursIs
    <3>2. CASE h = <<>>
      <4>1. Room(Len(h), Len(nd)) = {}
        BY <2>2, <2>4, <3>2 DEF Room
      <4>2. r = None
        BY <3>2 DEF String!strstr_Arr
      <4> QED
        BY <2>1, <3>1, <4>1, <4>2
    <3>3. CASE h # <<>>
      <4>1. \/ r = None /\ \A p \in Room(Len(h), Len(nd)) : ~FirstLine(h, nd, p)
            \/ /\ r \in Room(Len(h), Len(nd)) /\ FirstLine(h, nd, r)
               /\ \A p \in Room(Len(h), Len(nd)) : FirstLine(h, nd, p) => r <= p
        BY <2>2, <2>4, <3>3, SearchIs
      <4> HIDE DEF h, nd, r, found
      <4> QED
        BY <2>1, <3>1, <4>1 DEF h, nd, found
    <3> QED
      BY <3>2, <3>3
  <2> QED
    BY <2>3, <2>4
<1> QED
  BY <1>1, StringSpecInv, PTL

(* string_trim (string_utility.c:119-135) takes the blanks at both ends and  *)
(* nothing else, and string_emSpace, which does not look at the last         *)
(* character (144-153), says of its result truly whether it has a blank: for *)
(* strings of any length.                                                    *)
THEOREM TrimIsRight == HelpersSpec => []TrimThenTest
<1>1. ASSUME StringInv PROVE TrimThenTest
  <2> SUFFICES ASSUME result # None, request.f = "string_trim"
               PROVE  LET r == result[1] IN
                      /\ \E a \in 0 .. Len(request.s) : \E b \in 0 .. Len(request.s) :
                           request.s = [k \in 1 .. a |-> String!Blank] \o r
                                         \o [k \in 1 .. b |-> String!Blank]
                      /\ r # <<>> => Head(r) # String!Blank /\ String!Last(r) # String!Blank
                      /\ String!string_emSpace(r) = -1 <=> \E p \in DOMAIN r : r[p] = String!Blank
    BY DEF TrimThenTest, String!TrimThenTest, String!Returned
  <2> DEFINE s == request.s
             r == result[1]
             A == Symbols \cup {0}
  <2>1. s \in Seq(Symbols) /\ r = String!string_trim(s)
    BY <1>1 DEF StringInv, Answers
  <2>2. s \in Seq(A) /\ Len(s) \in Nat /\ 0 \in A
    BY <2>1, SeqMonotonic
  <2> HIDE DEF s, r, A
  <2>3. PICK a, b : r = SubSeq(s, a, b) /\ Kept(s, a, b)
    BY <2>1, <2>2, TrimIs
  <2>4. /\ s = [k \in 1 .. a - 1 |-> 0] \o r \o [k \in 1 .. Len(s) - b |-> 0]
        /\ r \in Seq(A) /\ Len(r) = b - a + 1
        /\ r # <<>> => a <= b /\ r[1] = s[a] /\ r[Len(r)] = s[b]
    <3>1. Middle(A, s, a, b, r)
      BY <2>2, <2>3, KeptMiddle
    <3> QED
      BY <3>1 DEF Middle, Blanks
  <2>5. a - 1 \in 0 .. Len(s) /\ Len(s) - b \in 0 .. Len(s)
    BY <2>2, <2>3 DEF Kept
  <2>6. r # <<>> => r[1] # 0 /\ r[Len(r)] # 0
    BY <2>3, <2>4 DEF Kept
  <2>7. Len(r) \in Nat /\ DOMAIN r = 1 .. Len(r) /\ (r = <<>> => Len(r) = 0)
    BY <2>4, LenProperties
  <2>8. String!string_emSpace(r) = -1 <=> \E p \in DOMAIN r : r[p] = 0
    <3>1. ASSUME NEW p \in 1 .. Len(r), r[p] = 0 PROVE p \in 1 .. Len(r) - 1
      <4>1. r # <<>>
        BY <2>7
      <4> QED
        BY <2>6, <2>7, <3>1, <4>1
    <3>2. 1 .. Len(r) - 1 \subseteq 1 .. Len(r)
      BY <2>7
    <3> QED
      BY <2>7, <3>1, <3>2 DEF String!string_emSpace, String!LookedAt, String!Blank
  <2>9. r # <<>> => Head(r) = r[1] /\ String!Last(r) = r[Len(r)]
    BY <2>4 DEF String!Last
  <2> QED
    BY <2>4, <2>5, <2>6, <2>8, <2>9 DEF String!Blank, s, r
<1> QED
  BY <1>1, StringSpecInv, PTL
-------------------------------------------------------------------------------
(* The parents of wait_pid.c, fork_wait_status.c and pthread_join.c *)

Reaped == child = "reaped" /\ status = fate

(* Who has ended after it created a child has waited for it and said how it  *)
(* ended (wait_pid.c:28-40).                                                 *)
ReportIsTrue == parent = "ended" /\ child # "none" => child = "reaped" /\ reported = fate

ChildInv ==
  /\ parent \in {"fork", "wait", "test", "report", "ended"}
  /\ parent = "fork" => child = "none"
  /\ parent = "test" => ret = "zero" \/ (ret = "pid" /\ Reaped)
  /\ parent = "report" /\ child # "none" => Reaped
  /\ ReportIsTrue

LEMMA ChildInitInv == Child!Init \/ ChildAtRest => ChildInv
  BY DEF Child!Init, ChildAtRest, ChildInv, ReportIsTrue

LEMMA ChildNextInv == ChildInv /\ Child!Next => ChildInv'
<1> SUFFICES ASSUME ChildInv, Child!Next PROVE ChildInv'
  OBVIOUS
<1> USE DEF ChildInv, ReportIsTrue, Reaped
<1>1. CASE Child!Fork \/ Child!CreateThread
  BY <1>1 DEF Child!Fork, Child!CreateThread
<1>2. CASE Child!Wait \/ Child!Join
  BY <1>2 DEF Child!Wait, Child!Join, Child!Reap
<1>3. CASE Child!Poll
  BY <1>3 DEF Child!Poll, Child!Reap
<1>4. CASE Child!Test
  BY <1>4 DEF Child!Test, Child!NextAfterPoll
<1>5. CASE Child!Report
  BY <1>5 DEF Child!Report
<1>6. CASE Child!Exit \/ Child!Kill
  BY <1>6 DEF Child!Exit, Child!Kill, Child!ChildEnds
<1> QED
  BY <1>1, <1>2, <1>3, <1>4, <1>5, <1>6 DEF Child!Next, Child!ParentStep

LEMMA ChildStepInv == ChildInv /\ [HelpersNext]_allVars => ChildInv'
<1>1. ChildInv /\ UNCHANGED family => ChildInv'
  BY DEF ChildInv, ReportIsTrue, Reaped, family
<1> QED
  BY <1>1, ChildNextInv DEF HelpersNext, allVars

(* A parent that has created a child, or a thread, and has ended has waited  *)
(* for it, and what it said of it is how it ended: the status, which is not  *)
(* initialised, is never read before waitpid, wait or pthread_join has       *)
(* stored it (wait_pid.c:25-40, fork_wait_status.c:23-35,                    *)
(* pthread_join.c:59-67).                                                    *)
THEOREM ParentsTellTheTruth == HelpersSpec => []ReportIsTrue
<1>1. HelpersInit => ChildInv
  BY ChildInitInv DEF HelpersInit
<1>2. ChildInv => ReportIsTrue
  BY DEF ChildInv
<1> QED
  BY <1>1, <1>2, ChildStepInv, PTL DEF HelpersSpec, HelpersSafety
==============================================================================
