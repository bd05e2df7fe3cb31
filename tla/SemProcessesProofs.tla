-------------------------- MODULE SemProcessesProofs --------------------------
(***************************************************************************)
(* Proofs about SemProcesses, for any number of runs: parent and child     *)
(* exclude each other although the child removes the semaphore, and what a *)
(* killed process has taken comes back exactly once.                       *)
(***************************************************************************)
EXTENDS SemProcesses, TLAPS

P(r) == <<r, "parent">>
C(r) == <<r, "child">>

Asleep(r) == pc[P(r)] = "off" /\ pc[C(r)] = "off"
Done(r)   == Over(P(r)) /\ Over(C(r))

(* A run begins when every earlier one is over. *)
Sequential == \A r, s \in 1 .. Runs : r < s => Done(r) \/ Asleep(s)

(* A run has no semaphore before it begins, no child before its parent forks. *)
Phases(r) ==
  /\ pc[P(r)] = "off" => held[r] = 0
  /\ pc[C(r)] = "off" <=> pc[P(r)] \in {"off", "set", "fork"}
  /\ pc[C(r)] \notin {"set", "fork"} /\ pc[P(r)] # "del"

(* A run has lost its semaphore only if its child has removed it. *)
Handles(r) ==
  ~Asleep(r) /\ ~Names(P(r)) => pc[C(r)] \in {"exit", "ended", "killed"}

(* The kernel owes exactly what is held inside. *)
Owed(p) == undo[p] = IF pc[p] = "inside" /\ Names(p) THEN 1 ELSE 0

(* Once it is set, the semaphore is 0 exactly while one of the two is inside. *)
Value(r) ==
  Names(P(r)) /\ ~Done(r) /\ pc[P(r)] \notin {"off", "set"} =>
    (val = 0 <=> pc[P(r)] = "inside" \/ pc[C(r)] = "inside")

Apart(r) == ~(pc[P(r)] = "inside" /\ pc[C(r)] = "inside")

Sound(r) ==
  /\ Phases(r)
  /\ Handles(r)
  /\ Owed(P(r)) /\ Owed(C(r))
  /\ Value(r)
  /\ Apart(r)

Inv ==
  /\ TypeOK
  /\ Sequential
  /\ \A r \in 1 .. Runs : Sound(r)

-------------------------------------------------------------------------------
(* Parents and children are all there is. *)
LEMMA Pairs ==
  /\ \A r \in 1 .. Runs : /\ P(r) \in Processes /\ C(r) \in Processes
                          /\ P(r) # C(r)
                          /\ P(r)[1] = r /\ C(r)[1] = r
                          /\ P(r)[2] = "parent" /\ C(r)[2] = "child"
  /\ \A r, s \in 1 .. Runs : /\ P(r) # C(s)
                             /\ r # s => P(r) # P(s) /\ C(r) # C(s)
  /\ \A p \in Processes : p[1] \in 1 .. Runs /\ (p = P(p[1]) \/ p = C(p[1]))
BY DEF Processes, P, C

(* The other process of a run. *)
LEMMA Siblings ==
  \A r \in 1 .. Runs : Sibling(P(r)) = C(r) /\ Sibling(C(r)) = P(r)
BY Pairs DEF Sibling, P, C

LEMMA InitInv == Init => Inv
<1> SUFFICES ASSUME Init PROVE Inv
  OBVIOUS
<1>1. TypeOK
  BY RunsAssumption DEF Init, TypeOK
<1>2. \A r \in 1 .. Runs : Asleep(r) /\ held[r] = 0
  BY Pairs DEF Init, Asleep
<1>3. \A p \in Processes : undo[p] = 0 /\ pc[p] = "off"
  BY DEF Init
<1> QED
  BY <1>1, <1>2, <1>3, Pairs
  DEF Inv, Sequential, Sound, Phases, Handles, Owed, Value, Apart, Asleep

-------------------------------------------------------------------------------
(* It is the turn of run r: those before it are over, those after it asleep. *)
Turn(r) ==
  \A s \in 1 .. Runs : (s < r => Done(s)) /\ (r < s => Asleep(s))

LEMMA TurnOfActive ==
  ASSUME Sequential, NEW r \in 1 .. Runs, ~Done(r), ~Asleep(r)
  PROVE  Turn(r)
BY DEF Sequential, Turn

LEMMA TurnOfNext ==
  ASSUME Inv, NEW r \in 1 .. Runs, pc[P(r)] = "off", Alone(r)
  PROVE  Turn(r) /\ ~Done(r) /\ Asleep(r)
<1>1. ~Done(r) /\ Asleep(r)
  BY Pairs DEF Inv, Sound, Phases, Done, Over, Asleep
<1>2. ASSUME NEW s \in 1 .. Runs, s < r PROVE Done(s)
  <2>1. r - 1 \in 1 .. Runs /\ r > 1
    BY <1>2, RunsAssumption
  <2>2. Done(r - 1)
    BY <2>1 DEF Alone, Done, P, C
  <2>3. ~Asleep(r - 1)
    BY <2>2 DEF Asleep, Done, Over
  <2>4. CASE s = r - 1
    BY <2>2, <2>4
  <2>5. CASE s < r - 1
    BY <2>1, <2>3, <2>5 DEF Inv, Sequential
  <2> QED
    BY <1>2, <2>4, <2>5, RunsAssumption
<1> QED
  BY <1>1, <1>2 DEF Inv, Sequential, Turn

(* What a step of run r has to show: the other runs are idle, so it is       *)
(* enough that they are left alone and that nothing is owed for them.        *)
LEMMA Frame ==
  ASSUME Inv, TypeOK', NEW r \in 1 .. Runs, ~Done(r), Turn(r), Sound(r)',
         \A s \in 1 .. Runs : s # r =>
            /\ pc'[P(s)] = pc[P(s)] /\ pc'[C(s)] = pc[C(s)]
            /\ undo'[P(s)] = 0 /\ undo'[C(s)] = 0 /\ held'[s] = held[s]
  PROVE  Inv'
<1>1. ASSUME NEW s \in 1 .. Runs, s # r
      PROVE  (Done(s)' <=> Done(s)) /\ (Asleep(s)' <=> Asleep(s))
  BY <1>1 DEF Done, Asleep, Over
<1>2. Sequential'
  <2> SUFFICES ASSUME NEW s \in 1 .. Runs, NEW t \in 1 .. Runs, s < t
               PROVE  Done(s)' \/ Asleep(t)'
    BY DEF Sequential
  <2>1. CASE t = r
    BY <1>1, <2>1 DEF Turn
  <2>2. CASE s = r
    BY <1>1, <2>2 DEF Turn
  <2>3. CASE s # r /\ t # r
    BY <1>1, <2>3 DEF Inv, Sequential
  <2> QED
    BY <2>1, <2>2, <2>3
<1>3. ASSUME NEW s \in 1 .. Runs, s # r
      PROVE  Sound(s)'
  <2>1. Done(s) \/ Asleep(s)
    <3>1. s < r \/ r < s
      BY <1>3
    <3> QED
      BY <3>1 DEF Turn
  <2>2. pc'[P(s)] = pc[P(s)] /\ pc'[C(s)] = pc[C(s)]
        /\ undo'[P(s)] = 0 /\ undo'[C(s)] = 0 /\ held'[s] = held[s]
    BY <1>3
  <2>3. /\ pc'[P(s)] \in {"off", "ended", "killed"}
        /\ pc'[C(s)] \in {"off", "ended", "killed"}
        /\ pc'[P(s)] = "off" <=> pc'[C(s)] = "off"
    BY <2>1, <2>2 DEF Done, Over, Asleep
  <2>4. Done(s)' \/ Asleep(s)'
    BY <1>1, <1>3, <2>1
  <2>5. pc[P(s)] = "off" => held[s] = 0
    BY DEF Inv, Sound, Phases
  <2> QED
    BY <2>2, <2>3, <2>4, <2>5
    DEF Sound, Phases, Handles, Owed, Value, Apart, Done, Over, Asleep
<1> QED
  BY <1>2, <1>3 DEF Inv

(* While it is the turn of r, nothing is owed to the other runs. *)
LEMMA NothingOwed ==
  ASSUME Inv, NEW r \in 1 .. Runs, Turn(r), NEW s \in 1 .. Runs, s # r
  PROVE  undo[P(s)] = 0 /\ undo[C(s)] = 0
<1>1. s < r \/ r < s
  OBVIOUS
<1>2. Done(s) \/ Asleep(s)
  BY <1>1 DEF Turn
<1> QED
  BY <1>2 DEF Inv, Sound, Owed, Done, Over, Asleep

(* The two names of the semaphore of a run. *)
LEMMA SameName ==
  ASSUME NEW r \in 1 .. Runs
  PROVE  /\ Names(P(r)) <=> semid # 0 /\ held[r] = semid
         /\ Names(C(r)) <=> semid # 0 /\ held[r] = semid
         /\ Names(P(r))' <=> semid' # 0 /\ held'[r] = semid'
         /\ Names(C(r))' <=> semid' # 0 /\ held'[r] = semid'
BY Pairs DEF Names

(* What the steps of one run have in common. *)
LEMMA Here ==
  ASSUME Inv, NEW r \in 1 .. Runs
  PROVE  /\ P(r) \in Processes /\ C(r) \in Processes /\ P(r) # C(r)
         /\ \A s \in 1 .. Runs : s # r =>
              /\ P(s) \in Processes /\ C(s) \in Processes
              /\ P(s) # P(r) /\ P(s) # C(r) /\ C(s) # P(r) /\ C(s) # C(r)
         /\ pc \in [Processes -> {"off", "set", "fork", "p", "inside", "del",
                                  "exit", "ended", "killed"}]
         /\ undo \in [Processes -> {0, 1}] /\ val \in {0, 1}
         /\ held \in [1 .. Runs -> 0 .. made] /\ made \in Nat /\ semid \in {0, made}
         /\ Phases(r) /\ Handles(r) /\ Owed(P(r)) /\ Owed(C(r)) /\ Value(r) /\ Apart(r)
BY Pairs DEF Inv, TypeOK, Sound

(* The start of a run, up to the fork. *)
LEMMA SemgetStep ==
  ASSUME Inv, NEW r \in 1 .. Runs, Semget(r)
  PROVE  Inv'
<1>1. Turn(r) /\ ~Done(r) /\ Asleep(r)
  BY TurnOfNext DEF Semget, P
<1>2. /\ pc' = [pc EXCEPT ![P(r)] = "set"] /\ undo' = undo
      /\ held' = [held EXCEPT ![r] = semid']
  BY DEF Semget, P
<1>3. /\ semid' # 0 /\ semid' = made' /\ made' \in Nat /\ made' >= made
      /\ val' \in {0, 1}
  BY Here DEF Semget
<1>4. TypeOK'
  BY <1>2, <1>3, Here DEF TypeOK
<1>5. pc'[P(r)] = "set" /\ pc'[C(r)] = "off" /\ undo'[P(r)] = 0 /\ undo'[C(r)] = 0
  BY <1>1, <1>2, Here DEF Asleep, Owed
<1>6. Sound(r)'
  BY <1>2, <1>3, <1>5, Here, SameName
  DEF Sound, Phases, Handles, Owed, Value, Apart, Asleep
<1> QED
  BY <1>1, <1>2, <1>4, <1>6, Here, NothingOwed, Frame

LEMMA GiveUpStep ==
  ASSUME Inv, NEW r \in 1 .. Runs, GiveUp(r), UNCHANGED <<semid, made, val, held, undo>>,
         pc[P(r)] \in {"off", "fork"}, Turn(r)
  PROVE  Inv'
<1>1. pc' = [pc EXCEPT ![P(r)] = "exit", ![C(r)] = "killed"]
  BY DEF GiveUp, P, C
<1>2. TypeOK'
  BY <1>1, Here DEF TypeOK
<1>3. pc[C(r)] = "off" /\ ~Done(r)
  BY Here DEF Phases, Done, Over
<1>4. pc'[P(r)] = "exit" /\ pc'[C(r)] = "killed" /\ undo'[P(r)] = 0 /\ undo'[C(r)] = 0
  BY <1>1, <1>3, Here DEF Owed
<1>5. ~Names(P(r)) \/ val' # 0
  BY <1>3, Here, SameName DEF Value, Phases
<1>6. Sound(r)'
  BY <1>4, <1>5, Here, SameName
  DEF Sound, Phases, Handles, Owed, Value, Apart, Asleep
<1> QED
  BY <1>1, <1>2, <1>3, <1>6, Here, NothingOwed, Frame

LEMMA SetvalStep ==
  ASSUME Inv, NEW r \in 1 .. Runs, Setval(r)
  PROVE  Inv'
<1>1. pc[P(r)] = "set" /\ pc[C(r)] = "off" /\ ~Done(r) /\ ~Asleep(r)
  BY Here DEF Setval, P, Phases, Done, Over, Asleep
<1>2. Turn(r)
  BY <1>1, TurnOfActive DEF Inv
<1>3. Names(P(r))
  BY <1>1, Here DEF Handles
<1>4. /\ pc' = [pc EXCEPT ![P(r)] = "fork"]
      /\ val' = 1 /\ undo' = [p \in Processes |-> 0]
      /\ UNCHANGED <<semid, made, held>>
  BY <1>3 DEF Setval, init_sem, P
<1>5. TypeOK'
  BY <1>4, Here DEF TypeOK
<1>6. Sound(r)'
  BY <1>1, <1>4, Here, SameName, <1>3
  DEF Sound, Phases, Handles, Owed, Value, Apart, Asleep
<1> QED
  BY <1>1, <1>2, <1>4, <1>5, <1>6, Here, Frame

LEMMA ForkStep ==
  ASSUME Inv, NEW r \in 1 .. Runs, Fork(r)
  PROVE  Inv'
<1>1. pc[P(r)] = "fork" /\ pc[C(r)] = "off" /\ ~Done(r) /\ ~Asleep(r)
  BY Here DEF Fork, P, Phases, Done, Over, Asleep
<1>2. Turn(r)
  BY <1>1, TurnOfActive DEF Inv
<1>3. /\ pc' = [pc EXCEPT ![P(r)] = "p", ![C(r)] = "p"]
      /\ UNCHANGED <<semid, made, val, held, undo>>
  BY DEF Fork, P, C
<1>4. TypeOK'
  BY <1>3, Here DEF TypeOK
<1>5. pc'[P(r)] = "p" /\ pc'[C(r)] = "p" /\ undo'[P(r)] = 0 /\ undo'[C(r)] = 0
  BY <1>1, <1>3, Here DEF Owed
<1>6. Names(P(r)) /\ val # 0
  BY <1>1, Here DEF Handles, Value
<1>7. Sound(r)'
  BY <1>3, <1>5, <1>6, Here, SameName
  DEF Sound, Phases, Handles, Owed, Value, Apart, Asleep
<1> QED
  BY <1>1, <1>2, <1>3, <1>4, <1>7, Here, NothingOwed, Frame

(* The steps of a process, parent or child. *)
LEMMA EnterStep ==
  ASSUME Inv, NEW r \in 1 .. Runs, NEW p \in {P(r), C(r)}, Enter(p)
  PROVE  Inv'
<1>1. pc[p] = "p" /\ ~Done(r) /\ ~Asleep(r)
  BY Here DEF Enter, Phases, Done, Over, Asleep
<1>2. Turn(r)
  BY <1>1, TurnOfActive DEF Inv
<1>3. pc' = [pc EXCEPT ![p] = "inside"] /\ UNCHANGED <<semid, made, held>>
  BY DEF Enter
<1>4. CASE Names(p)
  <2>1. val > 0 /\ val' = val - 1 /\ undo' = [undo EXCEPT ![p] = @ + 1]
    BY <1>4 DEF Enter, sem_p
  <2>2. val = 1 /\ val' = 0 /\ undo[p] = 0 /\ undo' = [undo EXCEPT ![p] = 1]
    <3>1. undo[p] = 0
      BY <1>1, Here DEF Owed
    <3>2. val = 1 /\ val' = 0
      BY <2>1, Here
    <3> QED
      BY <2>1, <3>1, <3>2
  <2>3. TypeOK'
    BY <1>3, <2>2, Here DEF TypeOK
  <2>4. pc[P(r)] # "inside" /\ pc[C(r)] # "inside" /\ pc[P(r)] \notin {"off", "set"}
    BY <1>1, <1>4, <2>2, Here, SameName DEF Value, Phases
  <2>5. Sound(r)'
    BY <1>1, <1>3, <1>4, <2>2, <2>4, Here, SameName
    DEF Sound, Phases, Handles, Owed, Value, Apart, Asleep
  <2> QED
    BY <1>1, <1>2, <1>3, <2>2, <2>3, <2>5, Here, NothingOwed, Frame
<1>5. CASE ~Names(p)
  <2>1. UNCHANGED <<val, undo>>
    BY <1>5 DEF Enter, sem_p
  <2>2. TypeOK'
    BY <1>3, <2>1, Here DEF TypeOK
  <2>3. p = P(r) /\ pc[C(r)] \in {"exit", "ended", "killed"}
    BY <1>1, <1>5, Here, SameName DEF Handles
  <2>4. Sound(r)'
    BY <1>1, <1>3, <1>5, <2>1, <2>3, Here, SameName
    DEF Sound, Phases, Handles, Owed, Value, Apart, Asleep
  <2> QED
    BY <1>1, <1>2, <1>3, <2>1, <2>2, <2>4, Here, NothingOwed, Frame
<1> QED
  BY <1>4, <1>5

LEMMA LeaveStep ==
  ASSUME Inv, NEW r \in 1 .. Runs, NEW p \in {P(r), C(r)}, Leave(p)
  PROVE  Inv'
<1>1. pc[p] = "inside" /\ ~Done(r) /\ ~Asleep(r)
  BY Here DEF Leave, Phases, Done, Over, Asleep
<1>2. Turn(r)
  BY <1>1, TurnOfActive DEF Inv
<1>3. /\ pc' = [pc EXCEPT ![p] = IF p = C(r) THEN "del" ELSE "exit"]
      /\ UNCHANGED <<semid, made, held>>
  BY Pairs DEF Leave
<1>4. pc[P(r)] \notin {"off", "set"}
  BY <1>1, Here DEF Phases
<1>5. CASE Names(p)
  <2>1. val = 0 /\ undo[p] = 1
    BY <1>1, <1>4, <1>5, Here, SameName DEF Value, Owed
  <2>2. val' = 1 /\ undo' = [undo EXCEPT ![p] = 0]
    BY <1>5, <2>1, Here DEF Leave, sem_v
  <2>3. TypeOK'
    BY <1>3, <2>2, Here DEF TypeOK
  <2>4. Sound(r)'
    BY <1>1, <1>3, <1>4, <1>5, <2>2, Here, SameName
    DEF Sound, Phases, Handles, Owed, Value, Apart, Asleep
  <2> QED
    BY <1>1, <1>2, <1>3, <2>2, <2>3, <2>4, Here, NothingOwed, Frame
<1>6. CASE ~Names(p)
  <2>1. UNCHANGED <<val, undo>>
    BY <1>6 DEF Leave, sem_v
  <2>2. TypeOK'
    BY <1>3, <2>1, Here DEF TypeOK
  <2>3. p = P(r) /\ pc[C(r)] \in {"exit", "ended", "killed"}
    BY <1>1, <1>6, Here, SameName DEF Handles
  <2>4. Sound(r)'
    BY <1>1, <1>3, <1>6, <2>1, <2>3, Here, SameName
    DEF Sound, Phases, Handles, Owed, Value, Apart, Asleep
  <2> QED
    BY <1>1, <1>2, <1>3, <2>1, <2>2, <2>4, Here, NothingOwed, Frame
<1> QED
  BY <1>5, <1>6

LEMMA DeleteStep ==
  ASSUME Inv, NEW r \in 1 .. Runs, NEW p \in {P(r), C(r)}, Delete(p)
  PROVE  Inv'
<1>1. p = C(r) /\ pc[C(r)] = "del" /\ ~Done(r) /\ ~Asleep(r)
  BY Here DEF Delete, Phases, Done, Over, Asleep
<1>2. Turn(r)
  BY <1>1, TurnOfActive DEF Inv
<1>3. Names(C(r))
  BY <1>1, Here, SameName DEF Handles
<1>4. /\ pc' = [pc EXCEPT ![C(r)] = "exit"] /\ UNCHANGED <<made, val, held>>
      /\ semid' = 0 /\ undo' = [q \in Processes |-> 0]
  BY <1>1, <1>3 DEF Delete, del_sem
<1>5. TypeOK'
  BY <1>4, Here DEF TypeOK
<1>6. Sound(r)'
  BY <1>1, <1>4, Here, SameName
  DEF Sound, Phases, Handles, Owed, Value, Apart, Asleep
<1> QED
  BY <1>1, <1>2, <1>4, <1>5, <1>6, Here, Frame

LEMMA ExitStep ==
  ASSUME Inv, NEW r \in 1 .. Runs, NEW p \in {P(r), C(r)}, Exit(p)
  PROVE  Inv'
<1>1. pc[p] = "exit" /\ ~Done(r) /\ ~Asleep(r)
  BY Here DEF Exit, Phases, Done, Over, Asleep
<1>2. Turn(r)
  BY <1>1, TurnOfActive DEF Inv
<1>3. undo[p] = 0
  BY <1>1, Here DEF Owed
<1>4. /\ pc' = [pc EXCEPT ![p] = "ended"] /\ UNCHANGED <<semid, made, held>>
      /\ undo' = [undo EXCEPT ![p] = 0]
  BY DEF Exit, Undone
<1>5. val' = val
  BY <1>3, Here DEF Exit, Undone
<1>6. TypeOK'
  BY <1>4, <1>5, Here DEF TypeOK
<1>7. Sound(r)'
  <2>1. pc[P(r)] \notin {"off", "set"}
    BY <1>1, Here DEF Phases
  <2> QED
    BY <1>1, <1>3, <1>4, <1>5, <2>1, Here, SameName
    DEF Sound, Phases, Handles, Owed, Value, Apart, Asleep, Done, Over
<1> QED
  BY <1>1, <1>2, <1>4, <1>6, <1>7, Here, NothingOwed, Frame

(* Killed inside, it gives the semaphore back; elsewhere it has nothing.     *)
LEMMA KillStep ==
  ASSUME Inv, NEW r \in 1 .. Runs, NEW p \in {P(r), C(r)}, Kill(p)
  PROVE  Inv'
<1>1. pc[p] # "off" /\ pc[p] \notin {"ended", "killed"} /\ ~Done(r) /\ ~Asleep(r)
  BY DEF Kill, Done, Over, Asleep
<1>2. Turn(r)
  BY <1>1, TurnOfActive DEF Inv
<1>3. /\ pc' = [q \in Processes |->
                  IF q = p \/ (q = Sibling(p) /\ pc[q] = "off") THEN "killed" ELSE pc[q]]
      /\ UNCHANGED <<semid, made, held>>
      /\ undo' = [undo EXCEPT ![p] = 0]
  BY DEF Kill, Undone
<1>4. /\ pc'[p] = "killed"
      /\ p = P(r) => pc'[C(r)] = IF pc[C(r)] = "off" THEN "killed" ELSE pc[C(r)]
      /\ p = C(r) => pc'[P(r)] = pc[P(r)]
      /\ \A s \in 1 .. Runs : s # r => pc'[P(s)] = pc[P(s)] /\ pc'[C(s)] = pc[C(s)]
  <2>1. Sibling(P(r)) = C(r) /\ Sibling(C(r)) = P(r)
    BY Siblings
  <2>2. p = C(r) => pc[P(r)] # "off"
    BY <1>1, Here DEF Phases
  <2> QED
    BY <1>3, <2>1, <2>2, Here
<1>5. val' = IF pc[p] = "inside" /\ Names(p) THEN 1 ELSE val
  <2>1. CASE pc[p] = "inside" /\ Names(p)
    <3>1. undo[p] = 1 /\ val = 0
      BY <2>1, Here, SameName, <1>1 DEF Owed, Value, Phases
    <3> QED
      BY <2>1, <3>1 DEF Kill, Undone
  <2>2. CASE ~(pc[p] = "inside" /\ Names(p))
    <3>1. undo[p] = 0
      BY <2>2, Here DEF Owed
    <3> QED
      BY <2>2, <3>1, Here DEF Kill, Undone
  <2> QED
    BY <2>1, <2>2
<1>6. TypeOK'
  <2>1. pc' \in [Processes -> {"off", "set", "fork", "p", "inside", "del", "exit",
                               "ended", "killed"}]
    BY <1>3, Here
  <2>2. val' \in {0, 1}
    BY <1>5, Here
  <2> QED
    BY <1>3, <2>1, <2>2, Here DEF TypeOK
<1>7. Sound(r)'
  <2>1. CASE p = P(r)
    BY <1>1, <1>3, <1>4, <1>5, <2>1, Here, SameName
    DEF Sound, Phases, Handles, Owed, Value, Apart, Asleep, Done, Over
  <2>2. CASE p = C(r)
    BY <1>1, <1>3, <1>4, <1>5, <2>2, Here, SameName
    DEF Sound, Phases, Handles, Owed, Value, Apart, Asleep, Done, Over
  <2> QED
    BY <2>1, <2>2
<1> QED
  BY <1>1, <1>2, <1>3, <1>4, <1>6, <1>7, Here, NothingOwed, Frame

-------------------------------------------------------------------------------
LEMMA StepInv == Inv /\ [Next]_vars => Inv'
<1> SUFFICES ASSUME Inv, [Next]_vars PROVE Inv'
  OBVIOUS
<1>1. ASSUME NEW r \in 1 .. Runs,
             Semget(r) \/ SemgetFails(r) \/ Setval(r) \/ Fork(r) \/ ForkFails(r)
      PROVE  Inv'
  <2>1. CASE Semget(r)
    BY <2>1, SemgetStep
  <2>2. CASE SemgetFails(r)
    <3>1. Turn(r)
      BY <2>2, TurnOfNext DEF SemgetFails, P
    <3> QED
      BY <2>2, <3>1, GiveUpStep DEF SemgetFails, P
  <2>3. CASE Setval(r)
    BY <2>3, SetvalStep
  <2>4. CASE Fork(r)
    BY <2>4, ForkStep
  <2>5. CASE ForkFails(r)
    <3>1. pc[P(r)] = "fork"
      BY <2>5 DEF ForkFails, P
    <3>2. Turn(r)
      BY <3>1, TurnOfActive DEF Inv, Done, Over, Asleep
    <3> QED
      BY <2>5, <3>1, <3>2, GiveUpStep DEF ForkFails
  <2> QED
    BY <1>1, <2>1, <2>2, <2>3, <2>4, <2>5
<1>2. ASSUME NEW p \in Processes, Step(p) \/ Kill(p)
      PROVE  Inv'
  <2>1. PICK r \in 1 .. Runs : p \in {P(r), C(r)}
    BY Pairs
  <2>2. CASE Enter(p)
    BY <2>1, <2>2, EnterStep
  <2>3. CASE Leave(p)
    BY <2>1, <2>3, LeaveStep
  <2>4. CASE Delete(p)
    BY <2>1, <2>4, DeleteStep
  <2>5. CASE Exit(p)
    BY <2>1, <2>5, ExitStep
  <2>6. CASE Kill(p)
    BY <2>1, <2>6, KillStep
  <2> QED
    BY <1>2, <2>2, <2>3, <2>4, <2>5, <2>6 DEF Step
<1>3. CASE UNCHANGED vars
  BY <1>3 DEF vars, Inv, TypeOK, Sequential, Sound, Phases, Handles, Owed, Value,
              Apart, Done, Asleep, Over, Names
<1> QED
  BY <1>1, <1>2, <1>3 DEF Next

(* What the invariant says of two processes that are both on their way. *)
LEMMA SameRun ==
  ASSUME Inv, NEW p \in Processes, NEW q \in Processes,
         pc[p] \in {"p", "inside"}, pc[q] \in {"p", "inside"}
  PROVE  p[1] = q[1]
<1>1. /\ p[1] \in 1 .. Runs /\ q[1] \in 1 .. Runs
      /\ p \in {P(p[1]), C(p[1])} /\ q \in {P(q[1]), C(q[1])}
  BY Pairs
<1>2. ~Done(p[1]) /\ ~Asleep(p[1]) /\ ~Done(q[1]) /\ ~Asleep(q[1])
  BY <1>1 DEF Done, Over, Asleep
<1>3. ~(p[1] < q[1]) /\ ~(q[1] < p[1])
  BY <1>1, <1>2 DEF Inv, Sequential
<1> QED
  BY <1>1, <1>3

(* "Mutual exclusion of parent and child" (sem_main.c:1), for any number of  *)
(* runs, though the child removes the semaphore and any process may be       *)
(* killed anywhere.                                                          *)
THEOREM NeverBothInside == Spec => []ParentChildExclusive
<1>1. Inv => ParentChildExclusive
  <2> SUFFICES ASSUME Inv, NEW p \in Processes, NEW q \in Processes,
                      pc[p] = "inside", pc[q] = "inside"
               PROVE  p = q
    BY DEF ParentChildExclusive
  <2>1. p[1] = q[1]
    BY SameRun
  <2>2. Apart(p[1])
    BY Pairs DEF Inv, Sound
  <2> QED
    BY <2>1, <2>2, Pairs DEF Apart
<1> QED
  BY <1>1, InitInv, StepInv, PTL DEF Spec

(* What a killed process has taken comes back, once, for any number of runs  *)
(* (SEM_UNDO, sem_com.c:21).                                                 *)
THEOREM KilledGivesBack == Spec => []UndoBalances
<1>1. Inv => UndoBalances
  <2> SUFFICES ASSUME Inv, semid # 0, NEW p \in Processes, pc[p] = "p", Names(p)
               PROVE  val = 0 <=> \E q \in Processes : pc[q] = "inside" /\ Names(q)
    BY DEF UndoBalances
  <2> DEFINE r == p[1]
  <2>1. r \in 1 .. Runs /\ p \in {P(r), C(r)}
    BY Pairs
  <2>2. Phases(r) /\ Value(r)
    BY <2>1 DEF Inv, Sound
  <2>3. Names(P(r)) /\ Names(C(r))
    BY <2>1, SameName
  <2>4. val = 0 <=> pc[P(r)] = "inside" \/ pc[C(r)] = "inside"
    BY <2>1, <2>2, <2>3 DEF Phases, Value, Done, Over
  <2>5. ASSUME NEW q \in Processes, pc[q] = "inside" PROVE q \in {P(r), C(r)}
    BY <2>5, SameRun, Pairs
  <2> QED
    BY <2>1, <2>3, <2>4, <2>5, Pairs
<1> QED
  BY <1>1, InitInv, StepInv, PTL DEF Spec
===============================================================================
