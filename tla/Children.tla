------------------------------- MODULE Children -------------------------------
(***************************************************************************)
(* A parent that learns how its child ended: by polling (wait_pid.c) or by *)
(* waiting (fork_wait_status.c) for a process that exits with status 1, or *)
(* is killed before that; by joining a thread (pthread_join.c) that        *)
(* returns a record, or NULL if it gets no memory for one.                 *)
(***************************************************************************)
CONSTANT None   \* not known, not initialised; not one of the Fates

Ways == {"poll", "wait", "join"}

(* How the child of each program may end of itself. *)
Ends(w) == IF w = "join" THEN {"record", "NULL"} ELSE {"exited"}
Fates   == {"exited", "killed", "record", "NULL"}

VARIABLES
  way,      \* which program
  parent,   \* its next statement
  child,    \* "none", "running", "zombie" or "reaped"
  fate,     \* how the child ended
  ret,      \* what the last waitpid, or wait, answered: "zero" or "pid"
  status,   \* what it stored
  reported  \* what the parent says of the child

vars == <<way, parent, child, fate, ret, status, reported>>

Init ==
  /\ way \in Ways
  /\ parent = "fork"
  /\ child = "none"
  /\ fate = None /\ ret = None /\ reported = None
  /\ status = IF way = "join" THEN "NULL" ELSE None

(* If fork fails the program ends. *)
Fork ==
  /\ parent = "fork" /\ way # "join"
  /\ \/ parent' = "ended" /\ UNCHANGED child
     \/ parent' = "wait" /\ child' = "running"
  /\ UNCHANGED <<way, fate, ret, status, reported>>

ChildEnds(how) ==
  /\ child = "running"
  /\ child' = "zombie"
  /\ fate' = how
  /\ UNCHANGED <<way, parent, ret, status, reported>>

Exit == \E how \in Ends(way) : ChildEnds(how)
Kill == way # "join" /\ ChildEnds("killed")

(* Whether pthread_create fails is not tested; pthread_join is then given an *)
(* uninitialised handle: it may crash, or return and leave the result alone. *)
CreateThread ==
  /\ parent = "fork" /\ way = "join"
  /\ \/ parent' = "wait" /\ child' = "running"
     \/ parent' \in {"ended", "report"} /\ UNCHANGED child
  /\ UNCHANGED <<way, fate, ret, status, reported>>

Reap(next) ==
  /\ child = "zombie"
  /\ child' = "reaped"
  /\ ret' = "pid" /\ status' = fate
  /\ parent' = next
  /\ UNCHANGED <<way, fate, reported>>

Wait == parent = "wait" /\ way = "wait" /\ Reap("report")
Join == parent = "wait" /\ way = "join" /\ Reap("report")

(* waitpid(WNOHANG), then a sleep of 0.2 s, and round again while it answers *)
(* zero.                                                                     *)
Poll ==
  /\ parent = "wait" /\ way = "poll"
  /\ \/ Reap("test")
     \/ child = "running" /\ ret' = "zero" /\ parent' = "test"
        /\ UNCHANGED <<way, child, fate, status, reported>>

NextAfterPollOnce == "report"
NextAfterPoll     == IF ret = "zero" THEN "wait" ELSE "report"

Test ==
  /\ parent = "test"
  /\ parent' = NextAfterPoll
  /\ UNCHANGED <<way, child, fate, ret, status, reported>>

Report ==
  /\ parent = "report"
  /\ reported' = status
  /\ parent' = "ended"
  /\ UNCHANGED <<way, child, fate, ret, status>>

ParentStep == Fork \/ CreateThread \/ Wait \/ Join \/ Poll \/ Test \/ Report
Next       == ParentStep \/ Exit \/ Kill

(* Child and parent are scheduled; a child that is not killed ends.          *)
Fairness == WF_vars(ParentStep) /\ WF_vars(Exit)
Spec     == Init /\ [][Next]_vars /\ Fairness

-------------------------------------------------------------------------------
(* Properties *)

(* However the polls fall, once there is a child it is reaped and the parent *)
(* says of it what happened to it, never what its status held before.        *)
ReportsTheChild ==
  child = "running" ~> child = "reaped" /\ reported = fate
===============================================================================
