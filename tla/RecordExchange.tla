--------------------------- MODULE RecordExchange ---------------------------
(***************************************************************************)
(* Four programs in which a writer thread copies lines from the keyboard   *)
(* into a record that a reader thread prints, until a line says "quit".    *)
(* In thread_sem_sync.c and thread_signal.c they take turns with two       *)
(* semaphores; in thread_sem_mutex.c and thread_mutex_dynmic.c the reader  *)
(* polls under one semaphore, or mutex, that excludes the writer.  The     *)
(* code of the threads is otherwise the same.                              *)
(***************************************************************************)
EXTENDS Integers, Sequences

CONSTANTS TurnInputs, PollInputs   \* what may be typed, see below

(* A line, a line that starts with "quit", a call of fgets that fails.       *)
Kinds == {"line", "quit", "fail"}

ASSUME InputsAssumption == TurnInputs \subseteq Seq(Kinds) /\ PollInputs \subseteq Seq(Kinds)

VARIABLES
  turns,    \* which programs: two semaphores (TRUE) or one (FALSE)
  input,    \* what is typed
  read,     \* how many calls of fgets have returned
  sem_w, sem_r,  \* the semaphores; the polling programs' only one is sem_w
  name,     \* the line in pInfo->name; Blank after bzero, Garbage from malloc
  wpc, rpc, \* where the writer and the reader are
  seen,     \* the name the reader compared with "quit"
  printed   \* the line printed last, 0 at first

vars == <<turns, input, read, sem_w, sem_r, name, wpc, rpc, seen, printed>>

Garbage == -1
Blank   == -2

WriterStart(t) == IF t THEN "take" ELSE "gets"

Init ==
  /\ turns \in BOOLEAN
  /\ input \in IF turns THEN TurnInputs ELSE PollInputs
  /\ read = 0
  /\ sem_w = 1
  /\ sem_r = 0
  /\ name = Garbage
  /\ wpc = WriterStart(turns)
  /\ rpc = "take"
  /\ seen = Garbage
  /\ printed = 0

-------------------------------------------------------------------------------
(* write_thread_routine *)

(* sem_wait: before fgets in the programs that take turns, else after it.    *)
WriterTake ==
  /\ wpc = "take" /\ sem_w > 0
  /\ sem_w' = sem_w - 1
  /\ wpc' = IF turns THEN "gets" ELSE "clear"
  /\ UNCHANGED <<turns, input, read, sem_r, name, rpc, seen, printed>>

(* When fgets fails the loop starts over, in the programs that take turns    *)
(* with the turn still taken.                                                *)
WriterGets ==
  /\ wpc = "gets" /\ read < Len(input)
  /\ read' = read + 1
  /\ wpc' = IF input[read'] = "fail" THEN WriterStart(turns)
            ELSE IF turns THEN "clear" ELSE "take"
  /\ UNCHANGED <<turns, input, sem_w, sem_r, name, rpc, seen, printed>>

WriterClear ==
  /\ wpc = "clear"
  /\ name' = Blank
  /\ wpc' = "copy"
  /\ UNCHANGED <<turns, input, read, sem_w, sem_r, rpc, seen, printed>>

WriterCopy ==
  /\ wpc = "copy"
  /\ name' = read
  /\ wpc' = "post"
  /\ UNCHANGED <<turns, input, read, sem_w, sem_r, rpc, seen, printed>>

PostedBySelf == sem_w' = sem_w + 1 /\ UNCHANGED sem_r

Posted ==
  IF turns
    THEN sem_r' = sem_r + 1 /\ UNCHANGED sem_w
    ELSE sem_w' = sem_w + 1 /\ UNCHANGED sem_r

WriterPost ==
  /\ wpc = "post"
  /\ Posted
  /\ wpc' = IF input[read] = "quit" THEN "done" ELSE WriterStart(turns)
  /\ UNCHANGED <<turns, input, read, name, rpc, seen, printed>>

-------------------------------------------------------------------------------
(* read_thread_routine *)

TakenFromWriter == sem_w > 0 /\ sem_w' = sem_w - 1 /\ UNCHANGED sem_r
TakenUnwaited   == sem_r' = sem_r - 1 /\ UNCHANGED sem_w

Taken ==
  IF turns
    THEN sem_r > 0 /\ sem_r' = sem_r - 1 /\ UNCHANGED sem_w
    ELSE sem_w > 0 /\ sem_w' = sem_w - 1 /\ UNCHANGED sem_r

ReaderTake ==
  /\ rpc = "take"
  /\ Taken
  /\ rpc' = "test"
  /\ UNCHANGED <<turns, input, read, name, wpc, seen, printed>>

(* What the reader's comparison with "quit" may say of a name.               *)
Quits(n) ==
  CASE n = Garbage -> BOOLEAN
    [] n = Blank   -> {FALSE}
    [] OTHER       -> {input[n] = "quit"}

ReaderTest ==
  /\ rpc = "test"
  /\ seen' = name
  /\ \E quit \in Quits(name) : rpc' = IF quit THEN "leave" ELSE "print"
  /\ UNCHANGED <<turns, input, read, sem_w, sem_r, name, wpc, printed>>

ReaderPrint ==
  /\ rpc = "print"
  /\ printed' = IF name = Garbage THEN printed ELSE name
  /\ rpc' = "post"
  /\ UNCHANGED <<turns, input, read, sem_w, sem_r, name, wpc, seen>>

(* After the post that follows a line the polling reader sleeps 0.2 s.       *)
ReaderPost ==
  /\ rpc \in {"post", "leave"}
  /\ sem_w' = sem_w + 1
  /\ rpc' = IF rpc = "leave" THEN "done" ELSE "take"
  /\ UNCHANGED <<turns, input, read, sem_r, name, wpc, seen, printed>>

WriterStep == WriterGets \/ WriterClear \/ WriterCopy \/ WriterPost
ReaderStep == ReaderTake \/ ReaderTest \/ ReaderPrint \/ ReaderPost

(* When both are done main, which waits for them, ends the program.          *)
Next == WriterTake \/ WriterStep \/ ReaderStep

Spec == Init /\ [][Next]_vars

(* Both threads are scheduled and the user types the whole input.  A polling *)
(* reader is off the lock for 0.2 s in every round, in which the writer      *)
(* gets it: strong fairness of its sem_wait.                                 *)
FairSpec ==
  Spec /\ WF_vars(WriterStep) /\ SF_vars(WriterTake) /\ WF_vars(ReaderStep)

-------------------------------------------------------------------------------
(* Properties *)

Lines == DOMAIN input

(* Every variable has its type. *)
TypeOK ==
  /\ turns \in BOOLEAN
  /\ input \in Seq(Kinds)
  /\ read \in 0 .. Len(input)
  /\ sem_w \in {0, 1} /\ sem_r \in {0, 1}
  /\ name \in Lines \cup {Garbage, Blank}
  /\ seen \in Lines \cup {Garbage, Blank}
  /\ printed \in Lines \cup {0, Blank}
  /\ wpc \in {"take", "gets", "clear", "copy", "post", "done"}
  /\ rpc \in {"take", "test", "print", "post", "leave", "done"}

(* What the reader prints is a whole line, never one half replaced, and the  *)
(* line it has just compared with "quit"; with turns it is never garbage.    *)
NoTornRead ==
  rpc = "print" =>
    /\ name = seen
    /\ name # Blank
    /\ turns => name # Garbage

(* With turns, the reader prints every line, once and in the order typed; a  *)
(* polling reader may print a line again or miss one, but never goes back.   *)
LinesInOrder ==
  [][ printed' # printed =>
        IF turns THEN printed' = printed + 1 ELSE printed' > printed ]_vars

(* With turns, all lines before the "quit" are printed when both end.        *)
EveryLinePrinted ==
  turns /\ wpc = "done" /\ rpc = "done" => printed = read - 1

(* The threads wait for each other, or for one that has ended, exactly if    *)
(* fgets has failed in a program that takes turns: the writer then asks for  *)
(* the turn it has (thread_sem_sync.c:46).  Nothing else loses the turn.     *)
WriterBlocked == wpc = "take" /\ sem_w = 0
ReaderBlocked == rpc = "take" /\ (IF turns THEN sem_r ELSE sem_w) = 0

Deadlocked ==
  /\ WriterBlocked \/ wpc = "done"
  /\ ReaderBlocked \/ rpc = "done"
  /\ WriterBlocked \/ ReaderBlocked

TurnLost == turns /\ read > 0 /\ input[read] = "fail"

DeadlockByFailureOnly == Deadlocked <=> TurnLost

(* "... until the user types quit" (thread_sem_sync.c:38): a quit ends both  *)
(* threads, with turns if no fgets has failed before it.                     *)
QuitTyped ==
  \E k \in Lines : /\ input[k] = "quit"
                   /\ turns => \A i \in 1 .. k - 1 : input[i] # "fail"

QuitEnds == QuitTyped ~> (wpc = "done" /\ rpc = "done")
==============================================================================
