------------------------------- MODULE Signals -------------------------------
(***************************************************************************)
(* Signals sent from the keyboard, or by alarm, to a program that prepares *)
(* for them: thread_signal.c, where main blocks SIGINT before it creates   *)
(* the threads and the reader thread handles it; sig_set.c; simpe_signal.c *)
(* and alarm_interrupt.c.  What the threads of thread_signal.c do with the *)
(* record is in RecordExchange; here they use it until they leave.         *)
(***************************************************************************)
EXTENDS Integers, Sequences, SequencesExt

CONSTANT MaxSent   \* bound: how many signals the user sends

Keys           == {"INT", "QUIT"}
Signals        == Keys \cup {"ALRM"}
ProgramThreads == {"main", "writer", "reader"}
Programs       == {"thread_signal", "sig_set", "simple", "alarm"}

(* exit calls exit_prefunc, which frees the record, whoever has freed it     *)
(* before or uses it still.                                                  *)
Exit(p) == IF p = "thread_signal" THEN <<"free", "exit">> ELSE <<"exit">>

(* The statements of main that matter here, and those of the reader.         *)
Main(p) ==
  CASE p = "thread_signal" ->
         <<"malloc", "block", "create_writer", "create_reader",
           "join_writer", "join_reader", "free">> \o Exit(p)
    [] p = "sig_set" -> <<"block", "handle", "ignore", "unblock", "loop">>
    [] p = "simple"  -> <<"ignore", "handle", "loop">>
    [] p = "alarm"   -> <<"handle", "alarm", "pause">> \o Exit(p)

ReaderUnblocksFirst == <<"unblock", "handle", "ignore", "use">>
Reader              == <<"handle", "ignore", "unblock", "use">>
Writer              == <<"use", "leave">>

(* sigaddset(&set, SIGQUIT|SIGINT) adds signal 3|2 = 3, which is SIGQUIT. *)
Mask(p) == IF p = "thread_signal" THEN Keys ELSE {"QUIT"}

VARIABLES
  program,
  todo,     \* of each thread: the statements still to be executed
  blocked,  \* of each thread: its signal mask
  action,   \* of each signal: "default", "ignore" or "handler"
  pending,  \* signals of the process not yet delivered
  sent,     \* how many the user has sent
  freed,    \* how often the record was freed
  misused,  \* the threads that used it after that
  ended     \* "no", "exit", or the signal that killed the process

vars == <<program, todo, blocked, action, pending, sent, freed, misused, ended>>

Init ==
  /\ program \in Programs
  /\ todo = [t \in ProgramThreads |-> IF t = "main" THEN Main(program) ELSE <<>>]
  /\ blocked = [t \in ProgramThreads |-> {}]
  /\ action = [s \in Signals |-> "default"]
  /\ pending = {}
  /\ sent = 0
  /\ freed = 0
  /\ misused = {}
  /\ ended = "no"

-------------------------------------------------------------------------------
(* Statements *)

At(t, statement) == ended = "no" /\ todo[t] # <<>> /\ Head(todo[t]) = statement

Do(t, statement) ==
  /\ At(t, statement)
  /\ todo' = [todo EXCEPT ![t] = Tail(@)]
  /\ UNCHANGED <<program, sent, misused>>

(* If malloc fails the program ends, before there is anything to free. *)
Malloc ==
  /\ Do("main", "malloc")
  /\ ended' \in {"no", "exit"}
  /\ UNCHANGED <<blocked, action, pending, freed>>

Block ==
  /\ Do("main", "block")
  /\ blocked' = [blocked EXCEPT !["main"] = @ \cup Mask(program)]
  /\ UNCHANGED <<action, pending, freed, ended>>

(* sigpending, which overwrites the set with what is pending, comes after.   *)
OverwrittenMask == pending
UnblockedMask   == Mask(program)

Unblock(t) ==
  /\ Do(t, "unblock")
  /\ blocked' = [blocked EXCEPT ![t] = @ \ UnblockedMask]
  /\ UNCHANGED <<action, pending, freed, ended>>

Handle(t) ==
  /\ Do(t, "handle")
  /\ action' = [action EXCEPT ![IF program = "alarm" THEN "ALRM" ELSE "INT"] = "handler"]
  /\ UNCHANGED <<blocked, pending, freed, ended>>

(* A signal that is to be ignored is not left pending. *)
Ignore(t) ==
  /\ Do(t, "ignore")
  /\ action' = [action EXCEPT !["QUIT"] = "ignore"]
  /\ pending' = pending \ {"QUIT"}
  /\ UNCHANGED <<blocked, freed, ended>>

Creation == [writer |-> "create_writer", reader |-> "create_reader"]
Joining  == [writer |-> "join_writer", reader |-> "join_reader"]

(* A thread starts with the mask of the one that creates it. *)
Create(t, routine) ==
  /\ At("main", Creation[t])
  /\ todo' = [todo EXCEPT !["main"] = Tail(@), ![t] = routine]
  /\ blocked' = [blocked EXCEPT ![t] = blocked["main"]]
  /\ UNCHANGED <<program, sent, misused, action, pending, freed, ended>>

NothingToJoin(t) == TRUE
Returned(t)      == todo[t] = <<>>

Join(t) ==
  /\ Returned(t)
  /\ Do("main", Joining[t])
  /\ UNCHANGED <<blocked, action, pending, freed, ended>>

Free(t) ==
  /\ Do(t, "free")
  /\ freed' = freed + 1
  /\ UNCHANGED <<blocked, action, pending, ended>>

(* The signal comes when the time is up, wherever the program is by then.    *)
Alarm ==
  /\ Do("main", "alarm")
  /\ pending' = pending \cup {"ALRM"}
  /\ UNCHANGED <<blocked, action, freed, ended>>

ExitProcess(t) ==
  /\ Do(t, "exit")
  /\ ended' = "exit"
  /\ UNCHANGED <<blocked, action, pending, freed>>

(* The writer, or the reader, accesses the record once more. *)
Use(t) ==
  /\ At(t, "use")
  /\ misused' = IF freed > 0 THEN misused \cup {t} ELSE misused
  /\ UNCHANGED <<program, todo, blocked, action, pending, sent, freed, ended>>

(* The writer takes a quit, and leaves; the reader leaves when it sees it.   *)
WriterQuits ==
  /\ Do("writer", "use")
  /\ UNCHANGED <<blocked, action, pending, freed, ended>>

WriterLeaves ==
  /\ Do("writer", "leave")
  /\ UNCHANGED <<blocked, action, pending, freed, ended>>

ReaderLeaves ==
  /\ ~Contains(todo["writer"], "use")
  /\ Do("reader", "use")
  /\ UNCHANGED <<blocked, action, pending, freed, ended>>

-------------------------------------------------------------------------------
(* Signals *)

Send(s) ==
  /\ ended = "no" /\ sent < MaxSent
  /\ sent' = sent + 1
  /\ pending' = pending \cup {s}
  /\ UNCHANGED <<program, todo, blocked, action, freed, misused, ended>>

(* ctrl_c_handler exits in the thread that got the signal, with SIGINT and   *)
(* SIGQUIT blocked; the handlers of the simpler programs return, and then    *)
(* pause returns.                                                            *)
ctrl_c_handler(t) ==
  IF program \in {"thread_signal", "sig_set"}
    THEN /\ todo' = [todo EXCEPT ![t] = Exit(program)]
         /\ blocked' = [blocked EXCEPT ![t] = @ \cup Keys]
    ELSE /\ todo' = IF At(t, "pause") THEN [todo EXCEPT ![t] = Tail(@)] ELSE todo
         /\ UNCHANGED blocked

Deliver(s, t) ==
  /\ ended = "no"
  /\ s \in pending /\ todo[t] # <<>> /\ s \notin blocked[t]
  /\ pending' = pending \ {s}
  /\ ended' = IF action[s] = "default" THEN s ELSE ended
  /\ IF action[s] = "handler" THEN ctrl_c_handler(t) ELSE UNCHANGED <<todo, blocked>>
  /\ UNCHANGED <<program, action, sent, freed, misused>>

Step(t) == Unblock(t) \/ Handle(t) \/ Ignore(t) \/ Free(t) \/ ExitProcess(t)

MainStep ==
  \/ Malloc \/ Block \/ Alarm
  \/ Create("writer", Writer) \/ Create("reader", Reader)
  \/ Join("writer") \/ Join("reader")
  \/ Step("main")

Next ==
  \/ MainStep \/ Step("reader") \/ WriterQuits \/ WriterLeaves \/ ReaderLeaves
  \/ \E t \in ProgramThreads : Use(t) \/ \E s \in Signals : Deliver(s, t)
  \/ \E s \in Keys : Send(s)

(* Every thread is scheduled and a signal is delivered as soon as a thread   *)
(* lets it in; nobody need type a quit.                                      *)
Fairness ==
  /\ WF_vars(MainStep) /\ WF_vars(Step("reader")) /\ WF_vars(WriterLeaves)
  /\ \A s \in Signals : WF_vars(\E t \in ProgramThreads : Deliver(s, t))

Spec == Init /\ [][Next]_vars /\ Fairness

-------------------------------------------------------------------------------
(* Properties *)

(* The statement of main after which signal s must not kill the program: it  *)
(* blocks the signal (thread_signal.c:171), handles or ignores it.           *)
Prepares(p, s) ==
  CASE p = "thread_signal" /\ s \in Keys               -> "block"
    [] p = "sig_set" /\ s = "QUIT"                     -> "block"
    [] p = "simple" /\ s = "QUIT"                      -> "ignore"
    [] p \in {"sig_set", "simple"} /\ s = "INT"        -> "handle"
    [] p = "alarm" /\ s = "ALRM"                       -> "handle"
    [] OTHER                                           -> "exit"

(* A program that has prepared for a signal is not killed by it, though the  *)
(* masks are inherited by threads, and lifted by one of them, while main     *)
(* goes on.  (SIGINT kills sig_set.c between lines 26 and 48: it is not in   *)
(* the mask.)                                                                *)
KilledUnprepared == ended \in Signals => Contains(todo["main"], Prepares(program, ended))

(* A SIGINT that thread_signal.c or sig_set.c receives ends the program,     *)
(* whatever its threads are doing; so does an alarm that finds               *)
(* alarm_interrupt.c in pause.                                               *)
SignalEnds ==
  \/ program \in {"thread_signal", "sig_set"} /\ "INT" \in pending
  \/ At("main", "pause") /\ "ALRM" \in pending
  ~> ended # "no"

(* Nobody uses the record of thread_signal.c after main has freed it; only   *)
(* while the reader exits because of a SIGINT the writer may.  It is freed   *)
(* twice only by main, in line 179 and at exit.                              *)
FreedAfterUse ==
  /\ misused # {} => misused = {"writer"} /\ todo["reader"] \in {<<"exit">>, <<>>}
                     /\ Contains(todo["main"], "join_reader")
  /\ freed = 2 => todo["main"] \in {<<"exit">>, <<>>}
===============================================================================
