------------------------ MODULE RecordExchangeProofs ------------------------
(***************************************************************************)
(* For whatever is typed, the record is read whole and in order.  The      *)
(* argument is a token: at most one of the two semaphores and the two      *)
(* threads has it, so neither thread is at the record while the other is;  *)
(* and somebody has it, so they are never both left waiting, unless a      *)
(* failed fgets has lost it.                                               *)
(***************************************************************************)
EXTENDS RecordExchange, TLAPS

(* The writer has the token; where the threads take turns it holds it while  *)
(* it reads the keyboard, too.                                               *)
WriterIn == wpc \in {"clear", "copy", "post"} \/ (turns /\ wpc = "gets")
ReaderIn == rpc \in {"test", "print", "post", "leave"}

Token ==
  /\ sem_w = 1 => ~WriterIn /\ ~ReaderIn /\ sem_r = 0
  /\ sem_r = 1 => ~WriterIn /\ ~ReaderIn /\ turns
  /\ WriterIn => ~ReaderIn

(* What the record holds. *)
Record ==
  /\ name \in {Garbage, Blank} \cup 1 .. read
  /\ name = Blank <=> wpc = "copy"
  /\ wpc = "post" => name = read
  /\ wpc \in {"clear", "copy", "post"} => read > 0
  /\ ~turns /\ wpc = "take" => read > 0
  /\ rpc = "print" => name = seen

(* What has been printed.  With turns it is every line before the writer's   *)
(* turn, and the reader's turn adds one.                                     *)
ReadersTurn == sem_r = 1 \/ rpc \in {"test", "print", "leave"}

Progress ==
  /\ printed \in 0 .. read
  /\ name > 0 => printed <= name
  /\ turns =>
       /\ (sem_w = 1 /\ wpc # "done") \/ wpc = "gets" => printed = read
       /\ wpc \in {"clear", "copy", "post"} => printed = read - 1
       /\ ReadersTurn => name = read /\ read > 0 /\ printed = read - 1
       /\ rpc = "post" => printed = read /\ wpc # "done"
       /\ rpc = "leave" => wpc = "done"
       /\ rpc = "done" => wpc = "done" /\ printed = read - 1 /\ sem_r = 0
       /\ ReadersTurn => (wpc = "done" <=> input[read] = "quit")
       /\ rpc = "print" => wpc # "done"

(* Somebody has the token, unless a failed fgets has lost it, after which    *)
(* both threads wait for ever; a quit leaves it to the reader.               *)
Kept ==
  /\ sem_w = 1 \/ sem_r = 1 \/ WriterIn \/ ReaderIn \/ TurnLost
  /\ TurnLost => wpc = "take" /\ rpc = "take" /\ sem_w = 0 /\ sem_r = 0
  /\ turns /\ wpc = "done" => sem_r = 1 \/ ReaderIn \/ rpc = "done"

Inv == TypeOK /\ Token /\ Record /\ Progress /\ Kept

USE DEF Garbage, Blank, Kinds, Lines

LEMMA InitInv == Init => Inv
  BY InputsAssumption DEF Init, WriterStart, Inv, TypeOK, Token, WriterIn, ReaderIn,
     Record, Progress, ReadersTurn, Kept, TurnLost

(* What a thread at the record may assume, in arithmetic the provers see.    *)
LEMMA Domain ==
  ASSUME TypeOK
  PROVE  /\ read \in Nat /\ Len(input) \in Nat /\ read <= Len(input)
         /\ Lines = 1 .. Len(input)
         /\ \A k \in 1 .. Len(input) : input[k] \in Kinds
  BY DEF TypeOK

LEMMA WriterInv == Inv /\ (WriterTake \/ WriterStep) => Inv'
<1> SUFFICES ASSUME Inv, WriterTake \/ WriterStep PROVE Inv'
  OBVIOUS
<1> USE Domain DEF Inv, TypeOK, Token, WriterIn, ReaderIn, Record, Progress, ReadersTurn,
           Kept, TurnLost
<1>1. CASE WriterTake
  BY <1>1 DEF WriterTake
<1>2. CASE WriterGets
  <2>1. CASE input[read'] = "fail"
    <3>1. /\ UNCHANGED <<turns, input, sem_w, sem_r, name, rpc, seen, printed>>
          /\ wpc = "gets" /\ read' = read + 1 /\ read < Len(input)
      BY <1>2 DEF WriterGets
    <3>2. wpc' = IF turns THEN "take" ELSE "gets"
      <4>1. wpc' = WriterStart(turns)
        BY <1>2, <2>1, Zenon DEF WriterGets
      <4> QED
        BY <4>1, Zenon DEF WriterStart
    <3>3. CASE turns
      <4>1. rpc = "take" /\ sem_w = 0 /\ sem_r = 0
        BY <3>1, <3>3
      <4>2. Kept'
        BY <2>1, <3>1, <3>2, <3>3, <4>1
      <4>3. TypeOK' /\ Token' /\ Record' /\ Progress'
        BY <3>1, <3>2, <3>3, <4>1
      <4> QED
        BY <4>2, <4>3
    <3>4. CASE ~turns
      BY <3>1, <3>2, <3>4
    <3> QED
      BY <3>3, <3>4
  <2>2. CASE input[read'] # "fail" /\ turns
    BY <1>2, <2>2 DEF WriterGets
  <2>3. CASE input[read'] # "fail" /\ ~turns
    BY <1>2, <2>3 DEF WriterGets
  <2> QED
    BY <2>1, <2>2, <2>3
<1>3. CASE WriterClear
  BY <1>3 DEF WriterClear
<1>4. CASE WriterCopy
  BY <1>4 DEF WriterCopy
<1>5. CASE WriterPost
  BY <1>5 DEF WriterPost, Posted, WriterStart
<1> QED
  BY <1>1, <1>2, <1>3, <1>4, <1>5 DEF WriterStep

LEMMA ReaderInv == Inv /\ ReaderStep => Inv'
<1> SUFFICES ASSUME Inv, ReaderStep PROVE Inv'
  OBVIOUS
<1> USE Domain DEF Inv, TypeOK, Token, WriterIn, ReaderIn, Record, Progress, ReadersTurn,
           Kept, TurnLost
<1>1. CASE ReaderTake
  BY <1>1 DEF ReaderTake, Taken
<1>2. CASE ReaderTest
  <2>1. name \notin {Garbage, Blank} => rpc' = IF input[name] = "quit" THEN "leave" ELSE "print"
    BY <1>2 DEF ReaderTest, Quits
  <2>2. rpc' \in {"leave", "print"} /\ seen' = name
    BY <1>2 DEF ReaderTest
  <2> QED
    BY <1>2, <2>1, <2>2 DEF ReaderTest
<1>3. CASE ReaderPrint
  BY <1>3 DEF ReaderPrint
<1>4. CASE ReaderPost
  BY <1>4 DEF ReaderPost
<1> QED
  BY <1>1, <1>2, <1>3, <1>4 DEF ReaderStep

LEMMA StepInv == Inv /\ [Next]_vars => Inv'
<1> SUFFICES ASSUME Inv, [Next]_vars PROVE Inv'
  OBVIOUS
<1>1. CASE UNCHANGED vars
  BY <1>1 DEF vars, Inv, TypeOK, Token, WriterIn, ReaderIn, Record, Progress, ReadersTurn,
     Kept, TurnLost
<1> QED
  BY <1>1, WriterInv, ReaderInv DEF Next

LEMMA SpecInv == Spec => []Inv
  BY InitInv, StepInv, PTL DEF Spec

(* Every variable has its type: no semaphore is ever above 1.                *)
THEOREM RecordTypeCorrect == Spec => []TypeOK
<1>1. Inv => TypeOK
  BY DEF Inv
<1> QED
  BY <1>1, SpecInv, PTL

(* What the reader prints is whole, and the line it compared with "quit"     *)
(* (thread_sem_sync.c:83-91, thread_sem_mutex.c:80-90).                      *)
THEOREM NeverTorn == Spec => []NoTornRead
<1>1. Inv => NoTornRead
  BY DEF Inv, TypeOK, NoTornRead, Token, WriterIn, ReaderIn, Record, Progress, ReadersTurn
<1> QED
  BY <1>1, SpecInv, PTL

(* With turns, all lines before the quit are printed when both threads end.  *)
THEOREM AllLinesPrinted == Spec => []EveryLinePrinted
<1>1. Inv => EveryLinePrinted
  BY DEF Inv, EveryLinePrinted, Progress
<1> QED
  BY <1>1, SpecInv, PTL

(* Two threads never wait for each other for ever, nor one for the other     *)
(* that has ended, but after a failed fgets in a program that takes turns    *)
(* (thread_sem_sync.c:46); after that they always do.                        *)
THEOREM OnlyFailureDeadlocks == Spec => []DeadlockByFailureOnly
<1>1. Inv => DeadlockByFailureOnly
  <2> SUFFICES ASSUME Inv PROVE Deadlocked <=> TurnLost
    BY DEF DeadlockByFailureOnly
  <2> USE DEF Deadlocked, WriterBlocked, ReaderBlocked
  <2>1. ASSUME TurnLost PROVE Deadlocked
    BY <2>1 DEF Inv, Kept, TurnLost
  <2>2. ASSUME Deadlocked, ~TurnLost PROVE FALSE
    <3>1. ~ReaderIn /\ ~WriterIn
      BY <2>2 DEF ReaderIn, WriterIn
    <3>2. sem_w = 1 \/ sem_r = 1
      BY <2>2, <3>1 DEF Inv, Kept
    <3>3. CASE turns
      BY <2>2, <3>1, <3>2, <3>3 DEF Inv, TypeOK, Kept, Progress, Token
    <3>4. CASE ~turns
      BY <2>2, <3>2, <3>4 DEF Inv, TypeOK, Token
    <3> QED
      BY <3>3, <3>4
  <2> QED
    BY <2>1, <2>2
<1> QED
  BY <1>1, SpecInv, PTL

(* Lines are printed in the order typed, with turns each exactly once.       *)
THEOREM PrintedInOrder == Spec => LinesInOrder
<1> DEFINE Order ==
      printed' # printed => IF turns THEN printed' = printed + 1 ELSE printed' > printed
<1>1. Inv /\ [Next]_vars => [Order]_vars
  <2> SUFFICES ASSUME Inv, [Next]_vars, printed' # printed PROVE Order
    BY DEF vars
  <2>1. ReaderPrint
    BY DEF vars, Next, WriterTake, WriterStep, WriterGets, WriterClear, WriterCopy, WriterPost,
       ReaderStep, ReaderTake, ReaderTest, ReaderPost
  <2>2. name # Garbage /\ printed' = name
    BY <2>1 DEF ReaderPrint
  <2>3. name # Blank
    BY <2>1 DEF ReaderPrint, Inv, Token, WriterIn, ReaderIn, Record
  <2>4. printed <= name /\ (turns => printed = name - 1)
    BY <2>1, <2>2, <2>3, Domain DEF ReaderPrint, Inv, TypeOK, Record, Progress, ReadersTurn
  <2> QED
    BY <2>2, <2>3, <2>4, Domain DEF Inv, TypeOK, Record, Progress
<1> QED
  BY <1>1, SpecInv, PTL DEF Spec, LinesInOrder
==============================================================================
