------------------------------ MODULE LineStream ------------------------------
(***************************************************************************)
(* Six programs in which one process copies lines from the keyboard to     *)
(* another, which prints what it reads, until a line that starts with      *)
(* "quit".  Four use a byte stream: pipe.c; fifo_write.c and fifo_read.c;  *)
(* the simple TCP client and server; the TCP client with select and the    *)
(* thread that its server starts for it.  Where a read ends is up to the   *)
(* kernel, in the middle of a line perhaps, and only the first bytes of it *)
(* are compared with "quit".  The fifth, fork_shem, has a shared buffer    *)
(* and no lock; the sixth sends UDP datagrams, which may be lost, repeated *)
(* or arrive in another order, and its server never leaves.                *)
(*                                                                         *)
(* A line is two halves, so that a read can end within it.  It has room in *)
(* the buffer of fgets, and the word in it once at most.  The shared       *)
(* buffer is empty at first.  The two commands of a fifo or a socket are   *)
(* started in any order; a user whose command ends at once, for want of    *)
(* the other, starts it again.                                             *)
(***************************************************************************)
EXTENDS Integers, Sequences

CONSTANTS Inputs,    \* what may be typed: sequences over Kinds
          MaxCopies  \* bound: how often the network delivers one datagram

Programs == {"pipe", "fifo", "simple", "select", "shm", "udp"}
Sockets  == {"simple", "select"}
Kinds    == {"line", "quit", "inner"}   \* "inner": quit is what it goes on with

ASSUME InputsAssumption == Inputs \subseteq Seq(Kinds)
ASSUME CopiesAssumption == MaxCopies \in Nat

VARIABLES
  program,
  input,   \* what is typed
  patient, \* does the user wait until a line is shown before typing the next?
  written, \* how many lines the writer has written
  sent,    \* how many of them have got into the stream
  got,     \* how many the reader has read from there, ...
  half,    \* ... and has it read the first half of the next?
  shared,  \* shm: the lines whose first and second half are in the buffer, or 0
  shown,   \* shm: the lines that the reader has shown whole
  net,     \* udp: copies of lines that have reached the server, <<line, copy>>
  told,    \* udp: those at which it has said that the client is gone
  file,    \* FIFO_FILE: "none", the "old" fifo of an earlier run, the "new" one
  opened,  \* the fifo that the reader opens, or "none"
  writer,  \* "start", "unlinked", "writing", "storing" and "testing" (shm), and
           \* in the end "left", "interrupted" or "killed"
  reader,  \* "start", "opening" (fifo) or "listening" (sockets), "reading",
           \* "shown", "erasing" and "wiping" (shm), "left"
  slips    \* history: "missed": the start of a quit was not at the start of a
           \* read, or not whole; "mistaken": the middle of a line was, and it
           \* was taken for a quit; "erased": a line was erased before it was shown

typing == <<program, input, patient>>
stream == <<sent, got, half>>
memory == <<shared, shown>>
udp    == <<net, told>>
fifo   == <<file, opened>>
vars   == <<typing, written, stream, memory, udp, fifo, writer, reader, slips>>

Init ==
  /\ program \in Programs
  /\ input \in Inputs
  /\ patient \in BOOLEAN
  /\ written = 0
  /\ sent = 0 /\ got = 0 /\ half = FALSE
  /\ shared = <<0, 0>> /\ shown = {}
  /\ net = {} /\ told = {}
  /\ file \in IF program = "fifo" THEN {"none", "old"} ELSE {"none"}
  /\ opened = "none"
  /\ writer = IF program \in {"pipe", "shm", "udp"} THEN "writing" ELSE "start"
  /\ reader = IF program \in {"pipe", "shm"} THEN "reading" ELSE "start"
  /\ slips = {}

Gone == writer \in {"left", "interrupted", "killed"}

-------------------------------------------------------------------------------
(* The start of the fifo and the socket programs *)

(* fifo_write: what is there is removed and made anew. *)
Unlink ==
  /\ program = "fifo" /\ writer = "start"
  /\ file' = "none"
  /\ writer' = "unlinked"
  /\ UNCHANGED <<opened, reader>>

(* Opened O_RDWR, it neither waits for a reader nor ever breaks for want of  *)
(* one.                                                                      *)
Mkfifo ==
  /\ writer = "unlinked"
  /\ file' = "new"
  /\ writer' = "writing"
  /\ UNCHANGED <<opened, reader>>

Access ==
  /\ program = "fifo" /\ reader = "start" /\ file # "none"
  /\ opened' = file
  /\ reader' = "opening"
  /\ UNCHANGED <<file, writer>>

(* open waits for a writer; one of the old fifo will never come, nor one     *)
(* that has gone already, and what that one has written is lost.             *)
Open ==
  /\ reader = "opening" /\ opened = "new" /\ ~Gone
  /\ reader' = "reading"
  /\ UNCHANGED <<fifo, writer>>

(* The server binds its socket and listens. *)
Listen ==
  /\ program \in Sockets /\ reader = "start"
  /\ reader' = "listening"
  /\ UNCHANGED <<fifo, writer>>

(* The UDP server binds its socket, and receives from then on. *)
Bind ==
  /\ program = "udp" /\ reader = "start"
  /\ reader' = "reading"
  /\ UNCHANGED <<fifo, writer>>

Connect ==
  /\ program \in Sockets /\ writer = "start" /\ reader # "start"
  /\ writer' = "writing"
  /\ UNCHANGED <<fifo, reader>>

(* The client may have typed, and even have gone, by then. *)
Accept ==
  /\ reader = "listening" /\ writer # "start"
  /\ reader' = "reading"
  /\ UNCHANGED <<fifo, writer>>

Start ==
  /\ Unlink \/ Mkfifo \/ Access \/ Open \/ Listen \/ Bind \/ Connect \/ Accept
  /\ UNCHANGED <<typing, written, stream, memory, udp, slips>>

-------------------------------------------------------------------------------
(* The writers *)

(* fgets returns a line when the user types one. *)
AllShown == IF program = "shm" THEN written \in shown \cup {0} ELSE got = sent

Typed ==
  /\ writer = "writing"
  /\ written < Len(input)
  /\ patient => AllShown \/ reader = "left"
  /\ written' = written + 1

AfterQuit(next) == writer' = IF input[written'] = "quit" THEN next ELSE writer

Send(next) ==
  /\ Typed
  /\ sent' = written'
  /\ AfterQuit(next)
  /\ UNCHANGED <<got, half>>

(* Without a reader SIGPIPE ends the writer. *)
Break ==
  /\ Typed
  /\ writer' = "killed"
  /\ UNCHANGED stream

(* A socket that the peer has closed swallows a write before it breaks, or   *)
(* refuses one if there was more to read (ECONNRESET).                       *)
Drop(next) ==
  /\ Typed
  /\ AfterQuit(next) \/ UNCHANGED writer
  /\ UNCHANGED stream

PipeChild ==
  /\ program = "pipe"
  /\ IF reader # "left" THEN Send("left") ELSE Break

FifoWrite ==
  /\ program = "fifo"
  /\ Send("left")

SimpleClientStays ==
  /\ program = "simple"
  /\ IF reader # "left" THEN Send("writing") ELSE Drop("writing") \/ Break

SimpleClient ==
  /\ program = "simple"
  /\ IF reader # "left" THEN Send("left") ELSE Drop("left") \/ Break

(* input_handle returns 0 after a quit as after any other line. *)
SelectClient ==
  /\ program = "select"
  /\ IF reader # "left" THEN Send("writing") ELSE Drop("writing") \/ Break

(* fgets stores the line in the shared buffer, over what is there and while  *)
(* the reader looks, ...                                                     *)
ShmGets ==
  /\ program = "shm" /\ Typed
  /\ shared' = <<written', shared[2]>>
  /\ writer' = "storing"

ShmStore ==
  /\ program = "shm" /\ writer = "storing"
  /\ shared' = <<shared[1], written>>
  /\ writer' = "testing"
  /\ UNCHANGED written

(* ... and that buffer is then compared, which the reader may have erased.   *)
(* The halves of any two quits make one.                                     *)
IsQuit(buf) == \A n \in {1, 2} : buf[n] # 0 /\ input[buf[n]] = "quit"

ShmTest ==
  /\ program = "shm" /\ writer = "testing"
  /\ writer' = IF IsQuit(shared) THEN "left" ELSE "writing"
  /\ UNCHANGED <<written, shared>>

(* sendto waits for nobody; of what was sent before the server has its       *)
(* socket nothing arrives.  If it fails, the line is typed again.            *)
UdpClient ==
  /\ program = "udp" /\ Typed
  /\ \E n \in 0 .. IF reader = "start" THEN 0 ELSE MaxCopies :
       net' = net \cup {<<written', c>> : c \in 1 .. n}
  /\ AfterQuit("left")

Write ==
  /\ \/ (PipeChild \/ FifoWrite \/ SimpleClient \/ SelectClient) /\ UNCHANGED <<shared, net>>
     \/ (ShmGets \/ ShmStore \/ ShmTest) /\ UNCHANGED <<stream, net>>
     \/ UdpClient /\ UNCHANGED <<stream, shared>>
  /\ UNCHANGED <<typing, shown, told, fifo, reader, slips>>

(* The user interrupts the writer instead. *)
Interrupt ==
  /\ writer = "writing"
  /\ writer' = "interrupted"
  /\ UNCHANGED <<typing, written, stream, memory, udp, fifo, reader, slips>>

-------------------------------------------------------------------------------
(* The readers of a byte stream *)

(* A read that ends behind g whole lines, and h, half a line more.  From a   *)
(* pipe it takes all there is, up to a full buffer, which is more than a     *)
(* line; from a socket, what has come of it so far.                          *)
Chunk(g, h) ==
  /\ g > got \/ (h /\ ~half)
  /\ h => g < sent
  /\ \/ program \in Sockets
     \/ g = sent
     \/ g > got + 1
     \/ g = got + 1 /\ h

StartsWithLine == input[got + 1] # "quit"
StartsWithQuit == input[got + 1] = IF half THEN "inner" ELSE "quit"

(* The lines whose start the read returns. *)
Begun(g, h) == (IF half THEN got + 2 ELSE got + 1) .. (IF h THEN g + 1 ELSE g)

(* A quit of which only the first half has been read may have been cut       *)
(* behind the word or within it.                                             *)
Quits(g) ==
  /\ StartsWithQuit
  /\ reader' = "left"
  /\ slips' = IF half THEN slips \cup {"mistaken"} ELSE slips

GoesOn(g, h) ==
  /\ ~StartsWithQuit \/ (~half /\ g = got)
  /\ UNCHANGED reader
  /\ slips' = IF \E i \in Begun(g, h) : input[i] = "quit" THEN slips \cup {"missed"}
              ELSE slips

Receive ==
  \E g \in got .. sent, h \in BOOLEAN :
    /\ Chunk(g, h)
    /\ got' = g /\ half' = h
    /\ Quits(g) \/ GoesOn(g, h)

(* read returns 0. *)
End(next) ==
  /\ got = sent /\ Gone
  /\ reader' = next
  /\ UNCHANGED <<got, half, slips>>

(* The parent has closed its own copy of the write end, else there would be  *)
(* no end.                                                                   *)
ParentKeepsEnd == program = "pipe" /\ Receive
PipeParent     == program = "pipe" /\ (Receive \/ End("left"))

(* These two do not look whether read returned 0, and go on. *)
FifoRead     == program = "fifo"   /\ (Receive \/ End("reading"))
SimpleServer == program = "simple" /\ (Receive \/ End("reading"))

HandlerGoesOn    == program = "select" /\ (Receive \/ End("reading"))
cli_data_handler == program = "select" /\ (Receive \/ End("left"))

-------------------------------------------------------------------------------
(* The other readers *)

(* recvfrom returns one datagram, any of those that have arrived; at a quit  *)
(* the server says that the client is gone, and goes on.                     *)
UdpServer ==
  /\ program = "udp" /\ reader = "reading"
  /\ \E m \in net :
       /\ net' = net \ {m}
       /\ told' = IF input[m[1]] = "quit" THEN told \cup {m} ELSE told

(* The reader of the shared buffer polls it; it shows, compares and erases   *)
(* what is there at each of these moments.                                   *)
ShmShow ==
  /\ program = "shm" /\ reader = "reading"
  /\ shared[1] # 0
  /\ reader' = "shown"
  /\ shown' = IF shared[2] = shared[1] THEN shown \cup {shared[1]} ELSE shown
  /\ UNCHANGED <<shared, slips>>

ShmCompare ==
  /\ program = "shm" /\ reader = "shown"
  /\ reader' = IF IsQuit(shared) THEN "left" ELSE "erasing"
  /\ UNCHANGED <<memory, slips>>

(* bzero is no faster than fgets. *)
Erased(n) ==
  /\ shared' = [shared EXCEPT ![n] = 0]
  /\ slips' = IF shared[n] \in shown \cup {0} THEN slips ELSE slips \cup {"erased"}
  /\ UNCHANGED shown

ShmErase ==
  /\ program = "shm"
  /\ \/ reader = "erasing" /\ Erased(1) /\ reader' = "wiping"
     \/ reader = "wiping"  /\ Erased(2) /\ reader' = "reading"

Read ==
  /\ \/ /\ reader = "reading"
        /\ PipeParent \/ FifoRead \/ SimpleServer \/ cli_data_handler
        /\ UNCHANGED <<memory, udp>>
     \/ (ShmShow \/ ShmCompare \/ ShmErase) /\ UNCHANGED <<got, half, udp>>
     \/ UdpServer /\ UNCHANGED <<got, half, memory, reader, slips>>
  /\ UNCHANGED <<typing, written, sent, fifo, writer>>

Next == Start \/ Write \/ Interrupt \/ Read

Spec == Init /\ [][Next]_vars

StartWriter == Start /\ writer' # writer
StartReader == Start /\ reader' # reader

(* Every process is scheduled; the user types the whole input. *)
FairSpec ==
  /\ Spec
  /\ WF_vars(StartWriter \/ Write)
  /\ WF_vars(StartReader \/ Read)

-------------------------------------------------------------------------------
(* Properties *)

(* A reader that leaves has read whatever was sent, but for the rest of the  *)
(* quit; of the shared buffer, the quit stays.  Two cases are excepted: a    *)
(* reader that has taken the middle of a line for a quit, and a client with  *)
(* select, which goes on after a quit, whose user does not wait.             *)
AllRead ==
  reader = "left" /\ "mistaken" \notin slips /\ (program = "select" => patient) =>
    IF program = "shm" THEN IsQuit(shared)
    ELSE got = sent \/ (half /\ got = sent - 1 /\ input[sent] = "quit")

(* No writer is killed by SIGPIPE, except the client with select, which goes *)
(* on after the quit that ends its server's thread, and one whose reader has *)
(* taken the middle of a line for a quit.                                    *)
WriterSurvives ==
  writer = "killed" => program = "select" \/ "mistaken" \in slips

(* A reader that nothing will end: fifo_read and the simple server read 0    *)
(* for ever once the writer is gone (fifo_read.c:38), fifo_read waits for it *)
(* in open, and the reader of the shared buffer polls it.  This takes a user *)
(* who interrupts the writer, or a quit that the reader did not see as one.  *)
(* If each line is shown before the next is typed, there are three such:     *)
(* the first line of all, typed into the fifo before it is open for reading; *)
(* one that the network has cut in two; one that bzero has erased.           *)
Stranded ==
  /\ Gone
  /\ \/ program \in {"fifo", "simple"} /\ reader = "reading" /\ got = sent
     \/ program = "shm" /\ reader = "reading" /\ shared[1] = 0
     \/ reader = "opening"

StrandedExplained ==
  Stranded =>
    \/ writer = "interrupted"
    \/ program = "shm" /\ "erased" \in slips
    \/ program = "simple" /\ "missed" \in slips
    \/ program = "fifo" /\ reader = "reading" /\ "missed" \in slips /\ ~patient
    \/ program = "fifo" /\ reader = "opening" /\ (patient => written = 1)

(* A quit ends the reader and, but for the client with select, the writer:   *)
(* with the pipe and the shared buffer however fast the lines are typed,     *)
(* with the others if each is shown before the next.  The exceptions are     *)
(* those that StrandedExplained names, and a server that took the middle of  *)
(* a line for a quit.  The UDP server announces every copy of a quit that    *)
(* arrives, in whatever order, and its client leaves without an answer.      *)
QuitTyped == written > 0 /\ input[written] = "quit"
Datagrams == (UNION {DOMAIN i : i \in Inputs}) \X (1 .. MaxCopies)

QuitEnds ==
  /\ (QuitTyped /\ program # "udp" /\ (patient \/ program \in {"pipe", "shm"})) ~>
       \/ reader = "left" /\ (program = "select" \/ Gone)
       \/ program = "fifo" /\ reader = "opening"
       \/ program \in Sockets /\ slips # {}
       \/ program = "shm" /\ "erased" \in slips
  /\ (QuitTyped /\ program = "udp") ~> Gone
  /\ \A m \in Datagrams : (m \in net /\ input[m[1]] = "quit") ~> m \in told

(* A writer that is gone, with a quit or without, ends the reader of the     *)
(* pipe and the server's thread.                                             *)
GoneEnds == (Gone /\ program \in {"pipe", "select"}) ~> reader = "left"
===============================================================================
