--------------------------- MODULE LineStreamProofs ---------------------------
(***************************************************************************)
(* Proofs about LineStream, for any inputs and wherever reads end: what a  *)
(* reader that leaves has read, whom SIGPIPE kills, and what it takes to   *)
(* leave a reader behind that nothing will end.  All three rest on one     *)
(* fact: a quit is the last line in a stream whose writer leaves at it, so *)
(* a reader that leaves at it leaves nothing and nobody behind.            *)
(***************************************************************************)
EXTENDS LineStream, TLAPS

(* The programs with a byte stream, and those whose writer leaves at a quit. *)
Leaving == {"pipe", "fifo", "simple"}
Streams == Leaving \cup {"select"}

Types ==
  /\ program \in Programs
  /\ input \in Seq(Kinds)
  /\ patient \in BOOLEAN
  /\ written \in Nat /\ written <= Len(input)
  /\ sent \in Nat /\ sent <= written
  /\ got \in Nat /\ got <= sent
  /\ half \in BOOLEAN /\ (half => got < sent)

(* Who is where. *)
Places ==
  /\ writer = "unlinked" => program = "fifo"
  /\ reader = "opening" => program = "fifo"
  /\ reader = "listening" => program \in Sockets
  /\ program = "fifo" /\ reader \in {"start", "opening"} => got = 0
  /\ writer = "killed" => reader = "left" /\ program \in Streams \ {"fifo"}
  /\ program = "udp" => reader \in {"start", "reading"}

(* A quit is the last thing in the stream, and its writer has gone by then. *)
QuitLast ==
  /\ program \in Streams /\ (program = "fifo" \/ reader # "left") => sent = written
  /\ program \in Leaving => \A i \in 1 .. sent : input[i] = "quit" => i = sent /\ Gone
  /\ program \in Leaving /\ writer = "left" => written # 0 /\ input[written] = "quit"

(* A reader leaves behind nothing, nor its writer. *)
LeftLast ==
  reader = "left" /\ "mistaken" \notin slips =>
    /\ program \in Leaving => Gone
    /\ program \in Leaving \/ (program = "select" /\ patient) =>
         got = sent \/ (half /\ got = sent - 1 /\ input[sent] = "quit")

(* A patient user has one line at most on its way, and nothing can come      *)
(* before it in a fifo.                                                      *)
OneByOne ==
  patient /\ program \in Streams /\ reader # "left" =>
    /\ sent <= got + 1
    /\ program = "fifo" => "missed" \notin slips

(* The quit at which a writer left is still to be read, or was missed.       *)
Pending == got < sent /\ ~(half /\ got = sent - 1)
Fate ==
  program \in Leaving /\ writer = "left" =>
    reader = "left" \/ "missed" \in slips \/ Pending

(* Who writes to the shared buffer after a quit? *)
Shared ==
  program = "shm" =>
    /\ shared = <<shared[1], shared[2]>>
    /\ writer \in {"writing", "storing", "testing", "left", "interrupted"}
    /\ reader \in {"reading", "shown", "erasing", "wiping", "left"}
    /\ shared[1] \in 0 .. written /\ shared[2] \in 0 .. written
    /\ writer = "storing" => /\ written # 0 /\ shared[1] \in {0, written}
                             /\ shared[2] # written
    /\ IsQuit(shared) => \/ writer \in {"testing", "left"}
                         \/ writer = "storing" /\ shared[1] = written
    /\ reader = "left" => IsQuit(shared)
    /\ writer = "left" => IsQuit(shared) \/ "erased" \in slips
    /\ \A k \in shown : k # 0 /\ (input[k] = "quit" =>
         shared = <<k, k>> /\ reader \in {"shown", "left"} /\ writer \in {"testing", "left"})

Inv == Types /\ Places /\ QuitLast /\ LeftLast /\ OneByOne /\ Fate /\ Shared /\ WriterSurvives

-------------------------------------------------------------------------------
LEMMA InitInv == Init => Inv
<1> SUFFICES ASSUME Init PROVE Inv
  OBVIOUS
<1> USE DEF Init
<1>1. Types
  <2>1. input \in Seq(Kinds) /\ Len(input) \in Nat
    BY InputsAssumption
  <2>2. /\ written = 0 /\ sent = 0 /\ got = 0 /\ 0 <= Len(input)
        /\ written <= Len(input) /\ sent <= written /\ got <= sent
    BY <2>1, SMT
  <2>3. program \in Programs /\ patient \in BOOLEAN /\ half \in BOOLEAN /\ ~half
    OBVIOUS
  <2> QED
    BY ONLY <2>1, <2>2, <2>3, SMT DEF Types
<1>2. Places /\ QuitLast /\ LeftLast /\ OneByOne /\ Fate /\ WriterSurvives
  BY DEF Places, QuitLast, LeftLast, OneByOne, Fate, WriterSurvives, Streams, Leaving
<1>3. Shared
  BY DEF Shared, IsQuit
<1> QED
  BY <1>1, <1>2, <1>3 DEF Inv

(* The shared buffer is nobody else's. *)
LEMMA NotShm ==
  ASSUME program # "shm", UNCHANGED program PROVE Shared'
<1>1. program' # "shm"
  OBVIOUS
<1> QED
  BY <1>1 DEF Shared

(* The start of the fifo and the sockets leaves the lines alone. *)
LEMMA StartStep ==
  ASSUME Inv, Start PROVE Inv'
<1>1. UNCHANGED <<program, input, patient, written, sent, got, half, slips>>
  BY DEF Start, typing, stream
<1>2. /\ reader' # reader => reader \in {"start", "opening", "listening"}
                             /\ reader' \in {"opening", "listening", "reading"}
      /\ writer' # writer => writer \in {"start", "unlinked"}
                             /\ writer' \in {"unlinked", "writing"}
      /\ writer' = "unlinked" => program = "fifo"
      /\ reader' = "opening" => program = "fifo"
      /\ reader' = "listening" => program \in Sockets
      /\ reader' = "start" => reader = "start"
      /\ program # "shm"
  BY DEF Start, Unlink, Mkfifo, Access, Open, Listen, Bind, Connect, Accept, Inv, Places, Shared,
         Sockets
<1>3. Gone' <=> Gone
  BY <1>2 DEF Gone
<1>4. Types'
  BY <1>1 DEF Inv, Types
<1>5. Places'
  <2>1. program = "fifo" /\ reader' \in {"start", "opening"} => reader \in {"start", "opening"}
    BY <1>2 DEF Inv, Places, Sockets
  <2>2. program = "udp" /\ reader' # reader => reader' = "reading"
    BY <1>2 DEF Sockets
  <2> QED
    BY <1>1, <1>2, <2>1, <2>2 DEF Inv, Places
<1>6. QuitLast' /\ LeftLast'
  BY <1>1, <1>2, <1>3 DEF Inv, QuitLast, LeftLast
<1>7. OneByOne' /\ Fate' /\ WriterSurvives'
  BY <1>1, <1>2 DEF Inv, OneByOne, Fate, Pending, WriterSurvives
<1>8. Shared'
  BY <1>1, <1>2, NotShm
<1> QED
  BY <1>4, <1>5, <1>6, <1>7, <1>8 DEF Inv

-------------------------------------------------------------------------------
(* A line that is sent is the last one in the stream. *)
LEMMA SendStep ==
  ASSUME Inv, program \in Streams, reader # "left" \/ program = "fifo",
         NEW next \in {"left", "writing"}, program \in Leaving => next = "left",
         Send(next), UNCHANGED <<program, input, patient, reader, slips>>
  PROVE  Inv'
<1>1. /\ writer = "writing" /\ ~Gone /\ written' = written + 1 /\ written < Len(input)
      /\ sent' = written' /\ UNCHANGED <<got, half>> /\ sent = written
      /\ writer' = IF input[written'] = "quit" THEN next ELSE "writing"
      /\ patient => got = sent \/ reader = "left"
  BY DEF Send, Typed, AllShown, AfterQuit, Gone, Inv, QuitLast, Streams, Leaving
<1>2. /\ written \in Nat /\ sent \in Nat /\ got \in Nat /\ Len(input) \in Nat
      /\ got <= sent /\ sent' = sent + 1
  BY <1>1 DEF Inv, Types
<1>3. Types'
  BY <1>1, <1>2 DEF Inv, Types
<1>4. Places'
  BY <1>1 DEF Inv, Places
<1>5. QuitLast'
  <2>1. program \in Leaving => \A i \in 1 .. sent : input[i] # "quit"
    BY <1>1 DEF Inv, QuitLast
  <2>2. \A i \in 1 .. sent' : i \in 1 .. sent \/ i = sent'
    BY <1>2
  <2>3. program \in Leaving => \A i \in 1 .. sent' : input[i] = "quit" => i = sent' /\ Gone'
    BY <1>1, <2>1, <2>2 DEF Gone
  <2>4. program \in Leaving /\ writer' = "left" => written' # 0 /\ input[written'] = "quit"
    BY <1>1, <1>2
  <2> QED
    BY <1>1, <2>3, <2>4 DEF QuitLast
<1>6. LeftLast'
  BY <1>1 DEF Inv, LeftLast, Leaving
<1>7. OneByOne'
  BY <1>1, <1>2 DEF Inv, OneByOne
<1>8. Fate'
  BY <1>1, <1>2 DEF Fate, Pending, Inv, Types
<1>9. WriterSurvives' /\ Shared'
  BY <1>1, NotShm DEF WriterSurvives, Streams, Leaving
<1> QED
  BY <1>3, <1>4, <1>5, <1>6, <1>7, <1>8, <1>9 DEF Inv

(* What is written after the reader has left; a pipe's or the simple         *)
(* client's reader has then been mistaken.                                   *)
LEMMA DropStep ==
  ASSUME Inv, program \in Streams \ {"fifo"}, reader = "left",
         NEW next \in {"left", "writing"}, Drop(next) \/ Break,
         UNCHANGED <<program, input, patient, reader, slips>>
  PROVE  Inv'
<1>1. /\ writer = "writing" /\ ~Gone /\ written' = written + 1 /\ written < Len(input)
      /\ UNCHANGED <<sent, got, half>> /\ writer' \in {"left", "writing", "killed"}
      /\ writer' = "left" => input[written'] = "quit"
  BY DEF Drop, Break, Typed, AfterQuit, Gone, stream
<1>2. program = "select" \/ "mistaken" \in slips
  BY <1>1 DEF Inv, LeftLast, Streams, Leaving
<1>3. written \in Nat /\ written' # 0 /\ written' <= Len(input) /\ written' \in Nat
  BY <1>1 DEF Inv, Types
<1>4. Types'
  BY <1>1, <1>3 DEF Inv, Types
<1>5. Places'
  BY <1>1 DEF Inv, Places
<1>6. QuitLast'
  <2>1. program \in Leaving => \A i \in 1 .. sent : input[i] # "quit"
    BY <1>1 DEF Inv, QuitLast
  <2> QED
    BY <1>1, <1>3, <2>1 DEF QuitLast
<1>7. LeftLast' /\ OneByOne' /\ Fate'
  BY <1>1, <1>2 DEF Inv, LeftLast, OneByOne, Fate, Leaving
<1>8. WriterSurvives' /\ Shared'
  BY <1>2, NotShm DEF WriterSurvives, Streams, Leaving
<1> QED
  BY <1>4, <1>5, <1>6, <1>7, <1>8 DEF Inv

-------------------------------------------------------------------------------
(* What the other two programs do to a stream: nothing. *)
LEMMA NoStreamStep ==
  ASSUME Inv, program \in {"shm", "udp"},
         UNCHANGED <<program, input, patient, sent, got, half>>,
         written' = written \/ (written < Len(input) /\ written' = written + 1),
         writer' \in {"writing", "storing", "testing", "left", "interrupted"},
         program = "udp" => reader' \in {"start", "reading"},
         program = "shm" => reader' \in {"reading", "shown", "erasing", "wiping", "left"},
         Shared'
  PROVE  Inv'
<1>1. Types'
  <2>1. written \in Nat /\ Len(input) \in Nat /\ sent \in Nat /\ sent <= written
        /\ written <= Len(input)
    BY DEF Inv, Types
  <2> QED
    BY <2>1 DEF Inv, Types
<1>2. Places' /\ QuitLast' /\ WriterSurvives'
  BY DEF Places, QuitLast, WriterSurvives, Streams, Leaving, Sockets
<1>3. LeftLast' /\ OneByOne' /\ Fate'
  BY DEF LeftLast, OneByOne, Fate, Streams, Leaving
<1> QED
  BY <1>1, <1>2, <1>3 DEF Inv

LEMMA ShmWriteStep ==
  ASSUME Inv, ShmGets \/ ShmStore \/ ShmTest,
         UNCHANGED <<typing, stream, shown, reader, slips>>
  PROVE  Inv'
<1>1. program = "shm" /\ UNCHANGED <<program, input, patient, sent, got, half>>
  BY DEF ShmGets, ShmStore, ShmTest, typing, stream
<1>2. Shared /\ written \in Nat
  BY DEF Inv, Types
<1>3. CASE ShmGets
  <2>1. /\ writer = "writing" /\ written < Len(input) /\ written' = written + 1
        /\ shared' = <<written', shared[2]>> /\ writer' = "storing"
    BY <1>3 DEF ShmGets, Typed
  <2>2. reader # "left" /\ \A k \in shown : k # 0 /\ input[k] # "quit"
    BY <1>1, <1>2, <2>1 DEF Shared
  <2>3. Shared'
    BY <1>1, <1>2, <2>1, <2>2 DEF Shared
  <2> QED
    BY <1>1, <1>2, <2>1, <2>3, NoStreamStep DEF Shared
<1>4. CASE ShmStore
  <2>1. /\ writer = "storing" /\ written' = written
        /\ shared' = <<shared[1], written>> /\ writer' = "testing"
    BY <1>4 DEF ShmStore
  <2>2. \A k \in shown : k # 0 /\ input[k] # "quit"
    BY <1>1, <1>2, <2>1 DEF Shared
  <2>3. reader = "left" => IsQuit(shared)'
    BY <1>1, <1>2, <2>1 DEF Shared, IsQuit
  <2>4. Shared'
    BY <1>1, <1>2, <2>1, <2>2, <2>3 DEF Shared
  <2> QED
    BY <1>1, <1>2, <2>1, <2>4, NoStreamStep DEF Shared
<1>5. CASE ShmTest
  <2>1. /\ writer = "testing" /\ UNCHANGED <<written, shared>>
        /\ writer' = IF IsQuit(shared) THEN "left" ELSE "writing"
    BY <1>5 DEF ShmTest
  <2>2. \A k \in shown : k # 0 /\ (input[k] = "quit" => shared = <<k, k>> /\ IsQuit(shared)
                                                       /\ reader \in {"shown", "left"})
    BY <1>1, <1>2 DEF Shared, IsQuit
  <2>3. IsQuit(shared)' <=> IsQuit(shared)
    BY <1>1, <2>1 DEF IsQuit
  <2>4. Shared'
    BY <1>1, <1>2, <2>1, <2>2, <2>3 DEF Shared
  <2> QED
    BY <1>1, <1>2, <2>1, <2>4, NoStreamStep DEF Shared
<1> QED
  BY <1>3, <1>4, <1>5

LEMMA UdpWriteStep ==
  ASSUME Inv, UdpClient, UNCHANGED <<typing, stream, reader, slips>>
  PROVE  Inv'
<1>1. /\ program = "udp" /\ UNCHANGED <<program, input, patient, sent, got, half>>
      /\ writer = "writing" /\ written < Len(input) /\ written' = written + 1
      /\ writer' \in {"writing", "left"}
  BY DEF UdpClient, Typed, AfterQuit, typing, stream
<1>2. Shared'
  BY <1>1, NotShm
<1> QED
  BY <1>1, <1>2, NoStreamStep DEF Inv, Places

LEMMA WriteStep ==
  ASSUME Inv, Write PROVE Inv'
<1>1. UNCHANGED <<typing, shown, reader, slips>> /\ UNCHANGED <<program, input, patient>>
  BY DEF Write, typing
<1>2. CASE PipeChild \/ FifoWrite \/ SimpleClient \/ SelectClient
  <2>1. program \in Streams
    BY <1>2 DEF PipeChild, FifoWrite, SimpleClient, SelectClient, Streams, Leaving
  <2>2. CASE program = "fifo" \/ reader # "left"
    <3>1. PICK next \in {"left", "writing"} :
            Send(next) /\ (program \in Leaving => next = "left")
      BY <1>2, <2>2 DEF PipeChild, FifoWrite, SimpleClient, SelectClient, Leaving
    <3> QED
      BY <1>1, <2>1, <2>2, <3>1, SendStep
  <2>3. CASE program # "fifo" /\ reader = "left"
    <3>1. PICK next \in {"left", "writing"} : Drop(next) \/ Break
      BY <1>2, <2>3 DEF PipeChild, FifoWrite, SimpleClient, SelectClient
    <3> QED
      BY <1>1, <2>1, <2>3, <3>1, DropStep
  <2> QED
    BY <2>2, <2>3
<1>3. CASE (ShmGets \/ ShmStore \/ ShmTest) /\ UNCHANGED <<stream, net>>
  BY <1>1, <1>3, ShmWriteStep
<1>4. CASE UdpClient /\ UNCHANGED <<stream, shared>>
  BY <1>1, <1>4, UdpWriteStep
<1> QED
  BY <1>2, <1>3, <1>4 DEF Write

(* The user interrupts a writer that waits for him: no quit has been typed. *)
LEMMA InterruptStep ==
  ASSUME Inv, Interrupt PROVE Inv'
<1>1. /\ UNCHANGED <<program, input, patient, written, sent, got, half, shared, shown, reader,
                     slips>>
      /\ writer = "writing" /\ writer' = "interrupted"
  BY DEF Interrupt, typing, stream, memory
<1>2. Types' /\ Places'
  BY <1>1 DEF Inv, Types, Places
<1>3. QuitLast' /\ LeftLast'
  BY <1>1 DEF Inv, QuitLast, LeftLast, Gone
<1>4. OneByOne' /\ Fate' /\ WriterSurvives'
  BY <1>1 DEF Inv, OneByOne, Fate, WriterSurvives
<1>5. Shared'
  <2>1. IsQuit(shared)' <=> IsQuit(shared)
    BY <1>1 DEF IsQuit
  <2> QED
    BY <1>1, <2>1 DEF Inv, Shared
<1> QED
  BY <1>2, <1>3, <1>4, <1>5 DEF Inv

-------------------------------------------------------------------------------
(* A read that starts with a line starts with the one that is next; if that  *)
(* is a quit, it is the last, and its writer has gone.  One that goes on has *)
(* the last line still before it, or has seen its start.                     *)
LEMMA ReceiveStep ==
  ASSUME Inv, program \in Streams, reader = "reading", Receive,
         UNCHANGED <<program, input, patient, written, sent, writer>>
  PROVE  Inv'
<1>1. PICK g \in got .. sent, h \in BOOLEAN :
        Chunk(g, h) /\ got' = g /\ half' = h /\ (Quits(g) \/ GoesOn(g, h))
  BY DEF Receive
<1>2. /\ got \in Nat /\ sent \in Nat /\ g \in Nat /\ half \in BOOLEAN
      /\ got <= g /\ g <= sent /\ got < sent
      /\ g > got \/ h
      /\ h => g < sent
  BY <1>1 DEF Chunk, Inv, Types
<1>3. sent = written
  BY DEF Inv, QuitLast
<1>4. slips \subseteq slips'
  BY <1>1 DEF Quits, GoesOn
<1>5. Types'
  BY <1>1, <1>2 DEF Inv, Types
<1>6. Shared'
  BY NotShm DEF Streams, Leaving
<1>7. reader' \in {"reading", "left"}
  BY <1>1 DEF Quits, GoesOn
<1>8. Places'
  BY <1>1, <1>7 DEF Inv, Places, Streams, Leaving
<1>9. QuitLast'
  BY <1>1, <1>3, <1>7 DEF Inv, QuitLast, Gone
<1>10. WriterSurvives'
  BY <1>4 DEF Inv, WriterSurvives
<1>11. CASE Quits(g)
  <2>1. reader' = "left" /\ StartsWithQuit /\ ("mistaken" \notin slips' => ~half)
    BY <1>2, <1>11 DEF Quits
  <2>2. "mistaken" \notin slips' => input[got + 1] = "quit"
    BY <2>1 DEF StartsWithQuit
  <2>3. "mistaken" \notin slips' /\ program \in Leaving => got + 1 = sent /\ Gone
    BY <1>2, <2>2 DEF Inv, QuitLast
  <2>4. patient => got + 1 = sent
    BY <1>2 DEF Inv, OneByOne
  <2>5. "mistaken" \notin slips' /\ got + 1 = sent =>
          got' = sent' \/ (half' /\ got' = sent' - 1 /\ input'[sent'] = "quit")
    BY <1>1, <1>2, <2>2
  <2>6. LeftLast'
    BY <2>3, <2>4, <2>5 DEF LeftLast, Gone
  <2>7. OneByOne' /\ Fate'
    BY <2>1 DEF OneByOne, Fate
  <2> QED
    BY <1>5, <1>6, <1>8, <1>9, <1>10, <2>6, <2>7 DEF Inv
<1>12. CASE GoesOn(g, h)
  <2>1. reader' = "reading"
    BY <1>12 DEF GoesOn
  <2>2. LeftLast'
    BY <2>1 DEF LeftLast
  <2>3. OneByOne'
    <3>1. patient => sent' <= got' + 1
      BY <1>1, <1>2 DEF Inv, OneByOne
    <3>2. ASSUME patient, program = "fifo", NEW i \in Begun(g, h), input[i] = "quit"
          PROVE  FALSE
      <4>1. sent <= got + 1
        BY <3>2 DEF Inv, OneByOne
      <4>2. i \in 1 .. sent /\ i > got /\ (half => i > got + 1)
        BY <1>2, <3>2 DEF Begun
      <4>3. i = sent
        BY <3>2, <4>2 DEF Inv, QuitLast, Leaving
      <4>4. ~half /\ input[got + 1] = "quit" /\ got + 1 = sent
        BY <1>2, <3>2, <4>1, <4>2, <4>3
      <4>5. g = got
        BY <1>12, <4>4 DEF GoesOn, StartsWithQuit
      <4> QED
        BY <1>1, <1>2, <3>2, <4>4, <4>5 DEF Chunk, Sockets
    <3>3. patient /\ program = "fifo" => slips' = slips
      BY <1>12, <3>2 DEF GoesOn
    <3> QED
      BY <3>1, <3>3 DEF Inv, OneByOne
  <2>4. Fate'
    <3>1. SUFFICES ASSUME program \in Leaving, writer = "left", "missed" \notin slips',
                          ~Pending'
                   PROVE  FALSE
      BY DEF Fate
    <3>2. Pending
      BY <1>4, <3>1 DEF Inv, Fate
    <3>3. input[sent] = "quit"
      BY <1>3, <3>1 DEF Inv, QuitLast
    <3>4. g = sent \/ (h /\ g = sent - 1)
      BY <1>1, <1>2, <3>1 DEF Pending
    <3>5. sent \in Begun(g, h)
      BY <1>2, <3>2, <3>4 DEF Begun, Pending
    <3> QED
      BY <1>12, <3>1, <3>3, <3>5 DEF GoesOn
  <2> QED
    BY <1>5, <1>6, <1>8, <1>9, <1>10, <2>2, <2>3, <2>4 DEF Inv
<1> QED
  BY <1>1, <1>11, <1>12

(* The end comes when all is read. *)
LEMMA EndStep ==
  ASSUME Inv, program \in Streams, reader = "reading", NEW next \in {"reading", "left"},
         End(next), UNCHANGED <<program, input, patient, written, sent, writer>>
  PROVE  Inv'
<1>1. got = sent /\ Gone /\ reader' = next /\ UNCHANGED <<got, half, slips>>
  BY DEF End
<1>2. Types' /\ Places'
  BY <1>1 DEF Inv, Types, Places, Streams, Leaving
<1>3. QuitLast' /\ LeftLast'
  BY <1>1 DEF Inv, QuitLast, LeftLast, Gone
<1>4. OneByOne' /\ Fate' /\ WriterSurvives'
  BY <1>1 DEF Inv, OneByOne, Fate, Pending, WriterSurvives
<1>5. Shared'
  BY NotShm DEF Streams, Leaving
<1> QED
  BY <1>2, <1>3, <1>4, <1>5 DEF Inv

LEMMA ShmReadStep ==
  ASSUME Inv, ShmShow \/ ShmCompare \/ ShmErase,
         UNCHANGED <<typing, written, stream, writer>>
  PROVE  Inv'
<1>1. /\ program = "shm"
      /\ UNCHANGED <<program, input, patient, written, sent, got, half, writer>>
  BY DEF ShmShow, ShmCompare, ShmErase, typing, stream
<1>2. Shared /\ written \in Nat
  BY DEF Inv, Types
<1>3. CASE ShmShow
  <2>1. /\ reader = "reading" /\ shared[1] # 0 /\ reader' = "shown"
        /\ UNCHANGED <<shared, slips>>
        /\ \A k \in shown' : k \in shown \/ (k = shared[1] /\ k = shared[2])
    BY <1>3 DEF ShmShow
  <2>2. IsQuit(shared)' <=> IsQuit(shared)
    BY <1>1, <2>1 DEF IsQuit
  <2>3. ASSUME NEW k \in shown', input[k] = "quit"
        PROVE  shared = <<k, k>> /\ writer \in {"testing", "left"}
    <3>1. k = shared[1] /\ k = shared[2]
      BY <1>1, <1>2, <2>1, <2>3 DEF Shared
    <3>2. IsQuit(shared)
      BY <2>1, <2>3, <3>1 DEF IsQuit
    <3> QED
      BY <1>1, <1>2, <3>1, <3>2 DEF Shared
  <2>4. \A k \in shown' : k # 0
    BY <1>1, <1>2, <2>1 DEF Shared
  <2>5. Shared'
    BY <1>1, <1>2, <2>1, <2>2, <2>3, <2>4 DEF Shared
  <2> QED
    BY <1>1, <1>2, <2>1, <2>5, NoStreamStep DEF Shared
<1>4. CASE ShmCompare
  <2>1. /\ reader = "shown" /\ UNCHANGED <<shared, shown, slips>>
        /\ reader' = IF IsQuit(shared) THEN "left" ELSE "erasing"
    BY <1>4 DEF ShmCompare, memory
  <2>2. IsQuit(shared)' <=> IsQuit(shared)
    BY <1>1, <2>1 DEF IsQuit
  <2>3. \A k \in shown : k # 0 /\ (input[k] = "quit" => IsQuit(shared))
    BY <1>1, <1>2 DEF Shared, IsQuit
  <2>4. Shared'
    BY <1>1, <1>2, <2>1, <2>2, <2>3 DEF Shared
  <2> QED
    BY <1>1, <1>2, <2>1, <2>4, NoStreamStep DEF Shared
<1>5. CASE ShmErase
  <2>1. PICK n \in {1, 2} : /\ Erased(n) /\ reader \in {"erasing", "wiping"}
                            /\ reader' \in {"wiping", "reading"}
    BY <1>5 DEF ShmErase
  <2>2. /\ UNCHANGED shown /\ slips \subseteq slips'
        /\ shared' = [shared EXCEPT ![n] = 0]
        /\ shared[n] \notin shown \cup {0} => "erased" \in slips'
    BY <2>1 DEF Erased
  <2>3. shared' = <<shared'[1], shared'[2]>> /\ shared'[n] = 0
        /\ \A m \in {1, 2} : shared'[m] \in {0, shared[m]}
    <3>1. shared = <<shared[1], shared[2]>>
      BY <1>1, <1>2 DEF Shared
    <3> QED
      BY <2>2, <3>1
  <2>4. ~IsQuit(shared)'
    BY <2>3 DEF IsQuit
  <2>5. \A k \in shown : k # 0 /\ input[k] # "quit"
    BY <1>1, <1>2, <2>1 DEF Shared
  <2>6. writer = "left" => "erased" \in slips'
    BY <1>1, <1>2, <2>2, <2>5 DEF Shared, IsQuit
  <2>7. Shared'
    BY <1>1, <1>2, <2>1, <2>2, <2>3, <2>4, <2>5, <2>6 DEF Shared
  <2> QED
    BY <1>1, <1>2, <2>1, <2>7, NoStreamStep DEF Shared
<1> QED
  BY <1>3, <1>4, <1>5

LEMMA UdpReadStep ==
  ASSUME Inv, UdpServer, UNCHANGED <<typing, written, stream, reader, slips, writer>>
  PROVE  Inv'
<1>1. /\ program = "udp"
      /\ UNCHANGED <<program, input, patient, written, sent, got, half, writer, reader, slips>>
  BY DEF UdpServer, typing, stream
<1>2. Types' /\ Places' /\ WriterSurvives'
  BY <1>1 DEF Inv, Types, Places, WriterSurvives
<1>3. QuitLast' /\ LeftLast' /\ OneByOne' /\ Fate'
  BY <1>1 DEF QuitLast, LeftLast, OneByOne, Fate, Streams, Leaving
<1>4. Shared'
  BY <1>1, NotShm
<1> QED
  BY <1>2, <1>3, <1>4 DEF Inv

LEMMA ReadStep ==
  ASSUME Inv, Read PROVE Inv'
<1>1. UNCHANGED <<typing, written, sent, writer>> /\ UNCHANGED <<program, input, patient>>
  BY DEF Read, typing
<1>2. CASE reader = "reading" /\ (PipeParent \/ FifoRead \/ SimpleServer \/ cli_data_handler)
  <2>1. program \in Streams
    BY <1>2 DEF PipeParent, FifoRead, SimpleServer, cli_data_handler, Streams, Leaving
  <2>2. CASE Receive
    BY <1>1, <1>2, <2>1, <2>2, ReceiveStep
  <2>3. CASE \E next \in {"reading", "left"} : End(next)
    BY <1>1, <1>2, <2>1, <2>3, EndStep
  <2> QED
    BY <1>2, <2>2, <2>3 DEF PipeParent, FifoRead, SimpleServer, cli_data_handler
<1>3. CASE (ShmShow \/ ShmCompare \/ ShmErase) /\ UNCHANGED <<got, half, udp>>
  BY <1>1, <1>3, ShmReadStep DEF stream
<1>4. CASE UdpServer /\ UNCHANGED <<got, half, memory, reader, slips>>
  BY <1>1, <1>4, UdpReadStep DEF stream
<1> QED
  BY <1>2, <1>3, <1>4 DEF Read

-------------------------------------------------------------------------------
LEMMA StutterStep ==
  ASSUME Inv, UNCHANGED vars PROVE Inv'
<1>1. UNCHANGED <<program, input, patient, written, sent, got, half, shared, shown, writer,
                  reader, slips>>
  BY DEF vars, typing, stream, memory
<1>2. Types' /\ Places' /\ QuitLast' /\ LeftLast'
  BY <1>1 DEF Inv, Types, Places, QuitLast, LeftLast, Gone
<1>3. OneByOne' /\ Fate' /\ WriterSurvives'
  BY <1>1 DEF Inv, OneByOne, Fate, Pending, WriterSurvives
<1>4. Shared'
  <2>1. IsQuit(shared)' <=> IsQuit(shared)
    BY <1>1 DEF IsQuit
  <2> QED
    BY <1>1, <2>1 DEF Inv, Shared
<1> QED
  BY <1>2, <1>3, <1>4 DEF Inv

LEMMA InvHolds == Spec => []Inv
<1>1. Inv /\ [Next]_vars => Inv'
  BY StartStep, WriteStep, InterruptStep, ReadStep, StutterStep DEF Next
<1> QED
  BY <1>1, InitInv, PTL DEF Spec

(* A reader that leaves has read all that was sent, up to the rest of the    *)
(* quit, wherever its reads ended, unless it took the middle of a line for   *)
(* one; with select this needs a user who waits.                             *)
THEOREM NothingLeftBehind == Spec => []AllRead
<1>1. Inv => AllRead
  <2> SUFFICES ASSUME Inv, reader = "left", "mistaken" \notin slips,
                      program = "select" => patient
               PROVE  IF program = "shm" THEN IsQuit(shared)
                      ELSE got = sent \/ (half /\ got = sent - 1 /\ input[sent] = "quit")
    BY DEF AllRead
  <2>1. program \in Streams \cup {"shm"}
    BY DEF Inv, Types, Places, Programs, Streams, Leaving
  <2> QED
    BY <2>1 DEF Inv, LeftLast, Shared, Streams, Leaving
<1> QED
  BY <1>1, InvHolds, PTL

(* No writer is killed by SIGPIPE but the client with select and one whose   *)
(* reader took the middle of a line for a quit.                              *)
THEOREM WhomSigpipeKills == Spec => []WriterSurvives
<1>1. Inv => WriterSurvives
  BY DEF Inv
<1> QED
  BY <1>1, InvHolds, PTL

(* A reader is left behind for ever only if its user interrupted the writer, *)
(* or if the quit was missed by where a read ended, erased, or typed as the  *)
(* first line into a fifo that nobody had open yet.                          *)
THEOREM WhoIsStranded == Spec => []StrandedExplained
<1>1. Inv => StrandedExplained
  <2> SUFFICES ASSUME Inv, Gone, writer # "interrupted", Stranded
               PROVE  \/ program = "shm" /\ "erased" \in slips
                      \/ program = "simple" /\ "missed" \in slips
                      \/ program = "fifo" /\ reader = "reading" /\ "missed" \in slips /\ ~patient
                      \/ program = "fifo" /\ reader = "opening" /\ (patient => written = 1)
    BY DEF StrandedExplained, Stranded
  <2>1. CASE program \in {"fifo", "simple"} /\ reader = "reading" /\ got = sent
    <3>1. writer = "left"
      BY <2>1 DEF Gone, Inv, Places
    <3>2. "missed" \in slips
      BY <2>1, <3>1 DEF Inv, Types, Fate, Pending, Leaving
    <3> QED
      BY <2>1, <3>2 DEF Inv, Types, OneByOne, Streams, Leaving
  <2>2. CASE program = "shm" /\ reader = "reading" /\ shared[1] = 0
    BY <2>2 DEF Gone, Inv, Shared, IsQuit
  <2>3. CASE reader = "opening"
    <3>1. program = "fifo" /\ writer = "left" /\ got = 0
      BY <2>3 DEF Gone, Inv, Places
    <3>2. patient => written <= 1
      BY <2>3, <3>1 DEF Inv, Types, QuitLast, OneByOne, Streams, Leaving
    <3>3. written # 0 /\ written \in Nat
      BY <3>1 DEF Inv, Types, QuitLast, Leaving
    <3> QED
      BY <2>3, <3>1, <3>2, <3>3
  <2> QED
    BY <2>1, <2>2, <2>3 DEF Stranded
<1> QED
  BY <1>1, InvHolds, PTL
===============================================================================
