# Verification of basicstepc

The repository is a collection of C programs about threads, processes, IPC,
signals and sockets, and two larger pieces: a job pool
(`thread_pool/implemention_methd_two`) and an epoll gateway with its own thread
pool (`thread_pool/`), which uses the circular list of `linklist.c`. The
specifications in this directory model the parts that keep state which several
threads, processes or handlers share, and the functions they are built from.

## 1. Inventory

### 1.1 Job pool: `thread_pool/implemention_methd_two/threadpool.c`

State: the job list (`head`, `tail`), its length `queue_cur_num`, the capacity
`queue_max_num`, the flags `queue_close` and `pool_close`, one mutex, three
condition variables (`queue_empty`, `queue_not_empty`, `queue_not_full`) and the
handles of the worker threads. Operations: `threadpool_init`,
`threadpool_add_job`, `threadpool_function` (the workers' loop) and
`threadpool_destroy`; the callbacks of the jobs are the client's. Hard: three
kinds of threads meet on three condition variables, each signalled only at one
length of the list; `destroy` sets `pool_close` under the mutex, but broadcasts,
joins and frees what other threads may still use without it. It is correct if no thread
sleeps on a condition that holds, a job that was accepted runs exactly once, and
`destroy` returns, with the queue drained, whatever else is going on.
(`threadpool.h` of the same directory is an older copy of the same code.)

### 1.2 Gateway: `thread_pool/main.c(...)`, `connnetpool.c`, `trace.c`, `thread_pool.c`, `sysctl.c`

State: the array `pConnects` of connection slots, the list of idle indices, the
counters `CurLinks` and `MaxLinks`, epoll's registrations, whose `data.u32` is
the index of a slot, the list of thread pools whose `tPara` entries hand an
index to a thread, the flag `running` that a signal clears, and the statistics
(longest times, counters), each under a mutex of its own. The main thread sets
all of this up, or exits; its loop accepts connections into slots, closes those
marked with `ShutSig`, and hands the others to an idle thread, growing the list
of pools when few are left; in the end it joins `Thread_srv` and frees the pools.
The threads execute `Thread_handleMsg`, which is not in the repository: they
clear their `tPara` flag without a lock, set `ShutSig` and may close a
connection. Hard: an index must name one connection although `accept` or
`epoll_ctl` may fail halfway, a new link is made without the mutex under which
others are closed, slots are passed by value, events of one
`epoll_wait` may be about connections closed since, flags are scanned while they
change, and the process may be told to stop at any point.

### 1.3 Circular list: `linklist.c`

State: cells with two links around a header, and `size`. Operations: create,
add, remove (by position, value or cell), get, set, index, clear. Sequential, but
every operation is pointer surgery and two of them walk from either end. It is
correct if it behaves as a sequence.

### 1.4 Two threads and a record

`thread_sem_sync.c`, `thread_signal.c`: a writer and a reader take turns over a
record with two semaphores, until a line that starts with "quit".
`thread_sem_mutex.c`, `thread_mutex_dynmic.c`: the same two threads, but the
reader polls the record under a semaphore or a mutex. Hard: ordering, loss and
duplication of lines, termination of both threads, the end of the input.
`pthread_condition.c`: threads wait for a value the main thread broadcasts.

### 1.5 Processes

`fork_sem`: parent and child enter a critical section under a System V
semaphore, which the child removes. `fork_shem`: a writer and a reader share a
buffer without synchronisation. `pipe.c`, `fifo_read.c`, `fifo_write.c`: lines
through a byte stream. `net/`: TCP and UDP servers and clients; the TCP server
starts a thread per client. `wait_pid.c`, `fork_wait_status.c`,
`pthread_join.c`: a parent learns how its child, or its thread, ended.

### 1.6 Signals

`thread_signal.c` blocks SIGINT before it creates its threads and handles it in
one of them, with an exit handler that frees the record they share. `sig_set.c`,
`simpe_signal.c`, `alarm_interrupt.c`: masks, handlers and `pause`. Hard: a signal
may come between any two statements, masks are inherited, and a handler ends the
process while other threads go on.

### 1.7 Pure functions

`string_utility.c`: byte order, search, trimming, conversion. `trace.c`:
`replaceMini` keeps the longest times by shifting a list in place.

### 1.8 How the parts interact

The job pool, the record programs, the stream programs, `fork_sem`,
`pthread_condition.c` and the programs of 1.6 are programs of their own and share
no state. Only the gateway composes parts: its main loop (`main.c`) owns the slots
of `connnetpool.c` and the thread pools of `thread_pool.c`, both kept in lists of
`linklist.c`; it talks to the kernel through epoll, whose events carry a slot's
index, to its threads through one `tPara` entry and one mutex per thread, and
main loop and threads report to the statistics of `trace.c`.

## 2. Plan

Done, in this order (the most important first):

| module | models | composed with / implements |
|---|---|---|
| `JobService` | what a bounded first-in first-out job service promises | abstract |
| `ThreadPool`, `ThreadPoolProofs` | `threadpool.c` | implements `JobService` |
| `ConnectPool`, `ConnectPoolProofs` | slots, idle list and epoll loop of the gateway | |
| `Dispatch`, `DispatchProofs` | the gateway process: start-up, hand-over of events to threads, growth of the pool list, stop and clean-up | what `ConnectPool!HandOver` leaves out |
| `ElementList` | what a sequence of elements promises | abstract |
| `LinkList`, `LinkListProofs` | `linklist.c` | implements `ElementList` |
| `RecordExchange`, `RecordExchangeProofs` | the four record programs | |
| `LineStream`, `LineStreamProofs` | pipe, fifo, two TCP pairs, shared buffer, UDP | |
| `SemProcesses`, `SemProcessesProofs` | `fork_sem` | |
| `CondBroadcast` | `pthread_condition.c` | |
| `Statistics` | longest times and counters of `trace.c` | |
| `ByteStrings` | `string_utility.c` | |
| `Signals` | four programs that get signals | |
| `Children` | three programs that wait for a child | |
| `MCHelpers`, `HelpersProofs` | the five modules before it, side by side | |

Not done, though it could be:

1. `ConnectPool` and `Dispatch` composed, with one set of threads: the index that
   `Dispatch` hands over is then the one whose slot `ConnectPool` counts in
   `CopyCnt`.
2. `AddCall` clients of the pool that wait for their job, in `ThreadPool`.

## 3. Modules and code

### 3.1 ThreadPool

One variable per field of `struct threadpool`, one program counter per thread.
The list of jobs is a sequence (`queue`); its counter is a variable of its own,
because the code tests one in `add_job` and the other elsewhere. Everything
between taking the mutex and giving it up, by unlock or by
`pthread_cond_wait`, is one action; what the code does outside the mutex is an
action each: the callback, the two broadcasts of `destroy`
(`threadpool.c:158-159`), the joins and the clean-up. A broadcast moves every
sleeper to the point where it takes the mutex again ("woken" for a client, which is
not the "enter" of one that has just called), a signal moves one, and
`SpuriousWakeup` moves any of them at any time. The C code's `while` loops
around the waits are the reason why that is harmless.

A thread that uses the pool after `destroy` has freed it is put into `touched`
and goes no further; what it would do is undefined. `Overlap` says whether
clients may call `add_job` and `destroy` while another `destroy` runs;
`main_test.c` does not. `CreateMayFail` lets `pthread_create` fail, whose result
the code does not look at. The model begins with a pool: where `threadpool_init`
returns NULL there is nothing to check. `answer`, `executed` and `discarded` are histories.

The refinement to `JobService` maps the list to the pending jobs, the jobs in
the workers' hands to the running ones, and `queue_close` and the clean-up to
the phases "closing" and "closed". `JobService` says that jobs start in the
order accepted, never exceed the capacity, are accepted only while the service
is open, and that it closes only when no job is pending or running.

### 3.2 ConnectPool

`links` is `pConnects`, `idle` the list of idle indices, `registered` and `ready`
the kernel's side of epoll, `batch` the events of the current `epoll_wait` that
the loop has not reached. An event names a slot by index, so an event that was
reported before its connection was closed stays in `batch` with an index that
may have a new owner. `closeConnect` gets the slot by value
(`connnetpool.c:165`), so it clears its copy; the model changes the kernel's
state, the idle list and the counters, and leaves `links` alone.

`Thread_handleMsg` is not in the repository. `WorkerBegin` and `WorkerEnd` do
what the fields of `LINK_INFO` and the parameters handed to the thread require:
count the threads that work on a slot in `CopyCnt`, set `ShutSig` perhaps, and,
if "worker_close" is among the faults, call `stopConnect` (`WorkerStop` to
`WorkerCompare`).

Closing is done under `stop_mutex`, so a close of the main loop is one action
(`Shut`) and threads close one at a time. Making a link is not: the branch of
`main.c:174-224` takes no mutex and is split at what it shares with a thread that is
closing, the idle list and the counters. `PickIndex` takes the index, `Accept`
fills the slot and loads `CurLinks`, `Count` stores it, `Compare` is the rest of
`updateCurConnects`, and `Register` is the success of `epoll_ctl`; `AcceptFails`, or
`AddFails`, `Count` and `DropLink`, are the other ends, which both lose the index. A
thread's `WorkerStop` releases the connection and loads `CurLinks`, `WorkerCount`
stores it, `WorkerCompare` compares. The compare may find what the other has
stored in between.

Two histories say how far the promises go. `spoiled`: a call has failed, or a slot
that nobody owned was closed. `raced`: a thread was closing while the main loop was
between its look at the idle list and the end of `updateCurConnects`. Until then
the properties hold; after it, they need not (section 8), and `Next` stops there
unless `AfterRace`. What such a race does to the cells of the idle list, which
`linklist.c` changes without a lock, is undefined and not modelled; only the order
of the list's operations and the counters are. "malloc" among the faults: a close
finds no cell for its index, and is not told (`linklist.c:82-86`). "threads":
`CurThreads` is negative, which makes `updateCurConnects` forget the count
(`trace.c:69-72`). No memory for the index itself (`connnetpool.c:157`) crashes the
process and is left out.

### 3.3 Dispatch

`pc` is where the main thread is. Start-up (`createTCPSrv` to `Register`): each
step may fail, which ends the process; `PoolLinker_init` may also crash, for
memory is written before it is tested, or go on with an empty list, since
`linkList_addElement` does not report a node that cannot be had (`listed`): the first
event is then assigned through a NULL `pPath` (`AssignCrashes`). In the loop the main thread takes a batch
of events, scans the flags one at a time for each of them while threads clear
them without a lock, so each read is an action, and assigns the event to the
thread it found. `PoolLinker_getElemI` and `PoolLinker_getCapacity` are
translated with their arithmetic; positions count from 1. After the scan the list
grows if fewer than `WARNSIZE` threads are left, or the expansion fails, which the
code only logs, or crashes. `Stop` is the signal that clears `running`; it
interrupts `epoll_wait` if the main thread takes it. The end: `JoinSrv`,
`PoolLinker_destroy`, after which a thread that goes on in freed memory may crash
the process (`UseFreed`), and `Exit`.

### 3.4 LinkList

Cells are addresses with two links and an element; `Ring` is the allocated cells
and the header. Each operation is one action that does the pointer surgery of the
code; `result` is what it returned. `ElementList` does the same operations on a
sequence. The refinement maps the heap to the sequence of elements met walking
forward from the header; `EntryFindsCell` says that both chains and both walks
meet the same cells.

### 3.5 RecordExchange

`turns` chooses between the programs with two semaphores and those that poll.
The steps of the two threads are those at which they can be overtaken: `sem_wait`,
`fgets`, `bzero`, the copy, `sem_post`; and the reader's wait, comparison, print
and post. A line is its number, so "in order" and "once" can be stated; a record
that has just been cleared, or never written, has a value of its own.

### 3.6 LineStream

Lines are numbered as they are typed; `sent` of them have got into the stream, and
the reader has read the first `got` whole and perhaps `half` of the next. A read ends
where the kernel says (`Chunk`), within a line or behind any number of lines; its
buffer is compared with "quit" from its first byte on. So a quit is missed if it is
not at the start of a read or not whole there, and the middle of a line is taken for
one if a read starts with it ("inner"); `slips` records both. The user types as fast
as he likes, or waits until each line is shown before he types the next (`patient`);
he does not know whether somebody reads already. The start-up of the fifo and
of the sockets is modelled (`Unlink` to `Accept`), with an old fifo in place or
none, and writers that are interrupted or killed by SIGPIPE.

`fork_shem` has a buffer instead, of two halves: the writer's `fgets` stores one and
then the other, over what is there, and compares the buffer, not what was typed; the
reader, which polls, shows the buffer, compares it and erases one half and then the
other. All of these are steps of their own, in any order between the two processes;
a line that is erased before it has been shown is recorded in `slips`.

A UDP datagram arrives up to `MaxCopies` times or never, in any order; what is sent
before the server has bound its socket is lost. The UDP server goes on after a quit
(`told`). A `sendto` that fails is the same as a line that has not been typed: the
client asks again.

### 3.7 SemProcesses

The semaphore's identity, its value, and what the kernel would undo for each
process. `sem_p` that fails because the semaphore has gone lets the caller in,
since nobody looks at the result. A run starts when the one before is over; it
may find the semaphore that a killed run has left behind. `semget` and `fork` may
fail, which ends the run before there is a child.

### 3.8 CondBroadcast

The mutex, the value, and a program counter per thread. A thread that cannot be
created ends the process. A waiter may start
before, during or after the only broadcast, and may wake up for no reason.

### 3.9 Statistics

A function of `trace.c` takes its mutex, works on the shared data and gives the
mutex back; every access to shared data in between is a step: each comparison
and each move of `replaceMini`, and the load and the store of `x++`. Any thread of
the gateway may call any of the functions at any time. `atLeast` and `total` are
histories of what was reported. The code as it is: `TimeInsertPoint` never
advances, so that `TopRecent3` keeps the last time only, and `MaxThreads` never
grows (`trace.c:95`). `updateTimeList` has no caller in the repository.
The link counters `CurLinks` and `MaxLinks` are in `ConnectPool`.

### 3.10 ByteStrings

One operator per function, and one behaviour per call. The byte order of the host
is a parameter: a value is written to and read from memory in it. Powers and values
of bytes are recursive functions, as the proofs need them. Arithmetic is
reduced to the width of the C type; a byte has `BYTE` values, so that all words of
four bytes can be enumerated. Positions count from 1.

### 3.11 Signals

A thread is the sequence of statements it still has to execute, as far as they
concern signals and the record. A signal is pending for the process until a
thread that does not block it takes it; the default action kills the process,
and `ctrl_c_handler` replaces the statements of the thread that got the signal by
`exit` and its exit handler. `Mask` shows what `sig_set.c:25` does:
`SIGQUIT|SIGINT` is signal 3, that is SIGQUIT alone, where the comment in line 22
names both.

### 3.12 Children

The parent's next statement, the state of the child (running, zombie, reaped) and
what `waitpid` has answered and stored. A thread that was never created is
joined all the same, through an uninitialised handle (`pthread_join.c:59`).

## 4. Runs

| run | what it asks | instance |
|---|---|---|
| `tp_safety` | no lost wake-up, no lost job, nobody waits for threads that all wait, `destroy` drains, `JobService` is implemented | 2 workers, 2 clients that add, 2 that destroy, 4 jobs, capacity 2, calls overlap, creation may fail |
| `tp_live` | accepted jobs run, `destroy` returns, no undefined behaviour, with clients as in `main_test.c` | 2 workers, 2 clients, 1 destroyer, 3 jobs, capacity 1 |
| `tp_wake` (violation) | a client that slept in `add_job` and was woken gets to return | 1 worker, 2 clients, calls overlap |
| `conn` | until a call fails, a slot is closed twice or a thread closes while a link is made, an index names one connection and none is lost; until such a race, no index past the end of the array | 2 descriptors, 1 thread, everything fails |
| `conn_collision` (violation) | an index names one connection | 2 descriptors, `accept` and `epoll_ctl` may fail |
| `conn_race` (violation) | the same while no call fails and no slot is closed twice | 3 descriptors, 1 thread that closes, one event at a time |
| `disp` | addressing, no event overwritten, each handled, a stopped process ends | pools of 2 and 3 threads, 3 events, everything fails |
| `list` | walks from both ends, refinement to a sequence | 4 cells, 2 elements, one of them NULL |
| `rec` | lines whole, in order, all; the threads wait for each other exactly where a failed `fgets` has lost the turn; a quit ends both threads | every program with up to 4 lines and a quit, and with an `fgets` that fails up to 3 times |
| `stream` | what a reader that leaves has read, who is killed, who ends, who is left to wait for ever | every input of up to 4 lines, quits and lines with a quit inside among them, typed at any speed or one by one; datagrams up to twice |
| `sem` | exclusion, SEM_UNDO, everyone enters | 3 runs, any process killed anywhere, calls fail |
| `helpers` | longest times; string functions against their definitions; signals; reaped children; a broadcast that misses nobody | 2 threads and 5 calls on a list of 3; all arguments up to 4 bytes or 5 characters; 3 signals; 4 waiters |

`helpers` checks five modules in one run: `part` says which of them moves, and
the others rest in a state of theirs in which nothing more can happen.

**Bounds and why they are enough.** Every bound is a constant or an operator of
an MC module. The capacities 1 and 2 are those at which "full", "empty" and "one
below capacity" coincide and are distinct: the code signals at exactly those
lengths (`threadpool.c:84,126-133`). More jobs than slots make clients wait; two
clients and two workers let one overtake the other between wake-up and mutex.
`MaxBatch` = 2 is the least at which an event is handled after the connection of
another in the same `epoll_wait` was closed; two descriptors let an index be
reused while another is in use. `MaxIdle` stops a slot from being closed for
ever, and `CurLinks` from falling for ever, which threads that close can do; where
`CurLinks` drifts upwards, `Waiting` stops it at `In_MaxEpoll`. `In_MaxEpoll` is two
more than the connections, which section 6 proves to be enough for every size.
`conn` does not go on after a race (`AfterRace`), for its properties say nothing
about what follows; one thread is enough, for threads close one at a time.
`conn_race` goes on, and needs a third descriptor: one is closed, one opened
meanwhile, and the third collides. With three
events the pool list grows up to three times, so that all of its index arithmetic
happens with pools of two sizes. Four cells make the two walks of
`linkList_entry` start from either end at every size. Three runs let a semaphore
be left behind, reused and removed. A datagram that arrives twice can be read
before and after another. `replaceMini` with three places, three times and five
calls meets equal times, a list that is full and one that is not. A byte of four
values leaves room for a byte that is neither 0 nor 1 nor the largest, and makes
a word of four bytes have 256 values. Three signals are one more than there are
kinds. Four waiters let some come before, some during and some after the broadcast.

**Deadlock**, in TLC's sense, is checked for the pool, the gateway and the list,
which go on or stop explicitly (`ThreadPool!Stopped`, `Dispatch!Quiet`). It is not
checked in `rec`, `stream`, `sem` and `helpers`, whose programs end; that they end
is what their liveness properties say. In the pool it would miss the deadlock that
matters: a thread asleep on a condition can always wake up for no reason, so TLC
sees a step where the code has none to offer. `NoDeadlock` therefore says by name
who waits for another thread (`Blocked`) and who need not (`CanGoOn`). Where threads
or processes can get stuck in the code as it is, `DeadlockByFailureOnly` and
`StrandedExplained` say exactly, or at least, what it takes.

**Symmetry** is used in `tp_safety`, `conn` and `conn_race`, which check no liveness property.

**Types.** The type of the variables of `ThreadPool`, `ConnectPool`,
`RecordExchange`, `CondBroadcast`, `SemProcesses`, `LineStream`, `Statistics` and
`Signals`, and of what the properties of `Dispatch` and `LinkList` depend on, is
part of the invariant that is proved about each, for every value of the
constants, and is therefore not checked again in a run.

## 5. Fairness

- Job pool: every thread inside a function of the pool is scheduled and gets the
  mutex in the end, and callbacks return. Clients need not call anything.
- `Dispatch`: the main thread goes on, except that it may wait in `epoll_wait` for
  ever; threads are scheduled, and end what they have begun. `Thread_srv` ends
  when the process is to stop. Events and signals need not arrive.
- Record programs: both threads are scheduled and the user types the whole input.
  `sem_wait` of the writer is strongly fair: the polling reader leaves the lock
  for 0.2 s in each round (`usleep`), so a writer that asks gets it. With two
  semaphores this makes no difference.
- Streams: both processes are scheduled and the user types the whole input, or
  interrupts the writer. Nothing is said of what the network delivers.
- `fork_sem`: a process that exists is scheduled. A run need not be started,
  nobody need be killed. A weakly fair `Enter` suffices, for two processes share
  the semaphore and each takes it once.
- `CondBroadcast`: strong fairness of the mutex. Each thread takes it a bounded
  number of times, except that spurious wake-ups are unbounded in the model; no
  implementation starves a thread for them.
- `Signals`: threads are scheduled, and a signal that is pending is delivered once
  a thread lets it in. Nobody need type a quit or send a signal.
- `Children`: parent and child are scheduled, and a child that is not killed ends.
- `Statistics` and `ByteStrings` state no liveness and need none.

## 6. Proofs

All theorems hold for every value of the constants that satisfies the named
assumptions of the modules. Each rests on an inductive invariant, and each step of
the specification is shown to keep it.

- **`ThreadPoolProofs`.** `Inv` is `TypeOK`, `CounterMatchesList` and `Control`,
  which ties the flags to the positions of the threads: at most one destroyer is
  past the test of `queue_close`, `pool_close` implies an empty list, memory is
  freed only when all workers are gone. None of the three is inductive alone: the
  counter stays in its range because the list's length does, and the list stays
  empty after `pool_close` because `queue_close` turns clients away.
  `NoWakeupIsLost` adds the property itself, `NoJobIsLost` adds `JobsConserved`
  and that a client's job is nobody else's while it waits (`Submitting`);
  `DestroyAlwaysDrains` and `PoolImplementsService` follow from these.
  `PoolNeverDeadlocks`: as long as the pool is in use and a worker was created, a
  thread that waits leaves one that can go on. If no worker can, all of them
  sleep, for a worker leaves only once the pool is closed (`ExitClosed`); then
  `NoLostWakeup` says that the list is empty, and that nobody sleeps for room or for
  an empty list.
  `PoliteClientsAreSafe` adds `Orderly`: with clients as in `main_test.c` the one
  call of `destroy` finds the others returned, so nobody is left to use what it
  frees.
- **`ConnectPoolProofs`.** `SlotsTypeCorrect` holds whatever fails and whoever races.
  Its invariant (`Types`) adds who is where: a new link's descriptor is not
  registered yet, a thread that has a task has a slot, and one thread closes.
  The others are about an array with two more elements than the process can have
  connections (`Roomy`) and about what happens until `raced`. `ArrayNeverOverrun`: no
  index past its end is used, whatever fails. The invariant is a count (`Counted`):
  `CurLinks` is at most the number of registered descriptors plus one, plus a link
  that is counted before it is registered (`Pending`) and a connection that is
  released before it is discounted (`Leaving`), though it may be less, since a slot
  may be closed twice; who has loaded `CurLinks` stores what it still is. `MaxLinks`,
  the next fresh index, is at most the number of descriptors plus one. `Roomy` is
  needed: when indices are lost, `MaxLinks` does reach that value and the next link
  uses it. `IndexNamesOneConnection` and `NoIndexIsLost`: until `spoiled` as well, the
  indices in use, the idle ones and the new link's are different, and together all
  those below `MaxLinks` (`Apart`, `Complete`), each descriptor's slot holds it
  (`Holding`), and `CurLinks` and the idle list add up to `MaxLinks`, up to the step
  the new link or the close has got to (`Balanced`), which is why both a fresh and a
  reused index are nobody's.
  `FaultlessSlots` rids the two of both histories: if no call fails and no thread
  closes, they stay clear. What has to be shown is that no event is handled for a
  connection that was closed before (`Named`): the events of a batch name different
  open connections, and only its own event closes one.
- **`RecordExchangeProofs`.** A token: at most one of the semaphores and the two
  threads has it (`Token`). `Record` says what the record holds at each position of
  its holder, and `Progress` how far the printing has got whose turn it is.
  The last is what makes "every line once and in order" inductive. The input is
  arbitrary, failing calls of `fgets` included. `OnlyFailureDeadlocks` needs the
  converse of the first: somebody has the token (`Kept`), unless the last `fgets`
  failed in a program that takes turns; there both threads wait for it.
- **`SemProcessesProofs`.** For any number of runs. At each moment it is the turn of
  one run: those before are over, those after have not begun (`Turn`), so that a
  step concerns one parent and one child (`Frame`). Of these, `Owed` says that the
  kernel owes exactly what is held inside, `Value` that a semaphore which has been
  set is 0 exactly while one of the two is inside, and `Handles` that a run has
  lost its semaphore only if its child has removed it. The last is what makes the
  removal harmless: a `sem_p` that fails is the parent's, with nobody inside.
- **`LineStreamProofs`.** For any inputs and wherever reads end. A quit is the last
  line in a stream whose writer leaves at it, and that writer has gone (`QuitLast`), so
  a reader that leaves at it leaves nothing behind and no writer to be killed
  (`LeftLast`), unless it took the middle of a line for a quit. The client with select
  stays after its quit; for it the theorem needs a user who waits, so that one line at
  most is on its way (`OneByOne`). The shared buffer has an argument of its own
  (`Shared`): a quit in it, if it has not been erased, ends the writer before it can
  write again. `WhoIsStranded` adds that the quit at which a writer left is still to
  be read, or was missed (`Fate`); when each line waits for the one before, a read from
  a pipe cannot miss it.
- **`DispatchProofs`.** `SpecEveryThreadAddressed`: the running sum over the pools
  has a closed form, since all pools but the first have one size (`Capacity`), and
  the index arithmetic inverts it. `SpecEventsConserved`: the thread with the last
  index of the last pool is idle whenever a scan begins, because an event is given
  to it only after a new pool has been put behind it; so a scan always ends at a
  thread whose flag is clear, and flags are only cleared while the main loop scans.
  An event is in one place only (`OneHolder`, `HeldOnly`, `ElseOnce`, `Somewhere`):
  each action is shown to take it from one place to the next. This needs pools of at
  least `WARNSIZE` threads and `WARNSIZE` of at least 2, as in the code. All this is about
  processes whose first pool got into the list; about the others `Lost` says that the
  scan finds nothing, and the first event stays with the main loop.
- **`LinkListProofs`.** For any number of cells. The invariant (`ListInv`) says that
  the header and the live cells can be numbered from 0 to `size` such that `next`
  goes up, `prev` goes down, and both close the ring at the header (`RingOf`).
  Inserting or unlinking a cell gives a numbering of the new ring (`RingInsert`,
  `RingRemove`), the walks follow the numbering (`RingWalk`), and what they show is
  the sequence with one element more or less (`AddEffect`, `RemoveEffect`).
  `SpecImplementsElementList` shows of every operation that it is the one of
  `ElementList`, answer included.
- **`HelpersProofs`**, about the five modules of `MCHelpers`. While one part moves
  the others rest, so each has an invariant of its own.
  - `Statistics`, for any length of the list: while one thread shifts the list, the
    invariant says of each place whether it has been moved: behind `j`, place n holds
    what place n - 1 should hold; up to `j` it is still right. That the new time
    belongs in place `i` follows from the comparisons that ended there: all places
    before it are longer. No counter loses an update because a thread that has loaded
    it holds its mutex.
  - `CondBroadcast`: a thread between its test and its sleep holds the mutex that
    main holds when it sets the value (`CondPlaces`), so no thread that is about to
    sleep has been overtaken by the broadcast.
  - `Signals`, for any number of signals: what is still to be executed of a program
    says which signals each thread blocks, which are ignored or handled, and
    whether the record still exists. For `thread_signal.c` that is a relation between
    the places of three threads (`Place3`). The record can be freed before the
    writer is done with it only by the exit handler of a SIGINT, and twice only by
    main at its end.
  - `ByteStrings`, for strings of any length: each loop of `strstr_Arr` and
    `string_trim` is a recursive function that goes on to the first place where it
    stops; the invariant says only that the result is what the function returns.
    For words and bytes (`BytesAlwaysAgree`) the bytes of up to four are digits to
    the base `BYTE`: taking a value apart and putting it together again, in either
    byte order and by either way of the code, is done digit by digit.
  - `Children`: whenever a parent is about to report, it has waited, and `status` is
    what the child ended with (`ParentsTellTheTruth`, the safety part of
    `ReportsTheChild`).

Recursive functions and induction. The library's induction theorems take an operator as a
parameter, which the provers cannot instantiate. The proofs use sets
instead: the least element of a set of naturals, from the well-foundedness of `<`
on the naturals, gives `NatSetInduction`, and what is to be proved of all n is the set of
the n that satisfy it. A recursive function is a CHOOSE; it satisfies its equation
once some function is shown to do so, which is done by naming its values
(`Iterates`, `UpwardExists`, `RoundsExist`). The powers of `BYTE` are such a function
too, for the provers know nothing of exponents.

Only model-checked: the liveness properties, which are beyond the prover. Every
invariant and every action property of the passing runs, and both refinements, are
theorems. Three more invariants are proved and not checked by a run:
`CounterMatchesList` (`CounterAlwaysMatches`), `NoUpdateLost` of the counters of
`trace.c` (`CountersExact`) and `ShowsTheValue` of `pthread_condition.c`
(`ShownOnlyWhenSet`). Of `ReportsTheChild` the safety part is one (`ParentsTellTheTruth`).

## 7. Assumptions about what is not in the repository

- `Thread_handleMsg` and `Thread_srv`: see 3.2, 3.3, 3.9 and section 5.
- epoll: the listening socket is level-triggered and the connections are
  edge-triggered, as `main.c` registers them; a closed descriptor has no events;
  a descriptor is not returned by `accept` while it is open.
- Mutexes are mutually exclusive. The mutexes of `thread_pool.c:152` are locked
  without having been initialised; the model takes zeroed memory to be an
  unlocked mutex, as it is with the system's default.
- A pipe or socket delivers bytes in order. A line fits into the buffer of `fgets`
  and is written by one call, and the word "quit" begins at most once in it behind
  the start. A read from a pipe returns all there is, up to a full buffer, which is more
  than a line; one from a socket any part of what has been sent. Without a reader, a
  pipe breaks at once and a socket after one more write, which may also be refused.
- SEM_UNDO: the kernel adds what a process has taken when it ends, not below 0;
  SETVAL clears it; a semaphore that is removed wakes its waiters with an error.
- A signal to the process is taken by any of its threads that does not block it;
  setting the action of a pending signal to "ignore" discards it.

## 8. What the runs found

- `tp_wake`: `threadpool_destroy` wakes clients that wait for room
  (`threadpool.c:159`) but joins only the workers before it destroys the mutex and
  frees the pool. In the trace a client sleeps for room, the worker that takes the
  job for which `destroy` waits wakes it, and it takes the mutex only when the pool is
  gone. A client that has not slept, or a second `destroy` that has not got the mutex
  yet, may meet the same, but that is the caller's to avoid.
- `conn_collision`: when `accept` or `epoll_ctl` fails, the index chosen for the link,
  a fresh one or one removed from the idle list, is neither given back nor counted,
  and the next fresh index is `MaxLinks`, which has not moved with it: two
  connections get one index. `connectpool.h:38` says that each slot corresponds to
  one epoll event.
- `conn_race`: the same without a failing call, if threads close connections
  themselves. The main loop takes the fresh index 2 and loads `CurLinks`, 2
  (`main.c:212`, `trace.c:65`); a thread that closes connection 1 loads it as well; the
  main loop stores 3, the thread 1. Both compare the 1, so `MaxLinks` stays 2, and
  when index 1 is in use again, the next fresh one is 2, which is in use, too.
  `stop_mutex`, which excludes closes from each other, is not taken by the branch that
  makes a link.

Seen while modelling and left out of the properties, or kept out by a premise of
theirs:

- Gateway: a stop signal that comes between the test of `running` (`main.c:157`)
  and `epoll_wait`, or that another thread takes, is seen at the next event only;
  `StopEnds` excepts it. The pools are freed under threads that nobody has told or
  joined (`main.c:297`). `createThreadParaPool` clears memory before it tests the
  pointer (`thread_pool.c:27`). If no list node is to be had for the first pool, start-up
  does not notice (`thread_pool.c:211`), and the first event crashes the process
  (`main.c:269`), before any thread is given one (`EveryThreadAddressed`). When the list of pools cannot grow, the event goes
  to the thread of the last scan, busy or not; `EventsConserved` is about runs
  without that. A `CurThreads` below 0, which nothing prevents, resets `CurLinks`
  (`trace.c:69`), and a close that finds no list cell loses its index; both are among
  the failures of `conn`. `stopConnect` clears a copy of the slot (`connnetpool.c:165`).
- `thread_signal.c`: the record is freed in line 179 and again by the exit handler
  in line 142; a SIGINT lets the writer use it once more in between.
- `alarm_interrupt.c`: an alarm that came before `pause` would be lost, and the
  program would wait for ever; `SignalEnds` is about one that finds it in `pause`.
- `string_emSpace` does not look at the last character, against its comment in
  `string_utility.c:137`; what `string_trim` returns has no blank there.
  `reverse16` swaps on a big-endian host as well, where `reverse32` is the identity.
- A failing `fgets` stops the programs that take turns for ever
  (`thread_sem_sync.c:46`): `DeadlockByFailureOnly` says that nothing else does, and
  `QuitEnds` excepts a quit after one. `fifo_read` and the simple server read for
  ever at the end of the stream, and miss a quit that is read together with a line
  before it. `StrandedExplained` says when that leaves them behind, or `fifo_read` in
  its `open`: if the writer is interrupted, if lines are typed faster than they
  are read, and also with one line at a time, if the network cuts the quit in two or
  if the first line typed is a quit and the fifo is not yet open for reading. A read
  that begins in the middle of a line may take it for a quit: the reader then leaves
  with lines unread, and a pipe's child or a client that goes on is killed.
- `fork_shem` has no lock: `bzero` (`shem_read.c:54`) may erase the line, or the half of
  one, that `fgets` has stored since the reader looked. If it was a quit, the reader
  polls for ever, and the writer goes on if it has not compared it yet.
- A reader that opened the old fifo waits for
  ever. The select server and client ignore the port they are given.
- The child of `fork_sem` removes the semaphore before the parent has entered, which
  is then let in unprotected (harmless, as nobody is left inside). Two runs at the
  same time would reset the semaphore while one is inside; the model runs them one
  after the other.

## 9. Not modelled

Concurrent clients of the select server, which share nothing, and a failing
`accept` in the TCP servers. Of `trace.c`, `updateCurEvts`, the local address and
the display; of `string_utility.c`, the checksum, the address strings and what
prints. Logging, limits and stack sizes (`sysctl.c`, `log_inerface.c`): calls
without state in the program. `main` of the record programs, which creates and
joins the threads. `sem_try_p`, which is called by nobody. `thread_base.c`,
`pthread_detach.c`, `shm_base.c` and the programs about files, time and the shell
show one call each and keep no state. `can/send.c` measures the time of calls, and
`can/receive.c` is not a program. Fragments, empty files and makefiles.
`PROJECT.json` lists all of them with their reasons.
