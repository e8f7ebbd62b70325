# A TLA+ verification of VDR

VDR is a block device in user space. The Linux kernel's NBD driver sends reads
and writes of whole blocks to the process `vdr`; that process keeps every block,
encrypted, on two of several *minions*, which it reaches over UDP. This
directory holds the TLA+ model of the system, its TLC runs, and proofs for
TLAPS. `PROJECT.json` maps every definition to the lines it models.

## The system

    kernel (NBD) --TCP--> TcpReader -> OsProxy -> Master -> MinionProxy --UDP--> MasterProxy -> Minion
                                                   |  |
                                         Timer <---+  +---> Encryptor -> ThreadPool -> workers
                                                               |                         |
                                                            Eventer <----- pipe ---------+

One thread of `vdr` runs the `Reactor`: it waits in `select` and calls the
handler of each ready descriptor, one after the other, each to its end. The only
other threads are the pool's workers. A minion is a single-threaded process.

| component | state | operations | what makes it correct |
|---|---|---|---|
| BlockTable | group -> locations | constructor, `Translate` | two homes for each block, on two minions, and no slot of a minion handed out twice |
| Master | maps of reads and of writes under way | `Read`, `Write`, the callbacks for replies, finished encryption and decryption, and timeouts | each request answered exactly once, retried until it is, and with the right data; no assert fails |
| Timer | armed callbacks by expiry, handle counter, timerfd | `Set`, `Cancel`, `CallBackWrapper` | each armed callback fires once unless cancelled |
| Eventer | registered events, pipe, lock | `SetEvent`, `SignalEvent`, `OnEventFinishedCB` | each signalled event's callback runs once, on the reactor's thread |
| Encryptor | key | `Encrypt`, `Decrypt`, the worker's loop | the callback runs after the whole buffer was transformed |
| ThreadPool, WaitableQ | threads, their status, priority queue | `Add`, `SetNum`, `Start`, `Stop`, destructor | each task runs once; no wakeup is lost; no thread forgotten; calls return |
| MinionProxy | a UDP socket | `ReadReq`, `WriteReq`, `RecieveFromMinionCB` | a reply is credited to the minion it came from |
| Minion, MasterProxy | the blocks | `Read`, `Write`, replies | a read returns what was written last |
| OsProxy, TcpReader, TcpWriter | packet buffer, bytes received, send queue | framing, requests, replies | a packet is whole, and stays what it was while it is in use |
| Reactor | descriptors and functions | `AddFD`, `RemFD`, `Start` | a handler runs when its descriptor is ready |
| Dispatcher | callbacks and whether they are connected | `Register`, `Unregister`, `Dispatch`, destructor | each connected callback called once, no dead object used |
| Singleton, Factory | one instance, constructors | `GetInstance`, `Create` | one instance, seen by all |

How they interact: OsProxy calls Master; Master calls MinionProxy (which sends
at once), arms timers, and gives buffers to the Encryptor, which registers an
event with the Eventer and a task with the ThreadPool. The workers write the
event's handle to a pipe; the reactor reads it and calls back into Master. All
of Master's inputs (requests, replies, timeouts, finished events) come in any
order. What is shared between requests and threads is the receive buffer of
TcpReader, the kernel's 8-byte handles (the only name a request has on the
wire), and the event map.

The hard behaviours, listed line by line under `hazards` in `PROJECT.json`:
datagrams lost, late, repeated and reordered against timeouts and retries;
workers that finish in any order; a handle used again while answers to its first
use are under way; one buffer for all writes; one port for all proxies; the
placeholder timer handle 0 of a write not yet encrypted; boundaries of groups
and of the device; the Timer's and the Reactor's bookkeeping in one pass; streams
split, filled up and ended at any byte; threads that sleep, end and are joined
while the pool is resized, stopped or destroyed; observers that come and go while
they are called.

## Modules

**BlockTable** gives the constructor's multimap and `Translate` in closed form.
**BlockTableCtor** runs the two loops step by step, so that TLC can compare them
with the closed form for every offset, beyond the device too.

**Master** is the vdr process. Its variables are the members of the classes:
`m_readRequests`, `m_writeRequests` (finite functions for the `std::map`s),
`m_callBacks` and `m_handleCounter` of Timer, `m_events`, `m_eventCounter` and
`m_pipe` of Eventer; `sent` records what the proxies have sent; `nbd` is the
kernel's view of each handle; `aborted` says that an assert has failed. There is
one action for each handler, with everything it calls:

| action | code |
|---|---|
| `Read`, `Write` | `OsProxy::OnPacketCB` -> `Master::Read`, `Master::Write` |
| `EncryptDecryptIMP` | `Encryptor::EncryptDecryptIMP` on a worker, up to `SignalEvent` |
| `OnEventFinishedCB` | `Eventer::OnEventFinishedCB` with the bound `SendWriteRequestsIMP` or `ReadReplyToOsProxyIMP` |
| `ReplyReadIMP`, `ReplyWriteIMP` | `MinionProxy::RecieveFromMinionCB` -> `Master::ReplyRead`, `ReplyWrite` |
| `CallBackWrapper` | `Timer::CallBackWrapper` with the bound `Master::OnTimer...IMP` |

Master's environment is open: any reply to anything ever sent may arrive, at any
time, any number of times, at any proxy. That is the most
that UDP can do, so what holds here holds for every network.

**Vdr** composes Master's actions with the minions, the network and the content
of the blocks. A content is the number of the write it stems from and whether it
is encrypted. `m_packet` is TcpReader's buffer: a mapped write holds a reference
to it and not a copy, so encryption and (re)sending use whatever it has then.
`socketOf` is the proxy whose socket gets the datagrams of each minion, chosen from
`SocketChoices` at the beginning: every `MinionProxy` binds `INADDR_ANY` and one
`UDP_PORT` with SO_REUSEADDR (`minion_proxy.cpp:122-132`), so who gets a reply is the
kernel's choice, and the reply is credited to the minion of that proxy (line 199).
Linux chooses the socket bound last, for every datagram: `LastBoundSocket` in MCVdr.
What holds for every choice is checked for all of them (`AnySockets`).
`asked`, `returned`, `current`, `allowed` and `heard` are history variables that
properties are stated with; no guard that models code reads them, except that
`VWrite` keeps to what the block layer does: one write of a block at a time, and
`MaxWrites` in all.

**Reactor** is the event loop, for functions that do anything: `Select`, one
`ActivateFuncIfFdRdyIMP` for each place of the walk through the maps, `EndPass`
(`CleanEmptyFunctions`, `FillFdsetsIMP`), and between them the calls of `AddFD`,
`RemFD` and `Stop` that a called function makes. `passed` is where the walk's
iterators are: what is inserted behind them waits for the next pass.

**Timer** puts class Timer on that reactor: the map from time points to handles,
the timerfd, the clock, and sockets whose functions set and cancel timers, in the
middle of a pass too. So it has the stale wakeup: select reports the timerfd, a
socket's function cancels the first timer and sets another, and the walk then
runs that one early. `armed` is what the callers believe. `Master` relies on what
`Timer` is checked for: one callback at a time, that of the oldest timer
(`OldestRunsFirst`), and it lets that callback come at any moment, early too.

**BlockDevice** is the abstract specification of the whole: requests are issued
and answered once, and a read returns the last write of its block that was
answered before the read was issued, or one outstanding meanwhile (a regular
register for each block). `ImplementsBlockDevice` in Vdr is the refinement, with
`nbd`, `asked`, `returned`, `current` and `allowed` as the mapping; a result that is
still encrypted maps to a value no specification allows. It is not an atomic
register: two reads during one write may return the new value and then the old
one, since each takes the first of two replicas to answer. The block layer does
not read a block while it writes it, so it cannot tell.

**ThreadPool** is the pool with WaitableQ. Threads are at a place of
`ThreadActionImp` (`pc`), tasks are a bag ordered by priority, `waiting` are the
threads asleep in the condition variable, which may wake for nothing. The owner's
calls go step by step (`call`, `at`, `left`), because workers run between the steps:
a thread is created (`CreateThread`) before it is in the map (`InsertThread`), and
cleaning visits one entry at a time, joining with the mutex held.

**Encryptor** puts Encryptor and Eventer on that pool: a worker goes through its
buffer part by part and signals; the reactor's thread reads the pipe, takes
`m_eventsLock` and runs the callback, while others want the lock.

**OsProxy** puts OsProxy, TcpReader, TcpWriter and the socket pair on Reactor. A
stream is a sequence of units that arrive one by one, so that a request is split
anywhere; the socket fills up; the kernel hangs up in the middle of a request. The
reader's vector is modelled as memory with a size, since cutting it keeps the
bytes a mapped write points at. The Master is reduced to the stages of a request
(encrypting by a worker, encrypted, waiting for minions, answered).

**Dispatcher** is the subject with its callbacks; what observers do when called is
open. An address may be used again by a new callback.

**StdMap** has the two operations on `std::map` that all use.

**MCVdr**, **MCReactor**, **MCTimer**, **MCThreadPool**, **MCEncryptor**,
**MCOsProxy** hold the values of function-valued constants and the symmetry sets.
The proofs are in **BlockTableProofs**, **BlockTableCtorProofs**, **MasterProofs**,
**VdrProofs**, **TimerProofs** (with Reactor), **ThreadPoolProofs** (with Encryptor),
**DispatcherProofs** and **OsProxyProofs**.

### What the models abstract

- A handler is one step: the reactor runs it to its end and the workers share
  with it only buffers and the event map, which has a lock. In Vdr the XOR of a
  buffer and the reception of a packet are one step each; Encryptor and OsProxy
  have them in parts.
- In Master a timer may fire whenever it is the first of its map. All timers of
  Master have one duration, so the map's order is that of the handles.
- In Timer a unit of time is the clock's nanosecond. `SameTick` and `DueNow` say
  whether the two coincidences a nanosecond clock makes rare happen: a time point
  computed that is in the map already, and a clock that stands exactly at the
  next time point. Descriptors stay open while they are registered.
- The network is a set of datagrams: a retry identical to a datagram still in
  flight merges with it. With `Duplicates` a datagram may be received any number
  of times, which covers both copies.
- A minion's status is always 0: `RetriveCopyStatus` compares two copies made
  one after the other. Exceptions of failing system calls end the process and
  are left out, as are malformed packets.
- A READ leaves the data in `m_packet` alone: shrinking a vector keeps its
  storage, and only a WRITE receives bytes past the header.
- `ProcessReadReplyIMP` and `ProcessWriteReplyIMP` read the timer handle through a
  reference into a map node they have just erased (`master.cpp:234-243`, `293-301`),
  after building a `stringstream` and a log string. That is undefined; the model uses
  the value that was there, on an assumption about the build, a 64-bit libstdc++ on
  glibc. The handle is 40 bytes into a node of 96 bytes (a read) or 112 (a write),
  chunks of 112 and 128; freeing a chunk overwrites its first 16 bytes; and what is
  allocated before the handle is used is of other sizes, the stringbuf's 513 bytes
  and a log text of at most 55 bytes, so no cached chunk of a node's size is taken.
  Another allocator, or a longer text, could give any value, and then
  `Timer::Cancel` another request's timer or a failed assert.
- `SetThreadDoneImp` changes the map without the mutex. In ThreadPool it is one
  step that may come at any moment of a cleaning; what a `std::map` does under a
  data race proper is not modelled. `LateInsert` says whether a thread may come
  to it before its own entry is inserted: TRUE is the code, which does not make it
  wait; FALSE is the assumption on timing that the runs and the
  theorems are under. Thread ids are not used again. A task does not throw: what it
  throws is thrown on out of the thread (`thread_pool.cpp:211-224`) and ends the process.
- One thread, the owner, calls the pool's operations, as its callers do.
- A cancelled worker is in a task or asleep; the locks it might hold are not
  modelled (see the hazards).
- In OsProxy requests are one block, as the code asserts, so the vector's storage
  never moves. An interrupted `recv` or `send` does nothing and leaves the
  descriptor ready, which is not distinguished from not having been called.
  `Disconnect` joins the NBD thread before it exits (`os_proxy.cpp:188-189`); in that
  time, and for ever if the driver does not let the thread go, the reactor serves
  nothing, so the model takes wait and exit as one step.
- External behaviour: the NBD driver never has two unanswered requests with one
  handle (handles are addresses of its requests, so after the answer the same
  handle comes again: `ReuseIds`); Linux gives a datagram for several sockets
  bound to one address and port with SO_REUSEADDR to the one bound last.
- The comment at `block_table.cpp:32`, "New and not working", is above the code of
  `Translate` that the model has; the run `blocktable` and the proofs show that this
  code works, for every offset and every size.

## Runs

Runs that pass:

| run | what it shows | instance |
|---|---|---|
| `blocktable` | loops = closed form; two replicas on different minions; no slot shared | 3 minions, 12 blocks of 4 bytes, every offset to 59 (the device ends at 47) |
| `vdr_timely` | the system implements BlockDevice; own data on the wire; an answered write is on both replicas | every assignment of sockets, 2 handles, three losses, one write at a time, no late datagrams |
| `vdr_live` | with the code's sockets no write is answered, and every read is | the proxy bound last gets all; 2 handles, 2 losses, 2 writes at a time |
| `vdr_udp` | a sent write waits for exactly the replicas no reply was credited to, to which its retries go; Master, Timer and Eventer agree on every request; every pending request is held once; no unmatched reply to the kernel; no assert fails | the proxy bound last gets all, or each its own minion's; 2 handles, datagrams late, repeated and reordered without limit |
| `reactor` | select watches exactly what is registered; what is ready is served | 4 places on 2 descriptors, functions that add, remove and stop at will |
| `timer` | map, timerfd, registration and callers agree; oldest first; every timer ends | timerfd between 2 sockets, 3 timers of one duration, stale wakeups, late callbacks |
| `threadpool` | no lost wakeup; threads add up over several resizes; every thread known until joined; stopped means ended; every call returns | 3 threads, 2 tasks, 3 calls of SetNum, Stop and the destructor |
| `encryptor` | a callback sees its whole buffer; each event on its way exactly once, and nobody throws; every buffer is done | 2 buffers of 2 parts, pipe of 2, pool resized or stopped once |
| `osproxy` | requests arrive whole and in order; the reply stream is whole; the socket is watched while there is something to send; a write keeps its buffer; every reply is received | 3 requests, headers and blocks of 2 units, sockets of 3, one write at a time, hang-up at any moment |
| `dispatcher` | iterators valid; both sides agree on who is there; each called once; Dispatch returns | 4 addresses, observers that construct and destroy at will |

Runs that show where the code differs from what the repository says of it:

| run | what happens |
|---|---|
| `vdr_alias` | two writes outstanding: the second one's packet lands in the buffer of the first, which is sent with the wrong data or XORed twice |
| `vdr_hang` | all proxies bind one port, and a reply is credited to the proxy that got it, not to the minion that sent it: both minions store a write and reply, the one bound first is never taken out of the write's vector, and the write is sent to it again for ever |

**Writes hang.** With the code's sockets and two minions or more, which is the shipped
configuration, VDR answers no write: `vdr_hang` shows how, and theorem `WritesHang`
that it is so for every bound, network and order of events. The counterexample of
`vdr_hang` ends where the bound on the timers' handles stops the retries, which the
theorem shows not to matter. Reads are answered (`vdr_live`) with two minions, since a block
is on both; with three, a read of a block that is not on the last one is retried for
ever as well. With one minion requests are answered, but one replica may be missing
(below). What the other runs of Vdr show of answered writes is thus about any
assignment of sockets that answers them, as it would be if each proxy had a port of
its own; with `SocketChoices` reduced to that assignment, `EveryRequestIsAnswered`
holds in the instance of `vdr_live`.

The passing runs make explicit under which conditions the system works: one write
at a time, datagrams received or lost in time, handles used once, two minions, no
coincidence of nanoseconds, threads in the map before they end, no nested Dispatch.
`vdr_alias` drops the first. More experiments with the same modules; each changes
one constant of a run and finds a counterexample:

- `vdr_timely` with `Timely = FALSE`: an original and its retry both reach a
  minion; the late one overwrites a newer write that was already answered
  (`AnsweredWriteIsOnEveryReplica`).
- `vdr_udp` with `ReuseIds = TRUE`: where each proxy gets its own minion's replies,
  those to an earlier use of a handle empty a write still being encrypted, which
  then cancels the placeholder handle 0 (`NoAssertFails`). `vdr_timely` with
  `ReuseIds = TRUE`: the second minion's reply to an answered read is taken for the
  answer to the next read with that handle, with the code's sockets too.
- `vdr_timely` with `NumMinions = 1`, `NumBlocks = 1`: both replicas have the same
  minion number, a reply is credited to the first of them, and one lost datagram
  leaves a replica unwritten after the answer. The shipped configuration has two.
- `timer` with `DueNow = TRUE`: a remaining time of exactly 0 disarms the timerfd
  while there are timers (`timer.cpp:110`; line 117 cancels it "if empty",
  `TimerfdIsSetForTheFirst`).
- `timer` with `SameTick = TRUE`: the second timer for a time point replaces the
  first, which never fires and whose `Cancel` fails its assert.
- `threadpool` with `LateInsert = TRUE`: a thread that takes its poison before
  `AddThreadImp` inserts it makes an entry without a ThreadPtr; the insert then
  changes nothing, the ThreadPtr is lost, and joining the entry uses a null pointer
  (`EveryThreadIsKnown`).
- `threadpool` with the invariant `StopSeesTheEnd`: the cleanup task has a lower
  priority than the poison but runs once, so a thread that ends after the last
  cleaning stays in the map, and Stop returns false at its deadline although all
  threads had ended; `thread_pool.hpp:36` says "returns if threadpool successfully
  stopped before the duration passed".
- `osproxy` with `MaxWrites = 2`: the second write's bytes arrive in the buffer in
  the middle of the first one's encryption, a block torn between two writes
  (`WriteStaysInTheBuffer`); the cause is that of `vdr_alias`.
- `dispatcher` with `MaxDepth = 2`: a nested Dispatch erases the marked entry the
  outer iterator is at (`IteratorsAreValid`); `dispatcher.hpp:95` says "Dont remove
  while may be in Dispatch".

From reading `reactor.cpp:106`: with nothing registered `select` blocks for ever, so
the status "2 - Empty reactor" of `reactor.hpp:30` is never returned.

### Bounds

- `IDs`: two requests suffice for each pairwise interaction the hazards name (a
  write and a read, or two writes, of one block or of two). `vdr_timely` was also
  checked with three, 3 timers and one loss, for the last-bound socket and for one
  each, which takes longer than is kept as a run.
- `NumMinions` = 2, `NumBlocks` = 2: each minion holds both replicas' halves, and
  the two blocks have their replicas in opposite order. Three minions would add a
  minion not concerned by a block; the block table's run and proof have them.
- `MaxHandles` bounds Timer's and Eventer's counters, that is the timers armed and
  events registered in a behaviour. In `vdr_timely` 6 leave four for retries beside
  two requests. A write that hangs uses up any bound, so `EveryReadIsAnswered` in
  `vdr_live` excepts the states at the bound with a write outstanding; before it,
  and without a write, a read must be answered whatever is lost.
- `MaxLosses`: one loss makes a retry; two make a request lose its answer twice,
  or two requests one each.
- `SocketChoices`: with two minions there are four assignments. `vdr_timely` has all;
  `vdr_udp` two of them, and was checked with all four in a little over five minutes.
- Timer's `LastSet` bounds the time of the last Set, so that every time point is
  before `MaxTime`, which stands for every later moment. Three timers are enough
  for one that runs, one overdue and one set by the callback. `Durations` has the
  one duration the Master uses; with two, 1 and 3, a callback run early by a
  stale wakeup that sets a shorter timer makes `EraseAndSetTimerIMP` dereference
  `end()`, because it goes on from the erased element and not from the first
  (`timer.cpp:115`). No caller of Timer does that today; it is among the hazards.
- Reactor's four places: one descriptor with all three uses and a second one in
  the map of reads, so that a walk has something before, after and beside it.
- ThreadPool: three threads, two at a time, and three counted calls give a resize
  during a resize, a Stop during either, a restart and the destructor; two tasks
  keep one worker busy while the other comes back. Encryptor has one such call,
  which may come at any point of two buffers in use, and a third handle for one
  used again. `PipeCapacity` equals the buffers in use: a smaller one ends the
  process, as `eventer.cpp:107` does.
- OsProxy: headers and blocks of two units can be split in the middle, a socket of
  three holds neither a whole write nor a whole read reply; three requests put a
  read before, beside and after a write.
- Dispatcher: four addresses give the iterator something behind, at, next to and
  beyond it.
- `CHECK_DEADLOCK FALSE`: the kernel may have no more requests, all handles being
  used, and the system rests; a pool, a disconnected device and a destroyed
  subject rest likewise.

### Fairness

`FairVSpec` assumes weak fairness of the workers, of the reactor's handling of
the pipe, the timers and the sockets, and of the minions. The reactor calls
every ready handler in each pass and never starves one; the pool has four
workers that take every task; a minion serves its socket in a loop; and a
datagram the network does not lose is delivered. No fairness is assumed of the
kernel or of losses. In Reactor and Timer the reactor's thread runs, called
functions return, and time passes; nothing is assumed of the descriptors. In
ThreadPool and Encryptor every thread runs (the operating system's scheduling), a
deadline passes, and in Encryptor alone a task ends: in ThreadPool a user's task
may run for ever, and `EveryCallReturns` holds nevertheless. In OsProxy the kernel's
sending and receiving threads run and the minions answer at last (an assumption,
which `vdr_live` shows of reads and `vdr_hang` refutes of writes: OsProxy is checked
as a component of its own); nothing makes the kernel issue a request. In Dispatcher called observers
return. `vdr_live` is `Timely`: when timeouts race answers
without end, nothing would keep a finite instance from using up its counters;
safety without timeliness is checked by `vdr_udp`. `vdr_hang` is under the same
fairness, with nothing lost at all.

## Proofs

Every safety property of the passing runs is a theorem. Its hypotheses are the
conditions of the run that checks it, and only those it needs; the experiments under *Runs* show what happens without each of them.
Types and the invariants below hold for every set of handles, number of minions,
blocks, threads, callbacks and every bound.

| theorem | property | hypotheses |
|---|---|---|
| `LoopsAreTheClosedForm`, `EveryByteHasTwoReplicas`, `NoSlotIsShared` | `LoopsMatchClosedForm`, `TwoReplicas`, `NoSlotSharedByTwoBlocks` | none |
| `TypeCorrect` | `TypeOK`, a conjunct of `VTypeOK` | none |
| `WakeupsHold`, `PendingHeldOnce`, `RepliesMatch`, `AssertsHold` | `EveryRequestHasItsWakeup`, `PendingIsHeldOnce`, `NoUnmatchedNbdReply`, `NoAssertFails` | handles used once |
| `VdrImplementsMaster` | | none |
| `VdrAssertsHold`, `VdrRepliesMatch`, `VdrTypeCorrect` | `NoAssertFails`, `NoUnmatchedNbdReply`, `VTypeOK` | handles used once |
| `RetriesGoToTheUncredited` | `WaitsForTheUncredited` | handles used once, two minions or more |
| `WritesHang` | `NoWriteIsAnswered` | and `OneSocket` |
| `WritesCarryTheirData` | `WriteCarriesItsOwnData` | handles used once, `OneWriteAtATime` |
| `AnsweredWritesAreStored`, `VdrImplementsBlockDevice` | `AnsweredWriteIsOnEveryReplica`, `ImplementsBlockDevice` | handles used once, `OneWriteAtATime`, `SteadyNetwork` |
| `TimerTypeCorrect`, `RegistrationHolds` | `TimerTypeOK`, `RegisteredWhileArmed` | none |
| `NoTimerIsLost`, `CallbacksRunInOrder` | `MapIsWhatWasSet`, `OldestRunsFirst` | `OneDuration` |
| `TimerfdFollowsTheFirst` | `TimerfdIsSetForTheFirst` | and `DueNow = FALSE` |
| `SelectWatchesTheRegistered` | `WatchesTheRegistered` | none |
| `PoolTypeCorrect` | `PoolTypeOK` | none |
| `ThreadsAreKnown`, `StopEndsTheThreads`, `PoisonAddsUp`, `WakeupsSuffice` | `EveryThreadIsKnown`, `StoppedMeansEnded`, `ThreadsAddUp`, `NoLostWakeup` | `LateInsert = FALSE` |
| `CallbacksSeeWholeBuffers`, `EventsAreOnTheirWay` | `CallbackSeesTheWholeBuffer`, `EventIsOnItsWay` | and a pipe with room for every task |
| `NoIteratorDangles`, `NothingDeadIsUsed`, `EachCalledOnce` | `IteratorsAreValid`, `BothSidesAgree`, `EachIsCalledOnce` | `MaxDepth = 1` |
| `RequestsOrdered`, `RepliesWhole`, `WatchedExactly` | `RequestsArriveInOrder`, `ReplyStreamIsWhole`, `WatchedWhileQueued` | none |
| `BufferKept` | `WriteStaysInTheBuffer` | `MaxWrites = 1` |

*Handles used once* is `ReuseIds = FALSE`. `OneSocket`: all replies reach one proxy, as
with the code's sockets. `OneWriteAtATime`: `MaxWrites` is
1, and the handles are finitely many, as 8 bytes make them. `SteadyNetwork`: two minions
or more, nothing is repeated, and nothing is in flight longer than the timeout. But for
`WritesHang` the theorems hold for every assignment of sockets, the code's included.
`OneDuration`: all timers have the same duration, as those of Master, and no two
are set within one nanosecond.

None of these properties is inductive. What is added to each, and why:

**BlockTable.** `TranslateShape`, `TwoReplicasPerBlock` and `NoSlotGivenTwice` are
about the closed form, for every number of minions and of blocks (the latter a
multiple of the former, as `block_table.cpp` asserts: `BlockTableAssumption`). That
the loops compute it is `LoopInv`: the constructor has filled the groups before
`blkGroup` and `i` values of that one, and the walk of `Translate` has pushed none,
one or both of a key's two values.

**Master.** `TypeOK` includes that no location ever sent to leaves its minion's
slots. The other four rest on `IInv`:

- `TimersInOrder` (handles below the counter, one timer each): so that cancelling
  a handle removes one timer and a new one is not confused with an old one;
- `ReadsArmed`, `WritesArmed`, `TimersOwned`: requests and timers correspond one
  to one, which makes the assert in `Timer::Cancel` true;
- `EncryptedIsUnsent`: while a write is being encrypted nothing has been sent for
  it, so no reply can make Master cancel its placeholder handle 0. This is the step
  that handle reuse breaks;
- `SentIsIssued`: nothing was sent for a handle the kernel has not used, hence a
  new write satisfies the previous point;
- `EventsUnique`, `PipeKnown`: at most one event for each request, once in the
  pipe, so that the callback answers once and finds its request;
- `Held`: a pending handle is in exactly one of the two maps and the decryption.

**Vdr.** `VdrImplementsMaster` is `VSpec => Spec`: Master's environment was left
open, and the kernel, the network and the minions are such an environment, with
Master's types as the only invariant needed. With it Master's theorems hold of the
whole system for every `MaxWrites`, `MaxLosses`, `Duplicates` and `Timely`. Around
`IInv`, four layers, each resting on the ones before:

- `AgreeInv`: every datagram under way was sent, or answers what was sent, and
  everything sent or still waited for under a handle is of the type and block the
  kernel asked for under it. Without it a reply could be of any block;
- `CreditInv`: a vector of locations has no minion twice (which needs two minions), and
  its locations are the replicas on whose minion's account no reply was put.
  `WritesHang` follows: the last reply of a write would be put on the account of the
  one minion left in the vector, but the one account of `OneSocket` has had its reply;
- `PacketInv`: with one write at a time the reader's buffer is that write's, in the
  clear until the worker has signalled and encrypted from then to the last retry;
- `DeviceInv`: a write has at most one datagram on its way to or from each replica,
  and only one in all when it waits for one (`WritesInFlight`), so nothing late can
  overwrite a newer write; a replica that has replied, or whose reply is on its way,
  has the write (`Stored`, `HeardStored`); every replica holds a value in `current`;
  what a pending read, its replies and its buffer may hold is in `allowed`. That the
  last reply finds both replicas written, although it may be credited to the wrong
  minion, is `LastReplyStored`: two different accounts are those of two different minions.

The refinement of BlockDevice then goes step by step: issuing, the answer to the
last reply of a write, and the end of a decryption are steps of the device, and
everything else is a stutter.

**Timer and Reactor.** For registration the types are enough: a timer cancelled
that is not the first leaves another one, because the order of time points is
strict. For the rest `MapInv`: no time point is further away than the duration, so
a new one comes last and handles grow with time points; and while a callback runs
`curr` is the first of the map, which is what `EraseAndSetTimerIMP` goes on from.
Reactor's `WatchInv`: a function runs inside a pass only, so the maps are settled
when the next `select` begins.

**ThreadPool and Encryptor.** Five layers:

- `PlaceInv`: types, and where in its operation the owner is, holds the mutex or
  has a thread in hand;
- `KnownInv`: all live threads are in the map, with their ThreadPtr, but for the one
  in hand; entries that say done are of threads past their poison; the destructor
  has ended those it came past;
- `BalanceInv`: the threads that have taken no poison, less the poison queued, plus
  what the owner has left to create or to poison, are the number asked for. In the
  middle of `SetNumThreads` and `Stop` only this sum is constant, `ThreadsAddUp` is not;
- `SleepInv`: while a thread sleeps, as many are awake as tasks are queued. The hard
  step is the destructor, which cancels threads that are awake: by
  `BalanceInv` there is then a poisonous task for every thread, so nobody sleeps;
- `EventInv`: each buffer's task is in the queue, with one worker, or signalled
  once, its contents are as far as that, and its event is in the map under the
  handle the task has. A task is lost only to the destructor.

Room in the pipe is needed because `Signal` of a full pipe ends the process.

**Dispatcher.** `DInv`: a connected entry belongs to a live callback that knows its
subject, and the other way round, but for the entries the destructor has been
at; a Dispatch is at an entry that exists, what it has to call is alive and ahead of
it, what it called is behind. That only what was alive at the beginning is due is
what makes a callback constructed meanwhile, at an old address, harmless. That
`++i` has a next entry at all is `LeastOf`, from the well-foundedness of the naturals.

**OsProxy.** Sizes of headers, blocks and sockets and the number of requests are any.

- `StreamInv`: what is in the socket and what the kernel has yet to send are the
  units of its requests one after the other (`Sequential`), beginning with the one
  after those in the reader's buffer. This says where a request is split without
  saying how it was sent, so a `recv` of any length keeps it (`ReadEffect`: the
  reader gets `m` more units of the current request and none of the next one). It
  also says that every packet queued has something left to send, that the writer's
  function is called only while there is one, and that what the Master has replied
  to it was handed;
- `ReplyStreamIsWhole` is kept by every step once `StreamInv` is known. Its sequences
  are flattened by a recursive function, so what one packet more at the end
  (`FlattenAppend`) or one less at the front (`FlattenFirst`) makes of them is shown
  first, by the least index at which two such functions differ;
- `BufferInv`: only replies are on their way to the kernel (`RepliesOnly`), so a write
  that is not answered is outstanding and, with `MaxWrites = 1`, the only one
  (`OneWrite`). Whatever is received meanwhile then is a header and nothing else, and
  does not reach the block's place; the block arrives there in order
  (`BlockArrives`) and is encrypted as far as the worker is (`BlockStays`).

Checked by TLC only, since fairness is out of the prover's reach: liveness
(`EveryReadIsAnswered`, `ReadyIsServed`, `EveryTimerEnds`, `EveryCallReturns`,
`EveryBufferIsDone`, `EveryReplyIsReceived`, `DispatchReturns`).

## Not modelled, and the plan

The order of the work was: BlockTable and Master, then Vdr around them, Reactor and
Timer below, then the threads (ThreadPool, Encryptor), the streams (OsProxy), the
Dispatcher and the abstract BlockDevice; then the proofs, those of OsProxy last. What
is left would need another prover: the liveness properties.

Left out for good: Logger and the routines (they print), Sockpair and the NBD
ioctls with their thread (system calls), reading the configuration, Factory and
Deserializer (used by neither process, a map lookup and a template), WaitableQ's
`DequeueFor` and `IsEmpty` (no caller), byte order and layout of packets. Singleton's
`GetInstance` does not make a second thread wait while the first one constructs;
both processes call it from their main thread only, so a model of it would have
nothing true to check.
