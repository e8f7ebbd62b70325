------------------------------ MODULE OsProxy ------------------------------
(***************************************************************************)
(* The way between the kernel and the Master (vdr/os_proxy): class OsProxy *)
(* with its socket pair, TcpReader and TcpWriter                           *)
(* (framework/communication), called by the Reactor.                       *)
(*                                                                         *)
(* A stream is a sequence of units, HDR_SIZE of them for a header and      *)
(* BLOCK_SIZE for a block.  They get into a socket one by one, so a recv   *)
(* finds a request split anywhere.  Of the Master there is what matters    *)
(* here: it keeps a write's buffer until the write is answered, a worker   *)
(* encrypts it in place, and it answers requests in any order.             *)
(*                                                                         *)
(* A recv or send that a signal interrupts does nothing; the descriptor    *)
(* stays ready, as if it had not been looked at.                           *)
(***************************************************************************)
EXTENDS Reactor, FiniteSetsExt, SequencesExt

CONSTANTS
    HDR_SIZE,     \* units of a header, of requests and of replies
    BLOCK_SIZE,   \* units of a block
    SockCapacity, \* units that fit into one direction of the socket pair
    MaxRequests,  \* bound on the number of requests
    MaxWrites     \* how many writes the kernel has outstanding at once

ASSUME OsProxyAssumption ==
    /\ HDR_SIZE \in Nat \ {0}
    /\ BLOCK_SIZE \in Nat \ {0}
    /\ SockCapacity \in Nat \ {0}
    /\ MaxRequests \in Nat
    /\ MaxWrites \in Nat

VARIABLES
    issued,         \* the types of the kernel's requests, in order
    kernelOut,      \* units of the last one it has not sent yet
    toVdr,          \* m_sockpair: what the kernel has sent and nobody received
    toKernel,       \* and the other way round
    got,            \* what the kernel has received
    hungUp,         \* has the kernel shut its socket down?
    m_reader,       \* TcpReader: m_packet's memory and size, and m_readenCount
    m_packets,      \* TcpWriter::m_packets
    m_writtenCount, \* TcpWriter::m_writtenCount
    handed,         \* the requests OnPacketCB has passed on, in order
    stage,          \* what becomes of each in the Master
    pos,            \* how far the worker has got in a request's buffer
    replied,        \* the requests the Master has replied to, in order
    process         \* does the vdr process run?

kernelVars == <<issued, kernelOut, got, hungUp>>
writerVars == <<m_packets, m_writtenCount>>
masterVars == <<handed, stage, pos, replied>>
vars == <<reactorVars, kernelVars, toVdr, toKernel, m_reader, writerVars, masterVars, process>>

---------------------------------------------------------------------------
(* Data *)

\* The Master's descriptors (Eventer's pipe, the proxies' sockets, the timer) are
\* older, and so smaller, than the socket pair's.
MasterPlace == <<READ, 3>>
ReadPlace == <<READ, 4>>
WritePlace == <<WRITE, 4>>
ASSUME PlacesOfVdr == Places = {MasterPlace, ReadPlace, WritePlace}

Type == {"READ", "WRITE", "DISC"}
Number == 1 .. MaxRequests
Unit == [of : 0 .. MaxRequests, part : Nat, enc : BOOLEAN]
Zero == [of |-> 0, part |-> 0, enc |-> FALSE]

Zeros(n) == [i \in 1 .. n |-> Zero]

PACKET_SIZE == HDR_SIZE + BLOCK_SIZE

UnitsOf(k, from, to) ==
    [i \in 1 .. to - from + 1 |-> [of |-> k, part |-> from + i - 1, enc |-> FALSE]]

\* nbd_request, followed by the block only in a write
RequestUnits(k, type) ==
    UnitsOf(k, 1, IF type = "WRITE" THEN PACKET_SIZE ELSE HDR_SIZE)

\* nbd_reply, followed by the block only for a read
ReplyUnits(k) == UnitsOf(k, 1, IF issued[k] = "READ" THEN PACKET_SIZE ELSE HDR_SIZE)

Outstanding(k) == k \in DOMAIN issued /\ Last(ReplyUnits(k)) \notin Range(got)

OsProxyInit ==
    /\ ReactorInit({MasterPlace, ReadPlace})
    /\ issued = << >>
    /\ kernelOut = << >>
    /\ toVdr = << >>
    /\ toKernel = << >>
    /\ got = << >>
    /\ hungUp = FALSE
    /\ m_reader = [cells |-> Zeros(PACKET_SIZE), size |-> HDR_SIZE, count |-> 0]
    /\ m_packets = << >>
    /\ m_writtenCount = 0
    /\ handed = << >>
    /\ stage = [k \in Number |-> "none"]
    /\ pos = [k \in Number |-> 0]
    /\ replied = << >>
    /\ process = "runs"

---------------------------------------------------------------------------
(* The kernel, from how OsProxy talks to it *)

\* One request at a time goes to the socket, the disconnection last.
KernelIssues(type) ==
    /\ ~hungUp
    /\ kernelOut = << >>
    /\ Len(issued) < MaxRequests
    /\ "DISC" \notin Range(issued)
    /\ type = "WRITE" =>
           Cardinality({k \in Number : Outstanding(k) /\ issued[k] = "WRITE"}) < MaxWrites
    /\ issued' = Append(issued, type)
    /\ kernelOut' = RequestUnits(Len(issued) + 1, type)
    /\ UNCHANGED <<reactorVars, got, hungUp, toVdr, toKernel, m_reader, writerVars,
                   masterVars, process>>

KernelSends ==
    /\ ~hungUp
    /\ kernelOut # << >>
    /\ Len(toVdr) < SockCapacity
    /\ toVdr' = Append(toVdr, Head(kernelOut))
    /\ kernelOut' = Tail(kernelOut)
    /\ UNCHANGED <<reactorVars, issued, got, hungUp, toKernel, m_reader, writerVars,
                   masterVars, process>>

KernelReceives ==
    /\ ~hungUp
    /\ toKernel # << >>
    /\ got' = Append(got, Head(toKernel))
    /\ toKernel' = Tail(toKernel)
    /\ UNCHANGED <<reactorVars, issued, kernelOut, hungUp, toVdr, m_reader, writerVars,
                   masterVars, process>>

\* The driver shuts the socket down, maybe in the middle of a request.
KernelHangsUp ==
    /\ ~hungUp
    /\ hungUp' = TRUE
    /\ UNCHANGED <<reactorVars, issued, kernelOut, got, toVdr, toKernel, m_reader,
                   writerVars, masterVars, process>>

---------------------------------------------------------------------------
(* TcpReader *)

\* recv fills the vector from the count up to a size with what the socket has;
\* nothing when it is empty, be it EAGAIN or the end of the stream.
Recv(r, size) ==
    LET n == Min({size - r.count, Len(r.in)})
    IN  [r EXCEPT !.cells = SubSeq(@, 1, r.count) \o SubSeq(r.in, 1, n)
                              \o SubSeq(@, r.count + n + 1, PACKET_SIZE),
                  !.count = @ + n,
                  !.in = SubSeq(@, n + 1, Len(@))]

\* A mutant: empties the vector first.
Resize_Clears(r, size) ==
    [r EXCEPT !.cells = SubSeq(@, 1, HDR_SIZE) \o Zeros(BLOCK_SIZE), !.size = size]

\* vector::resize: new elements are zero, and those cut off stay in memory.
Resize(r, size) ==
    IF size <= r.size THEN [r EXCEPT !.size = size]
    ELSE [r EXCEPT !.cells = SubSeq(@, 1, r.size) \o Zeros(size - r.size)
                               \o SubSeq(@, size + 1, PACKET_SIZE),
                   !.size = size]

\* Do the first units make a header?  Its magic is what the code asserts.
IsHeader(cells) == \A i \in 1 .. HDR_SIZE : cells[i].part = i
RequestOf(cells) == cells[HDR_SIZE].of

\* A mutant: takes the length of a read for that of the packet.
OnHeaderCB_AnyLength(cells) == PACKET_SIZE

\* OsProxy::OnHeaderCB: the length of a packet.  The len of a read is not.
OnHeaderCB(cells) ==
    IF issued[RequestOf(cells)] = "WRITE" THEN PACKET_SIZE ELSE HDR_SIZE

ReadHeader(r) ==
    IF r.count >= HDR_SIZE THEN r
    ELSE LET h == Recv(r, HDR_SIZE)
         IN  IF h.count = HDR_SIZE /\ IsHeader(h.cells)
             THEN Resize(h, OnHeaderCB(h.cells)) ELSE h

ReadData(h) == IF h.count < HDR_SIZE \/ h.size = HDR_SIZE THEN h ELSE Recv(h, h.size)

IsFull(packet) == packet.count >= HDR_SIZE /\ packet.count = packet.size

ReadenCount(packet) == IF IsFull(packet) THEN 0 ELSE packet.count

\* OsProxy::OnPacketCB: Master::Read, Master::Write, or Disconnect.  Disconnect
\* waits for the thread that is in NBD_DO_IT, which the driver leaves after it has
\* sent the request to disconnect, and exits.  While the reactor's thread waits it
\* serves nothing, so nothing more reaches the kernel or a minion: the wait, should
\* it never end either, and the exit are one step.
OnPacketCB(k) ==
    /\ handed' = Append(handed, k)
    /\ stage' = [stage EXCEPT ![k] =
           IF issued[k] = "READ" THEN "waiting"
           ELSE IF issued[k] = "WRITE" THEN "encrypting" ELSE "none"]
    /\ process' = IF issued[k] = "DISC" THEN "exited" ELSE process

\* TcpReader::Read
Read ==
    /\ process = "runs"
    /\ running = ReadPlace
    /\ \E header \in {ReadHeader([cells |-> m_reader.cells, size |-> m_reader.size,
                                  count |-> m_reader.count, in |-> toVdr])} :
       \E packet \in {ReadData(header)} :
           /\ m_reader' = [cells |-> packet.cells, size |-> packet.size,
                           count |-> ReadenCount(packet)]
           /\ toVdr' = packet.in
           /\ IF packet.count >= HDR_SIZE /\ ~IsHeader(packet.cells)
              THEN process' = "aborted" /\ UNCHANGED <<handed, stage>>
              ELSE IF IsFull(packet) THEN OnPacketCB(RequestOf(packet.cells))
              ELSE UNCHANGED <<handed, stage, process>>
    /\ running' = NoPlace
    /\ UNCHANGED <<m_fdFuncs, walkVars, ready, m_shouldStop, returned, kernelVars, toKernel,
                   writerVars, pos, replied>>

---------------------------------------------------------------------------
(* TcpWriter *)

\* A mutant: pushes first and then asks whether the queue is empty.
Write_PushesFirst(packets) ==
    /\ UNCHANGED m_fdFuncs
    /\ m_packets' = m_packets \o packets

\* TcpWriter::Write for one packet after the other
Write(packets) ==
    /\ IF m_packets = << >> THEN AddFD(WritePlace) ELSE UNCHANGED m_fdFuncs
    /\ m_packets' = m_packets \o packets

\* What send takes of the first packet; nothing, EAGAIN, when the socket is full.
Sent(packet) ==
    SubSeq(packet, m_writtenCount + 1,
           m_writtenCount + Min({Len(packet) - m_writtenCount, SockCapacity - Len(toKernel)}))

\* A mutant: stops watching the socket after every packet.
SendFront_RemovesEarly(packet) ==
    /\ toKernel' = toKernel \o Sent(packet)
    /\ IF m_writtenCount + Len(Sent(packet)) = Len(packet)
       THEN /\ m_writtenCount' = 0
            /\ m_packets' = Tail(m_packets)
            /\ RemFD(WritePlace)
       ELSE /\ m_writtenCount' = m_writtenCount + Len(Sent(packet))
            /\ UNCHANGED <<m_packets, m_fdFuncs>>

\* A mutant: takes whatever was sent for the whole packet.
SendFront_PopsPart(packet) ==
    /\ toKernel' = toKernel \o Sent(packet)
    /\ m_writtenCount' = 0
    /\ m_packets' = Tail(m_packets)
    /\ IF Len(m_packets) = 1 THEN RemFD(WritePlace) ELSE UNCHANGED m_fdFuncs

SendFront(packet) ==
    /\ toKernel' = toKernel \o Sent(packet)
    /\ IF m_writtenCount + Len(Sent(packet)) = Len(packet)
       THEN /\ m_writtenCount' = 0
            /\ m_packets' = Tail(m_packets)
            /\ IF Len(m_packets) = 1 THEN RemFD(WritePlace) ELSE UNCHANGED m_fdFuncs
       ELSE /\ m_writtenCount' = m_writtenCount + Len(Sent(packet))
            /\ UNCHANGED <<m_packets, m_fdFuncs>>

\* TcpWriter::WriteCB.  front of an empty queue is undefined, and EPIPE throws an
\* exception; both end the process.
WriteCB ==
    /\ process = "runs"
    /\ running = WritePlace
    /\ IF m_packets = << >> \/ hungUp
       THEN /\ process' = IF hungUp THEN "exited" ELSE "aborted"
            /\ UNCHANGED <<toKernel, writerVars, m_fdFuncs>>
       ELSE SendFront(Head(m_packets)) /\ UNCHANGED process
    /\ running' = NoPlace
    /\ UNCHANGED <<walkVars, ready, m_shouldStop, returned, kernelVars, toVdr, m_reader,
                   masterVars>>

---------------------------------------------------------------------------
(* The Master and its worker, as OsProxy meets them *)

\* EncryptDecryptIMP goes through the buffer by the pointer it was given.
EncryptPart(k) ==
    /\ process = "runs"
    /\ stage[k] = "encrypting"
    /\ IF pos[k] < BLOCK_SIZE
       THEN /\ m_reader' = [m_reader EXCEPT !.cells[HDR_SIZE + pos[k] + 1].enc = ~@]
            /\ pos' = [pos EXCEPT ![k] = @ + 1]
            /\ UNCHANGED stage
       ELSE stage' = [stage EXCEPT ![k] = "encrypted"] /\ UNCHANGED <<m_reader, pos>>
    /\ UNCHANGED <<reactorVars, kernelVars, toVdr, toKernel, writerVars, handed, replied, process>>

\* A worker has signalled, or the last answer of a request's minions is here.
MasterHasEvent ==
    /\ process = "runs"
    /\ \E k \in Number : stage[k] \in {"encrypted", "waiting"}
    /\ BecomesReady(MasterPlace)
    /\ UNCHANGED <<kernelVars, toVdr, toKernel, m_reader, writerVars, masterVars, process>>

\* OsProxy::ReplyRead and OsProxy::ReplyWrite: SendNbdReply, and a read's data as
\* a packet of its own
Reply(k) ==
    /\ LET header == SubSeq(ReplyUnits(k), 1, HDR_SIZE)
           data == SubSeq(ReplyUnits(k), HDR_SIZE + 1, Len(ReplyUnits(k)))
       IN  Write(IF issued[k] = "READ" THEN <<header, data>> ELSE <<header>>)
    /\ replied' = Append(replied, k)

\* A callback of the Master sends a write, whose data it copies from the buffer,
\* or replies to a request.
MasterCB(k) ==
    /\ process = "runs"
    /\ running = MasterPlace
    /\ \/ /\ stage[k] = "encrypted"
          /\ stage' = [stage EXCEPT ![k] = "waiting"]
          /\ UNCHANGED <<m_fdFuncs, m_packets, replied>>
       \/ /\ stage[k] = "waiting"
          /\ stage' = [stage EXCEPT ![k] = "answered"]
          /\ Reply(k)
    /\ running' = NoPlace
    /\ ready' = ready \ {MasterPlace}
    /\ UNCHANGED <<walkVars, m_shouldStop, returned, kernelVars, toVdr, toKernel, m_reader,
                   m_writtenCount, handed, pos, process>>

---------------------------------------------------------------------------

\* A socket that was shut down can be read and written without waiting.
IsReady ==
    ready \cup (IF toVdr # << >> \/ hungUp THEN {ReadPlace} ELSE {})
          \cup (IF Len(toKernel) < SockCapacity \/ hungUp THEN {WritePlace} ELSE {})

ReactorStep ==
    /\ process = "runs"
    /\ Select(IsReady) \/ EndPass \/ \E p \in Places : ActivateFuncIfFdRdyIMP(p)
    /\ UNCHANGED <<kernelVars, toVdr, toKernel, m_reader, writerVars, masterVars, process>>

ReactorThread == ReactorStep \/ Read \/ WriteCB \/ \E k \in Number : MasterCB(k)

WorkerThread == \E k \in Number : EncryptPart(k)

OsProxyNext ==
    \/ \E type \in Type : KernelIssues(type)
    \/ KernelSends
    \/ KernelReceives
    \/ KernelHangsUp
    \/ WorkerThread
    \/ MasterHasEvent
    \/ ReactorThread

OsProxySpec == OsProxyInit /\ [][OsProxyNext]_vars

\* The threads of the process run, the minions answer, and the kernel's sender
\* and receiver run.
FairOsProxySpec ==
    /\ OsProxySpec
    /\ WF_vars(KernelSends)
    /\ WF_vars(KernelReceives)
    /\ WF_vars(MasterHasEvent)
    /\ WF_vars(ReactorThread)
    /\ WF_vars(WorkerThread)

---------------------------------------------------------------------------
(* Properties *)

\* However the stream is split, and wherever it ends, the Master gets the
\* kernel's requests whole, each once and in order, and no assert fails.
RequestsArriveInOrder ==
    /\ process # "aborted"
    /\ handed = [i \in DOMAIN handed |-> i]
    /\ Len(handed) <= Len(issued)

\* What was received, what is in the socket and what is queued make the replies,
\* whole and in the order they were given: the kernel, which has no other way to
\* find where a reply begins, is never out of step.
ReplyStreamIsWhole ==
    LET queued == FlattenSeq(m_packets)
    IN  got \o toKernel \o SubSeq(queued, m_writtenCount + 1, Len(queued)) =
            FlattenSeq([i \in DOMAIN replied |-> ReplyUnits(replied[i])])

\* The socket is watched for writing exactly while there is something to write,
\* whichever callback of a pass wrote the first packet or sent the last one.
WatchedWhileQueued == WritePlace \in Registered <=> m_packets # << >>

\* From its encryption to its answer a write's block is in the reader's buffer,
\* whole and encrypted, for the first datagrams and for the retries, although the
\* buffer is cut and filled for the reads that come meanwhile.
WriteStaysInTheBuffer ==
    \A k \in DOMAIN issued :
        (issued[k] = "WRITE" /\ stage[k] \in {"encrypted", "waiting"}) =>
            \A i \in 1 .. BLOCK_SIZE :
                m_reader.cells[HDR_SIZE + i] =
                    [of |-> k, part |-> HDR_SIZE + i, enc |-> TRUE]

\* The kernel gets the whole answer to every request it issues, unless one of the
\* two sides ends the connection.
EveryReplyIsReceived ==
    \A k \in Number :
        k \in DOMAIN issued ~> (~Outstanding(k) \/ hungUp \/ process # "runs")
===========================================================================
