-------------------------------- MODULE Vdr --------------------------------
(***************************************************************************)
(* The whole system: the kernel's NBD driver, the vdr process of module    *)
(* Master, the UDP network and the minions (minion/minion,                 *)
(* minion/master_proxy), with what the blocks contain.                     *)
(*                                                                         *)
(* A block's content is the number of the write it comes from, and whether *)
(* it is encrypted; encrypting and decrypting are the same XOR.  Every     *)
(* WRITE lands in the one packet buffer TcpReader owns, and the request    *)
(* the Master maps keeps a reference to that buffer, not a copy.           *)
(***************************************************************************)
EXTENDS Master

CONSTANTS
    MaxWrites,    \* how many writes the kernel has outstanding at once
    Timely,       \* is every datagram received or lost within TIMEOUT?
    Duplicates,   \* does the network deliver a datagram more than once?
    MaxLosses,    \* how many datagrams the network loses
    SocketChoices \* the ways in which the kernel may give out the datagrams

ASSUME VdrAssumption ==
    /\ MaxWrites \in Nat
    /\ Timely \in BOOLEAN
    /\ Duplicates \in BOOLEAN
    /\ MaxLosses \in Nat
    /\ SocketChoices \subseteq [Minions -> Minions]

VARIABLES
    m_packet,     \* TcpReader::m_packet past the header: the last WRITE's bytes
    readData,     \* the buffer of each read reply being decrypted, by event
    reqNet,       \* requests on their way to a minion
    repNet,       \* replies on their way to the vdr process
    losses,       \* how many datagrams were lost
    m_allocMemory,\* Minion::m_allocMemory of every minion
    asked,        \* the kernel: what it asked for under each handle
    returned,     \* the kernel: what the last read under each handle returned
    current,      \* the values a read of a block may return if issued now
    allowed,      \* the values a read under a handle may return
    heard,        \* the replicas whose reply has reached the vdr process
    socketOf      \* the proxy whose socket gets the datagrams of each minion

netVars == <<reqNet, repNet, losses>>
kernelVars == <<asked, returned, current, allowed>>
vars == <<mVars, m_packet, readData, netVars, m_allocMemory, kernelVars, heard, socketOf>>

---------------------------------------------------------------------------
(* Data *)

Unwritten == -1              \* what new char[] happens to contain
Value == Handle \cup {Unwritten}
Content == [val : Value, enc : BOOLEAN]
Blank == [val |-> Unwritten, enc |-> FALSE]

\* A mutant: leaves the bytes as they are.
Xor_Plain(content) == content

\* Every byte is XORed with the key, once more each time.
Xor(content) == [content EXCEPT !.enc = ~@]

Replicas(blk_) ==
    {Translate(blk_ * BLOCK_SIZE)[i] : i \in DOMAIN Translate(blk_ * BLOCK_SIZE)}

\* A mutant: numbers the blocks of a minion from one.
Datagrams_FromOne(requests, data_) ==
    {[type |-> r.type, id |-> r.id, minionID |-> r.minionID,
      blockOffset |-> (r.blockOffset + 1) % (GROUPS_PER_MINION * m_numBlocksPerGroup),
      data |-> data_] : r \in requests}

\* minionUDP::request; only a WRITE fills in the data.
Datagrams(requests, data_) ==
    {[type |-> r.type, id |-> r.id, minionID |-> r.minionID,
      blockOffset |-> r.blockOffset, data |-> data_] : r \in requests}

\* minionUDP::reply carries type, id, status and data; minionID and blockOffset
\* tell which copy it is, and the vdr process does not see them.
Reply(request, data_) == [request EXCEPT !.data = data_]

InFlight(id_) == {d \in reqNet \cup repNet : d.id = id_}

Outstanding(type_) == {id \in IDs : nbd[id] = "pending" /\ asked[id].type = type_}
BeingWritten(blk_) == \E id \in Outstanding("WRITE") : asked[id].blk = blk_

NotAsked == [type |-> "none", blk |-> 0, val |-> Unwritten]

VInit ==
    /\ Init
    /\ m_packet = Blank
    /\ readData = [h \in {} |-> Blank]
    /\ reqNet = {}
    /\ repNet = {}
    /\ losses = 0
    /\ m_allocMemory = [m \in Minions |-> [s \in Slots |-> Blank]]
    /\ asked = [id \in IDs |-> NotAsked]
    /\ returned = [id \in IDs |-> Blank]
    /\ current = [blk \in Blocks |-> {Unwritten}]
    /\ allowed = [id \in IDs |-> {Unwritten}]
    /\ heard = {}
    /\ socketOf \in SocketChoices

---------------------------------------------------------------------------
(* The kernel issues a request *)

VRead(id_, blk_) ==
    /\ Read(id_, blk_)
    /\ reqNet' = reqNet \cup
           Datagrams(Requests("READ", id_, m_readRequests'[id_].blockLocations), Blank)
    /\ asked' = [asked EXCEPT ![id_] = [type |-> "READ", blk |-> blk_, val |-> Unwritten]]
    /\ allowed' = [allowed EXCEPT ![id_] = current[blk_]]
    /\ returned' = [returned EXCEPT ![id_] = Blank]
    /\ UNCHANGED <<m_packet, readData, repNet, losses, m_allocMemory, current, heard, socketOf>>

\* The block layer has at most one write of a block outstanding.  TcpReader has
\* received the packet into its buffer before OsProxy passes it on.
VWrite(id_, blk_) ==
    /\ Cardinality(Outstanding("WRITE")) < MaxWrites
    /\ ~BeingWritten(blk_)
    /\ Write(id_, blk_)
    /\ m_packet' = [val |-> m_eventCounter, enc |-> FALSE]
    /\ asked' = [asked EXCEPT ![id_] = [type |-> "WRITE", blk |-> blk_, val |-> m_eventCounter]]
    /\ current' = [current EXCEPT ![blk_] = @ \cup {m_eventCounter}]
    /\ allowed' = [id \in IDs |->
           IF id \in Outstanding("READ") /\ asked[id].blk = blk_
           THEN allowed[id] \cup {m_eventCounter} ELSE allowed[id]]
    /\ heard' = {h \in heard : h.id # id_}
    /\ UNCHANGED <<readData, netVars, m_allocMemory, returned, socketOf>>

---------------------------------------------------------------------------
(* Worker threads, events and timers in the vdr process *)

\* Encryptor::EncryptDecryptIMP, on the packet buffer or on a reply's buffer.
VEncryptDecryptIMP(handle_) ==
    /\ EncryptDecryptIMP(handle_)
    /\ IF m_events[handle_].type = "Encrypt"
       THEN m_packet' = Xor(m_packet) /\ UNCHANGED readData
       ELSE readData' = [readData EXCEPT ![handle_] = Xor(@)] /\ UNCHANGED m_packet
    /\ UNCHANGED <<netVars, m_allocMemory, kernelVars, heard, socketOf>>

\* The requests of SendWriteRequestsIMP carry what the buffer has at that time.
VOnEncrypted ==
    /\ m_events[Head(m_pipe)].type = "Encrypt"
    /\ OnEventFinishedCB
    /\ LET id == m_events[Head(m_pipe)].id
       IN  reqNet' = IF aborted' THEN reqNet ELSE reqNet \cup
               Datagrams(Requests("WRITE", id, m_writeRequests[id].blockLocations), m_packet)
    /\ UNCHANGED <<m_packet, readData, repNet, losses, m_allocMemory, kernelVars, heard, socketOf>>

VOnDecrypted ==
    /\ m_events[Head(m_pipe)].type = "Decrypt"
    /\ OnEventFinishedCB
    /\ returned' = [returned EXCEPT ![m_events[Head(m_pipe)].id] = readData[Head(m_pipe)]]
    /\ readData' = Erase(readData, Head(m_pipe))
    /\ UNCHANGED <<m_packet, netVars, m_allocMemory, asked, current, allowed, heard, socketOf>>

VOnEventFinishedCB == m_pipe # << >> /\ (VOnEncrypted \/ VOnDecrypted)

\* The retries of a read are empty, those of a write carry what the buffer has.
Retries(id_) ==
    IF id_ \in DOMAIN m_readRequests
    THEN Datagrams(Requests("READ", id_, m_readRequests[id_].blockLocations), Blank)
    ELSE IF id_ \in DOMAIN m_writeRequests
    THEN Datagrams(Requests("WRITE", id_, m_writeRequests[id_].blockLocations), m_packet)
    ELSE {}

VCallBackWrapper(timer) ==
    /\ Timely => InFlight(timer.id) = {}
    /\ CallBackWrapper(timer)
    /\ reqNet' = reqNet \cup Retries(timer.id)
    /\ UNCHANGED <<m_packet, readData, repNet, losses, m_allocMemory, kernelVars, heard, socketOf>>

---------------------------------------------------------------------------
(* The network *)

Lose(datagram) ==
    /\ losses < MaxLosses
    /\ losses' = losses + 1
    /\ reqNet' = reqNet \ {datagram}
    /\ repNet' = repNet \ {datagram}
    /\ UNCHANGED <<mVars, m_packet, readData, m_allocMemory, kernelVars, heard, socketOf>>

\* A datagram that is received is gone, unless the network has a copy of it.
Receive(net, datagram) == {net \ {datagram}} \cup (IF Duplicates THEN {net} ELSE {})

---------------------------------------------------------------------------
(* The minions: MasterProxy::OnPacketCB calls Minion::Read or Minion::Write,  *)
(* which replies.                                                             *)

MinionRead(req) ==
    /\ req.type = "READ"
    /\ reqNet' \in Receive(reqNet, req)
    /\ repNet' = repNet \cup {Reply(req, m_allocMemory[req.minionID][req.blockOffset])}
    /\ UNCHANGED <<mVars, m_packet, readData, losses, m_allocMemory, kernelVars, heard, socketOf>>

MinionWrite(req) ==
    /\ req.type = "WRITE"
    /\ reqNet' \in Receive(reqNet, req)
    /\ m_allocMemory' = [m_allocMemory EXCEPT ![req.minionID][req.blockOffset] = req.data]
    /\ repNet' = repNet \cup {Reply(req, Blank)}
    /\ UNCHANGED <<mVars, m_packet, readData, losses, kernelVars, heard, socketOf>>

---------------------------------------------------------------------------
(* MinionProxy::RecieveFromMinionCB of the proxy whose socket got the reply *)
(*                                                                         *)
(* CreateUDPSocketIMP binds the socket of every proxy to the same address  *)
(* and port, with SO_REUSEADDR.  Which of them gets a datagram is then the *)
(* kernel's choice, the same for every datagram of one minion (socketOf);  *)
(* Linux takes the socket bound last, for all minions.                     *)

\* ProcessReadReplyIMP and ProcessWriteReplyIMP find nothing to do.
IgnoreReply(rep, minionID_) ==
    LET map == IF rep.type = "READ" THEN m_readRequests ELSE m_writeRequests
    IN  /\ ~aborted
        /\ rep.id \in DOMAIN map =>
               \A i \in DOMAIN map[rep.id].blockLocations :
                   map[rep.id].blockLocations[i].minionID # minionID_
        /\ UNCHANGED <<mVars, readData, current>>

\* The reply's data is copied to a buffer of its own, which is decrypted.
VReplyReadIMP(rep, minionID_) ==
    /\ rep.type = "READ"
    /\ ReplyReadIMP(rep.id, minionID_)
    /\ readData' = Put(readData, m_eventCounter, rep.data)
    /\ UNCHANGED current

\* Once the kernel has its answer, a read must return this write's value.
VReplyWriteIMP(rep, minionID_) ==
    /\ rep.type = "WRITE"
    /\ ReplyWriteIMP(rep.id, minionID_)
    /\ current' = IF nbd' = nbd THEN current
                  ELSE [current EXCEPT ![asked[rep.id].blk] = {asked[rep.id].val}]
    /\ UNCHANGED readData

RecieveFromMinionCB(rep, minionID_) ==
    /\ minionID_ = socketOf[rep.minionID]
    /\ VReplyReadIMP(rep, minionID_) \/ VReplyWriteIMP(rep, minionID_)
                                     \/ IgnoreReply(rep, minionID_)
    /\ repNet' \in Receive(repNet, rep)
    /\ heard' = heard \cup {[id |-> rep.id, minionID |-> rep.minionID,
                             blockOffset |-> rep.blockOffset]}
    /\ UNCHANGED <<m_packet, reqNet, losses, m_allocMemory, asked, returned, allowed, socketOf>>

---------------------------------------------------------------------------

KernelStep == \E id \in IDs, blk \in Blocks : VRead(id, blk) \/ VWrite(id, blk)
WorkerStep == \E h \in DOMAIN m_events : VEncryptDecryptIMP(h)
TimerStep == \E t \in m_callBacks : VCallBackWrapper(t)
MinionStep == \E req \in reqNet : MinionRead(req) \/ MinionWrite(req)
ReplyStep == \E rep \in repNet, m \in Minions : RecieveFromMinionCB(rep, m)
LossStep == \E d \in reqNet \cup repNet : Lose(d)

VNext ==
    \/ KernelStep
    \/ WorkerStep
    \/ VOnEventFinishedCB
    \/ TimerStep
    \/ MinionStep
    \/ ReplyStep
    \/ LossStep

VSpec == VInit /\ [][VNext]_vars

\* The reactor serves every descriptor that is ready on each pass, the pool has
\* a worker, the minions run, and what the network does not lose it delivers.
FairVSpec ==
    /\ VSpec
    /\ WF_vars(WorkerStep)
    /\ WF_vars(VOnEventFinishedCB)
    /\ WF_vars(TimerStep)
    /\ WF_vars(MinionStep)
    /\ WF_vars(ReplyStep)

---------------------------------------------------------------------------
(* Properties *)

\* The Master's state has its types, the buffers and the minions' memory hold
\* contents, and every datagram on the network belongs to a request a proxy has
\* sent, for the block it was sent for.
VTypeOK ==
    /\ TypeOK
    /\ m_packet \in Content
    /\ DOMAIN readData \subseteq Handle
    /\ readData \in [DOMAIN readData -> Content]
    /\ losses \in 0 .. MaxLosses
    /\ \A d \in reqNet \cup repNet :
           /\ [type |-> d.type, id |-> d.id, minionID |-> d.minionID,
               blockOffset |-> d.blockOffset] \in sent
           /\ d.data \in Content
    /\ m_allocMemory \in [Minions -> [Slots -> Content]]
    /\ returned \in [IDs -> Content]
    /\ current \in [Blocks -> SUBSET Value]
    /\ allowed \in [IDs -> SUBSET Value]
    /\ socketOf \in SocketChoices

\* "encrypt data then SendWriteRequestsIMP" (master.cpp:121): what goes out for
\* a write is that write's own data, encrypted, on the first try and on every
\* retry, whatever the kernel has sent since.
WriteCarriesItsOwnData ==
    \A d \in reqNet : d.type = "WRITE" =>
        d.data = [val |-> asked[d.id].val, enc |-> TRUE]

\* A block with no write outstanding has on each of its replicas the encrypted
\* data of the last write the kernel was told has succeeded.
AnsweredWriteIsOnEveryReplica ==
    \A blk \in Blocks, v \in Handle :
        (current[blk] = {v} /\ ~BeingWritten(blk)) =>
            \A loc \in Replicas(blk) :
                m_allocMemory[loc.minionID][loc.blockOffset] = [val |-> v, enc |-> TRUE]

\* What the kernel has got: a block that is still encrypted is none it knows.
Garbled == -2
InTheClear(content) ==
    IF content.val # Unwritten /\ content.enc THEN Garbled ELSE content.val

Device == INSTANCE BlockDevice WITH
    Value <- Value,
    Initial <- Unwritten,
    state <- nbd,
    request <- asked,
    result <- [id \in IDs |-> InTheClear(returned[id])],
    readable <- current

\* The whole system, through encryption, loss and retries, implements a block
\* device: requests are answered once, and a read returns, in the clear, the last
\* write of its block that was answered before the read was issued, or one that
\* was outstanding meanwhile.
ImplementsBlockDevice == Device!DeviceSpec

WaitsFor(id_) ==
    {m_writeRequests[id_].blockLocations[i] : i \in DOMAIN m_writeRequests[id_].blockLocations}
HasReplied(id_, loc) ==
    [id |-> id_, minionID |-> loc.minionID, blockOffset |-> loc.blockOffset] \in heard

\* The minions on whose account ProcessWriteReplyIMP has put the replies that
\* came: the minion of the proxy that got the reply, not of the one that sent it.
Credited(id_) ==
    {socketOf[loc.minionID] : loc \in {l \in Replicas(asked[id_].blk) : HasReplied(id_, l)}}

\* What the code does whatever socket gets a reply, late, again or in any order:
\* a sent write waits for each replica on whose minion's account no reply was
\* put, and for no other.  A retry goes to just these, and the kernel has its
\* answer when there is none.  That is "all minion proxys that haven't replied
\* yet" (master.cpp:390) if the proxy that got the reply is the one meant.
WaitsForTheUncredited ==
    \A id \in DOMAIN m_writeRequests :
        ~HasEvent("Encrypt", id) =>
            WaitsFor(id) = {loc \in Replicas(asked[id].blk) : loc.minionID \notin Credited(id)}

\* No write is ever answered.  With all replies at one socket the vector of a
\* write on two minions never loses the other minion.
NoWriteIsAnswered ==
    \A id \in IDs : asked[id].type = "WRITE" => nbd[id] = "pending"

\* "reply to nbd if haven't replied yet" (master.cpp:174): every request is
\* answered, whatever datagrams are lost on the way.
EveryRequestIsAnswered ==
    \A id \in IDs : nbd[id] = "pending" ~> nbd[id] = "answered"

\* Every read is answered, whatever datagrams are lost on the way and though a
\* write is retried for ever beside it, until those retries have used up the
\* bound on the timers' handles.
EveryReadIsAnswered ==
    \A id \in IDs : (nbd[id] = "pending" /\ asked[id].type = "READ") ~>
        \/ nbd[id] = "answered"
        \/ Outstanding("WRITE") # {} /\ m_handleCounter = MaxHandles
===========================================================================
