------------------------------ MODULE Master ------------------------------
(***************************************************************************)
(* The heart of the vdr process: class Master with the parts of Timer,     *)
(* Eventer, Encryptor and MinionProxy it drives (vdr/master/master.cpp,    *)
(* framework/timer, framework/eventer, framework/encryptor,                *)
(* vdr/minion_proxy).  One reactor thread runs every handler to its end;   *)
(* the pool's worker threads only encrypt and signal.                      *)
(*                                                                         *)
(* The environment is open: the kernel issues requests, and UDP delivers   *)
(* the answer to anything that was ever sent, late, again and in any       *)
(* order, or never.  What the blocks contain is left to module Vdr, which  *)
(* composes these actions with the minions and the network.                *)
(***************************************************************************)
EXTENDS BlockTable, StdMap, FiniteSets

CONSTANTS
    IDs,          \* the 8-byte handles the kernel puts in its NBD requests
    ReuseIds,     \* does the kernel use an answered handle again?
    MaxHandles    \* bound on Timer's and Eventer's handle counters

ASSUME MasterAssumption ==
    /\ ReuseIds \in BOOLEAN
    /\ MaxHandles \in Nat

VARIABLES
    m_readRequests,   \* Master::m_readRequests, a map from id to RequestData
    m_writeRequests,  \* Master::m_writeRequests, likewise
    m_callBacks,      \* Timer::m_callBacks, the armed timers
    m_handleCounter,  \* Timer::m_handleCounter
    m_events,         \* Eventer::m_events, a map from handle to what is bound
    m_eventCounter,   \* Eventer::m_handleCounter
    m_pipe,           \* the handles signalled through Eventer::m_pipe
    sent,             \* every request a minion proxy has sent
    nbd,              \* the kernel's view of each handle
    aborted           \* an assert has failed and ended the process

requestVars == <<m_readRequests, m_writeRequests>>
timerVars == <<m_callBacks, m_handleCounter>>
eventVars == <<m_events, m_eventCounter, m_pipe>>
mVars == <<requestVars, timerVars, eventVars, sent, nbd, aborted>>

---------------------------------------------------------------------------
(* Data *)

Handle == 0 .. MaxHandles

RequestData == [handle : Handle, blockLocations : Seq(BlockLocation)]

RequestType == {"READ", "WRITE"}

Request == [type : RequestType, id : IDs, minionID : Minions, blockOffset : Slots]

Event == [type : {"Encrypt", "Decrypt"}, id : IDs]

\* A handle is unused, waits for its answer, has it, or got one too many, after
\* which the NBD driver gives the device up.
NbdState == {"free", "pending", "answered", "broken"}

\* A mutant: erases the front of the vector instead of the element found.
EraseAt_Front(vec, i) == Tail(vec)

\* std::vector::erase(iterator)
EraseAt(vec, i) ==
    [j \in 1 .. Len(vec) - 1 |-> IF j < i THEN vec[j] ELSE vec[j + 1]]

\* The linear search for a minion in a request's vector stops at index i.
FirstOf(locations, minionID_, i) ==
    /\ i \in 1 .. Len(locations)
    /\ locations[i].minionID = minionID_
    /\ \A j \in 1 .. i - 1 : locations[j].minionID # minionID_

---------------------------------------------------------------------------
(* The state of a Master just constructed and connected to its OsProxy *)

Init ==
    /\ m_readRequests = [id \in {} |-> 0]
    /\ m_writeRequests = [id \in {} |-> 0]
    /\ m_callBacks = {}
    /\ m_handleCounter = 0
    /\ m_events = [h \in {} |-> 0]
    /\ m_eventCounter = 0
    /\ m_pipe = << >>
    /\ sent = {}
    /\ nbd = [id \in IDs |-> "free"]
    /\ aborted = FALSE

---------------------------------------------------------------------------
(* Pieces of the handlers *)

\* assert(...) is compiled in: a failing one ends the process, whatever the
\* handler had done before it.
AssertFails ==
    /\ aborted' = TRUE
    /\ UNCHANGED <<requestVars, timerVars, eventVars, sent, nbd>>

\* Timer::Set with the callback bound to id_ returns m_handleCounter.  Every
\* timer of the Master has the same duration, so the map's order by expiry is
\* the order of the handles.  CallBackWrapper erases the expired timer once its
\* callback, which sets the next one, has returned.
SetTimerIMP(id_, expired) ==
    /\ m_handleCounter < MaxHandles
    /\ m_callBacks' = (m_callBacks \ expired)
                        \cup {[handle |-> m_handleCounter, id |-> id_]}
    /\ m_handleCounter' = m_handleCounter + 1

\* Timer::Cancel finds the handle, or asserts.
IsArmed(handle_) == \E t \in m_callBacks : t.handle = handle_

\* A mutant: leaves the cancelled timer in the map.
Cancel_LeavesTimer(handle_) == UNCHANGED <<m_callBacks, m_handleCounter>>

Cancel(handle_) ==
    /\ m_callBacks' = {t \in m_callBacks : t.handle # handle_}
    /\ UNCHANGED m_handleCounter

\* Eventer::SetEvent with the callback of that type bound to id_
SetEvent(type_, id_) ==
    /\ m_eventCounter < MaxHandles
    /\ m_events' = Put(m_events, m_eventCounter, [type |-> type_, id |-> id_])
    /\ m_eventCounter' = m_eventCounter + 1

\* Eventer::SignalEvent
SignalEvent(handle_) == m_pipe' = Append(m_pipe, handle_)

\* Encryptor::SendTaskToThreadPoolIMP: an event for the callback, a task for
\* the workers.  The tasks are the events not signalled yet.
SendTaskToThreadPoolIMP(type_, id_) == SetEvent(type_, id_) /\ UNCHANGED m_pipe

\* MinionProxy::ReadReq and WriteReq for each location of the request.
Requests(type_, id_, locations) ==
    {[type |-> type_, id |-> id_, minionID |-> locations[i].minionID,
      blockOffset |-> locations[i].blockOffset] : i \in DOMAIN locations}

\* OsProxy::SendNbdReply, as the kernel sees it.
NbdReply(id_) ==
    nbd' = [nbd EXCEPT ![id_] = IF @ = "pending" THEN "answered" ELSE "broken"]

\* The kernel keeps the handles of its unanswered requests distinct.
CanIssue(id_) == nbd[id_] = "free" \/ (ReuseIds /\ nbd[id_] = "answered")

ProcessRequestIMP(blk_) ==
    [handle |-> 0, blockLocations |-> Translate(blk_ * BLOCK_SIZE)]

\* Master::SendReadRequestsIMP on the map's entry for id_, SendWriteRequestsIMP
\* likewise: a timer, then a request to every location left in the vector.
SendReadRequestsIMP(id_, request, expired) ==
    /\ SetTimerIMP(id_, expired)
    /\ m_readRequests' = Put(m_readRequests, id_,
                             [request EXCEPT !.handle = m_handleCounter])
    /\ sent' = sent \cup Requests("READ", id_, request.blockLocations)
    /\ UNCHANGED m_writeRequests

\* A mutant: sets the timer without remembering its handle in the map.
SendWriteRequestsIMP_LosesHandle(id_, request, expired) ==
    /\ SetTimerIMP(id_, expired)
    /\ m_writeRequests' = Put(m_writeRequests, id_, request)
    /\ sent' = sent \cup Requests("WRITE", id_, request.blockLocations)
    /\ UNCHANGED m_readRequests

SendWriteRequestsIMP(id_, request, expired) ==
    /\ SetTimerIMP(id_, expired)
    /\ m_writeRequests' = Put(m_writeRequests, id_,
                              [request EXCEPT !.handle = m_handleCounter])
    /\ sent' = sent \cup Requests("WRITE", id_, request.blockLocations)
    /\ UNCHANGED m_readRequests

---------------------------------------------------------------------------
(* Requests from the kernel, through OsProxy::OnPacketCB *)

\* Master::Read.  map::insert leaves an entry that is already there alone, and
\* SendReadRequestsIMP works on whatever entry the map then has.
Read(id_, blk_) ==
    /\ ~aborted
    /\ CanIssue(id_)
    /\ SendReadRequestsIMP(id_,
           IF id_ \in DOMAIN m_readRequests THEN m_readRequests[id_]
                                            ELSE ProcessRequestIMP(blk_), {})
    /\ nbd' = [nbd EXCEPT ![id_] = "pending"]
    /\ UNCHANGED <<eventVars, aborted>>

\* Master::Write: nothing is sent, and no timer set, before the encryption.
Write(id_, blk_) ==
    /\ ~aborted
    /\ CanIssue(id_)
    /\ IF id_ \in DOMAIN m_readRequests \cup DOMAIN m_writeRequests
       THEN AssertFails
       ELSE /\ m_writeRequests' = Put(m_writeRequests, id_, ProcessRequestIMP(blk_))
            /\ SendTaskToThreadPoolIMP("Encrypt", id_)
            /\ nbd' = [nbd EXCEPT ![id_] = "pending"]
            /\ UNCHANGED <<m_readRequests, timerVars, sent, aborted>>

---------------------------------------------------------------------------
(* Worker threads and the events they signal *)

\* Encryptor::EncryptDecryptIMP on a worker: the task's bytes, then SignalEvent.
EncryptDecryptIMP(handle_) ==
    /\ ~aborted
    /\ handle_ \in DOMAIN m_events
    /\ \A i \in DOMAIN m_pipe : m_pipe[i] # handle_
    /\ SignalEvent(handle_)
    /\ UNCHANGED <<requestVars, timerVars, m_events, m_eventCounter, sent, nbd, aborted>>

\* The callback bound to a finished encryption is SendWriteRequestsIMP, with its
\* assert, and the one bound to a finished decryption is ReadReplyToOsProxyIMP.
OnEncrypted(id_) ==
    IF id_ \in DOMAIN m_writeRequests
    THEN /\ SendWriteRequestsIMP(id_, m_writeRequests[id_], {})
         /\ m_events' = Erase(m_events, Head(m_pipe))
         /\ m_pipe' = Tail(m_pipe)
         /\ UNCHANGED <<m_eventCounter, nbd, aborted>>
    ELSE AssertFails

\* A mutant: drops the decrypted data instead of answering the kernel.
OnDecrypted_NoReply(id_) ==
    /\ m_events' = Erase(m_events, Head(m_pipe))
    /\ m_pipe' = Tail(m_pipe)
    /\ UNCHANGED <<requestVars, timerVars, m_eventCounter, sent, nbd, aborted>>

OnDecrypted(id_) ==
    /\ NbdReply(id_)
    /\ m_events' = Erase(m_events, Head(m_pipe))
    /\ m_pipe' = Tail(m_pipe)
    /\ UNCHANGED <<requestVars, timerVars, m_eventCounter, sent, aborted>>

\* Eventer::OnEventFinishedCB takes the next handle off the pipe, invokes what
\* is bound to it and removes it from the map.
OnEventFinishedCB ==
    /\ ~aborted
    /\ m_pipe # << >>
    /\ IF Head(m_pipe) \in DOMAIN m_events
       THEN LET event == m_events[Head(m_pipe)]
            IN  \/ event.type = "Encrypt" /\ OnEncrypted(event.id)
                \/ event.type = "Decrypt" /\ OnDecrypted(event.id)
       ELSE AssertFails

---------------------------------------------------------------------------
(* Replies of the minions, through MinionProxy::RecieveFromMinionCB *)

\* A reply to some request sent earlier is readable at a proxy, whichever it is:
\* all of them are bound to one port, and each takes what it gets for a reply of
\* its own minion.  Answering twice is in the nature of UDP and of the retries, so
\* what was answered before may arrive again.
Arrives(type_, id_) == \E r \in sent : r.type = type_ /\ r.id = id_

\* Master::ReplyReadIMP: the first reply of a minion that holds the block takes
\* the request off the map, and its data goes to decryption.  Any other reply is
\* ignored.  The handle is read back through a reference into the erased node,
\* after a log line was put together.  The outcome is the build's: with glibc the
\* node's chunk is of a size that no allocation in between asks for, and free
\* overwrites only the tree's links at its front, so the handle is still there.
ReplyReadIMP(id_, minionID_) ==
    /\ ~aborted
    /\ Arrives("READ", id_)
    /\ id_ \in DOMAIN m_readRequests
    /\ \E i \in DOMAIN m_readRequests[id_].blockLocations :
            m_readRequests[id_].blockLocations[i].minionID = minionID_
    /\ IF IsArmed(m_readRequests[id_].handle)
       THEN /\ m_readRequests' = Erase(m_readRequests, id_)
            /\ Cancel(m_readRequests[id_].handle)
            /\ SendTaskToThreadPoolIMP("Decrypt", id_)
            /\ UNCHANGED <<m_writeRequests, sent, nbd, aborted>>
       ELSE AssertFails

\* A mutant: answers the kernel for every location, not for the last one only.
ReplyWritePartIMP_Answers(id_, i) ==
    /\ Len(m_writeRequests[id_].blockLocations) > 1
    /\ m_writeRequests' = [m_writeRequests EXCEPT ![id_].blockLocations = EraseAt(@, i)]
    /\ NbdReply(id_)
    /\ UNCHANGED <<m_readRequests, timerVars, eventVars, sent, aborted>>

\* Master::ReplyWriteIMP while other locations are still to answer
ReplyWritePartIMP(id_, i) ==
    /\ Len(m_writeRequests[id_].blockLocations) > 1
    /\ m_writeRequests' = [m_writeRequests EXCEPT ![id_].blockLocations = EraseAt(@, i)]
    /\ UNCHANGED <<m_readRequests, timerVars, eventVars, sent, nbd, aborted>>

\* A mutant: takes the first reply for the last one.
ReplyWriteLastIMP_FirstReply(id_) ==
    /\ IsArmed(m_writeRequests[id_].handle)
    /\ m_writeRequests' = Erase(m_writeRequests, id_)
    /\ Cancel(m_writeRequests[id_].handle)
    /\ NbdReply(id_)
    /\ UNCHANGED <<m_readRequests, eventVars, sent, aborted>>

\* ... and for the last one, whose reply goes to the kernel.  The handle is read
\* after the erase, as in ReplyReadIMP.
ReplyWriteLastIMP(id_) ==
    /\ Len(m_writeRequests[id_].blockLocations) = 1
    /\ IF IsArmed(m_writeRequests[id_].handle)
       THEN /\ m_writeRequests' = Erase(m_writeRequests, id_)
            /\ Cancel(m_writeRequests[id_].handle)
            /\ NbdReply(id_)
            /\ UNCHANGED <<m_readRequests, eventVars, sent, aborted>>
       ELSE AssertFails

ReplyWriteIMP(id_, minionID_) ==
    /\ ~aborted
    /\ Arrives("WRITE", id_)
    /\ id_ \in DOMAIN m_writeRequests
    /\ \E i \in DOMAIN m_writeRequests[id_].blockLocations :
        /\ FirstOf(m_writeRequests[id_].blockLocations, minionID_, i)
        /\ ReplyWritePartIMP(id_, i) \/ ReplyWriteLastIMP(id_)

---------------------------------------------------------------------------
(* Timeouts *)

\* A mutant: lets a request that timed out go.
OnTimerIMP_NoRetry(timer) ==
    /\ m_callBacks' = m_callBacks \ {timer}
    /\ UNCHANGED <<requestVars, m_handleCounter, eventVars, sent, nbd, aborted>>

\* Timer::CallBackWrapper runs the callback of the map's first timer, which is
\* Master::OnTimerIMP, and then erases that timer.
OnTimerIMP(timer) ==
    IF timer.id \in DOMAIN m_readRequests
    THEN IF timer.id \in DOMAIN m_writeRequests
         THEN AssertFails
         ELSE /\ SendReadRequestsIMP(timer.id, m_readRequests[timer.id], {timer})
              /\ UNCHANGED <<eventVars, nbd, aborted>>
    ELSE IF timer.id \in DOMAIN m_writeRequests
    THEN /\ SendWriteRequestsIMP(timer.id, m_writeRequests[timer.id], {timer})
         /\ UNCHANGED <<eventVars, nbd, aborted>>
    ELSE /\ m_callBacks' = m_callBacks \ {timer}
         /\ UNCHANGED <<requestVars, m_handleCounter, eventVars, sent, nbd, aborted>>

CallBackWrapper(timer) ==
    /\ ~aborted
    /\ timer \in m_callBacks
    /\ \A t \in m_callBacks : timer.handle <= t.handle
    /\ OnTimerIMP(timer)

---------------------------------------------------------------------------

Next ==
    \/ \E id \in IDs, blk \in Blocks : Read(id, blk) \/ Write(id, blk)
    \/ \E h \in DOMAIN m_events : EncryptDecryptIMP(h)
    \/ OnEventFinishedCB
    \/ \E id \in IDs, m \in Minions : ReplyReadIMP(id, m) \/ ReplyWriteIMP(id, m)
    \/ \E t \in m_callBacks : CallBackWrapper(t)

Spec == Init /\ [][Next]_mVars

---------------------------------------------------------------------------
(* Properties *)

\* The maps, the timers, the events and the kernel's handles have the shapes
\* that Master, Timer and Eventer give them; no location leaves its device.
TypeOK ==
    /\ DOMAIN m_readRequests \subseteq IDs
    /\ m_readRequests \in [DOMAIN m_readRequests -> RequestData]
    /\ DOMAIN m_writeRequests \subseteq IDs
    /\ m_writeRequests \in [DOMAIN m_writeRequests -> RequestData]
    /\ m_callBacks \subseteq [handle : Handle, id : IDs]
    /\ m_handleCounter \in Handle
    /\ DOMAIN m_events \subseteq Handle
    /\ m_events \in [DOMAIN m_events -> Event]
    /\ m_eventCounter \in Handle
    /\ m_pipe \in Seq(Handle)
    /\ sent \subseteq Request
    /\ nbd \in [IDs -> NbdState]
    /\ aborted \in BOOLEAN

\* An event of this type is registered for the request.
HasEvent(type_, id_) ==
    \E h \in DOMAIN m_events : m_events[h] = [type |-> type_, id |-> id_]

Timers(id_) == {t \in m_callBacks : t.id = id_}
OwnTimer(map, id_) == {[handle |-> map[id_].handle, id |-> id_]}

\* Master, Timer and Eventer agree on what is going on: a mapped read has one
\* timer, the one whose handle it remembers; a mapped write waits for its
\* encryption without a timer or for its minions with one; and no timer is left
\* of a request that is gone.  Losing a timer would stop the retries for good.
EveryRequestHasItsWakeup ==
    /\ \A id \in DOMAIN m_readRequests : Timers(id) = OwnTimer(m_readRequests, id)
    /\ \A id \in DOMAIN m_writeRequests :
            Timers(id) = IF HasEvent("Encrypt", id)
                         THEN {} ELSE OwnTimer(m_writeRequests, id)
    /\ \A t \in m_callBacks : t.id \in DOMAIN m_readRequests \cup DOMAIN m_writeRequests

Decrypting == {id \in IDs : HasEvent("Decrypt", id)}

\* A request the kernel waits for is in exactly one place: the map of reads, the
\* map of writes, or the decryption of its data; and nothing else is there.
\* A request in none of them would never be answered.
PendingIsHeldOnce ==
    /\ DOMAIN m_readRequests \cap DOMAIN m_writeRequests = {}
    /\ (DOMAIN m_readRequests \cup DOMAIN m_writeRequests) \cap Decrypting = {}
    /\ {id \in IDs : nbd[id] = "pending"} =
           DOMAIN m_readRequests \cup DOMAIN m_writeRequests \cup Decrypting

\* No reply reaches the kernel for a handle that is not waiting for one, however
\* many replies the minions send.
NoUnmatchedNbdReply == \A id \in IDs : nbd[id] # "broken"

\* None of the asserts in Master, Timer::Cancel and Eventer ever fails.
NoAssertFails == ~aborted
===========================================================================
