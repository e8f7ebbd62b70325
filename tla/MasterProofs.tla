--------------------------- MODULE MasterProofs ---------------------------
(***************************************************************************)
(* Proofs about Master, for every set of handles, every number of minions, *)
(* every way the replies are spread over the proxies, lost, repeated and   *)
(* reordered.  Its types hold whatever the kernel does.  When the kernel   *)
(* never uses a handle twice, the maps of Master, the timers of Timer and  *)
(* the events of Eventer always agree, no assert of the vdr process fails, *)
(* and the kernel gets at most one answer to each request.                 *)
(***************************************************************************)
EXTENDS Master, BlockTableProofs

---------------------------------------------------------------------------
(* Maps and vectors *)

\* What Erase does to a map.
LEMMA EraseMap ==
    ASSUME NEW map, NEW key
    PROVE  /\ DOMAIN Erase(map, key) = DOMAIN map \ {key}
           /\ \A k \in DOMAIN map : k # key => Erase(map, key)[k] = map[k]
  BY DEF Erase

\* Put and Erase keep the type of a map.
LEMMA PutType ==
    ASSUME NEW K, NEW V, NEW map, NEW key \in K, NEW value \in V,
           DOMAIN map \subseteq K, map \in [DOMAIN map -> V]
    PROVE  /\ DOMAIN Put(map, key, value) \subseteq K
           /\ Put(map, key, value) \in [DOMAIN Put(map, key, value) -> V]
  BY DEF Put

\* Likewise for Erase.
LEMMA EraseType ==
    ASSUME NEW K, NEW V, NEW map, NEW key,
           DOMAIN map \subseteq K, map \in [DOMAIN map -> V]
    PROVE  /\ DOMAIN Erase(map, key) \subseteq K
           /\ Erase(map, key) \in [DOMAIN Erase(map, key) -> V]
  BY DEF Erase

\* Erasing an element leaves a shorter vector of the same kind.
LEMMA EraseAtType ==
    ASSUME NEW S, NEW vec \in Seq(S), NEW i \in DOMAIN vec
    PROVE  EraseAt(vec, i) \in Seq(S)
<1> DEFINE n == Len(vec)
<1>1. n \in Nat /\ i \in 1 .. n /\ \A j \in 1 .. n : vec[j] \in S
  OBVIOUS
<1>2. \A j \in 1 .. n - 1 : (IF j < i THEN vec[j] ELSE vec[j + 1]) \in S
  BY <1>1
<1>3. n - 1 \in Nat
  BY <1>1
<1>4. EraseAt(vec, i) \in [1 .. n - 1 -> S]
  BY <1>2 DEF EraseAt
<1> QED BY <1>3, <1>4

---------------------------------------------------------------------------
(* Type correctness *)

\* A request as Master::Read and Master::Write build it.
LEMMA ProcessRequestType ==
    ASSUME NEW blk \in Blocks
    PROVE  ProcessRequestIMP(blk) \in RequestData
<1>1. 0 \in Handle
  BY MasterAssumption DEF Handle
<1>2. Translate(blk * BLOCK_SIZE) \in Seq(BlockLocation)
  BY TwoReplicasPerBlock
<1> QED BY <1>1, <1>2 DEF ProcessRequestIMP, RequestData

\* The requests sent for a vector of locations.
LEMMA RequestsType ==
    ASSUME NEW type \in RequestType, NEW id \in IDs, NEW locations \in Seq(BlockLocation)
    PROVE  /\ Requests(type, id, locations) \subseteq Request
           /\ \A r \in Requests(type, id, locations) : r.type = type /\ r.id = id
<1>1. \A i \in DOMAIN locations : locations[i] \in BlockLocation
  OBVIOUS
<1>2. \A i \in DOMAIN locations : /\ locations[i].minionID \in Minions
                                  /\ locations[i].blockOffset \in Slots
  BY <1>1 DEF BlockLocation
<1> QED BY <1>2 DEF Requests, Request

\* The maps and the vectors start empty.
LEMMA InitTypeOK == Init => TypeOK
<1> SUFFICES ASSUME Init PROVE TypeOK
  OBVIOUS
<1>1. DOMAIN m_readRequests = {} /\ DOMAIN m_writeRequests = {} /\ DOMAIN m_events = {}
  BY DEF Init
<1>2. /\ m_readRequests \in [DOMAIN m_readRequests -> RequestData]
      /\ m_writeRequests \in [DOMAIN m_writeRequests -> RequestData]
      /\ m_events \in [DOMAIN m_events -> Event]
  BY DEF Init
<1>3. m_handleCounter \in Handle /\ m_eventCounter \in Handle
  BY MasterAssumption DEF Init, Handle
<1>4. m_pipe \in Seq(Handle)
  BY DEF Init
<1>7. aborted \in BOOLEAN
  BY DEF Init
<1>5. nbd \in [IDs -> NbdState]
  BY DEF Init, NbdState
<1>6. m_callBacks = {} /\ sent = {}
  BY DEF Init
<1> QED BY <1>1, <1>2, <1>3, <1>4, <1>5, <1>6, <1>7 DEF TypeOK

\* A timer set, with the one that expired gone.
LEMMA SetTimerType ==
    ASSUME TypeOK, NEW id \in IDs, NEW expired, SetTimerIMP(id, expired)
    PROVE  /\ m_callBacks' \subseteq [handle : Handle, id : IDs]
           /\ m_handleCounter \in Handle
           /\ m_handleCounter' \in Handle
  BY MasterAssumption DEF TypeOK, SetTimerIMP, Handle

\* Master::SendReadRequestsIMP keeps the types.
LEMMA SendReadType ==
    ASSUME TypeOK, NEW id \in IDs, NEW request \in RequestData, NEW expired,
           SendReadRequestsIMP(id, request, expired),
           UNCHANGED <<eventVars, aborted>>, nbd' \in [IDs -> NbdState]
    PROVE  TypeOK'
<1> DEFINE new == [request EXCEPT !.handle = m_handleCounter]
<1>1. /\ m_callBacks' \subseteq [handle : Handle, id : IDs]
      /\ m_handleCounter \in Handle
      /\ m_handleCounter' \in Handle
  BY SetTimerType DEF SendReadRequestsIMP
<1>2. new \in RequestData
  BY <1>1 DEF RequestData
<1> HIDE DEF new
<1>3. /\ DOMAIN m_readRequests' \subseteq IDs
      /\ m_readRequests' \in [DOMAIN m_readRequests' -> RequestData]
  <2>1. m_readRequests' = Put(m_readRequests, id, new)
    BY DEF SendReadRequestsIMP, new
  <2>2. DOMAIN m_readRequests \subseteq IDs /\ m_readRequests \in [DOMAIN m_readRequests -> RequestData]
    BY DEF TypeOK
  <2> QED BY <1>2, <2>1, <2>2, PutType
<1>4. sent' \subseteq Request
  <2>1. request.blockLocations \in Seq(BlockLocation)
    BY DEF RequestData
  <2> QED BY <2>1, RequestsType DEF SendReadRequestsIMP, TypeOK, RequestType
<1> QED BY <1>1, <1>3, <1>4 DEF TypeOK, SendReadRequestsIMP, eventVars

\* Master::SendWriteRequestsIMP keeps the types.
LEMMA SendWriteType ==
    ASSUME TypeOK, NEW id \in IDs, NEW request \in RequestData, NEW expired,
           SendWriteRequestsIMP(id, request, expired)
    PROVE  /\ m_callBacks' \subseteq [handle : Handle, id : IDs]
           /\ m_handleCounter' \in Handle
           /\ DOMAIN m_writeRequests' \subseteq IDs
           /\ m_writeRequests' \in [DOMAIN m_writeRequests' -> RequestData]
           /\ sent' \subseteq Request
<1> DEFINE new == [request EXCEPT !.handle = m_handleCounter]
<1>1. /\ m_callBacks' \subseteq [handle : Handle, id : IDs]
      /\ m_handleCounter \in Handle
      /\ m_handleCounter' \in Handle
  BY SetTimerType DEF SendWriteRequestsIMP
<1>2. new \in RequestData
  BY <1>1 DEF RequestData
<1> HIDE DEF new
<1>3. /\ DOMAIN m_writeRequests' \subseteq IDs
      /\ m_writeRequests' \in [DOMAIN m_writeRequests' -> RequestData]
  <2>1. m_writeRequests' = Put(m_writeRequests, id, new)
    BY DEF SendWriteRequestsIMP, new
  <2>2. DOMAIN m_writeRequests \subseteq IDs /\ m_writeRequests \in [DOMAIN m_writeRequests -> RequestData]
    BY DEF TypeOK
  <2> QED BY <1>2, <2>1, <2>2, PutType
<1>4. sent' \subseteq Request
  <2>1. request.blockLocations \in Seq(BlockLocation)
    BY DEF RequestData
  <2> QED BY <2>1, RequestsType DEF SendWriteRequestsIMP, TypeOK, RequestType
<1> QED BY <1>1, <1>3, <1>4
\* An event set and a task queued.
LEMMA SendTaskType ==
    ASSUME TypeOK, NEW type \in {"Encrypt", "Decrypt"}, NEW id \in IDs,
           SendTaskToThreadPoolIMP(type, id)
    PROVE  /\ DOMAIN m_events' \subseteq Handle
           /\ m_events' \in [DOMAIN m_events' -> Event]
           /\ m_eventCounter' \in Handle
           /\ m_pipe' \in Seq(Handle)
<1>1. m_eventCounter \in Handle /\ m_eventCounter' \in Handle
  BY MasterAssumption DEF TypeOK, SendTaskToThreadPoolIMP, SetEvent, Handle
<1>2. [type |-> type, id |-> id] \in Event
  BY DEF Event
<1>3. DOMAIN m_events \subseteq Handle /\ m_events \in [DOMAIN m_events -> Event]
  BY DEF TypeOK
<1>4. /\ DOMAIN m_events' \subseteq Handle
      /\ m_events' \in [DOMAIN m_events' -> Event]
  BY <1>1, <1>2, <1>3, PutType DEF SendTaskToThreadPoolIMP, SetEvent
<1> QED BY <1>1, <1>4 DEF TypeOK, SendTaskToThreadPoolIMP, SetEvent

\* An event taken off the pipe and the map.
LEMMA FinishType ==
    ASSUME TypeOK, m_pipe # << >>,
           m_events' = Erase(m_events, Head(m_pipe)), m_pipe' = Tail(m_pipe)
    PROVE  /\ DOMAIN m_events' \subseteq Handle
           /\ m_events' \in [DOMAIN m_events' -> Event]
           /\ m_pipe' \in Seq(Handle)
<1>1. DOMAIN m_events \subseteq Handle /\ m_events \in [DOMAIN m_events -> Event]
  BY DEF TypeOK
<1>2. m_pipe \in Seq(Handle)
  BY DEF TypeOK
<1>3. m_pipe' \in Seq(Handle)
  BY <1>2
<1> QED BY <1>1, <1>3, EraseType

\* A reply moves the kernel's handle to a state it may have.
LEMMA NbdReplyType ==
    ASSUME TypeOK, NEW id \in IDs, NbdReply(id)
    PROVE  nbd' \in [IDs -> NbdState]
  BY DEF TypeOK, NbdReply, NbdState

\* A timer cancelled.
LEMMA CancelType ==
    ASSUME TypeOK, NEW h, Cancel(h)
    PROVE  /\ m_callBacks' \subseteq [handle : Handle, id : IDs]
           /\ m_handleCounter' \in Handle
  BY DEF TypeOK, Cancel

\* A failing assert changes nothing else.
LEMMA AssertFailsType ==
    ASSUME TypeOK, AssertFails
    PROVE  TypeOK'
  BY DEF TypeOK, AssertFails, requestVars, timerVars, eventVars

\* Every step keeps the types.
LEMMA NextTypeOK == TypeOK /\ [Next]_mVars => TypeOK'
<1> SUFFICES ASSUME TypeOK, [Next]_mVars PROVE TypeOK'
  OBVIOUS
<1>1. ASSUME NEW id \in IDs, NEW blk \in Blocks, Read(id, blk) PROVE TypeOK'
  <2> DEFINE request == IF id \in DOMAIN m_readRequests THEN m_readRequests[id]
                                                        ELSE ProcessRequestIMP(blk)
  <2>1. request \in RequestData
    BY ProcessRequestType DEF TypeOK
  <2>2. nbd' \in [IDs -> NbdState]
    BY <1>1 DEF Read, TypeOK, NbdState
  <2>3. SendReadRequestsIMP(id, request, {}) /\ UNCHANGED <<eventVars, aborted>>
    BY <1>1 DEF Read
  <2> HIDE DEF request
  <2> QED BY <2>1, <2>2, <2>3, SendReadType
<1>2. ASSUME NEW id \in IDs, NEW blk \in Blocks, Write(id, blk) PROVE TypeOK'
  <2>1. CASE AssertFails
    BY <2>1, AssertFailsType
  <2>2. CASE ~AssertFails
    <3>1. /\ m_writeRequests' = Put(m_writeRequests, id, ProcessRequestIMP(blk))
          /\ SendTaskToThreadPoolIMP("Encrypt", id)
          /\ nbd' = [nbd EXCEPT ![id] = "pending"]
          /\ UNCHANGED <<m_readRequests, timerVars, sent, aborted>>
      BY <1>2, <2>2 DEF Write
    <3>2. /\ DOMAIN m_writeRequests' \subseteq IDs
          /\ m_writeRequests' \in [DOMAIN m_writeRequests' -> RequestData]
      <4>1. DOMAIN m_writeRequests \subseteq IDs /\ m_writeRequests \in [DOMAIN m_writeRequests -> RequestData]
        BY DEF TypeOK
      <4> QED BY <3>1, <4>1, PutType, ProcessRequestType
    <3>3. nbd' \in [IDs -> NbdState]
      BY <3>1 DEF TypeOK, NbdState
    <3> QED BY <3>1, <3>2, <3>3, SendTaskType DEF TypeOK, timerVars
  <2> QED BY <2>1, <2>2
<1>3. ASSUME NEW h \in DOMAIN m_events, EncryptDecryptIMP(h) PROVE TypeOK'
  BY <1>3 DEF EncryptDecryptIMP, SignalEvent, TypeOK, requestVars, timerVars
<1>4. CASE OnEventFinishedCB
  <2> DEFINE event == m_events[Head(m_pipe)]
  <2>1. CASE AssertFails
    BY <2>1, AssertFailsType
  <2>2. CASE ~AssertFails
    <3>1. /\ m_pipe # << >>
          /\ Head(m_pipe) \in DOMAIN m_events
          /\ \/ event.type = "Encrypt" /\ OnEncrypted(event.id)
             \/ event.type = "Decrypt" /\ OnDecrypted(event.id)
      BY <1>4, <2>2 DEF OnEventFinishedCB
    <3>2. event \in Event /\ event.id \in IDs
      BY <3>1 DEF TypeOK, Event
    <3> HIDE DEF event
    <3>3. CASE OnEncrypted(event.id)
      <4>1. /\ event.id \in DOMAIN m_writeRequests
            /\ SendWriteRequestsIMP(event.id, m_writeRequests[event.id], {})
            /\ m_events' = Erase(m_events, Head(m_pipe))
            /\ m_pipe' = Tail(m_pipe)
            /\ UNCHANGED <<m_eventCounter, nbd, aborted>>
        BY <2>2, <3>3 DEF OnEncrypted
      <4>2. m_writeRequests[event.id] \in RequestData
        BY <4>1 DEF TypeOK
      <4>3. m_readRequests' = m_readRequests
        BY <4>1 DEF SendWriteRequestsIMP
      <4> QED BY <3>1, <3>2, <4>1, <4>2, <4>3, SendWriteType, FinishType DEF TypeOK
    <3>4. CASE OnDecrypted(event.id)
      <4>1. nbd' \in [IDs -> NbdState]
        BY <3>2, <3>4, NbdReplyType DEF OnDecrypted
      <4> QED BY <3>1, <3>4, <4>1, FinishType
              DEF OnDecrypted, TypeOK, requestVars, timerVars
    <3> QED BY <3>1, <3>3, <3>4
  <2> QED BY <2>1, <2>2
<1>5. ASSUME NEW id \in IDs, NEW m \in Minions, ReplyReadIMP(id, m) PROVE TypeOK'
  <2>1. CASE AssertFails
    BY <2>1, AssertFailsType
  <2>2. CASE ~AssertFails
    <3>1. /\ m_readRequests' = Erase(m_readRequests, id)
          /\ Cancel(m_readRequests[id].handle)
          /\ SendTaskToThreadPoolIMP("Decrypt", id)
          /\ UNCHANGED <<m_writeRequests, sent, nbd, aborted>>
      BY <1>5, <2>2 DEF ReplyReadIMP
    <3>2. DOMAIN m_readRequests \subseteq IDs /\ m_readRequests \in [DOMAIN m_readRequests -> RequestData]
      BY DEF TypeOK
    <3>3. /\ DOMAIN m_readRequests' \subseteq IDs
          /\ m_readRequests' \in [DOMAIN m_readRequests' -> RequestData]
      BY <3>1, <3>2, EraseType
    <3> QED BY <3>1, <3>3, CancelType, SendTaskType DEF TypeOK
  <2> QED BY <2>1, <2>2
<1>6. ASSUME NEW id \in IDs, NEW m \in Minions, ReplyWriteIMP(id, m) PROVE TypeOK'
  <2> DEFINE locations == m_writeRequests[id].blockLocations
  <2>1. id \in DOMAIN m_writeRequests
    BY <1>6 DEF ReplyWriteIMP
  <2>2. PICK i \in DOMAIN locations : ReplyWritePartIMP(id, i) \/ ReplyWriteLastIMP(id)
    BY <1>6 DEF ReplyWriteIMP
  <2>3. /\ DOMAIN m_writeRequests \subseteq IDs
        /\ m_writeRequests \in [DOMAIN m_writeRequests -> RequestData]
        /\ m_writeRequests[id] \in RequestData
    BY <2>1 DEF TypeOK
  <2>4. CASE ReplyWritePartIMP(id, i)
    <3>1. locations \in Seq(BlockLocation)
      BY <2>3 DEF RequestData
    <3>2. EraseAt(locations, i) \in Seq(BlockLocation)
      BY <3>1, EraseAtType
    <3>3. m_writeRequests' = [m_writeRequests EXCEPT ![id].blockLocations = EraseAt(locations, i)]
      BY <2>4 DEF ReplyWritePartIMP
    <3> HIDE DEF locations
    <3>4. m_writeRequests' \in [DOMAIN m_writeRequests -> RequestData]
      BY <2>3, <3>2, <3>3 DEF RequestData
    <3> QED BY <2>3, <2>4, <3>4 DEF ReplyWritePartIMP, TypeOK, timerVars, eventVars
  <2>5. CASE ReplyWriteLastIMP(id) /\ AssertFails
    BY <2>5, AssertFailsType
  <2>6. CASE ReplyWriteLastIMP(id) /\ ~AssertFails
    <3>1. /\ m_writeRequests' = Erase(m_writeRequests, id)
          /\ Cancel(m_writeRequests[id].handle)
          /\ NbdReply(id)
          /\ UNCHANGED <<m_readRequests, eventVars, sent, aborted>>
      BY <2>6 DEF ReplyWriteLastIMP
    <3>2. /\ DOMAIN m_writeRequests' \subseteq IDs
          /\ m_writeRequests' \in [DOMAIN m_writeRequests' -> RequestData]
      BY <2>3, <3>1, EraseType
    <3> QED BY <3>1, <3>2, CancelType, NbdReplyType DEF TypeOK, eventVars
  <2> QED BY <2>2, <2>4, <2>5, <2>6
<1>7. ASSUME NEW t \in m_callBacks, CallBackWrapper(t) PROVE TypeOK'
  <2>0. t.id \in IDs
    BY DEF TypeOK
  <2>1. CASE AssertFails
    BY <2>1, AssertFailsType
  <2>2. CASE t.id \in DOMAIN m_readRequests /\ ~AssertFails
    <3>1. /\ SendReadRequestsIMP(t.id, m_readRequests[t.id], {t})
          /\ UNCHANGED <<eventVars, nbd, aborted>>
      BY <1>7, <2>2 DEF CallBackWrapper, OnTimerIMP
    <3>2. m_readRequests[t.id] \in RequestData /\ nbd' \in [IDs -> NbdState]
      BY <2>2, <3>1 DEF TypeOK
    <3> QED BY <2>0, <3>1, <3>2, SendReadType
  <2>3. CASE t.id \in DOMAIN m_writeRequests \ DOMAIN m_readRequests
    <3>1. /\ SendWriteRequestsIMP(t.id, m_writeRequests[t.id], {t})
          /\ UNCHANGED <<eventVars, nbd, aborted>>
      BY <1>7, <2>3 DEF CallBackWrapper, OnTimerIMP
    <3>2. m_writeRequests[t.id] \in RequestData
      BY <2>3 DEF TypeOK
    <3>3. m_readRequests' = m_readRequests
      BY <3>1 DEF SendWriteRequestsIMP
    <3> QED BY <2>0, <3>1, <3>2, <3>3, SendWriteType DEF TypeOK, eventVars
  <2>4. CASE t.id \notin DOMAIN m_readRequests \cup DOMAIN m_writeRequests
    BY <1>7, <2>4 DEF CallBackWrapper, OnTimerIMP, TypeOK, requestVars, eventVars
  <2> QED BY <2>1, <2>2, <2>3, <2>4
<1>8. CASE UNCHANGED mVars
  BY <1>8 DEF TypeOK, mVars, requestVars, timerVars, eventVars
<1> QED BY <1>1, <1>2, <1>3, <1>4, <1>5, <1>6, <1>7, <1>8 DEF Next

\* The maps, the timers, the events and the kernel's handles always have the
\* shapes the classes Master, Timer and Eventer give them.
THEOREM TypeCorrect == Spec => []TypeOK
  BY InitTypeOK, NextTypeOK, PTL DEF Spec

---------------------------------------------------------------------------
(* The inductive invariant *)

Own(map, id) == [handle |-> map[id].handle, id |-> id]

\* Handles are given out once, in increasing order.
TimersInOrder ==
    /\ \A t \in m_callBacks : t.handle < m_handleCounter
    /\ \A t, u \in m_callBacks : t.handle = u.handle => t = u

\* A request that waits for minions has the timer whose handle it remembers ...
ReadsArmed == \A id \in DOMAIN m_readRequests : Own(m_readRequests, id) \in m_callBacks
WritesArmed ==
    \A id \in DOMAIN m_writeRequests :
        ~HasEvent("Encrypt", id) => Own(m_writeRequests, id) \in m_callBacks

\* ... and every timer is that of such a request.
TimersOwned ==
    \A t \in m_callBacks :
        \/ t.id \in DOMAIN m_readRequests /\ t = Own(m_readRequests, t.id)
        \/ /\ t.id \in DOMAIN m_writeRequests /\ t = Own(m_writeRequests, t.id)
           /\ ~HasEvent("Encrypt", t.id)

\* A write being encrypted is mapped, and nothing was sent for it: no reply can
\* empty its vector before it has a timer to cancel.
EncryptedIsUnsent ==
    \A id \in IDs : HasEvent("Encrypt", id) =>
        /\ id \in DOMAIN m_writeRequests
        /\ \A r \in sent : ~(r.type = "WRITE" /\ r.id = id)

\* Each request has at most one event, and the pipe holds each event once.
EventsUnique ==
    /\ \A h \in DOMAIN m_events : h < m_eventCounter
    /\ \A g, h \in DOMAIN m_events : m_events[g].id = m_events[h].id => g = h
PipeKnown ==
    /\ \A i \in DOMAIN m_pipe : m_pipe[i] \in DOMAIN m_events
    /\ \A i, j \in DOMAIN m_pipe : m_pipe[i] = m_pipe[j] => i = j

\* Nothing was sent for a handle the kernel has not used.
SentIsIssued == \A r \in sent : nbd[r.id] # "free"

\* PendingIsHeldOnce, one handle at a time.
Held ==
    \A id \in IDs :
        /\ ~(id \in DOMAIN m_readRequests /\ id \in DOMAIN m_writeRequests)
        /\ HasEvent("Decrypt", id) =>
               id \notin DOMAIN m_readRequests /\ id \notin DOMAIN m_writeRequests
        /\ nbd[id] = "pending" <=>
               \/ id \in DOMAIN m_readRequests
               \/ id \in DOMAIN m_writeRequests
               \/ HasEvent("Decrypt", id)

IInv ==
    /\ TypeOK
    /\ TimersInOrder
    /\ ReadsArmed
    /\ WritesArmed
    /\ TimersOwned
    /\ EncryptedIsUnsent
    /\ EventsUnique
    /\ PipeKnown
    /\ SentIsIssued
    /\ Held
    /\ NoUnmatchedNbdReply
    /\ NoAssertFails
---------------------------------------------------------------------------
(* Events *)

\* The handles in use are below the counter.
LEMMA EventsBelow ==
    ASSUME IInv
    PROVE  /\ \A h \in DOMAIN m_events : h < m_eventCounter /\ h \in Nat
           /\ m_eventCounter \in Nat
<1>1. Handle \subseteq Nat
  BY MasterAssumption DEF Handle
<1>2. DOMAIN m_events \subseteq Handle /\ m_eventCounter \in Handle
  BY DEF IInv, TypeOK
<1>3. \A h \in DOMAIN m_events : h < m_eventCounter
  BY DEF IInv, EventsUnique
<1> QED BY <1>1, <1>2, <1>3

\* Setting an event adds it and no other.
LEMMA EventSet ==
    ASSUME IInv, NEW type \in {"Encrypt", "Decrypt"}, NEW id \in IDs,
           SendTaskToThreadPoolIMP(type, id)
    PROVE  \A ty \in {"Encrypt", "Decrypt"}, k \in IDs :
               HasEvent(ty, k)' <=> HasEvent(ty, k) \/ (ty = type /\ k = id)
<1> DEFINE c == m_eventCounter
           e == [type |-> type, id |-> id]
<1>1. c \notin DOMAIN m_events
  BY EventsBelow
<1>0. m_events' = Put(m_events, c, e)
  BY DEF SendTaskToThreadPoolIMP, SetEvent
<1>3. \A ty \in {"Encrypt", "Decrypt"}, k \in IDs :
        e = [type |-> ty, id |-> k] <=> ty = type /\ k = id
  OBVIOUS
<1> HIDE DEF c, e
<1>2. /\ DOMAIN m_events' = DOMAIN m_events \cup {c}
      /\ m_events'[c] = e
      /\ \A h \in DOMAIN m_events : m_events'[h] = m_events[h]
  BY <1>0, <1>1 DEF Put
<1> QED BY <1>1, <1>2, <1>3 DEF HasEvent

\* ... and keeps the events unique when the request had none.
LEMMA EventSetUnique ==
    ASSUME IInv, NEW type \in {"Encrypt", "Decrypt"}, NEW id \in IDs,
           SendTaskToThreadPoolIMP(type, id),
           ~HasEvent("Encrypt", id), ~HasEvent("Decrypt", id)
    PROVE  EventsUnique' /\ PipeKnown'
<1> DEFINE c == m_eventCounter
<1>1. \A h \in DOMAIN m_events : h < c /\ h \in Nat
  BY EventsBelow
<1>2. c \in Nat /\ m_eventCounter' = c + 1 /\ m_pipe' = m_pipe
  BY EventsBelow DEF SendTaskToThreadPoolIMP, SetEvent
<1>3. /\ DOMAIN m_events' = DOMAIN m_events \cup {c}
      /\ m_events'[c].id = id
      /\ \A h \in DOMAIN m_events : m_events'[h] = m_events[h]
  <2> DEFINE e == [type |-> type, id |-> id]
  <2>1. m_events' = Put(m_events, c, e) /\ e.id = id
    BY DEF SendTaskToThreadPoolIMP, SetEvent
  <2> HIDE DEF e, c
  <2> QED BY <1>1, <2>1 DEF Put
<1>4. \A h \in DOMAIN m_events : m_events[h].id # id
  <2> SUFFICES ASSUME NEW h \in DOMAIN m_events, m_events[h].id = id PROVE FALSE
    OBVIOUS
  <2>1. m_events[h] \in Event
    BY DEF IInv, TypeOK
  <2>2. m_events[h] = [type |-> "Encrypt", id |-> id] \/ m_events[h] = [type |-> "Decrypt", id |-> id]
    BY <2>1 DEF Event
  <2> QED BY <2>2 DEF HasEvent
<1>5. EventsUnique'
  BY <1>1, <1>2, <1>3, <1>4 DEF IInv, EventsUnique
<1>6. PipeKnown'
  BY <1>2, <1>3 DEF IInv, PipeKnown
<1> QED BY <1>5, <1>6

\* The event at the head of the pipe is the only one of its request.
LEMMA EventFinished ==
    ASSUME IInv, m_pipe # << >>, m_events' = Erase(m_events, Head(m_pipe)),
           m_pipe' = Tail(m_pipe), m_eventCounter' = m_eventCounter
    PROVE  /\ EventsUnique' /\ PipeKnown'
           /\ \A ty \in {"Encrypt", "Decrypt"}, k \in IDs :
                HasEvent(ty, k)' <=> HasEvent(ty, k) /\ k # m_events[Head(m_pipe)].id
<1> DEFINE x == Head(m_pipe)
<1>0. m_pipe \in Seq(Handle)
  BY DEF IInv, TypeOK
<1>1. x = m_pipe[1] /\ 1 \in DOMAIN m_pipe
  BY <1>0
<1>2. x \in DOMAIN m_events
  BY <1>1 DEF IInv, PipeKnown
<1>3. /\ DOMAIN m_events' = DOMAIN m_events \ {x}
      /\ \A h \in DOMAIN m_events : h # x => m_events'[h] = m_events[h]
  BY EraseMap
<1>4. EventsUnique'
  BY <1>3 DEF IInv, EventsUnique
<1>5. \A i \in DOMAIN m_pipe' : i + 1 \in DOMAIN m_pipe /\ m_pipe'[i] = m_pipe[i + 1] /\ i \in Nat /\ i # 0
  BY <1>0
<1>6. PipeKnown'
  <2>1. \A i \in DOMAIN m_pipe' : m_pipe'[i] \in DOMAIN m_events /\ m_pipe'[i] # x
    <3> SUFFICES ASSUME NEW i \in DOMAIN m_pipe'
                 PROVE  m_pipe'[i] \in DOMAIN m_events /\ m_pipe'[i] # x
      OBVIOUS
    <3>1. i + 1 \in DOMAIN m_pipe /\ m_pipe'[i] = m_pipe[i + 1] /\ i + 1 # 1
      BY <1>5
    <3>2. m_pipe[i + 1] \in DOMAIN m_events
      BY <3>1 DEF IInv, PipeKnown
    <3>3. m_pipe[i + 1] # m_pipe[1]
      BY <1>1, <3>1 DEF IInv, PipeKnown
    <3> QED BY <1>1, <3>1, <3>2, <3>3
  <2>2. \A i, j \in DOMAIN m_pipe' : m_pipe'[i] = m_pipe'[j] => i = j
    <3> SUFFICES ASSUME NEW i \in DOMAIN m_pipe', NEW j \in DOMAIN m_pipe',
                        m_pipe'[i] = m_pipe'[j]
                 PROVE  i = j
      OBVIOUS
    <3>1. /\ i + 1 \in DOMAIN m_pipe /\ j + 1 \in DOMAIN m_pipe
          /\ m_pipe[i + 1] = m_pipe[j + 1]
          /\ i \in Nat /\ j \in Nat
      BY <1>5
    <3>2. i + 1 = j + 1
      BY <3>1 DEF IInv, PipeKnown
    <3> QED BY <3>1, <3>2
  <2> QED BY <1>3, <2>1, <2>2 DEF PipeKnown
<1>7. ASSUME NEW ty \in {"Encrypt", "Decrypt"}, NEW k \in IDs
      PROVE  HasEvent(ty, k)' <=> HasEvent(ty, k) /\ k # m_events[x].id
  <2> DEFINE e == [type |-> ty, id |-> k]
  <2>0. e.id = k
    OBVIOUS
  <2> HIDE DEF e
  <2>1. ASSUME NEW h \in DOMAIN m_events', m_events'[h] = e
        PROVE  h \in DOMAIN m_events /\ m_events[h] = e /\ k # m_events[x].id
    <3>1. h \in DOMAIN m_events /\ h # x /\ m_events[h] = e
      BY <1>3, <2>1
    <3>2. m_events[h].id # m_events[x].id
      BY <1>2, <3>1 DEF IInv, EventsUnique
    <3> QED BY <2>0, <3>1, <3>2
  <2>2. ASSUME NEW h \in DOMAIN m_events, m_events[h] = e, k # m_events[x].id
        PROVE  h \in DOMAIN m_events' /\ m_events'[h] = e
    BY <1>3, <2>0, <2>2
  <2> QED BY <2>1, <2>2 DEF HasEvent, e
<1> QED BY <1>4, <1>6, <1>7

\* Nothing about the events changes with the map unchanged.
LEMMA EventSame ==
    ASSUME UNCHANGED m_events
    PROVE  \A ty, k : HasEvent(ty, k)' <=> HasEvent(ty, k)
  BY DEF HasEvent

\* ... nor about their uniqueness and the pipe.
LEMMA EventsKept ==
    ASSUME IInv, UNCHANGED eventVars
    PROVE  EventsUnique' /\ PipeKnown'
  BY DEF IInv, EventsUnique, PipeKnown, eventVars

---------------------------------------------------------------------------
(* Timers *)

\* Handles are numbers.
LEMMA CounterIsNat ==
    ASSUME IInv
    PROVE  /\ m_handleCounter \in Nat
           /\ \A t \in m_callBacks : t.handle \in Nat /\ t.id \in IDs
<1>1. Handle \subseteq Nat
  BY MasterAssumption DEF Handle
<1>2. m_callBacks \subseteq [handle : Handle, id : IDs] /\ m_handleCounter \in Handle
  BY DEF IInv, TypeOK
<1> QED BY <1>1, <1>2

\* Setting a timer keeps the handles in order; its handle is new.
LEMMA TimerSet ==
    ASSUME IInv, NEW id \in IDs, NEW expired, SetTimerIMP(id, expired)
    PROVE  /\ TimersInOrder'
           /\ \A t \in m_callBacks : t.handle # m_handleCounter
<1> DEFINE c == m_handleCounter
           new == [handle |-> c, id |-> id]
<1>1. /\ m_callBacks' = (m_callBacks \ expired) \cup {new}
      /\ m_handleCounter' = c + 1
  BY DEF SetTimerIMP
<1>2. c \in Nat /\ \A t \in m_callBacks : t.handle \in Nat /\ t.handle < c
  BY CounterIsNat DEF IInv, TimersInOrder
<1>3. new.handle = c
  OBVIOUS
<1> HIDE DEF new, c
<1>4. \A t, u \in m_callBacks : t.handle = u.handle => t = u
  BY DEF IInv, TimersInOrder
<1>5. TimersInOrder'
  BY <1>1, <1>2, <1>3, <1>4 DEF TimersInOrder
<1> QED BY <1>2, <1>5 DEF c

\* Sending a read, for the first time or again, moves its request to the new
\* timer and leaves those of the others alone.
LEMMA ReadSent ==
    ASSUME IInv, NEW id \in IDs, NEW request \in RequestData, NEW expired,
           SendReadRequestsIMP(id, request, expired), UNCHANGED m_events,
           id \notin DOMAIN m_writeRequests,
           \A t \in expired : t.id = id,
           \A t \in m_callBacks \ expired : t.id # id
    PROVE  /\ DOMAIN m_readRequests' = DOMAIN m_readRequests \cup {id}
           /\ TimersInOrder' /\ ReadsArmed' /\ WritesArmed' /\ TimersOwned'
<1> DEFINE c == m_handleCounter
           new == [handle |-> c, id |-> id]
           entry == [request EXCEPT !.handle = c]
<1>1. /\ m_callBacks' = (m_callBacks \ expired) \cup {new}
      /\ m_readRequests' = Put(m_readRequests, id, entry)
      /\ m_writeRequests' = m_writeRequests
      /\ SetTimerIMP(id, expired)
  BY DEF SendReadRequestsIMP, SetTimerIMP
<1>2. entry.handle = c /\ new.id = id
  BY DEF RequestData
<1> HIDE DEF entry
<1>3. /\ DOMAIN m_readRequests' = DOMAIN m_readRequests \cup {id}
      /\ m_readRequests'[id] = entry
      /\ \A k \in DOMAIN m_readRequests : k # id => m_readRequests'[k] = m_readRequests[k]
  BY <1>1 DEF Put
<1>4. Own(m_readRequests, id)' = new
  BY <1>2, <1>3 DEF Own
<1>5. \A k \in DOMAIN m_readRequests : k # id => Own(m_readRequests, k)' = Own(m_readRequests, k)
  BY <1>3 DEF Own
<1>6. \A k : Own(m_writeRequests, k)' = Own(m_writeRequests, k)
  BY <1>1 DEF Own
<1>7. \A k : Own(m_readRequests, k).id = k /\ Own(m_writeRequests, k).id = k
  BY DEF Own
<1> HIDE DEF new
<1>8. TimersInOrder'
  BY <1>1, TimerSet
<1>9. ReadsArmed'
  <2> SUFFICES ASSUME NEW k \in DOMAIN m_readRequests' PROVE Own(m_readRequests, k)' \in m_callBacks'
    BY DEF ReadsArmed
  <2>1. CASE k = id
    BY <1>1, <1>4, <2>1
  <2>2. CASE k # id
    <3>1. k \in DOMAIN m_readRequests
      BY <1>3, <2>2
    <3>2. Own(m_readRequests, k) \in m_callBacks
      BY <3>1 DEF IInv, ReadsArmed
    <3> QED BY <1>1, <1>5, <1>7, <2>2, <3>1, <3>2
  <2> QED BY <2>1, <2>2
<1>10. WritesArmed'
  <2> SUFFICES ASSUME NEW k \in DOMAIN m_writeRequests', ~HasEvent("Encrypt", k)'
               PROVE Own(m_writeRequests, k)' \in m_callBacks'
    BY DEF WritesArmed
  <2>1. k \in DOMAIN m_writeRequests /\ ~HasEvent("Encrypt", k)
    BY <1>1, EventSame
  <2>2. Own(m_writeRequests, k) \in m_callBacks
    BY <2>1 DEF IInv, WritesArmed
  <2> QED BY <1>1, <1>6, <1>7, <2>1, <2>2
<1>11. TimersOwned'
  <2> SUFFICES ASSUME NEW t \in m_callBacks'
               PROVE  \/ t.id \in DOMAIN m_readRequests' /\ t = Own(m_readRequests, t.id)'
                      \/ /\ t.id \in DOMAIN m_writeRequests' /\ t = Own(m_writeRequests, t.id)'
                         /\ ~HasEvent("Encrypt", t.id)'
    BY DEF TimersOwned
  <2>1. CASE t = new
    BY <1>2, <1>3, <1>4, <2>1
  <2>2. CASE t # new
    <3>1. t \in m_callBacks /\ t.id # id
      BY <1>1, <2>2
    <3>2. \/ t.id \in DOMAIN m_readRequests /\ t = Own(m_readRequests, t.id)
          \/ /\ t.id \in DOMAIN m_writeRequests /\ t = Own(m_writeRequests, t.id)
             /\ ~HasEvent("Encrypt", t.id)
      BY <3>1 DEF IInv, TimersOwned
    <3> QED BY <1>1, <1>3, <1>5, <1>6, <3>1, <3>2, EventSame
  <2> QED BY <2>1, <2>2
<1> QED BY <1>3, <1>8, <1>9, <1>10, <1>11

\* The encryption of id, if there was one, ends in this step, and no other.
EndsEncryption(id) ==
    \A k \in IDs : HasEvent("Encrypt", k)' <=> HasEvent("Encrypt", k) /\ k # id

\* Sending a write likewise; from then on it is not being encrypted any more.
LEMMA WriteSent ==
    ASSUME IInv, NEW id \in IDs, NEW request \in RequestData, NEW expired,
           SendWriteRequestsIMP(id, request, expired),
           EndsEncryption(id), id \notin DOMAIN m_readRequests,
           \A t \in expired : t.id = id,
           \A t \in m_callBacks \ expired : t.id # id
    PROVE  /\ DOMAIN m_writeRequests' = DOMAIN m_writeRequests \cup {id}
           /\ TimersInOrder' /\ ReadsArmed' /\ WritesArmed' /\ TimersOwned'
<1> DEFINE c == m_handleCounter
           new == [handle |-> c, id |-> id]
           entry == [request EXCEPT !.handle = c]
<1>0. \A k \in IDs : HasEvent("Encrypt", k)' <=> HasEvent("Encrypt", k) /\ k # id
  BY DEF EndsEncryption
<1>1. /\ m_callBacks' = (m_callBacks \ expired) \cup {new}
      /\ m_writeRequests' = Put(m_writeRequests, id, entry)
      /\ m_readRequests' = m_readRequests
      /\ SetTimerIMP(id, expired)
  BY DEF SendWriteRequestsIMP, SetTimerIMP
<1>2. entry.handle = c /\ new.id = id
  BY DEF RequestData
<1> HIDE DEF entry
<1>3. /\ DOMAIN m_writeRequests' = DOMAIN m_writeRequests \cup {id}
      /\ m_writeRequests'[id] = entry
      /\ \A k \in DOMAIN m_writeRequests : k # id => m_writeRequests'[k] = m_writeRequests[k]
  BY <1>1 DEF Put
<1>4. Own(m_writeRequests, id)' = new
  BY <1>2, <1>3 DEF Own
<1>5. \A k \in DOMAIN m_writeRequests : k # id => Own(m_writeRequests, k)' = Own(m_writeRequests, k)
  BY <1>3 DEF Own
<1>6. \A k : Own(m_readRequests, k)' = Own(m_readRequests, k)
  BY <1>1 DEF Own
<1>7. \A k : Own(m_readRequests, k).id = k /\ Own(m_writeRequests, k).id = k
  BY DEF Own
<1> HIDE DEF new
<1>8. TimersInOrder'
  BY <1>1, TimerSet
<1>9. ReadsArmed'
  <2> SUFFICES ASSUME NEW k \in DOMAIN m_readRequests' PROVE Own(m_readRequests, k)' \in m_callBacks'
    BY DEF ReadsArmed
  <2>1. k \in DOMAIN m_readRequests /\ k # id
    BY <1>1
  <2>2. Own(m_readRequests, k) \in m_callBacks
    BY <2>1 DEF IInv, ReadsArmed
  <2> QED BY <1>1, <1>6, <1>7, <2>1, <2>2
<1>10. DOMAIN m_writeRequests \subseteq IDs
  BY DEF IInv, TypeOK
<1>11. WritesArmed'
  <2> SUFFICES ASSUME NEW k \in DOMAIN m_writeRequests', ~HasEvent("Encrypt", k)'
               PROVE Own(m_writeRequests, k)' \in m_callBacks'
    BY DEF WritesArmed
  <2>1. CASE k = id
    BY <1>1, <1>4, <2>1
  <2>2. CASE k # id
    <3>1. k \in DOMAIN m_writeRequests /\ ~HasEvent("Encrypt", k)
      BY <1>0, <1>3, <1>10, <2>2
    <3>2. Own(m_writeRequests, k) \in m_callBacks
      BY <3>1 DEF IInv, WritesArmed
    <3> QED BY <1>1, <1>5, <1>7, <2>2, <3>1, <3>2
  <2> QED BY <2>1, <2>2
<1>12. TimersOwned'
  <2> SUFFICES ASSUME NEW t \in m_callBacks'
               PROVE  \/ t.id \in DOMAIN m_readRequests' /\ t = Own(m_readRequests, t.id)'
                      \/ /\ t.id \in DOMAIN m_writeRequests' /\ t = Own(m_writeRequests, t.id)'
                         /\ ~HasEvent("Encrypt", t.id)'
    BY DEF TimersOwned
  <2>1. CASE t = new
    BY <1>0, <1>2, <1>3, <1>4, <2>1
  <2>2. CASE t # new
    <3>1. t \in m_callBacks /\ t.id # id
      BY <1>1, <2>2
    <3>2. \/ t.id \in DOMAIN m_readRequests /\ t = Own(m_readRequests, t.id)
          \/ /\ t.id \in DOMAIN m_writeRequests /\ t = Own(m_writeRequests, t.id)
             /\ ~HasEvent("Encrypt", t.id)
      BY <3>1 DEF IInv, TimersOwned
    <3> QED BY <1>0, <1>1, <1>3, <1>5, <1>6, <1>10, <3>1, <3>2
  <2> QED BY <2>1, <2>2
<1> QED BY <1>3, <1>8, <1>9, <1>11, <1>12

\* Cancelling by handle removes one timer, the request's own.
LEMMA TimerCancelled ==
    ASSUME IInv, NEW own \in m_callBacks, Cancel(own.handle)
    PROVE  m_callBacks' = m_callBacks \ {own} /\ TimersInOrder'
<1>1. \A t \in m_callBacks : t.handle = own.handle => t = own
  BY DEF IInv, TimersInOrder
<1>2. m_callBacks' = {t \in m_callBacks : t.handle # own.handle} /\ m_handleCounter' = m_handleCounter
  BY DEF Cancel
<1>3. m_callBacks' = m_callBacks \ {own}
  BY <1>1, <1>2
<1> QED BY <1>2, <1>3 DEF IInv, TimersInOrder

\* With its timer gone, a request that leaves the map takes nothing along.
LEMMA ReadAnswered ==
    ASSUME IInv, NEW id \in DOMAIN m_readRequests,
           m_readRequests' = Erase(m_readRequests, id), UNCHANGED m_writeRequests,
           Cancel(m_readRequests[id].handle),
           \A k \in IDs : HasEvent("Encrypt", k)' <=> HasEvent("Encrypt", k)
    PROVE  /\ DOMAIN m_readRequests' = DOMAIN m_readRequests \ {id}
           /\ TimersInOrder' /\ ReadsArmed' /\ WritesArmed' /\ TimersOwned'
<1> DEFINE own == Own(m_readRequests, id)
<1>1. own \in m_callBacks
  BY DEF IInv, ReadsArmed
<1>2. own.id = id /\ own.handle = m_readRequests[id].handle
  BY DEF Own
<1> HIDE DEF own
<1>3. m_callBacks' = m_callBacks \ {own} /\ TimersInOrder'
  BY <1>1, <1>2, TimerCancelled
<1>4. /\ DOMAIN m_readRequests' = DOMAIN m_readRequests \ {id}
      /\ \A k \in DOMAIN m_readRequests : k # id => m_readRequests'[k] = m_readRequests[k]
  BY DEF Erase
<1>5. /\ \A k \in DOMAIN m_readRequests : k # id => Own(m_readRequests, k)' = Own(m_readRequests, k)
      /\ \A k : Own(m_writeRequests, k)' = Own(m_writeRequests, k)
      /\ \A k : Own(m_readRequests, k).id = k /\ Own(m_writeRequests, k).id = k
  BY <1>4 DEF Own
<1>6. DOMAIN m_writeRequests \subseteq IDs /\ id \in IDs
  BY DEF IInv, TypeOK
<1>7. id \notin DOMAIN m_writeRequests
  BY <1>6 DEF IInv, Held
<1>8. ReadsArmed'
  BY <1>2, <1>3, <1>4, <1>5 DEF IInv, ReadsArmed
<1>9. WritesArmed'
  BY <1>2, <1>3, <1>5, <1>6, <1>7 DEF IInv, WritesArmed
<1>10. TimersOwned'
  <2> SUFFICES ASSUME NEW t \in m_callBacks'
               PROVE  \/ t.id \in DOMAIN m_readRequests' /\ t = Own(m_readRequests, t.id)'
                      \/ /\ t.id \in DOMAIN m_writeRequests' /\ t = Own(m_writeRequests, t.id)'
                         /\ ~HasEvent("Encrypt", t.id)'
    BY DEF TimersOwned
  <2>1. t \in m_callBacks /\ t # own
    BY <1>3
  <2>2. \/ t.id \in DOMAIN m_readRequests /\ t = Own(m_readRequests, t.id)
        \/ /\ t.id \in DOMAIN m_writeRequests /\ t = Own(m_writeRequests, t.id)
           /\ ~HasEvent("Encrypt", t.id)
    BY <2>1 DEF IInv, TimersOwned
  <2>3. t.id \in DOMAIN m_readRequests /\ t = Own(m_readRequests, t.id) => t.id # id
    BY <2>1 DEF own
  <2> QED BY <1>4, <1>5, <1>6, <2>2, <2>3
<1> QED BY <1>3, <1>4, <1>8, <1>9, <1>10

\* Likewise for a write that was sent.
LEMMA WriteAnswered ==
    ASSUME IInv, NEW id \in DOMAIN m_writeRequests, ~HasEvent("Encrypt", id),
           m_writeRequests' = Erase(m_writeRequests, id), UNCHANGED <<m_readRequests, m_events>>,
           Cancel(m_writeRequests[id].handle)
    PROVE  /\ DOMAIN m_writeRequests' = DOMAIN m_writeRequests \ {id}
           /\ TimersInOrder' /\ ReadsArmed' /\ WritesArmed' /\ TimersOwned'
<1> DEFINE own == Own(m_writeRequests, id)
<1>1. own \in m_callBacks
  BY DEF IInv, WritesArmed
<1>2. own.id = id /\ own.handle = m_writeRequests[id].handle
  BY DEF Own
<1> HIDE DEF own
<1>3. m_callBacks' = m_callBacks \ {own} /\ TimersInOrder'
  BY <1>1, <1>2, TimerCancelled
<1>4. /\ DOMAIN m_writeRequests' = DOMAIN m_writeRequests \ {id}
      /\ \A k \in DOMAIN m_writeRequests : k # id => m_writeRequests'[k] = m_writeRequests[k]
  BY DEF Erase
<1>5. /\ \A k \in DOMAIN m_writeRequests : k # id => Own(m_writeRequests, k)' = Own(m_writeRequests, k)
      /\ \A k : Own(m_readRequests, k)' = Own(m_readRequests, k)
      /\ \A k : Own(m_readRequests, k).id = k /\ Own(m_writeRequests, k).id = k
  BY <1>4 DEF Own
<1>6. id \in IDs
  BY DEF IInv, TypeOK
<1>7. id \notin DOMAIN m_readRequests
  BY <1>6 DEF IInv, Held
<1>8. \A k : HasEvent("Encrypt", k)' <=> HasEvent("Encrypt", k)
  BY EventSame
<1>9. ReadsArmed'
  BY <1>2, <1>3, <1>5, <1>7 DEF IInv, ReadsArmed
<1>10. WritesArmed'
  BY <1>2, <1>3, <1>4, <1>5, <1>8 DEF IInv, WritesArmed
<1>11. TimersOwned'
  <2> SUFFICES ASSUME NEW t \in m_callBacks'
               PROVE  \/ t.id \in DOMAIN m_readRequests' /\ t = Own(m_readRequests, t.id)'
                      \/ /\ t.id \in DOMAIN m_writeRequests' /\ t = Own(m_writeRequests, t.id)'
                         /\ ~HasEvent("Encrypt", t.id)'
    BY DEF TimersOwned
  <2>1. t \in m_callBacks /\ t # own
    BY <1>3
  <2>2. \/ t.id \in DOMAIN m_readRequests /\ t = Own(m_readRequests, t.id)
        \/ /\ t.id \in DOMAIN m_writeRequests /\ t = Own(m_writeRequests, t.id)
           /\ ~HasEvent("Encrypt", t.id)
    BY <2>1 DEF IInv, TimersOwned
  <2>3. t.id \in DOMAIN m_writeRequests /\ t = Own(m_writeRequests, t.id) => t.id # id
    BY <2>1 DEF own
  <2> QED BY <1>4, <1>5, <1>8, <2>2, <2>3
<1> QED BY <1>3, <1>4, <1>9, <1>10, <1>11

---------------------------------------------------------------------------
(* The inductive invariant, action by action *)

\* It holds of a Master just constructed.
LEMMA InitIInv == Init => IInv
<1> SUFFICES ASSUME Init PROVE IInv
  OBVIOUS
<1>1. /\ DOMAIN m_readRequests = {} /\ DOMAIN m_writeRequests = {} /\ DOMAIN m_events = {}
      /\ m_callBacks = {} /\ sent = {}
  BY DEF Init
<1>2. \A ty, k : ~HasEvent(ty, k)
  BY <1>1 DEF HasEvent
<1>3. \A id \in IDs : nbd[id] = "free"
  BY DEF Init
<1>4. TimersInOrder /\ ReadsArmed /\ WritesArmed /\ TimersOwned /\ SentIsIssued
  BY <1>1 DEF TimersInOrder, ReadsArmed, WritesArmed, TimersOwned, SentIsIssued
<1>5. EncryptedIsUnsent /\ Held /\ NoUnmatchedNbdReply
  BY <1>1, <1>2, <1>3 DEF EncryptedIsUnsent, Held, NoUnmatchedNbdReply
<1>6. EventsUnique
  BY <1>1 DEF EventsUnique
<1>7. PipeKnown
  <2>1. m_pipe = << >>
    BY DEF Init
  <2>2. DOMAIN m_pipe = {}
    BY <2>1
  <2> QED BY <2>2 DEF PipeKnown
<1>8. NoAssertFails
  BY DEF Init, NoAssertFails
<1> QED BY <1>4, <1>5, <1>6, <1>7, <1>8, InitTypeOK DEF IInv

\* A handle the kernel may use, when it uses none twice, is known to nobody.
LEMMA FreshHandle ==
    ASSUME IInv, ReuseIds = FALSE, NEW id \in IDs, CanIssue(id)
    PROVE  /\ nbd[id] = "free"
           /\ id \notin DOMAIN m_readRequests
           /\ id \notin DOMAIN m_writeRequests
           /\ ~HasEvent("Encrypt", id) /\ ~HasEvent("Decrypt", id)
           /\ \A t \in m_callBacks : t.id # id
           /\ \A r \in sent : r.id # id
<1>1. nbd[id] = "free"
  BY DEF CanIssue
<1>2. /\ id \notin DOMAIN m_readRequests
      /\ id \notin DOMAIN m_writeRequests
      /\ ~HasEvent("Decrypt", id)
  BY <1>1 DEF IInv, Held
<1>3. ~HasEvent("Encrypt", id)
  BY <1>2 DEF IInv, EncryptedIsUnsent
<1>4. \A t \in m_callBacks : t.id # id
  BY <1>2 DEF IInv, TimersOwned
<1>5. \A r \in sent : r.id # id
  BY <1>1 DEF IInv, SentIsIssued
<1> QED BY <1>1, <1>2, <1>3, <1>4, <1>5

\* Master::Read keeps the invariant.
LEMMA ReadIInv ==
    ASSUME IInv, TypeOK', ReuseIds = FALSE, NEW id \in IDs, NEW blk \in Blocks, Read(id, blk)
    PROVE  IInv'
<1> DEFINE request == ProcessRequestIMP(blk)
<1>1. /\ id \notin DOMAIN m_readRequests /\ id \notin DOMAIN m_writeRequests
      /\ ~HasEvent("Encrypt", id) /\ ~HasEvent("Decrypt", id)
      /\ \A t \in m_callBacks : t.id # id
      /\ nbd[id] = "free"
  BY FreshHandle DEF Read
<1>2. request \in RequestData
  BY ProcessRequestType
<1>3. /\ SendReadRequestsIMP(id, request, {})
      /\ nbd' = [nbd EXCEPT ![id] = "pending"]
      /\ m_events' = m_events /\ aborted' = aborted
      /\ UNCHANGED eventVars
  BY <1>1 DEF Read, eventVars
<1> HIDE DEF request
<1>4. /\ DOMAIN m_readRequests' = DOMAIN m_readRequests \cup {id}
      /\ TimersInOrder' /\ ReadsArmed' /\ WritesArmed' /\ TimersOwned'
  BY <1>1, <1>2, <1>3, ReadSent
<1>5. /\ m_writeRequests' = m_writeRequests
      /\ sent' = sent \cup Requests("READ", id, request.blockLocations)
  BY <1>3 DEF SendReadRequestsIMP
<1>6. \A r \in sent' : r \in sent \/ (r.type = "READ" /\ r.id = id)
  <2>1. request.blockLocations \in Seq(BlockLocation)
    BY <1>2 DEF RequestData
  <2> QED BY <1>5, <2>1, RequestsType DEF RequestType
<1>7. \A ty, k : HasEvent(ty, k)' <=> HasEvent(ty, k)
  BY <1>3, EventSame
<1>8. nbd \in [IDs -> NbdState] /\ sent \subseteq Request
  BY DEF IInv, TypeOK
<1>9. nbd'[id] = "pending" /\ \A k \in IDs : k # id => nbd'[k] = nbd[k]
  BY <1>3, <1>8
<1>10. EncryptedIsUnsent'
  BY <1>5, <1>6, <1>7 DEF IInv, EncryptedIsUnsent
<1>11. SentIsIssued'
  <2>1. \A r \in sent : r.id \in IDs
    BY <1>8 DEF Request
  <2> QED BY <1>6, <1>9, <2>1 DEF IInv, SentIsIssued
<1>12. Held'
  BY <1>1, <1>4, <1>5, <1>7, <1>9 DEF IInv, Held
<1>13. NoUnmatchedNbdReply'
  BY <1>9 DEF IInv, NoUnmatchedNbdReply
<1>14. EventsUnique' /\ PipeKnown'
  BY <1>3, EventsKept
<1>15. NoAssertFails'
  BY <1>3 DEF IInv, NoAssertFails
<1> QED BY <1>4, <1>10, <1>11, <1>12, <1>13, <1>14, <1>15 DEF IInv

\* Master::Write keeps the invariant: the new request has an event, no timer.
LEMMA WriteIInv ==
    ASSUME IInv, TypeOK', ReuseIds = FALSE, NEW id \in IDs, NEW blk \in Blocks, Write(id, blk)
    PROVE  IInv'
<1> DEFINE request == ProcessRequestIMP(blk)
<1>1. /\ id \notin DOMAIN m_readRequests /\ id \notin DOMAIN m_writeRequests
      /\ ~HasEvent("Encrypt", id) /\ ~HasEvent("Decrypt", id)
      /\ nbd[id] = "free"
      /\ \A t \in m_callBacks : t.id # id
      /\ \A r \in sent : r.id # id
  BY FreshHandle DEF Write
<1>2. /\ m_writeRequests' = Put(m_writeRequests, id, request)
      /\ SendTaskToThreadPoolIMP("Encrypt", id)
      /\ nbd' = [nbd EXCEPT ![id] = "pending"]
      /\ m_readRequests' = m_readRequests /\ m_callBacks' = m_callBacks
      /\ m_handleCounter' = m_handleCounter /\ sent' = sent /\ aborted' = aborted
  BY <1>1 DEF Write, timerVars
<1> HIDE DEF request
<1>3. /\ DOMAIN m_writeRequests' = DOMAIN m_writeRequests \cup {id}
      /\ \A k \in DOMAIN m_writeRequests : m_writeRequests'[k] = m_writeRequests[k]
  BY <1>1, <1>2 DEF Put
<1>4. \A ty \in {"Encrypt", "Decrypt"}, k \in IDs :
          HasEvent(ty, k)' <=> HasEvent(ty, k) \/ (ty = "Encrypt" /\ k = id)
  BY <1>2, EventSet
<1>5. EventsUnique' /\ PipeKnown'
  BY <1>1, <1>2, EventSetUnique
<1>6. nbd \in [IDs -> NbdState] /\ sent \subseteq Request /\ DOMAIN m_writeRequests \subseteq IDs
  BY DEF IInv, TypeOK
<1>7. nbd'[id] = "pending" /\ \A k \in IDs : k # id => nbd'[k] = nbd[k]
  BY <1>2, <1>6
<1>8. /\ \A k : Own(m_readRequests, k)' = Own(m_readRequests, k)
      /\ \A k \in DOMAIN m_writeRequests : Own(m_writeRequests, k)' = Own(m_writeRequests, k)
  BY <1>2, <1>3 DEF Own
<1>9. TimersInOrder' /\ ReadsArmed'
  BY <1>2, <1>8 DEF IInv, TimersInOrder, ReadsArmed
<1>10. WritesArmed'
  <2> SUFFICES ASSUME NEW k \in DOMAIN m_writeRequests', ~HasEvent("Encrypt", k)'
               PROVE  Own(m_writeRequests, k)' \in m_callBacks'
    BY DEF WritesArmed
  <2>1. k \in IDs
    BY <1>3, <1>6
  <2>2. k # id /\ k \in DOMAIN m_writeRequests /\ ~HasEvent("Encrypt", k)
    BY <1>3, <1>4, <2>1
  <2> QED BY <1>2, <1>8, <2>2 DEF IInv, WritesArmed
<1>11. TimersOwned'
  <2> SUFFICES ASSUME NEW t \in m_callBacks
               PROVE  \/ t.id \in DOMAIN m_readRequests' /\ t = Own(m_readRequests, t.id)'
                      \/ /\ t.id \in DOMAIN m_writeRequests' /\ t = Own(m_writeRequests, t.id)'
                         /\ ~HasEvent("Encrypt", t.id)'
    BY <1>2 DEF TimersOwned
  <2>1. t.id # id
    BY <1>1
  <2>2. \/ t.id \in DOMAIN m_readRequests /\ t = Own(m_readRequests, t.id)
        \/ /\ t.id \in DOMAIN m_writeRequests /\ t = Own(m_writeRequests, t.id)
           /\ ~HasEvent("Encrypt", t.id)
    BY DEF IInv, TimersOwned
  <2> QED BY <1>2, <1>3, <1>4, <1>6, <1>8, <2>1, <2>2
<1>12. EncryptedIsUnsent'
  BY <1>1, <1>2, <1>3, <1>4 DEF IInv, EncryptedIsUnsent
<1>13. SentIsIssued'
  <2>1. \A r \in sent : r.id \in IDs
    BY <1>6 DEF Request
  <2> QED BY <1>1, <1>2, <1>7, <2>1 DEF IInv, SentIsIssued
<1>14. Held'
  BY <1>1, <1>2, <1>3, <1>4, <1>7 DEF IInv, Held
<1>15. NoUnmatchedNbdReply' /\ NoAssertFails'
  BY <1>2, <1>7 DEF IInv, NoUnmatchedNbdReply, NoAssertFails
<1> QED BY <1>5, <1>9, <1>10, <1>11, <1>12, <1>13, <1>14, <1>15 DEF IInv

\* A worker's signal keeps the invariant: it adds to the pipe an event that is
\* not there yet.
LEMMA SignalIInv ==
    ASSUME IInv, TypeOK', NEW h \in DOMAIN m_events, EncryptDecryptIMP(h)
    PROVE  IInv'
<1>1. /\ \A i \in DOMAIN m_pipe : m_pipe[i] # h
      /\ m_pipe' = Append(m_pipe, h)
  BY DEF EncryptDecryptIMP, SignalEvent
<1>2. /\ m_readRequests' = m_readRequests /\ m_writeRequests' = m_writeRequests
      /\ m_callBacks' = m_callBacks /\ m_handleCounter' = m_handleCounter
      /\ m_events' = m_events /\ m_eventCounter' = m_eventCounter
      /\ sent' = sent /\ nbd' = nbd /\ aborted' = aborted
  BY DEF EncryptDecryptIMP, SignalEvent, requestVars, timerVars
<1>3. PipeKnown'
  <2>1. m_pipe \in Seq(Handle) /\ h \in Handle
    BY DEF IInv, TypeOK
  <2>2. /\ Len(m_pipe) \in Nat
        /\ DOMAIN m_pipe = 1 .. Len(m_pipe)
        /\ DOMAIN m_pipe' = 1 .. Len(m_pipe) + 1
        /\ m_pipe'[Len(m_pipe) + 1] = h
        /\ \A i \in DOMAIN m_pipe : m_pipe'[i] = m_pipe[i]
    BY <1>1, <2>1
  <2> QED BY <1>1, <1>2, <2>2 DEF IInv, PipeKnown
<1>4. \A ty, k : HasEvent(ty, k)' <=> HasEvent(ty, k)
  BY <1>2, EventSame
<1>5. /\ \A k : Own(m_readRequests, k)' = Own(m_readRequests, k)
      /\ \A k : Own(m_writeRequests, k)' = Own(m_writeRequests, k)
  BY <1>2 DEF Own
<1>6. TimersInOrder' /\ ReadsArmed' /\ WritesArmed' /\ TimersOwned'
  BY <1>2, <1>4, <1>5 DEF IInv, TimersInOrder, ReadsArmed, WritesArmed, TimersOwned
<1>7. EncryptedIsUnsent' /\ SentIsIssued' /\ Held' /\ NoUnmatchedNbdReply' /\ NoAssertFails'
  BY <1>2, <1>4 DEF IInv, EncryptedIsUnsent, SentIsIssued, Held, NoUnmatchedNbdReply, NoAssertFails
<1>8. EventsUnique'
  BY <1>2 DEF IInv, EventsUnique
<1> QED BY <1>3, <1>6, <1>7, <1>8 DEF IInv

\* The end of an encryption keeps the invariant: the request's first timer
\* takes the place of its event.
LEMMA EncryptedIInv ==
    ASSUME IInv, TypeOK', m_pipe # << >>, NEW id \in IDs,
           m_events[Head(m_pipe)].id = id, HasEvent("Encrypt", id), OnEncrypted(id)
    PROVE  IInv'
<1>1. id \in DOMAIN m_writeRequests
  BY DEF IInv, EncryptedIsUnsent
<1>2. /\ SendWriteRequestsIMP(id, m_writeRequests[id], {})
      /\ m_events' = Erase(m_events, Head(m_pipe))
      /\ m_pipe' = Tail(m_pipe)
      /\ m_eventCounter' = m_eventCounter /\ nbd' = nbd /\ aborted' = aborted
  BY <1>1 DEF OnEncrypted
<1>3. /\ EventsUnique' /\ PipeKnown'
      /\ \A ty \in {"Encrypt", "Decrypt"}, k \in IDs :
            HasEvent(ty, k)' <=> HasEvent(ty, k) /\ k # id
  BY <1>2, EventFinished
<1>4. id \notin DOMAIN m_readRequests /\ ~HasEvent("Decrypt", id) /\ nbd[id] = "pending"
  BY <1>1 DEF IInv, Held
<1>5. \A t \in m_callBacks : t.id # id
  BY <1>4 DEF IInv, TimersOwned
<1>6. m_writeRequests[id] \in RequestData
  BY <1>1 DEF IInv, TypeOK
<1>7. /\ DOMAIN m_writeRequests' = DOMAIN m_writeRequests \cup {id}
      /\ TimersInOrder' /\ ReadsArmed' /\ WritesArmed' /\ TimersOwned'
  <2>1. EndsEncryption(id)
    BY <1>3 DEF EndsEncryption
  <2>2. (\A t \in {} : t.id = id) /\ (\A t \in m_callBacks \ {} : t.id # id)
    BY <1>5
  <2> DEFINE request == m_writeRequests[id]
  <2>3. SendWriteRequestsIMP(id, request, {}) /\ request \in RequestData
    BY <1>2, <1>6
  <2> HIDE DEF request
  <2> QED BY <1>4, <2>1, <2>2, <2>3, WriteSent
<1>8. /\ m_readRequests' = m_readRequests
      /\ \A r \in sent' : r \in sent \/ (r.type = "WRITE" /\ r.id = id)
  <2>1. m_writeRequests[id].blockLocations \in Seq(BlockLocation)
    BY <1>6 DEF RequestData
  <2> QED BY <1>2, <2>1, RequestsType DEF SendWriteRequestsIMP, RequestType
<1>9. EncryptedIsUnsent'
  BY <1>3, <1>7, <1>8 DEF IInv, EncryptedIsUnsent
<1>10. SentIsIssued'
  BY <1>2, <1>4, <1>8 DEF IInv, SentIsIssued
<1>11. Held'
  BY <1>1, <1>2, <1>3, <1>4, <1>7, <1>8 DEF IInv, Held
<1>12. NoUnmatchedNbdReply' /\ NoAssertFails'
  BY <1>2 DEF IInv, NoUnmatchedNbdReply, NoAssertFails
<1> QED BY <1>3, <1>7, <1>9, <1>10, <1>11, <1>12 DEF IInv

\* The end of a decryption keeps the invariant: the kernel is still waiting.
LEMMA DecryptedIInv ==
    ASSUME IInv, TypeOK', m_pipe # << >>, NEW id \in IDs,
           m_events[Head(m_pipe)].id = id, HasEvent("Decrypt", id), OnDecrypted(id)
    PROVE  IInv'
<1>1. /\ NbdReply(id)
      /\ m_events' = Erase(m_events, Head(m_pipe))
      /\ m_pipe' = Tail(m_pipe)
      /\ m_readRequests' = m_readRequests /\ m_writeRequests' = m_writeRequests
      /\ m_callBacks' = m_callBacks /\ m_handleCounter' = m_handleCounter
      /\ m_eventCounter' = m_eventCounter /\ sent' = sent /\ aborted' = aborted
  BY DEF OnDecrypted, requestVars, timerVars
<1>2. /\ EventsUnique' /\ PipeKnown'
      /\ \A ty \in {"Encrypt", "Decrypt"}, k \in IDs :
            HasEvent(ty, k)' <=> HasEvent(ty, k) /\ k # id
  BY <1>1, EventFinished
<1>3. /\ nbd[id] = "pending"
      /\ id \notin DOMAIN m_readRequests /\ id \notin DOMAIN m_writeRequests
  BY DEF IInv, Held
<1>4. nbd \in [IDs -> NbdState] /\ sent \subseteq Request /\ DOMAIN m_writeRequests \subseteq IDs
  BY DEF IInv, TypeOK
<1>5. nbd'[id] = "answered" /\ \A k \in IDs : k # id => nbd'[k] = nbd[k]
  BY <1>1, <1>3, <1>4 DEF NbdReply
<1>6. /\ \A k : Own(m_readRequests, k)' = Own(m_readRequests, k)
      /\ \A k : Own(m_writeRequests, k)' = Own(m_writeRequests, k)
  BY <1>1 DEF Own
<1>7. \A k \in DOMAIN m_writeRequests : HasEvent("Encrypt", k)' <=> HasEvent("Encrypt", k)
  BY <1>2, <1>3, <1>4
<1>8. TimersInOrder' /\ ReadsArmed' /\ WritesArmed' /\ TimersOwned'
  BY <1>1, <1>6, <1>7 DEF IInv, TimersInOrder, ReadsArmed, WritesArmed, TimersOwned
<1>9. EncryptedIsUnsent'
  BY <1>1, <1>2 DEF IInv, EncryptedIsUnsent
<1>10. SentIsIssued'
  <2>1. \A r \in sent : r.id \in IDs
    BY <1>4 DEF Request
  <2> QED BY <1>1, <1>5, <2>1 DEF IInv, SentIsIssued
<1>11. Held'
  BY <1>1, <1>2, <1>3, <1>5 DEF IInv, Held
<1>12. NoUnmatchedNbdReply' /\ NoAssertFails'
  BY <1>1, <1>5 DEF IInv, NoUnmatchedNbdReply, NoAssertFails
<1> QED BY <1>2, <1>8, <1>9, <1>10, <1>11, <1>12 DEF IInv

\* Eventer::OnEventFinishedCB keeps the invariant: the pipe's handles are known.
LEMMA EventIInv ==
    ASSUME IInv, TypeOK', OnEventFinishedCB
    PROVE  IInv'
<1> DEFINE x == Head(m_pipe)
           event == m_events[x]
<1>1. m_pipe # << >> /\ m_pipe \in Seq(Handle)
  BY DEF IInv, TypeOK, OnEventFinishedCB
<1>2. x = m_pipe[1] /\ 1 \in DOMAIN m_pipe
  BY <1>1
<1>3. x \in DOMAIN m_events
  BY <1>2 DEF IInv, PipeKnown
<1>4. event \in Event
  BY <1>3 DEF IInv, TypeOK
<1>5. \/ event.type = "Encrypt" /\ OnEncrypted(event.id)
      \/ event.type = "Decrypt" /\ OnDecrypted(event.id)
  BY <1>3 DEF OnEventFinishedCB
<1>6. event.id \in IDs /\ event = [type |-> event.type, id |-> event.id]
  BY <1>4 DEF Event
<1>7. HasEvent(event.type, event.id)
  BY <1>3, <1>6 DEF HasEvent
<1> QED BY <1>1, <1>5, <1>6, <1>7, EncryptedIInv, DecryptedIInv

\* Master::ReplyReadIMP keeps the invariant: the request's timer is armed, and
\* the decryption takes the place of the map's entry.
LEMMA ReplyReadIInv ==
    ASSUME IInv, TypeOK', NEW id \in IDs, NEW m \in Minions, ReplyReadIMP(id, m)
    PROVE  IInv'
<1> DEFINE own == Own(m_readRequests, id)
<1>1. id \in DOMAIN m_readRequests
  BY DEF ReplyReadIMP
<1>2. own \in m_callBacks /\ own.handle = m_readRequests[id].handle
  BY <1>1 DEF IInv, ReadsArmed, Own
<1>3. IsArmed(m_readRequests[id].handle)
  BY <1>2 DEF IsArmed
<1>4. /\ m_readRequests' = Erase(m_readRequests, id)
      /\ Cancel(m_readRequests[id].handle)
      /\ SendTaskToThreadPoolIMP("Decrypt", id)
      /\ m_writeRequests' = m_writeRequests
      /\ sent' = sent /\ nbd' = nbd /\ aborted' = aborted
  BY <1>3 DEF ReplyReadIMP
<1>5. /\ id \notin DOMAIN m_writeRequests
      /\ ~HasEvent("Decrypt", id)
      /\ nbd[id] = "pending"
  BY <1>1 DEF IInv, Held
<1>6. ~HasEvent("Encrypt", id)
  BY <1>5 DEF IInv, EncryptedIsUnsent
<1>7. \A ty \in {"Encrypt", "Decrypt"}, k \in IDs :
          HasEvent(ty, k)' <=> HasEvent(ty, k) \/ (ty = "Decrypt" /\ k = id)
  BY <1>4, EventSet
<1>8. EventsUnique' /\ PipeKnown'
  BY <1>4, <1>5, <1>6, EventSetUnique
<1>9. \A k \in IDs : HasEvent("Encrypt", k)' <=> HasEvent("Encrypt", k)
  BY <1>7
<1>10. /\ DOMAIN m_readRequests' = DOMAIN m_readRequests \ {id}
       /\ TimersInOrder' /\ ReadsArmed' /\ WritesArmed' /\ TimersOwned'
  BY <1>1, <1>4, <1>9, ReadAnswered
<1>11. EncryptedIsUnsent'
  BY <1>4, <1>9 DEF IInv, EncryptedIsUnsent
<1>12. Held'
  BY <1>4, <1>5, <1>7, <1>10 DEF IInv, Held
<1>13. SentIsIssued' /\ NoUnmatchedNbdReply' /\ NoAssertFails'
  BY <1>4 DEF IInv, SentIsIssued, NoUnmatchedNbdReply, NoAssertFails
<1> QED BY <1>8, <1>10, <1>11, <1>12, <1>13 DEF IInv

\* A write a minion has answered is not being encrypted any more: it was sent.
LEMMA AnsweredIsArmed ==
    ASSUME IInv, NEW id \in DOMAIN m_writeRequests, Arrives("WRITE", id)
    PROVE  /\ id \in IDs /\ ~HasEvent("Encrypt", id)
           /\ IsArmed(m_writeRequests[id].handle)
<1>1. id \in IDs
  BY DEF IInv, TypeOK
<1>2. \E r \in sent : r.type = "WRITE" /\ r.id = id
  BY DEF Arrives
<1>3. ~HasEvent("Encrypt", id)
  BY <1>1, <1>2 DEF IInv, EncryptedIsUnsent
<1>4. Own(m_writeRequests, id) \in m_callBacks
  BY <1>3 DEF IInv, WritesArmed
<1> QED BY <1>1, <1>3, <1>4 DEF IsArmed, Own

\* Master::ReplyWriteIMP keeps the invariant while other locations are left:
\* the request keeps its handle and its timer.
LEMMA ReplyWritePartIInv ==
    ASSUME IInv, TypeOK', NEW id \in DOMAIN m_writeRequests, NEW i, ReplyWritePartIMP(id, i)
    PROVE  IInv'
<1>1. /\ m_readRequests' = m_readRequests
      /\ m_callBacks' = m_callBacks /\ m_handleCounter' = m_handleCounter
      /\ m_events' = m_events /\ UNCHANGED eventVars
      /\ sent' = sent /\ nbd' = nbd /\ aborted' = aborted
  BY DEF ReplyWritePartIMP, timerVars, eventVars
<1>2. m_writeRequests[id] \in RequestData /\ m_writeRequests \in [DOMAIN m_writeRequests -> RequestData]
  BY DEF IInv, TypeOK
<1>3. /\ DOMAIN m_writeRequests' = DOMAIN m_writeRequests
      /\ \A k \in DOMAIN m_writeRequests : m_writeRequests'[k].handle = m_writeRequests[k].handle
  <2> DEFINE locations == EraseAt(m_writeRequests[id].blockLocations, i)
  <2>1. m_writeRequests' = [m_writeRequests EXCEPT ![id].blockLocations = locations]
    BY DEF ReplyWritePartIMP
  <2> HIDE DEF locations
  <2> QED BY <1>2, <2>1 DEF RequestData
<1>4. /\ \A k : Own(m_readRequests, k)' = Own(m_readRequests, k)
      /\ \A k \in DOMAIN m_writeRequests : Own(m_writeRequests, k)' = Own(m_writeRequests, k)
  BY <1>1, <1>3 DEF Own
<1>5. \A ty, k : HasEvent(ty, k)' <=> HasEvent(ty, k)
  BY <1>1, EventSame
<1>6. TimersInOrder' /\ ReadsArmed' /\ WritesArmed' /\ TimersOwned'
  BY <1>1, <1>3, <1>4, <1>5 DEF IInv, TimersInOrder, ReadsArmed, WritesArmed, TimersOwned
<1>7. EncryptedIsUnsent' /\ SentIsIssued' /\ Held' /\ NoUnmatchedNbdReply' /\ NoAssertFails'
  BY <1>1, <1>3, <1>5 DEF IInv, EncryptedIsUnsent, SentIsIssued, Held, NoUnmatchedNbdReply, NoAssertFails
<1>8. EventsUnique' /\ PipeKnown'
  BY <1>1, EventsKept
<1> QED BY <1>6, <1>7, <1>8 DEF IInv

\* ... and for the last one: the timer is there to cancel and the kernel waits.
LEMMA ReplyWriteLastIInv ==
    ASSUME IInv, TypeOK', NEW id \in DOMAIN m_writeRequests, id \in IDs,
           ~HasEvent("Encrypt", id), IsArmed(m_writeRequests[id].handle),
           ReplyWriteLastIMP(id)
    PROVE  IInv'
<1>1. /\ m_writeRequests' = Erase(m_writeRequests, id)
      /\ Cancel(m_writeRequests[id].handle)
      /\ NbdReply(id)
      /\ m_readRequests' = m_readRequests /\ m_events' = m_events
      /\ UNCHANGED eventVars /\ sent' = sent /\ aborted' = aborted
  BY DEF ReplyWriteLastIMP, eventVars
<1>2. /\ DOMAIN m_writeRequests' = DOMAIN m_writeRequests \ {id}
      /\ TimersInOrder' /\ ReadsArmed' /\ WritesArmed' /\ TimersOwned'
  BY <1>1, WriteAnswered
<1>3. /\ nbd[id] = "pending"
      /\ id \notin DOMAIN m_readRequests /\ ~HasEvent("Decrypt", id)
  BY DEF IInv, Held
<1>4. nbd \in [IDs -> NbdState] /\ sent \subseteq Request
  BY DEF IInv, TypeOK
<1>5. nbd'[id] = "answered" /\ \A k \in IDs : k # id => nbd'[k] = nbd[k]
  BY <1>1, <1>3, <1>4 DEF NbdReply
<1>6. \A ty, k : HasEvent(ty, k)' <=> HasEvent(ty, k)
  BY <1>1, EventSame
<1>7. EncryptedIsUnsent'
  BY <1>1, <1>2, <1>6 DEF IInv, EncryptedIsUnsent
<1>8. SentIsIssued'
  <2>1. \A r \in sent : r.id \in IDs
    BY <1>4 DEF Request
  <2> QED BY <1>1, <1>5, <2>1 DEF IInv, SentIsIssued
<1>9. Held'
  BY <1>1, <1>2, <1>3, <1>5, <1>6 DEF IInv, Held
<1>10. NoUnmatchedNbdReply' /\ NoAssertFails'
  BY <1>1, <1>5 DEF IInv, NoUnmatchedNbdReply, NoAssertFails
<1>11. EventsUnique' /\ PipeKnown'
  BY <1>1, EventsKept
<1> QED BY <1>2, <1>7, <1>8, <1>9, <1>10, <1>11 DEF IInv

\* The request a timer that expires belongs to is mapped, and has no other.
LEMMA ExpiredIsOwned ==
    ASSUME IInv, NEW t \in m_callBacks
    PROVE  /\ t.id \in IDs
           /\ \/ t.id \in DOMAIN m_readRequests /\ t.id \notin DOMAIN m_writeRequests
              \/ /\ t.id \in DOMAIN m_writeRequests /\ t.id \notin DOMAIN m_readRequests
                 /\ ~HasEvent("Encrypt", t.id)
           /\ \A u \in m_callBacks \ {t} : u.id # t.id
<1>1. t.id \in IDs
  BY CounterIsNat
<1>2. \A u \in m_callBacks : \/ u.id \in DOMAIN m_readRequests /\ u = Own(m_readRequests, u.id)
                             \/ /\ u.id \in DOMAIN m_writeRequests /\ u = Own(m_writeRequests, u.id)
                                /\ ~HasEvent("Encrypt", u.id)
  BY DEF IInv, TimersOwned
<1>3. ~(t.id \in DOMAIN m_readRequests /\ t.id \in DOMAIN m_writeRequests)
  BY <1>1 DEF IInv, Held
<1>4. \A u \in m_callBacks \ {t} : u.id # t.id
  BY <1>2, <1>3
<1> QED BY <1>1, <1>2, <1>3, <1>4

\* A retry keeps the invariant: the new timer takes the place of the old one.
LEMMA RetryIInv ==
    ASSUME IInv, TypeOK', NEW t \in m_callBacks, CallBackWrapper(t)
    PROVE  IInv'
<1> DEFINE id == t.id
<1>1. /\ id \in IDs
      /\ \/ id \in DOMAIN m_readRequests /\ id \notin DOMAIN m_writeRequests
         \/ /\ id \in DOMAIN m_writeRequests /\ id \notin DOMAIN m_readRequests
            /\ ~HasEvent("Encrypt", id)
      /\ \A u \in {t} : u.id = id
      /\ \A u \in m_callBacks \ {t} : u.id # id
  BY ExpiredIsOwned
<1>2. CallBackWrapper(t) /\ OnTimerIMP(t)
  BY DEF CallBackWrapper
<1>3. /\ m_events' = m_events /\ nbd' = nbd /\ aborted' = aborted /\ UNCHANGED eventVars
      /\ \/ /\ id \in DOMAIN m_readRequests /\ id \notin DOMAIN m_writeRequests
            /\ SendReadRequestsIMP(id, m_readRequests[id], {t})
         \/ /\ id \in DOMAIN m_writeRequests /\ id \notin DOMAIN m_readRequests
            /\ ~HasEvent("Encrypt", id)
            /\ SendWriteRequestsIMP(id, m_writeRequests[id], {t})
  BY <1>1, <1>2 DEF OnTimerIMP, eventVars
<1> HIDE DEF id
<1>4. \A ty, k : HasEvent(ty, k)' <=> HasEvent(ty, k)
  BY <1>3, EventSame
<1>5. nbd[id] = "pending"
  BY <1>1 DEF IInv, Held
<1>6. /\ DOMAIN m_readRequests' = DOMAIN m_readRequests
      /\ DOMAIN m_writeRequests' = DOMAIN m_writeRequests
      /\ TimersInOrder' /\ ReadsArmed' /\ WritesArmed' /\ TimersOwned'
      /\ \A r \in sent' : r \in sent \/ (r.id = id /\ ~HasEvent("Encrypt", id))
  <2>1. CASE id \in DOMAIN m_readRequests
    <3> DEFINE request == m_readRequests[id]
    <3>1. request \in RequestData
      BY <2>1 DEF IInv, TypeOK
    <3>2. SendReadRequestsIMP(id, request, {t}) /\ id \notin DOMAIN m_writeRequests
      BY <1>1, <1>3, <2>1
    <3>3. ~HasEvent("Encrypt", id)
      BY <1>1, <3>2 DEF IInv, EncryptedIsUnsent
    <3>4. request.blockLocations \in Seq(BlockLocation)
      BY <3>1 DEF RequestData
    <3> HIDE DEF request
    <3>5. /\ DOMAIN m_readRequests' = DOMAIN m_readRequests \cup {id}
          /\ TimersInOrder' /\ ReadsArmed' /\ WritesArmed' /\ TimersOwned'
      BY <1>1, <1>3, <3>1, <3>2, ReadSent
    <3>6. /\ m_writeRequests' = m_writeRequests
          /\ \A r \in sent' : r \in sent \/ r.id = id
      BY <1>1, <3>2, <3>4, RequestsType DEF SendReadRequestsIMP, RequestType
    <3> QED BY <2>1, <3>3, <3>5, <3>6
  <2>2. CASE id \in DOMAIN m_writeRequests
    <3> DEFINE request == m_writeRequests[id]
    <3>1. request \in RequestData
      BY <2>2 DEF IInv, TypeOK
    <3>2. /\ SendWriteRequestsIMP(id, request, {t}) /\ id \notin DOMAIN m_readRequests
          /\ ~HasEvent("Encrypt", id)
      BY <1>1, <1>3, <2>2
    <3>3. EndsEncryption(id)
      BY <1>4, <3>2 DEF EndsEncryption
    <3>4. request.blockLocations \in Seq(BlockLocation)
      BY <3>1 DEF RequestData
    <3> HIDE DEF request
    <3>5. /\ DOMAIN m_writeRequests' = DOMAIN m_writeRequests \cup {id}
          /\ TimersInOrder' /\ ReadsArmed' /\ WritesArmed' /\ TimersOwned'
      BY <1>1, <3>1, <3>2, <3>3, WriteSent
    <3>6. /\ m_readRequests' = m_readRequests
          /\ \A r \in sent' : r \in sent \/ r.id = id
      BY <1>1, <3>2, <3>4, RequestsType DEF SendWriteRequestsIMP, RequestType
    <3> QED BY <2>2, <3>2, <3>5, <3>6
  <2> QED BY <1>1, <2>1, <2>2
<1>7. EncryptedIsUnsent'
  BY <1>4, <1>6 DEF IInv, EncryptedIsUnsent
<1>8. SentIsIssued'
  BY <1>3, <1>5, <1>6 DEF IInv, SentIsIssued
<1>9. Held'
  BY <1>3, <1>4, <1>6 DEF IInv, Held
<1>10. NoUnmatchedNbdReply' /\ NoAssertFails'
  BY <1>3 DEF IInv, NoUnmatchedNbdReply, NoAssertFails
<1>11. EventsUnique' /\ PipeKnown'
  BY <1>3, EventsKept
<1> QED BY <1>6, <1>7, <1>8, <1>9, <1>10, <1>11 DEF IInv

\* Every step keeps the invariant.
LEMMA NextIInv ==
    ASSUME ReuseIds = FALSE
    PROVE  IInv /\ [Next]_mVars => IInv'
<1> SUFFICES ASSUME IInv, [Next]_mVars PROVE IInv'
  OBVIOUS
<1>0. TypeOK'
  BY NextTypeOK DEF IInv
<1>1. ASSUME NEW id \in IDs, NEW blk \in Blocks, Read(id, blk) PROVE IInv'
  BY <1>0, <1>1, ReadIInv
<1>2. ASSUME NEW id \in IDs, NEW blk \in Blocks, Write(id, blk) PROVE IInv'
  BY <1>0, <1>2, WriteIInv
<1>3. ASSUME NEW h \in DOMAIN m_events, EncryptDecryptIMP(h) PROVE IInv'
  BY <1>0, <1>3, SignalIInv
<1>4. CASE OnEventFinishedCB
  BY <1>0, <1>4, EventIInv
<1>5. ASSUME NEW id \in IDs, NEW m \in Minions, ReplyReadIMP(id, m) PROVE IInv'
  BY <1>0, <1>5, ReplyReadIInv
<1>6. ASSUME NEW id \in IDs, NEW m \in Minions, ReplyWriteIMP(id, m) PROVE IInv'
  <2>1. id \in DOMAIN m_writeRequests /\ Arrives("WRITE", id)
    BY <1>6 DEF ReplyWriteIMP
  <2>2. ~HasEvent("Encrypt", id) /\ IsArmed(m_writeRequests[id].handle)
    BY <2>1, AnsweredIsArmed
  <2>3. PICK i : ReplyWritePartIMP(id, i) \/ ReplyWriteLastIMP(id)
    BY <1>6 DEF ReplyWriteIMP
  <2> QED BY <1>0, <2>1, <2>2, <2>3, ReplyWritePartIInv, ReplyWriteLastIInv
<1>7. ASSUME NEW t \in m_callBacks, CallBackWrapper(t) PROVE IInv'
  BY <1>0, <1>7, RetryIInv
<1>8. CASE UNCHANGED mVars
  <2>1. /\ m_readRequests' = m_readRequests /\ m_writeRequests' = m_writeRequests
        /\ m_callBacks' = m_callBacks /\ m_handleCounter' = m_handleCounter
        /\ m_events' = m_events /\ UNCHANGED eventVars
        /\ sent' = sent /\ nbd' = nbd /\ aborted' = aborted
    BY <1>8 DEF mVars, requestVars, timerVars, eventVars
  <2>2. \A ty, k : HasEvent(ty, k)' <=> HasEvent(ty, k)
    BY <2>1, EventSame
  <2>3. /\ \A k : Own(m_readRequests, k)' = Own(m_readRequests, k)
        /\ \A k : Own(m_writeRequests, k)' = Own(m_writeRequests, k)
    BY <2>1 DEF Own
  <2>4. TimersInOrder' /\ ReadsArmed' /\ WritesArmed' /\ TimersOwned'
    BY <2>1, <2>2, <2>3 DEF IInv, TimersInOrder, ReadsArmed, WritesArmed, TimersOwned
  <2>5. EncryptedIsUnsent' /\ SentIsIssued' /\ Held' /\ NoUnmatchedNbdReply' /\ NoAssertFails'
    BY <2>1, <2>2 DEF IInv, EncryptedIsUnsent, SentIsIssued, Held, NoUnmatchedNbdReply, NoAssertFails
  <2>6. EventsUnique' /\ PipeKnown'
    BY <2>1, EventsKept
  <2> QED BY <1>0, <2>4, <2>5, <2>6 DEF IInv
<1> QED BY <1>1, <1>2, <1>3, <1>4, <1>5, <1>6, <1>7, <1>8 DEF Next

---------------------------------------------------------------------------
(* What the invariant gives *)

\* The one timer a request may have is its own.
LEMMA WakeupFromIInv == IInv => EveryRequestHasItsWakeup
<1> SUFFICES ASSUME IInv PROVE EveryRequestHasItsWakeup
  OBVIOUS
<1>1. ASSUME NEW id \in DOMAIN m_readRequests
      PROVE  Timers(id) = OwnTimer(m_readRequests, id)
  <2>1. Own(m_readRequests, id) \in m_callBacks
    BY DEF IInv, ReadsArmed
  <2>2. Own(m_readRequests, id).id = id
    BY DEF Own
  <2>3. \A u \in m_callBacks \ {Own(m_readRequests, id)} : u.id # id
    BY <2>1, <2>2, ExpiredIsOwned
  <2>4. OwnTimer(m_readRequests, id) = {Own(m_readRequests, id)}
    BY DEF Own, OwnTimer
  <2> QED BY <2>1, <2>2, <2>3, <2>4 DEF Timers
<1>2. ASSUME NEW id \in DOMAIN m_writeRequests, ~HasEvent("Encrypt", id)
      PROVE  Timers(id) = OwnTimer(m_writeRequests, id)
  <2>1. Own(m_writeRequests, id) \in m_callBacks
    BY <1>2 DEF IInv, WritesArmed
  <2>2. Own(m_writeRequests, id).id = id
    BY DEF Own
  <2>3. \A u \in m_callBacks \ {Own(m_writeRequests, id)} : u.id # id
    BY <2>1, <2>2, ExpiredIsOwned
  <2>4. OwnTimer(m_writeRequests, id) = {Own(m_writeRequests, id)}
    BY DEF Own, OwnTimer
  <2> QED BY <2>1, <2>2, <2>3, <2>4 DEF Timers
<1>3. ASSUME NEW id \in DOMAIN m_writeRequests, HasEvent("Encrypt", id)
      PROVE  Timers(id) = {}
  <2>1. \A t \in m_callBacks : t.id # id
    BY <1>3, ExpiredIsOwned
  <2> QED BY <2>1 DEF Timers
<1>4. \A t \in m_callBacks : t.id \in DOMAIN m_readRequests \cup DOMAIN m_writeRequests
  BY ExpiredIsOwned
<1> QED BY <1>1, <1>2, <1>3, <1>4 DEF EveryRequestHasItsWakeup

\* Held says of each handle what PendingIsHeldOnce says of the sets.
LEMMA PendingFromIInv == IInv => PendingIsHeldOnce
<1> SUFFICES ASSUME IInv PROVE PendingIsHeldOnce
  OBVIOUS
<1>1. DOMAIN m_readRequests \subseteq IDs /\ DOMAIN m_writeRequests \subseteq IDs
  BY DEF IInv, TypeOK
<1>2. \A id \in IDs :
        /\ ~(id \in DOMAIN m_readRequests /\ id \in DOMAIN m_writeRequests)
        /\ HasEvent("Decrypt", id) =>
               id \notin DOMAIN m_readRequests /\ id \notin DOMAIN m_writeRequests
        /\ nbd[id] = "pending" <=>
               \/ id \in DOMAIN m_readRequests
               \/ id \in DOMAIN m_writeRequests
               \/ HasEvent("Decrypt", id)
  BY DEF IInv, Held
<1> QED BY <1>1, <1>2 DEF PendingIsHeldOnce, Decrypting

\* While the kernel uses no handle twice the inductive invariant always holds.
THEOREM InvariantHolds ==
    ASSUME ReuseIds = FALSE
    PROVE  Spec => []IInv
<1>1. Init => IInv
  BY InitIInv
<1>2. IInv /\ [Next]_mVars => IInv'
  BY NextIInv
<1> QED BY <1>1, <1>2, PTL DEF Spec

\* A request that waits for minions has exactly the timer whose handle it
\* remembers, one being encrypted has none, and no timer is left over: Master's
\* retries can neither be lost nor answer for a request that is gone.
THEOREM WakeupsHold ==
    ASSUME ReuseIds = FALSE
    PROVE  Spec => []EveryRequestHasItsWakeup
<1>1. Spec => []IInv
  BY InvariantHolds
<1>2. IInv => EveryRequestHasItsWakeup
  BY WakeupFromIInv
<1> QED BY <1>1, <1>2, PTL

\* Master and Eventer hold each request the kernel waits for in exactly one
\* place, and no other request.
THEOREM PendingHeldOnce ==
    ASSUME ReuseIds = FALSE
    PROVE  Spec => []PendingIsHeldOnce
<1>1. Spec => []IInv
  BY InvariantHolds
<1>2. IInv => PendingIsHeldOnce
  BY PendingFromIInv
<1> QED BY <1>1, <1>2, PTL

\* OsProxy never sends the kernel a second reply to a request, or a reply to
\* none, whatever the minions answer and whichever socket it arrives at.
THEOREM RepliesMatch ==
    ASSUME ReuseIds = FALSE
    PROVE  Spec => []NoUnmatchedNbdReply
<1>1. Spec => []IInv
  BY InvariantHolds
<1>2. IInv => NoUnmatchedNbdReply
  BY DEF IInv
<1> QED BY <1>1, <1>2, PTL

\* No assert of Master, Timer::Cancel or Eventer fails.
THEOREM AssertsHold ==
    ASSUME ReuseIds = FALSE
    PROVE  Spec => []NoAssertFails
<1>1. Spec => []IInv
  BY InvariantHolds
<1>2. IInv => NoAssertFails
  BY DEF IInv
<1> QED BY <1>1, <1>2, PTL
===========================================================================
