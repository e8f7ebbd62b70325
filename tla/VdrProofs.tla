----------------------------- MODULE VdrProofs -----------------------------
(***************************************************************************)
(* The whole system implements module Master: whatever the kernel, the     *)
(* network and the minions do, the vdr process takes a step of Master or   *)
(* none.  Master's theorems therefore hold of the composition, for every   *)
(* number of minions, every amount of loss and duplication, and however    *)
(* many writes are outstanding.  The kernel, the requests and what the     *)
(* minions keep agree with each other, which gives the types of the whole  *)
(* and what each step of it does.                                          *)
(*                                                                         *)
(* The second half is what the system does for the kernel, when the kernel *)
(* uses no handle twice and there are at least two minions, whatever       *)
(* proxy's socket the datagrams of each minion reach.  A write waits for   *)
(* exactly the minions on whose account no reply was put; with one socket  *)
(* for all, as the code binds them, none is ever answered.  While one      *)
(* write is outstanding at a time, the bytes that are sent for a write are *)
(* its own; and when the network repeats nothing and keeps nothing longer  *)
(* than the timeout, a write that is answered is on every replica, and the *)
(* system implements the block device.                                     *)
(***************************************************************************)
EXTENDS Vdr, MasterProofs, FiniteSetTheorems

\* A reply that reaches the vdr process makes it take one of Master's two reply
\* steps or ignore it.  The handle of a mapped request is one of the kernel's.
LEMMA ReplyIsMasterStep ==
    ASSUME TypeOK, NEW rep, NEW m \in Minions, RecieveFromMinionCB(rep, m)
    PROVE  Next \/ UNCHANGED mVars
<1>1. CASE VReplyReadIMP(rep, m)
  <2>1. ReplyReadIMP(rep.id, m)
    BY <1>1 DEF VReplyReadIMP
  <2>2. rep.id \in IDs
    BY <2>1 DEF ReplyReadIMP, TypeOK
  <2> QED BY <2>1, <2>2 DEF Next
<1>2. CASE VReplyWriteIMP(rep, m)
  <2>1. ReplyWriteIMP(rep.id, m)
    BY <1>2 DEF VReplyWriteIMP
  <2>2. rep.id \in IDs
    BY <2>1 DEF ReplyWriteIMP, TypeOK
  <2> QED BY <2>1, <2>2 DEF Next
<1>3. CASE IgnoreReply(rep, m)
  BY <1>3 DEF IgnoreReply
<1> QED BY <1>1, <1>2, <1>3 DEF RecieveFromMinionCB

\* Every step of the system is a step of Master, or none of its business.
LEMMA VNextIsMasterStep == TypeOK /\ [VNext]_vars => [Next]_mVars
<1> SUFFICES ASSUME TypeOK, [VNext]_vars PROVE Next \/ UNCHANGED mVars
  OBVIOUS
<1>1. CASE KernelStep
  <2>1. PICK id \in IDs, blk \in Blocks : VRead(id, blk) \/ VWrite(id, blk)
    BY <1>1 DEF KernelStep
  <2>2. Read(id, blk) \/ Write(id, blk)
    BY <2>1 DEF VRead, VWrite
  <2> QED BY <2>2 DEF Next
<1>2. CASE WorkerStep
  BY <1>2 DEF WorkerStep, VEncryptDecryptIMP, Next
<1>3. CASE VOnEventFinishedCB
  BY <1>3 DEF VOnEventFinishedCB, VOnEncrypted, VOnDecrypted, Next
<1>4. CASE TimerStep
  BY <1>4 DEF TimerStep, VCallBackWrapper, Next
<1>5. CASE MinionStep
  BY <1>5 DEF MinionStep, MinionRead, MinionWrite
<1>6. CASE ReplyStep
  BY <1>6, ReplyIsMasterStep DEF ReplyStep
<1>7. CASE LossStep
  BY <1>7 DEF LossStep, Lose
<1>8. CASE UNCHANGED vars
  BY <1>8 DEF vars
<1> QED
  BY <1>1, <1>2, <1>3, <1>4, <1>5, <1>6, <1>7, <1>8 DEF VNext

\* The system implements Master: the kernel's requests, the minions' replies and
\* the lost datagrams are an environment that Master's open one allows for.
THEOREM VdrImplementsMaster == VSpec => Spec
<1>1. VInit => Init
  BY DEF VInit
<1>2. Init => TypeOK
  BY InitTypeOK
<1>3. TypeOK /\ [VNext]_vars => TypeOK'
  BY VNextIsMasterStep, NextTypeOK
<1> QED
  BY <1>1, <1>2, <1>3, VNextIsMasterStep, PTL DEF VSpec, Spec

\* In the whole system too no assert of Master, Timer::Cancel or Eventer fails,
\* while the kernel uses no handle twice.
THEOREM VdrAssertsHold ==
    ASSUME ReuseIds = FALSE
    PROVE  VSpec => []NoAssertFails
  BY VdrImplementsMaster, AssertsHold, PTL

\* The kernel gets no reply it does not wait for, from the whole system.
THEOREM VdrRepliesMatch ==
    ASSUME ReuseIds = FALSE
    PROVE  VSpec => []NoUnmatchedNbdReply
  BY VdrImplementsMaster, RepliesMatch, PTL

---------------------------------------------------------------------------
(* Locations and datagrams *)

LocationsIn(vec) == {vec[i] : i \in DOMAIN vec}

\* The locations a mapped request still waits for.
Left(map, id) == LocationsIn(map[id].blockLocations)

Place(d) == [minionID |-> d.minionID, blockOffset |-> d.blockOffset]
RequestOf(d) == [type |-> d.type, id |-> d.id, minionID |-> d.minionID,
                 blockOffset |-> d.blockOffset]
Datagram == [type : RequestType, id : IDs, minionID : Minions, blockOffset : Slots,
             data : Content]

\* The worker has signalled the event, which the reactor has not taken yet.
Signalled(h) == \E i \in DOMAIN m_pipe : m_pipe[i] = h

\* A blank buffer and the data of a write are contents.
LEMMA ContentFacts ==
    /\ Blank \in Content /\ Blank.val = Unwritten /\ Blank.enc = FALSE
    /\ Unwritten \in Value /\ Unwritten \notin Handle
    /\ \A v \in Value, e \in BOOLEAN : [val |-> v, enc |-> e] \in Content
    /\ \A c \in Content : /\ Xor(c) \in Content
                          /\ Xor(c).val = c.val /\ Xor(c).enc = ~c.enc
                          /\ c = [val |-> c.val, enc |-> c.enc]
                          /\ c.val \in Value /\ c.enc \in BOOLEAN
<1>1. Unwritten \notin Handle /\ Unwritten \in Value
  BY MasterAssumption DEF Value, Unwritten, Handle
<1>2. \A v \in Value, e \in BOOLEAN : [val |-> v, enc |-> e] \in Content
  BY DEF Content
<1>3. Blank \in Content /\ Blank.val = Unwritten /\ Blank.enc = FALSE
  BY <1>1 DEF Content, Blank
<1>4. ASSUME NEW c \in Content
      PROVE  /\ Xor(c) \in Content
             /\ Xor(c).val = c.val /\ Xor(c).enc = ~c.enc
             /\ c = [val |-> c.val, enc |-> c.enc]
             /\ c.val \in Value /\ c.enc \in BOOLEAN
  BY DEF Content, Xor
<1> QED BY <1>1, <1>2, <1>3, <1>4

\* The replicas of a block are two locations, on different minions if there are
\* two, and no two blocks share one.
LEMMA ReplicaFacts ==
    ASSUME NEW blk \in Blocks
    PROVE  /\ Replicas(blk) \subseteq BlockLocation
           /\ \A i \in DOMAIN Translate(blk * BLOCK_SIZE) :
                Translate(blk * BLOCK_SIZE)[i] \in Replicas(blk)
           /\ \A b \in Blocks, loc \in Replicas(blk) : loc \in Replicas(b) => b = blk
           /\ \A loc, l, k \in Replicas(blk) : loc = l \/ l = k \/ loc = k
           /\ NumMinions > 1 =>
                /\ \A loc, l \in Replicas(blk) : loc.minionID = l.minionID => loc = l
                /\ \A loc \in Replicas(blk) : \E l \in Replicas(blk) : l # loc
                /\ \A i, j \in DOMAIN Translate(blk * BLOCK_SIZE) :
                     Translate(blk * BLOCK_SIZE)[i].minionID = Translate(blk * BLOCK_SIZE)[j].minionID
                       => i = j
<1> DEFINE T(b) == Translate(b * BLOCK_SIZE)
<1>1. \A b \in Blocks : T(b) \in Seq(BlockLocation) /\ DOMAIN T(b) = 1 .. 2
  BY TwoReplicasPerBlock
<1>2. NumMinions > 1 => T(blk)[1].minionID # T(blk)[2].minionID
  BY TwoReplicasPerBlock
<1>3. \A b \in Blocks : Replicas(b) = {T(b)[i] : i \in DOMAIN T(b)}
  BY DEF Replicas
<1>4. \A b \in Blocks, i \in 1 .. 2, j \in 1 .. 2 : T(blk)[i] = T(b)[j] => b = blk
  BY NoSlotGivenTwice
<1> HIDE DEF T
<1>5. Replicas(blk) \subseteq BlockLocation
  BY <1>1, <1>3
<1>6. \A b \in Blocks, loc \in Replicas(blk) : loc \in Replicas(b) => b = blk
  BY <1>1, <1>3, <1>4
<1>7. NumMinions > 1 => \A i, j \in DOMAIN T(blk) : T(blk)[i].minionID = T(blk)[j].minionID => i = j
  BY <1>1, <1>2
<1>8. NumMinions > 1 => \A loc, l \in Replicas(blk) : loc.minionID = l.minionID => loc = l
  BY <1>3, <1>7
<1>9. \A i \in DOMAIN T(blk) : T(blk)[i] \in Replicas(blk)
  BY <1>3
<1>10. \A loc, l, k \in Replicas(blk) : loc = l \/ l = k \/ loc = k
  BY <1>1, <1>3
<1>11. NumMinions > 1 => \A loc \in Replicas(blk) : \E l \in Replicas(blk) : l # loc
  <2>1. Replicas(blk) = {T(blk)[1], T(blk)[2]}
    BY <1>1, <1>3
  <2> QED BY <1>2, <2>1
<1> QED BY <1>5, <1>6, <1>7, <1>8, <1>9, <1>10, <1>11 DEF T

\* What is sent for a vector of locations is one request for each.
LEMMA RequestsSent ==
    ASSUME NEW type \in RequestType, NEW id \in IDs, NEW locations \in Seq(BlockLocation)
    PROVE  \A r \in Requests(type, id, locations) :
             /\ r \in Request /\ r.type = type /\ r.id = id
             /\ Place(r) \in LocationsIn(locations)
<1> SUFFICES ASSUME NEW r \in Requests(type, id, locations)
             PROVE  /\ r \in Request /\ r.type = type /\ r.id = id
                    /\ Place(r) \in LocationsIn(locations)
  OBVIOUS
<1>1. PICK i \in DOMAIN locations :
        r = [type |-> type, id |-> id, minionID |-> locations[i].minionID,
             blockOffset |-> locations[i].blockOffset]
  BY DEF Requests
<1>2. locations[i] \in BlockLocation
  OBVIOUS
<1>3. r.minionID = locations[i].minionID /\ r.blockOffset = locations[i].blockOffset
  BY <1>1
<1>4. Place(r) = locations[i]
  BY <1>2, <1>3 DEF Place, BlockLocation
<1> QED BY <1>4, RequestsType DEF LocationsIn

\* ... and one datagram for each request.
LEMMA DatagramsSentFor ==
    ASSUME NEW requests \in SUBSET Request, NEW data \in Content
    PROVE  \A d \in Datagrams(requests, data) :
             /\ d \in Datagram /\ d.data = data
             /\ \E r \in requests : /\ RequestOf(d) = r /\ d.type = r.type /\ d.id = r.id
                                    /\ Place(d) = Place(r)
  BY DEF Datagrams, Datagram, RequestOf, Place, Request

\* A reply is a datagram for the same request.
LEMMA ReplyIsDatagram ==
    ASSUME NEW req \in Datagram, NEW data \in Content
    PROVE  /\ Reply(req, data) \in Datagram
           /\ RequestOf(Reply(req, data)) = RequestOf(req)
           /\ Reply(req, data).type = req.type /\ Reply(req, data).id = req.id
           /\ Reply(req, data).data = data
           /\ Place(Reply(req, data)) = Place(req)
  BY DEF Reply, Datagram, RequestOf, Place

\* Erasing the element found takes its location out of those left.
LEMMA EraseAtLeft ==
    ASSUME NEW vec \in Seq(BlockLocation), NEW i \in DOMAIN vec,
           \A j, k \in DOMAIN vec : vec[j].minionID = vec[k].minionID => j = k
    PROVE  /\ LocationsIn(EraseAt(vec, i))
                = LocationsIn(vec) \ {vec[i]}
           /\ \A j, k \in DOMAIN EraseAt(vec, i) :
                EraseAt(vec, i)[j].minionID = EraseAt(vec, i)[k].minionID => j = k
<1> DEFINE n == Len(vec)
           e == EraseAt(vec, i)
           from(j) == IF j < i THEN j ELSE j + 1
<1>1. n \in Nat /\ DOMAIN vec = 1 .. n /\ i \in 1 .. n
  OBVIOUS
<1>2. DOMAIN e = 1 .. n - 1 /\ \A j \in 1 .. n - 1 : e[j] = vec[from(j)]
  BY DEF EraseAt
<1>3. \A j \in 1 .. n - 1 : from(j) \in 1 .. n /\ from(j) # i
  BY <1>1
<1>4. \A j, k \in 1 .. n - 1 : from(j) = from(k) => j = k
  BY <1>1
<1>5. \A k \in 1 .. n : k # i => \E j \in 1 .. n - 1 : from(j) = k
  <2> SUFFICES ASSUME NEW k \in 1 .. n, k # i PROVE \E j \in 1 .. n - 1 : from(j) = k
    OBVIOUS
  <2>1. CASE k < i
    <3>1. k \in 1 .. n - 1 /\ from(k) = k
      BY <1>1, <2>1
    <3> QED BY <3>1
  <2>2. CASE k > i
    <3>1. k - 1 \in 1 .. n - 1 /\ from(k - 1) = k
      BY <1>1, <2>2
    <3> QED BY <3>1
  <2> QED BY <1>1, <2>1, <2>2
<1> HIDE DEF n, e, from
<1>6. \A j \in DOMAIN e : e[j] \in {vec[k] : k \in DOMAIN vec} /\ e[j] # vec[i]
  BY <1>1, <1>2, <1>3
<1>7. \A k \in DOMAIN vec : k # i => vec[k] \in {e[j] : j \in DOMAIN e}
  BY <1>1, <1>2, <1>5
<1>8. \A j, k \in DOMAIN e : e[j].minionID = e[k].minionID => j = k
  BY <1>1, <1>2, <1>3, <1>4
<1> QED BY <1>6, <1>7, <1>8 DEF e, LocationsIn

---------------------------------------------------------------------------
(* What each step does, while the kernel uses no handle twice *)

\* A request put in a map waits for the locations of its vector.
LEMMA PutLeft ==
    ASSUME NEW map, NEW id, NEW entry
    PROVE  /\ Left(Put(map, id, entry), id) =
                LocationsIn(entry.blockLocations)
           /\ \A k \in DOMAIN map : k # id => Left(Put(map, id, entry), k) = Left(map, k)
  BY DEF Put, Left

\* The locations left after a step are those in the map after it.
LEMMA LeftPrimed ==
    \A k : /\ Left(m_readRequests, k)' = Left(m_readRequests', k)
          /\ Left(m_writeRequests, k)' = Left(m_writeRequests', k)
  BY DEF Left

\* Erasing a request leaves the others' locations alone.
LEMMA EraseLeft ==
    ASSUME NEW map, NEW id
    PROVE  \A k \in DOMAIN map : k # id => Left(Erase(map, id), k) = Left(map, k)
  BY DEF Erase, Left

\* The requests of a mapped write or read.
LEMMA MappedType ==
    ASSUME IInv
    PROVE  /\ DOMAIN m_readRequests \subseteq IDs /\ DOMAIN m_writeRequests \subseteq IDs
           /\ \A k \in DOMAIN m_readRequests :
                /\ m_readRequests[k] \in RequestData
                /\ m_readRequests[k].blockLocations \in Seq(BlockLocation)
                /\ Left(m_readRequests, k) \subseteq BlockLocation
           /\ \A k \in DOMAIN m_writeRequests :
                /\ m_writeRequests[k] \in RequestData
                /\ m_writeRequests[k].blockLocations \in Seq(BlockLocation)
                /\ Left(m_writeRequests, k) \subseteq BlockLocation
<1>1. /\ DOMAIN m_readRequests \subseteq IDs /\ DOMAIN m_writeRequests \subseteq IDs
      /\ \A k \in DOMAIN m_readRequests : m_readRequests[k] \in RequestData
      /\ \A k \in DOMAIN m_writeRequests : m_writeRequests[k] \in RequestData
  BY DEF IInv, TypeOK
<1>2. \A q \in RequestData :
        /\ q.blockLocations \in Seq(BlockLocation)
        /\ LocationsIn(q.blockLocations) \subseteq BlockLocation
  <2> SUFFICES ASSUME NEW q \in RequestData
               PROVE  /\ q.blockLocations \in Seq(BlockLocation)
                      /\ \A i \in DOMAIN q.blockLocations : q.blockLocations[i] \in BlockLocation
    BY DEF LocationsIn
  <2>1. q.blockLocations \in Seq(BlockLocation)
    BY DEF RequestData
  <2> QED BY <2>1
<1> QED BY <1>1, <1>2 DEF Left

\* A request being issued has the replicas of its block before it.
LEMMA ProcessRequestLeft ==
    ASSUME NEW blk \in Blocks
    PROVE  LET request == ProcessRequestIMP(blk)
           IN  /\ request \in RequestData
               /\ request.blockLocations = Translate(blk * BLOCK_SIZE)
               /\ request.blockLocations \in Seq(BlockLocation)
               /\ LocationsIn(request.blockLocations) = Replicas(blk)
<1> DEFINE request == ProcessRequestIMP(blk)
<1>1. request \in RequestData /\ request.blockLocations = Translate(blk * BLOCK_SIZE)
  BY ProcessRequestType DEF ProcessRequestIMP
<1>2. Translate(blk * BLOCK_SIZE) \in Seq(BlockLocation)
  BY TwoReplicasPerBlock
<1> QED BY <1>1, <1>2 DEF Replicas, LocationsIn

\* A read the kernel issues is new, and is sent to every replica of its block.
LEMMA ReadEffect ==
    ASSUME IInv, ReuseIds = FALSE, NEW id \in IDs, NEW blk \in Blocks, VRead(id, blk)
    PROVE  /\ nbd[id] = "free" /\ nbd' = [nbd EXCEPT ![id] = "pending"]
           /\ id \notin DOMAIN m_readRequests /\ id \notin DOMAIN m_writeRequests
           /\ ~HasEvent("Encrypt", id) /\ ~HasEvent("Decrypt", id)
           /\ \A r \in sent : r.id # id
           /\ DOMAIN m_readRequests' = DOMAIN m_readRequests \cup {id}
           /\ Left(m_readRequests, id)' = Replicas(blk)
           /\ \A k \in DOMAIN m_readRequests : Left(m_readRequests, k)' = Left(m_readRequests, k)
           /\ m_writeRequests' = m_writeRequests /\ m_events' = m_events
           /\ m_pipe' = m_pipe /\ m_eventCounter' = m_eventCounter
           /\ sent \subseteq sent'
           /\ \A r \in sent' \ sent : /\ r.type = "READ" /\ r.id = id
                                      /\ Place(r) \in Replicas(blk)
           /\ \A d \in reqNet' \ reqNet : /\ d \in Datagram /\ RequestOf(d) \in sent'
                                          /\ d.type = "READ" /\ d.id = id
<1> DEFINE request == ProcessRequestIMP(blk)
           entry == [request EXCEPT !.handle = m_handleCounter]
           requests == Requests("READ", id, request.blockLocations)
<1>1. /\ nbd[id] = "free"
      /\ id \notin DOMAIN m_readRequests /\ id \notin DOMAIN m_writeRequests
      /\ ~HasEvent("Encrypt", id) /\ ~HasEvent("Decrypt", id)
      /\ \A r \in sent : r.id # id
  BY FreshHandle DEF VRead, Read
<1>2. /\ m_readRequests' = Put(m_readRequests, id, entry)
      /\ sent' = sent \cup requests
      /\ nbd' = [nbd EXCEPT ![id] = "pending"]
      /\ m_writeRequests' = m_writeRequests /\ m_events' = m_events
      /\ m_pipe' = m_pipe /\ m_eventCounter' = m_eventCounter
  BY <1>1 DEF VRead, Read, SendReadRequestsIMP, eventVars
<1>3. /\ request \in RequestData
      /\ request.blockLocations \in Seq(BlockLocation)
      /\ LocationsIn(request.blockLocations) = Replicas(blk)
  BY ProcessRequestLeft
<1>4. entry.blockLocations = request.blockLocations
  BY <1>3 DEF RequestData
<1>5. /\ DOMAIN m_readRequests' = DOMAIN m_readRequests \cup {id}
      /\ Left(m_readRequests, id)' = Replicas(blk)
      /\ \A k \in DOMAIN m_readRequests : Left(m_readRequests, k)' = Left(m_readRequests, k)
  <2> HIDE DEF entry, request
  <2>1. DOMAIN m_readRequests' = DOMAIN m_readRequests \cup {id}
    BY <1>2 DEF Put
  <2> QED BY <1>1, <1>2, <1>3, <1>4, <2>1, PutLeft, LeftPrimed
<1>6. m_readRequests'[id].blockLocations = request.blockLocations
  BY <1>2, <1>4 DEF Put
<1>7. reqNet' = reqNet \cup Datagrams(requests, Blank)
  BY <1>6 DEF VRead
<1>8. \A r \in requests : r \in Request /\ r.type = "READ" /\ r.id = id /\ Place(r) \in Replicas(blk)
  BY <1>3, RequestsSent DEF RequestType
<1> HIDE DEF requests
<1>9. \A d \in Datagrams(requests, Blank) :
        d \in Datagram /\ d.type = "READ" /\ d.id = id /\ RequestOf(d) \in requests
  <2>1. requests \in SUBSET Request
    BY <1>8
  <2> QED BY <2>1, <1>8, ContentFacts, DatagramsSentFor
<1> QED BY <1>1, <1>2, <1>5, <1>7, <1>8, <1>9

\* A write the kernel issues is new, and waits for its encryption.
LEMMA WriteEffect ==
    ASSUME IInv, ReuseIds = FALSE, NEW id \in IDs, NEW blk \in Blocks, VWrite(id, blk)
    PROVE  /\ nbd[id] = "free" /\ nbd' = [nbd EXCEPT ![id] = "pending"]
           /\ id \notin DOMAIN m_readRequests /\ id \notin DOMAIN m_writeRequests
           /\ ~HasEvent("Encrypt", id) /\ ~HasEvent("Decrypt", id)
           /\ \A r \in sent : r.id # id
           /\ DOMAIN m_writeRequests' = DOMAIN m_writeRequests \cup {id}
           /\ m_writeRequests'[id].blockLocations = Translate(blk * BLOCK_SIZE)
           /\ Left(m_writeRequests, id)' = Replicas(blk)
           /\ \A k \in DOMAIN m_writeRequests :
                /\ m_writeRequests'[k] = m_writeRequests[k]
                /\ Left(m_writeRequests, k)' = Left(m_writeRequests, k)
           /\ m_readRequests' = m_readRequests /\ sent' = sent
           /\ m_eventCounter \in Handle /\ m_eventCounter \notin DOMAIN m_events
           /\ m_events' = Put(m_events, m_eventCounter, [type |-> "Encrypt", id |-> id])
           /\ m_pipe' = m_pipe
           /\ \A ty \in {"Encrypt", "Decrypt"}, k \in IDs :
                HasEvent(ty, k)' <=> HasEvent(ty, k) \/ (ty = "Encrypt" /\ k = id)
<1> DEFINE request == ProcessRequestIMP(blk)
<1>1. /\ nbd[id] = "free"
      /\ id \notin DOMAIN m_readRequests /\ id \notin DOMAIN m_writeRequests
      /\ ~HasEvent("Encrypt", id) /\ ~HasEvent("Decrypt", id)
      /\ \A r \in sent : r.id # id
  BY FreshHandle DEF VWrite, Write
<1>2. /\ m_writeRequests' = Put(m_writeRequests, id, request)
      /\ SendTaskToThreadPoolIMP("Encrypt", id)
      /\ nbd' = [nbd EXCEPT ![id] = "pending"]
      /\ m_readRequests' = m_readRequests /\ sent' = sent
  BY <1>1 DEF VWrite, Write
<1>3. /\ request.blockLocations = Translate(blk * BLOCK_SIZE)
      /\ LocationsIn(request.blockLocations) = Replicas(blk)
  BY ProcessRequestLeft
<1> HIDE DEF request
<1>4. /\ DOMAIN m_writeRequests' = DOMAIN m_writeRequests \cup {id}
      /\ m_writeRequests'[id] = request
      /\ \A k \in DOMAIN m_writeRequests : m_writeRequests'[k] = m_writeRequests[k]
  BY <1>1, <1>2 DEF Put
<1>5. /\ Left(m_writeRequests, id)' = Replicas(blk)
      /\ \A k \in DOMAIN m_writeRequests : Left(m_writeRequests, k)' = Left(m_writeRequests, k)
  BY <1>1, <1>2, <1>3, PutLeft, LeftPrimed
<1>6. /\ m_events' = Put(m_events, m_eventCounter, [type |-> "Encrypt", id |-> id])
      /\ m_pipe' = m_pipe
  BY <1>2 DEF SendTaskToThreadPoolIMP, SetEvent
<1>7. m_eventCounter \in Handle /\ m_eventCounter \notin DOMAIN m_events
  BY EventsBelow DEF IInv, TypeOK
<1>8. \A ty \in {"Encrypt", "Decrypt"}, k \in IDs :
        HasEvent(ty, k)' <=> HasEvent(ty, k) \/ (ty = "Encrypt" /\ k = id)
  BY <1>2, EventSet
<1> QED BY <1>1, <1>2, <1>3, <1>4, <1>5, <1>6, <1>7, <1>8

\* Two datagrams that agree in what they carry are one.
LEMMA SameDatagram ==
    ASSUME NEW d \in Datagram, NEW e \in Datagram, d.type = e.type, d.id = e.id,
           Place(d) = Place(e), d.data = e.data
    PROVE  d = e
<1>1. d.minionID = e.minionID /\ d.blockOffset = e.blockOffset
  <2>1. Place(d).minionID = d.minionID /\ Place(d).blockOffset = d.blockOffset
    BY DEF Place
  <2>2. Place(e).minionID = e.minionID /\ Place(e).blockOffset = e.blockOffset
    BY DEF Place
  <2> QED BY <2>1, <2>2
<1> QED BY <1>1 DEF Datagram

\* A worker signals an event that was not signalled, and nothing else changes.
LEMMA SignalEffect ==
    ASSUME IInv, NEW h \in DOMAIN m_events, VEncryptDecryptIMP(h)
    PROVE  /\ ~Signalled(h)
           /\ \A g : Signalled(g)' <=> Signalled(g) \/ g = h
           /\ m_readRequests' = m_readRequests /\ m_writeRequests' = m_writeRequests
           /\ m_events' = m_events /\ m_eventCounter' = m_eventCounter
           /\ sent' = sent /\ nbd' = nbd
<1>1. /\ \A i \in DOMAIN m_pipe : m_pipe[i] # h
      /\ m_pipe' = Append(m_pipe, h)
      /\ m_readRequests' = m_readRequests /\ m_writeRequests' = m_writeRequests
      /\ m_events' = m_events /\ m_eventCounter' = m_eventCounter
      /\ sent' = sent /\ nbd' = nbd
  BY DEF VEncryptDecryptIMP, EncryptDecryptIMP, SignalEvent, requestVars
<1>2. m_pipe \in Seq(Handle) /\ Len(m_pipe) \in Nat /\ DOMAIN m_pipe = 1 .. Len(m_pipe)
  BY DEF IInv, TypeOK
<1>3. /\ DOMAIN m_pipe' = 1 .. Len(m_pipe) + 1
      /\ \A i \in 1 .. Len(m_pipe) : m_pipe'[i] = m_pipe[i]
      /\ m_pipe'[Len(m_pipe) + 1] = h
  BY <1>1, <1>2
<1>4. ASSUME NEW g PROVE Signalled(g)' <=> Signalled(g) \/ g = h
  <2>1. ASSUME Signalled(g)' PROVE Signalled(g) \/ g = h
    BY <1>2, <1>3, <2>1 DEF Signalled
  <2>2. ASSUME Signalled(g) PROVE Signalled(g)'
    BY <1>2, <1>3, <2>2 DEF Signalled
  <2>3. Len(m_pipe) + 1 \in DOMAIN m_pipe'
    BY <1>2, <1>3
  <2>4. ASSUME g = h PROVE Signalled(g)'
    BY <1>3, <2>3, <2>4 DEF Signalled
  <2> QED BY <2>1, <2>2, <2>4
<1>5. ~Signalled(h)
  BY <1>1 DEF Signalled
<1> QED BY <1>1, <1>4, <1>5

\* The reactor takes an event it knows off the pipe, where each is once.
LEMMA FinishEffect ==
    ASSUME IInv, m_pipe # << >>, m_events' = Erase(m_events, Head(m_pipe)),
           m_pipe' = Tail(m_pipe), m_eventCounter' = m_eventCounter
    PROVE  /\ Signalled(Head(m_pipe))
           /\ DOMAIN m_events' = DOMAIN m_events \ {Head(m_pipe)}
           /\ \A g \in DOMAIN m_events' : m_events'[g] = m_events[g]
           /\ \A g \in DOMAIN m_events' : Signalled(g)' <=> Signalled(g)
           /\ \A ty \in {"Encrypt", "Decrypt"}, k \in IDs :
                HasEvent(ty, k)' <=> HasEvent(ty, k) /\ k # m_events[Head(m_pipe)].id
<1> DEFINE x == Head(m_pipe)
<1>1. m_pipe \in Seq(Handle)
  BY DEF IInv, TypeOK
<1>2. x = m_pipe[1] /\ 1 \in DOMAIN m_pipe
  BY <1>1
<1>3. /\ Len(m_pipe) \in Nat /\ DOMAIN m_pipe = 1 .. Len(m_pipe)
      /\ DOMAIN m_pipe' = 1 .. Len(m_pipe) - 1
      /\ \A i \in DOMAIN m_pipe' : m_pipe'[i] = m_pipe[i + 1]
  BY <1>1
<1>4. Signalled(x)
  BY <1>2 DEF Signalled
<1>5. /\ DOMAIN m_events' = DOMAIN m_events \ {x}
      /\ \A g \in DOMAIN m_events' : m_events'[g] = m_events[g]
  BY EraseMap
<1>6. ASSUME NEW g \in DOMAIN m_events' PROVE Signalled(g)' <=> Signalled(g)
  <2>1. ASSUME Signalled(g)' PROVE Signalled(g)
    <3>1. PICK i \in DOMAIN m_pipe' : m_pipe'[i] = g
      BY <2>1 DEF Signalled
    <3>2. i + 1 \in DOMAIN m_pipe /\ m_pipe[i + 1] = g
      BY <1>3, <3>1
    <3> QED BY <3>2 DEF Signalled
  <2>2. ASSUME Signalled(g) PROVE Signalled(g)'
    <3>1. PICK i \in DOMAIN m_pipe : m_pipe[i] = g
      BY <2>2 DEF Signalled
    <3>2. i # 1
      BY <1>2, <1>5, <3>1
    <3>3. i - 1 \in DOMAIN m_pipe' /\ m_pipe'[i - 1] = m_pipe[i]
      BY <1>3, <3>2
    <3> QED BY <3>1, <3>3 DEF Signalled
  <2> QED BY <2>1, <2>2
<1> QED BY <1>4, <1>5, <1>6, EventFinished

\* The event at the head of the pipe is known.
LEMMA HeadIsKnown ==
    ASSUME IInv, m_pipe # << >>
    PROVE  /\ Head(m_pipe) \in DOMAIN m_events
           /\ m_events[Head(m_pipe)] \in Event
           /\ m_events[Head(m_pipe)].id \in IDs
           /\ HasEvent(m_events[Head(m_pipe)].type, m_events[Head(m_pipe)].id)
<1> DEFINE x == Head(m_pipe)
<1>1. m_pipe \in Seq(Handle)
  BY DEF IInv, TypeOK
<1>2. x = m_pipe[1] /\ 1 \in DOMAIN m_pipe
  BY <1>1
<1>3. x \in DOMAIN m_events
  BY <1>2 DEF IInv, PipeKnown
<1>4. m_events[x] \in Event
  BY <1>3 DEF IInv, TypeOK
<1>5. /\ m_events[x].id \in IDs
      /\ m_events[x] = [type |-> m_events[x].type, id |-> m_events[x].id]
  BY <1>4 DEF Event
<1> QED BY <1>3, <1>4, <1>5 DEF HasEvent

\* Sending a request to the locations left sends one datagram to each.
LEMMA SentForLeft ==
    ASSUME NEW type \in RequestType, NEW id \in IDs, NEW request \in RequestData,
           NEW data \in Content
    PROVE  LET requests == Requests(type, id, request.blockLocations)
           IN  /\ \A r \in requests : /\ r \in Request /\ r.type = type /\ r.id = id
                                      /\ Place(r) \in LocationsIn(request.blockLocations)
               /\ \A d \in Datagrams(requests, data) :
                    /\ d \in Datagram /\ d.type = type /\ d.id = id /\ d.data = data
                    /\ RequestOf(d) \in requests
                    /\ Place(d) \in LocationsIn(request.blockLocations)
<1> DEFINE requests == Requests(type, id, request.blockLocations)
<1>1. request.blockLocations \in Seq(BlockLocation)
  BY DEF RequestData
<1>2. \A r \in requests : /\ r \in Request /\ r.type = type /\ r.id = id
                          /\ Place(r) \in LocationsIn(request.blockLocations)
  BY <1>1, RequestsSent
<1>3. requests \in SUBSET Request
  BY <1>2
<1> HIDE DEF requests
<1>4. \A d \in Datagrams(requests, data) :
        /\ d \in Datagram /\ d.data = data
        /\ \E r \in requests : /\ RequestOf(d) = r /\ d.type = r.type /\ d.id = r.id
                               /\ Place(d) = Place(r)
  BY <1>3, DatagramsSentFor
<1>5. \A d \in Datagrams(requests, data) :
        /\ d \in Datagram /\ d.type = type /\ d.id = id /\ d.data = data
        /\ RequestOf(d) \in requests
        /\ Place(d) \in LocationsIn(request.blockLocations)
  BY <1>2, <1>4
<1> QED BY <1>2, <1>5 DEF requests

\* Moving a mapped request to a new timer leaves its vector as it is.
LEMMA TimerKeepsLeft ==
    ASSUME NEW map, NEW id \in DOMAIN map, NEW handle, map[id] \in RequestData
    PROVE  LET new == Put(map, id, [map[id] EXCEPT !.handle = handle])
           IN  /\ DOMAIN new = DOMAIN map
               /\ \A k \in DOMAIN map : new[k].blockLocations = map[k].blockLocations
<1> DEFINE entry == [map[id] EXCEPT !.handle = handle]
<1>1. entry.blockLocations = map[id].blockLocations
  BY DEF RequestData
<1> HIDE DEF entry
<1>2. /\ DOMAIN Put(map, id, entry) = DOMAIN map
      /\ \A k \in DOMAIN map : Put(map, id, entry)[k].blockLocations = map[k].blockLocations
  BY <1>1 DEF Put
<1> QED BY <1>2 DEF entry

\* An encrypted write goes to every replica its vector names, for the first time.
LEMMA EncryptedEffect ==
    ASSUME IInv, m_packet \in Content, m_pipe # << >>, VOnEncrypted
    PROVE  LET x == Head(m_pipe)
               id == m_events[x].id
           IN  /\ id \in DOMAIN m_writeRequests /\ id \in IDs
               /\ HasEvent("Encrypt", id)
               /\ \A r \in sent : ~(r.type = "WRITE" /\ r.id = id)
               /\ m_events' = Erase(m_events, x) /\ m_pipe' = Tail(m_pipe)
               /\ m_eventCounter' = m_eventCounter
               /\ DOMAIN m_writeRequests' = DOMAIN m_writeRequests
               /\ \A k \in DOMAIN m_writeRequests :
                    m_writeRequests'[k].blockLocations = m_writeRequests[k].blockLocations
               /\ m_readRequests' = m_readRequests /\ nbd' = nbd
               /\ sent \subseteq sent'
               /\ \A r \in sent' \ sent : /\ r.type = "WRITE" /\ r.id = id
                                          /\ Place(r) \in Left(m_writeRequests, id)
               /\ reqNet \subseteq reqNet'
               /\ \A d \in reqNet' \ reqNet :
                    /\ d \in Datagram /\ RequestOf(d) \in sent'
                    /\ d.type = "WRITE" /\ d.id = id /\ d.data = m_packet
                    /\ Place(d) \in Left(m_writeRequests, id)
<1> DEFINE x == Head(m_pipe)
           id == m_events[x].id
           requests == Requests("WRITE", id, m_writeRequests[id].blockLocations)
<1>1. x \in DOMAIN m_events /\ id \in IDs /\ HasEvent(m_events[x].type, id)
  BY HeadIsKnown
<1>2. m_events[x].type = "Encrypt"
  BY DEF VOnEncrypted
<1>3. /\ HasEvent("Encrypt", id)
      /\ id \in DOMAIN m_writeRequests
      /\ \A r \in sent : ~(r.type = "WRITE" /\ r.id = id)
  BY <1>1, <1>2 DEF IInv, EncryptedIsUnsent
<1>4. OnEncrypted(id)
  <2>1. \/ m_events[x].type = "Encrypt" /\ OnEncrypted(id)
        \/ m_events[x].type = "Decrypt" /\ OnDecrypted(id)
    BY <1>1 DEF VOnEncrypted, OnEventFinishedCB
  <2> QED BY <1>2, <2>1
<1>5. /\ SendWriteRequestsIMP(id, m_writeRequests[id], {})
      /\ m_events' = Erase(m_events, x) /\ m_pipe' = Tail(m_pipe)
      /\ m_eventCounter' = m_eventCounter /\ nbd' = nbd /\ aborted' = aborted
  BY <1>3, <1>4 DEF OnEncrypted
<1>6. /\ m_writeRequests' = Put(m_writeRequests, id, [m_writeRequests[id] EXCEPT !.handle = m_handleCounter])
      /\ sent' = sent \cup requests
      /\ m_readRequests' = m_readRequests
  BY <1>5 DEF SendWriteRequestsIMP
<1>7. ~aborted
  BY DEF IInv, NoAssertFails
<1>8. reqNet' = reqNet \cup Datagrams(requests, m_packet)
  BY <1>5, <1>7 DEF VOnEncrypted
<1>9. m_writeRequests[id] \in RequestData
  BY <1>3, MappedType
<1>10. /\ DOMAIN m_writeRequests' = DOMAIN m_writeRequests
       /\ \A k \in DOMAIN m_writeRequests :
            m_writeRequests'[k].blockLocations = m_writeRequests[k].blockLocations
  BY <1>3, <1>6, <1>9, TimerKeepsLeft
<1>11. /\ \A r \in requests : /\ r.type = "WRITE" /\ r.id = id
                              /\ Place(r) \in Left(m_writeRequests, id)
       /\ \A d \in Datagrams(requests, m_packet) :
            /\ d \in Datagram /\ d.type = "WRITE" /\ d.id = id /\ d.data = m_packet
            /\ RequestOf(d) \in requests
            /\ Place(d) \in Left(m_writeRequests, id)
  BY <1>1, <1>9, SentForLeft DEF Left, RequestType
<1> HIDE DEF x, id, requests
<1>12. /\ sent \subseteq sent' /\ reqNet \subseteq reqNet'
       /\ \A r \in sent' \ sent : r \in requests
       /\ \A d \in reqNet' \ reqNet : d \in Datagrams(requests, m_packet)
       /\ requests \subseteq sent'
  BY <1>6, <1>8
<1> QED BY <1>1, <1>3, <1>5, <1>6, <1>10, <1>11, <1>12 DEF x, id

\* Decrypted data goes to the kernel, which waits for it.
LEMMA DecryptedEffect ==
    ASSUME IInv, m_pipe # << >>, VOnDecrypted
    PROVE  LET x == Head(m_pipe)
               id == m_events[x].id
           IN  /\ x \in DOMAIN m_events /\ id \in IDs /\ HasEvent("Decrypt", id)
               /\ m_events[x].type = "Decrypt"
               /\ nbd[id] = "pending" /\ nbd' = [nbd EXCEPT ![id] = "answered"]
               /\ m_events' = Erase(m_events, x) /\ m_pipe' = Tail(m_pipe)
               /\ m_eventCounter' = m_eventCounter
               /\ m_readRequests' = m_readRequests /\ m_writeRequests' = m_writeRequests
               /\ sent' = sent
<1> DEFINE x == Head(m_pipe)
           id == m_events[x].id
<1>1. x \in DOMAIN m_events /\ id \in IDs /\ HasEvent(m_events[x].type, id)
  BY HeadIsKnown
<1>2. m_events[x].type = "Decrypt"
  BY DEF VOnDecrypted
<1>3. HasEvent("Decrypt", id) /\ nbd[id] = "pending"
  BY <1>1, <1>2 DEF IInv, Held
<1>4. OnDecrypted(id)
  <2>1. \/ m_events[x].type = "Encrypt" /\ OnEncrypted(id)
        \/ m_events[x].type = "Decrypt" /\ OnDecrypted(id)
    BY <1>1 DEF VOnDecrypted, OnEventFinishedCB
  <2> QED BY <1>2, <2>1
<1>5. /\ NbdReply(id)
      /\ m_events' = Erase(m_events, x) /\ m_pipe' = Tail(m_pipe)
      /\ m_eventCounter' = m_eventCounter
      /\ m_readRequests' = m_readRequests /\ m_writeRequests' = m_writeRequests
      /\ sent' = sent
  BY <1>4 DEF OnDecrypted, requestVars
<1>6. nbd' = [nbd EXCEPT ![id] = "answered"]
  BY <1>3, <1>5 DEF NbdReply
<1> QED BY <1>1, <1>2, <1>3, <1>5, <1>6

\* A retry sends a request again to the locations that have not answered.
LEMMA RetryEffect ==
    ASSUME IInv, m_packet \in Content, NEW t \in m_callBacks, VCallBackWrapper(t)
    PROVE  /\ t.id \in IDs
           /\ DOMAIN m_readRequests' = DOMAIN m_readRequests
           /\ DOMAIN m_writeRequests' = DOMAIN m_writeRequests
           /\ \A k \in DOMAIN m_readRequests :
                m_readRequests'[k].blockLocations = m_readRequests[k].blockLocations
           /\ \A k \in DOMAIN m_writeRequests :
                m_writeRequests'[k].blockLocations = m_writeRequests[k].blockLocations
           /\ m_events' = m_events /\ m_eventCounter' = m_eventCounter /\ m_pipe' = m_pipe
           /\ nbd' = nbd
           /\ sent \subseteq sent'
           /\ \A r \in sent' \ sent :
                \/ /\ r.type = "READ" /\ r.id \in DOMAIN m_readRequests
                   /\ Place(r) \in Left(m_readRequests, r.id)
                \/ /\ r.type = "WRITE" /\ r.id \in DOMAIN m_writeRequests
                   /\ ~HasEvent("Encrypt", r.id)
                   /\ Place(r) \in Left(m_writeRequests, r.id)
           /\ reqNet \subseteq reqNet'
           /\ \A d \in reqNet' \ reqNet :
                /\ d \in Datagram /\ RequestOf(d) \in sent' /\ d.id = t.id
                /\ d.type = "WRITE" =>
                     /\ d.id \in DOMAIN m_writeRequests /\ ~HasEvent("Encrypt", d.id)
                     /\ d.data = m_packet /\ Place(d) \in Left(m_writeRequests, d.id)
<1> DEFINE id == t.id
<1>1. /\ id \in IDs
      /\ \/ id \in DOMAIN m_readRequests /\ id \notin DOMAIN m_writeRequests
         \/ /\ id \in DOMAIN m_writeRequests /\ id \notin DOMAIN m_readRequests
            /\ ~HasEvent("Encrypt", id)
  BY ExpiredIsOwned
<1>2. OnTimerIMP(t) /\ reqNet' = reqNet \cup Retries(id)
  BY DEF VCallBackWrapper, CallBackWrapper
<1>3. CASE id \in DOMAIN m_readRequests
  <2> DEFINE requests == Requests("READ", id, m_readRequests[id].blockLocations)
  <2>1. id \notin DOMAIN m_writeRequests
    BY <1>1, <1>3
  <2>2. /\ SendReadRequestsIMP(id, m_readRequests[id], {t})
        /\ m_events' = m_events /\ m_eventCounter' = m_eventCounter /\ m_pipe' = m_pipe
        /\ nbd' = nbd
    BY <1>2, <1>3, <2>1 DEF OnTimerIMP, eventVars
  <2>3. /\ m_readRequests' = Put(m_readRequests, id, [m_readRequests[id] EXCEPT !.handle = m_handleCounter])
        /\ m_writeRequests' = m_writeRequests
        /\ sent' = sent \cup requests
    BY <2>2 DEF SendReadRequestsIMP
  <2>4. reqNet' = reqNet \cup Datagrams(requests, Blank)
    BY <1>2, <1>3 DEF Retries
  <2>5. m_readRequests[id] \in RequestData
    BY <1>3, MappedType
  <2>6. /\ DOMAIN m_readRequests' = DOMAIN m_readRequests
        /\ \A k \in DOMAIN m_readRequests :
             m_readRequests'[k].blockLocations = m_readRequests[k].blockLocations
    BY <1>3, <2>3, <2>5, TimerKeepsLeft
  <2>7. /\ \A r \in requests : /\ r.type = "READ" /\ r.id = id
                               /\ Place(r) \in Left(m_readRequests, id)
        /\ \A d \in Datagrams(requests, Blank) :
             /\ d \in Datagram /\ d.type = "READ" /\ d.id = id
             /\ RequestOf(d) \in requests
    BY <1>1, <2>5, SentForLeft, ContentFacts DEF Left, RequestType
  <2> HIDE DEF requests, id
  <2>8. /\ sent \subseteq sent' /\ reqNet \subseteq reqNet'
        /\ \A r \in sent' \ sent : r \in requests
        /\ \A d \in reqNet' \ reqNet : d \in Datagrams(requests, Blank)
        /\ requests \subseteq sent'
    BY <2>3, <2>4
  <2> QED BY <1>1, <1>3, <2>2, <2>3, <2>6, <2>7, <2>8 DEF id
<1>4. CASE id \in DOMAIN m_writeRequests
  <2> DEFINE requests == Requests("WRITE", id, m_writeRequests[id].blockLocations)
  <2>1. id \notin DOMAIN m_readRequests /\ ~HasEvent("Encrypt", id)
    BY <1>1, <1>4
  <2>2. /\ SendWriteRequestsIMP(id, m_writeRequests[id], {t})
        /\ m_events' = m_events /\ m_eventCounter' = m_eventCounter /\ m_pipe' = m_pipe
        /\ nbd' = nbd
    BY <1>2, <1>4, <2>1 DEF OnTimerIMP, eventVars
  <2>3. /\ m_writeRequests' = Put(m_writeRequests, id, [m_writeRequests[id] EXCEPT !.handle = m_handleCounter])
        /\ m_readRequests' = m_readRequests
        /\ sent' = sent \cup requests
    BY <2>2 DEF SendWriteRequestsIMP
  <2>4. reqNet' = reqNet \cup Datagrams(requests, m_packet)
    BY <1>2, <1>4, <2>1 DEF Retries
  <2>5. m_writeRequests[id] \in RequestData
    BY <1>4, MappedType
  <2>6. /\ DOMAIN m_writeRequests' = DOMAIN m_writeRequests
        /\ \A k \in DOMAIN m_writeRequests :
             m_writeRequests'[k].blockLocations = m_writeRequests[k].blockLocations
    BY <1>4, <2>3, <2>5, TimerKeepsLeft
  <2>7. /\ \A r \in requests : /\ r.type = "WRITE" /\ r.id = id
                               /\ Place(r) \in Left(m_writeRequests, id)
        /\ \A d \in Datagrams(requests, m_packet) :
             /\ d \in Datagram /\ d.type = "WRITE" /\ d.id = id /\ d.data = m_packet
             /\ RequestOf(d) \in requests /\ Place(d) \in Left(m_writeRequests, id)
    BY <1>1, <2>5, SentForLeft DEF Left, RequestType
  <2> HIDE DEF requests, id
  <2>8. /\ sent \subseteq sent' /\ reqNet \subseteq reqNet'
        /\ \A r \in sent' \ sent : r \in requests
        /\ \A d \in reqNet' \ reqNet : d \in Datagrams(requests, m_packet)
        /\ requests \subseteq sent'
    BY <2>3, <2>4
  <2> QED BY <1>1, <1>4, <2>1, <2>2, <2>3, <2>6, <2>7, <2>8 DEF id
<1> QED BY <1>1, <1>3, <1>4

\* The first reply to a read takes it off the map and sets the decryption off.
LEMMA ReplyReadEffect ==
    ASSUME IInv, NEW rep, NEW m \in Minions, VReplyReadIMP(rep, m)
    PROVE  /\ rep.id \in DOMAIN m_readRequests /\ rep.id \in IDs
           /\ rep.id \notin DOMAIN m_writeRequests
           /\ nbd[rep.id] = "pending" /\ nbd' = nbd
           /\ DOMAIN m_readRequests' = DOMAIN m_readRequests \ {rep.id}
           /\ \A k \in DOMAIN m_readRequests' : Left(m_readRequests, k)' = Left(m_readRequests, k)
           /\ m_writeRequests' = m_writeRequests /\ sent' = sent
           /\ m_eventCounter \in Handle /\ m_eventCounter \notin DOMAIN m_events
           /\ m_events' = Put(m_events, m_eventCounter, [type |-> "Decrypt", id |-> rep.id])
           /\ m_pipe' = m_pipe
           /\ \A ty \in {"Encrypt", "Decrypt"}, k \in IDs :
                HasEvent(ty, k)' <=> HasEvent(ty, k) \/ (ty = "Decrypt" /\ k = rep.id)
<1> DEFINE id == rep.id
<1>1. ReplyReadIMP(id, m) /\ id \in DOMAIN m_readRequests
  BY DEF VReplyReadIMP, ReplyReadIMP
<1>2. id \in IDs
  BY <1>1, MappedType
<1>3. Own(m_readRequests, id) \in m_callBacks
  BY <1>1 DEF IInv, ReadsArmed
<1>4. IsArmed(m_readRequests[id].handle)
  BY <1>3 DEF IsArmed, Own
<1>5. /\ m_readRequests' = Erase(m_readRequests, id)
      /\ SendTaskToThreadPoolIMP("Decrypt", id)
      /\ m_writeRequests' = m_writeRequests /\ sent' = sent /\ nbd' = nbd
  BY <1>1, <1>4 DEF ReplyReadIMP
<1>6. id \notin DOMAIN m_writeRequests /\ nbd[id] = "pending"
  BY <1>1, <1>2 DEF IInv, Held
<1>7. DOMAIN m_readRequests' = DOMAIN m_readRequests \ {id}
  BY <1>5, EraseMap
<1>8. \A k \in DOMAIN m_readRequests' : Left(m_readRequests, k)' = Left(m_readRequests, k)
  BY <1>5, <1>7, EraseLeft, LeftPrimed
<1>9. /\ m_events' = Put(m_events, m_eventCounter, [type |-> "Decrypt", id |-> id])
      /\ m_pipe' = m_pipe
  BY <1>5 DEF SendTaskToThreadPoolIMP, SetEvent
<1>10. m_eventCounter \in Handle /\ m_eventCounter \notin DOMAIN m_events
  BY EventsBelow DEF IInv, TypeOK
<1>11. \A ty \in {"Encrypt", "Decrypt"}, k \in IDs :
         HasEvent(ty, k)' <=> HasEvent(ty, k) \/ (ty = "Decrypt" /\ k = id)
  BY <1>2, <1>5, EventSet
<1> QED BY <1>1, <1>2, <1>5, <1>6, <1>7, <1>8, <1>9, <1>10, <1>11

\* A reply to a write takes one location out of its vector, or the write off the
\* map with the last one, and then the kernel gets its answer.
LEMMA ReplyWriteEffect ==
    ASSUME IInv, NEW rep, NEW m \in Minions, VReplyWriteIMP(rep, m)
    PROVE  LET vec == m_writeRequests[rep.id].blockLocations
           IN  /\ rep.type = "WRITE"
               /\ rep.id \in DOMAIN m_writeRequests /\ rep.id \in IDs
               /\ ~HasEvent("Encrypt", rep.id) /\ nbd[rep.id] = "pending"
               /\ m_readRequests' = m_readRequests /\ sent' = sent
               /\ m_events' = m_events /\ m_pipe' = m_pipe /\ m_eventCounter' = m_eventCounter
               /\ \E i \in DOMAIN vec :
                    /\ vec[i].minionID = m
                    /\ \/ /\ Len(vec) > 1
                          /\ DOMAIN m_writeRequests' = DOMAIN m_writeRequests
                          /\ m_writeRequests'[rep.id].blockLocations = EraseAt(vec, i)
                          /\ nbd' = nbd
                       \/ /\ Len(vec) = 1
                          /\ DOMAIN m_writeRequests' = DOMAIN m_writeRequests \ {rep.id}
                          /\ nbd' = [nbd EXCEPT ![rep.id] = "answered"]
               /\ \A k \in DOMAIN m_writeRequests : k # rep.id =>
                    m_writeRequests'[k] = m_writeRequests[k]
<1> DEFINE id == rep.id
           vec == m_writeRequests[id].blockLocations
<1>1. rep.type = "WRITE" /\ ReplyWriteIMP(id, m)
  BY DEF VReplyWriteIMP
<1>2. id \in DOMAIN m_writeRequests /\ Arrives("WRITE", id)
  BY <1>1 DEF ReplyWriteIMP
<1>3. id \in IDs /\ ~HasEvent("Encrypt", id) /\ IsArmed(m_writeRequests[id].handle)
  BY <1>2, AnsweredIsArmed
<1>4. nbd[id] = "pending"
  BY <1>2, <1>3 DEF IInv, Held
<1>5. PICK i \in DOMAIN vec :
        FirstOf(vec, m, i) /\ (ReplyWritePartIMP(id, i) \/ ReplyWriteLastIMP(id))
  BY <1>1 DEF ReplyWriteIMP
<1>6. vec[i].minionID = m
  BY <1>5 DEF FirstOf
<1>7. CASE ReplyWritePartIMP(id, i)
  <2>1. /\ Len(vec) > 1
        /\ m_writeRequests' = [m_writeRequests EXCEPT ![id].blockLocations = EraseAt(vec, i)]
        /\ m_readRequests' = m_readRequests /\ sent' = sent /\ nbd' = nbd
        /\ m_events' = m_events /\ m_pipe' = m_pipe /\ m_eventCounter' = m_eventCounter
    BY <1>7 DEF ReplyWritePartIMP, eventVars
  <2>2. m_writeRequests[id] \in RequestData /\ m_writeRequests \in [DOMAIN m_writeRequests -> RequestData]
    BY <1>2 DEF IInv, TypeOK
  <2> DEFINE erased == EraseAt(vec, i)
  <2>3. m_writeRequests' = [m_writeRequests EXCEPT ![id].blockLocations = erased]
    BY <2>1
  <2> HIDE DEF erased, id
  <2>4. /\ DOMAIN m_writeRequests' = DOMAIN m_writeRequests
        /\ m_writeRequests'[id].blockLocations = erased
        /\ \A k \in DOMAIN m_writeRequests : k # id => m_writeRequests'[k] = m_writeRequests[k]
    BY <1>2, <2>2, <2>3 DEF RequestData
  <2> QED BY <1>1, <1>2, <1>3, <1>4, <1>5, <1>6, <2>1, <2>4 DEF erased, id
<1>8. CASE ReplyWriteLastIMP(id)
  <2>1. /\ Len(vec) = 1
        /\ m_writeRequests' = Erase(m_writeRequests, id)
        /\ NbdReply(id)
        /\ m_readRequests' = m_readRequests /\ sent' = sent
        /\ m_events' = m_events /\ m_pipe' = m_pipe /\ m_eventCounter' = m_eventCounter
    BY <1>3, <1>8 DEF ReplyWriteLastIMP, eventVars
  <2>2. nbd' = [nbd EXCEPT ![id] = "answered"]
    BY <1>4, <2>1 DEF NbdReply
  <2>3. /\ DOMAIN m_writeRequests' = DOMAIN m_writeRequests \ {id}
        /\ \A k \in DOMAIN m_writeRequests : k # id => m_writeRequests'[k] = m_writeRequests[k]
    BY <2>1, EraseMap
  <2> QED BY <1>1, <1>2, <1>3, <1>4, <1>5, <1>6, <2>1, <2>2, <2>3
<1> QED BY <1>5, <1>7, <1>8

---------------------------------------------------------------------------
(* The system's own inductive invariant: what is on the wire, in the buffers  *)
(* and in the maps agrees with what the kernel has asked for.                 *)

AskedOK == asked \in [IDs -> [type : {"none", "READ", "WRITE"}, blk : Blocks, val : Value]]

\* The vdr process has sent every datagram under way, or the request it answers.
DatagramsKnown == \A d \in reqNet \cup repNet : d \in Datagram /\ RequestOf(d) \in sent

\* Each decryption has its buffer.
BuffersOK ==
    /\ m_packet \in Content
    /\ DOMAIN readData = {h \in DOMAIN m_events : m_events[h].type = "Decrypt"}
    /\ readData \in [DOMAIN readData -> Content]

StorageOK ==
    /\ losses \in 0 .. MaxLosses
    /\ m_allocMemory \in [Minions -> [Slots -> Content]]
    /\ returned \in [IDs -> Content]
    /\ current \in [Blocks -> SUBSET Value]
    /\ allowed \in [IDs -> SUBSET Value]

\* Whatever was sent under a handle was sent for the one request the kernel made
\* under it, to a replica of its block.
SentAsAsked ==
    \A r \in sent : r.type = asked[r.id].type /\ Place(r) \in Replicas(asked[r.id].blk)

ReadsAsAsked ==
    \A id \in DOMAIN m_readRequests :
        asked[id].type = "READ" /\ Left(m_readRequests, id) \subseteq Replicas(asked[id].blk)

WritesAsAsked ==
    \A id \in DOMAIN m_writeRequests :
        /\ asked[id].type = "WRITE" /\ asked[id].val \in Handle
        /\ Left(m_writeRequests, id) \subseteq Replicas(asked[id].blk)

DecryptsAsAsked == \A id \in IDs : HasEvent("Decrypt", id) => asked[id].type = "READ"

AgreeInv ==
    /\ AskedOK
    /\ DatagramsKnown
    /\ BuffersOK
    /\ StorageOK
    /\ SentAsAsked
    /\ ReadsAsAsked
    /\ WritesAsAsked
    /\ DecryptsAsAsked

\* What the kernel asks under a new handle concerns nothing that is under way.
LEMMA AskedAnew ==
    ASSUME IInv, AgreeInv, NEW id \in IDs, nbd[id] = "free",
           NEW q \in [type : {"none", "READ", "WRITE"}, blk : Blocks, val : Value],
           asked' = [asked EXCEPT ![id] = q]
    PROVE  /\ AskedOK' /\ asked'[id] = q
           /\ \A k \in IDs : k # id => asked'[k] = asked[k]
           /\ \A r \in sent : r.id \in IDs /\ r.id # id
           /\ \A k \in DOMAIN m_readRequests : k \in IDs /\ k # id
           /\ \A k \in DOMAIN m_writeRequests : k \in IDs /\ k # id
           /\ ~HasEvent("Decrypt", id)
<1>1. AskedOK' /\ asked'[id] = q /\ \A k \in IDs : k # id => asked'[k] = asked[k]
  BY DEF AgreeInv, AskedOK
<1>2. \A r \in sent : r.id \in IDs /\ nbd[r.id] # "free"
  BY DEF IInv, TypeOK, SentIsIssued, Request
<1>3. DOMAIN m_readRequests \subseteq IDs /\ DOMAIN m_writeRequests \subseteq IDs
  BY MappedType
<1>4. ~HasEvent("Decrypt", id) /\ id \notin DOMAIN m_readRequests /\ id \notin DOMAIN m_writeRequests
  BY DEF IInv, Held
<1> QED BY <1>1, <1>2, <1>3, <1>4

\* Issuing a read keeps the agreement.
LEMMA ReadAgrees ==
    ASSUME IInv, AgreeInv, ReuseIds = FALSE, NEW id \in IDs, NEW blk \in Blocks, VRead(id, blk)
    PROVE  AgreeInv'
<1> DEFINE q == [type |-> "READ", blk |-> blk, val |-> Unwritten]
<1>1. /\ nbd[id] = "free"
      /\ DOMAIN m_readRequests' = DOMAIN m_readRequests \cup {id}
      /\ Left(m_readRequests, id)' = Replicas(blk)
      /\ \A k \in DOMAIN m_readRequests : Left(m_readRequests, k)' = Left(m_readRequests, k)
      /\ m_writeRequests' = m_writeRequests /\ m_events' = m_events
      /\ sent \subseteq sent'
      /\ \A r \in sent' \ sent : /\ r.type = "READ" /\ r.id = id
                                 /\ Place(r) \in Replicas(blk)
      /\ \A d \in reqNet' \ reqNet : d \in Datagram /\ RequestOf(d) \in sent'
  BY ReadEffect
<1>2. /\ asked' = [asked EXCEPT ![id] = q]
      /\ allowed' = [allowed EXCEPT ![id] = current[blk]]
      /\ returned' = [returned EXCEPT ![id] = Blank]
      /\ m_packet' = m_packet /\ readData' = readData /\ repNet' = repNet
      /\ losses' = losses /\ m_allocMemory' = m_allocMemory /\ current' = current
  BY DEF VRead
<1>3. q \in [type : {"none", "READ", "WRITE"}, blk : Blocks, val : Value]
      /\ q.type = "READ" /\ q.blk = blk
  BY ContentFacts
<1> HIDE DEF q
<1>4. /\ AskedOK' /\ asked'[id] = q
      /\ \A k \in IDs : k # id => asked'[k] = asked[k]
      /\ \A r \in sent : r.id \in IDs /\ r.id # id
      /\ \A k \in DOMAIN m_readRequests : k \in IDs /\ k # id
      /\ \A k \in DOMAIN m_writeRequests : k \in IDs /\ k # id
      /\ ~HasEvent("Decrypt", id)
  BY <1>1, <1>2, <1>3, AskedAnew
<1>5. DatagramsKnown'
  BY <1>1, <1>2 DEF AgreeInv, DatagramsKnown
<1>6. BuffersOK'
  BY <1>1, <1>2 DEF AgreeInv, BuffersOK
<1>7. StorageOK'
  BY <1>2, ContentFacts DEF AgreeInv, StorageOK
<1>8. SentAsAsked'
  BY <1>1, <1>3, <1>4 DEF AgreeInv, SentAsAsked
<1>9. ReadsAsAsked'
  BY <1>1, <1>3, <1>4 DEF AgreeInv, ReadsAsAsked
<1>10. WritesAsAsked'
  <2>1. \A k : Left(m_writeRequests, k)' = Left(m_writeRequests, k)
    BY <1>1 DEF Left
  <2> QED BY <1>1, <1>4, <2>1 DEF AgreeInv, WritesAsAsked
<1>11. DecryptsAsAsked'
  BY <1>1, <1>3, <1>4, EventSame DEF AgreeInv, DecryptsAsAsked
<1> QED BY <1>4, <1>5, <1>6, <1>7, <1>8, <1>9, <1>10, <1>11 DEF AgreeInv

\* Issuing a write keeps the agreement.
LEMMA WriteAgrees ==
    ASSUME IInv, AgreeInv, ReuseIds = FALSE, NEW id \in IDs, NEW blk \in Blocks, VWrite(id, blk)
    PROVE  AgreeInv'
<1> DEFINE v == m_eventCounter
           q == [type |-> "WRITE", blk |-> blk, val |-> v]
<1>1. /\ nbd[id] = "free"
      /\ DOMAIN m_writeRequests' = DOMAIN m_writeRequests \cup {id}
      /\ Left(m_writeRequests, id)' = Replicas(blk)
      /\ \A k \in DOMAIN m_writeRequests : Left(m_writeRequests, k)' = Left(m_writeRequests, k)
      /\ m_readRequests' = m_readRequests /\ sent' = sent
      /\ v \in Handle /\ v \notin DOMAIN m_events
      /\ m_events' = Put(m_events, v, [type |-> "Encrypt", id |-> id])
      /\ \A k \in IDs : HasEvent("Decrypt", k)' <=> HasEvent("Decrypt", k)
  BY WriteEffect
<1>2. /\ asked' = [asked EXCEPT ![id] = q]
      /\ m_packet' = [val |-> v, enc |-> FALSE]
      /\ current' = [current EXCEPT ![blk] = @ \cup {v}]
      /\ allowed' = [k \in IDs |->
           IF k \in Outstanding("READ") /\ asked[k].blk = blk
           THEN allowed[k] \cup {v} ELSE allowed[k]]
      /\ readData' = readData /\ reqNet' = reqNet /\ repNet' = repNet
      /\ losses' = losses /\ m_allocMemory' = m_allocMemory /\ returned' = returned
  BY DEF VWrite, netVars
<1> HIDE DEF v
<1>3. v \in Value
  BY <1>1 DEF Value
<1>4. q \in [type : {"none", "READ", "WRITE"}, blk : Blocks, val : Value]
      /\ q.type = "WRITE" /\ q.blk = blk /\ q.val = v
  BY <1>3
<1> HIDE DEF q
<1>5. /\ AskedOK' /\ asked'[id] = q
      /\ \A k \in IDs : k # id => asked'[k] = asked[k]
      /\ \A r \in sent : r.id \in IDs /\ r.id # id
      /\ \A k \in DOMAIN m_readRequests : k \in IDs /\ k # id
      /\ \A k \in DOMAIN m_writeRequests : k \in IDs /\ k # id
      /\ ~HasEvent("Decrypt", id)
  BY <1>1, <1>2, <1>4, AskedAnew
<1>6. DatagramsKnown'
  BY <1>1, <1>2 DEF AgreeInv, DatagramsKnown
<1>7. BuffersOK'
  <2> DEFINE e == [type |-> "Encrypt", id |-> id]
  <2>1. e.type # "Decrypt" /\ m_events' = Put(m_events, v, e)
    BY <1>1
  <2> HIDE DEF e
  <2>2. {h \in DOMAIN m_events' : m_events'[h].type = "Decrypt"} =
        {h \in DOMAIN m_events : m_events[h].type = "Decrypt"}
    BY <1>1, <2>1 DEF Put
  <2>3. m_packet' \in Content
    BY <1>2, <1>3, ContentFacts
  <2> QED BY <1>2, <2>2, <2>3 DEF AgreeInv, BuffersOK
<1>8. StorageOK'
  <2>1. current' \in [Blocks -> SUBSET Value]
    BY <1>2, <1>3 DEF AgreeInv, StorageOK
  <2>2. allowed' \in [IDs -> SUBSET Value]
    BY <1>2, <1>3 DEF AgreeInv, StorageOK
  <2> QED BY <1>2, <2>1, <2>2 DEF AgreeInv, StorageOK
<1>9. SentAsAsked'
  BY <1>1, <1>5 DEF AgreeInv, SentAsAsked
<1>10. ReadsAsAsked'
  <2>1. \A k : Left(m_readRequests, k)' = Left(m_readRequests, k)
    BY <1>1 DEF Left
  <2> QED BY <1>1, <1>5, <2>1 DEF AgreeInv, ReadsAsAsked
<1>11. WritesAsAsked'
  BY <1>1, <1>4, <1>5 DEF AgreeInv, WritesAsAsked
<1>12. DecryptsAsAsked'
  BY <1>1, <1>5 DEF AgreeInv, DecryptsAsAsked
<1> QED BY <1>5, <1>6, <1>7, <1>8, <1>9, <1>10, <1>11, <1>12 DEF AgreeInv

\* Requests whose vectors stay as they are still wait for replicas of their block.
LEMMA VectorsKept ==
    ASSUME AgreeInv, asked' = asked,
           DOMAIN m_readRequests' \subseteq DOMAIN m_readRequests,
           DOMAIN m_writeRequests' \subseteq DOMAIN m_writeRequests,
           \A k \in DOMAIN m_readRequests' :
               m_readRequests'[k].blockLocations = m_readRequests[k].blockLocations,
           \A k \in DOMAIN m_writeRequests' :
               m_writeRequests'[k].blockLocations = m_writeRequests[k].blockLocations
    PROVE  AskedOK' /\ ReadsAsAsked' /\ WritesAsAsked'
<1>1. /\ \A k \in DOMAIN m_readRequests' : Left(m_readRequests, k)' = Left(m_readRequests, k)
      /\ \A k \in DOMAIN m_writeRequests' : Left(m_writeRequests, k)' = Left(m_writeRequests, k)
  BY DEF Left
<1> QED BY <1>1 DEF AgreeInv, AskedOK, ReadsAsAsked, WritesAsAsked

\* A worker's XOR keeps the agreement.
LEMMA SignalAgrees ==
    ASSUME IInv, AgreeInv, NEW h \in DOMAIN m_events, VEncryptDecryptIMP(h)
    PROVE  AgreeInv'
<1>1. /\ m_readRequests' = m_readRequests /\ m_writeRequests' = m_writeRequests
      /\ m_events' = m_events /\ sent' = sent
  BY SignalEffect
<1>2. /\ asked' = asked /\ reqNet' = reqNet /\ repNet' = repNet /\ losses' = losses
      /\ m_allocMemory' = m_allocMemory /\ returned' = returned
      /\ current' = current /\ allowed' = allowed
      /\ \/ m_packet' = Xor(m_packet) /\ readData' = readData
         \/ readData' = [readData EXCEPT ![h] = Xor(@)] /\ m_packet' = m_packet
  BY DEF VEncryptDecryptIMP, netVars, kernelVars
<1>3. BuffersOK'
  <2>1. /\ m_packet \in Content /\ readData \in [DOMAIN readData -> Content]
        /\ \A c \in Content : Xor(c) \in Content
    BY ContentFacts DEF AgreeInv, BuffersOK
  <2>2. m_packet' \in Content /\ DOMAIN readData' = DOMAIN readData
        /\ readData' \in [DOMAIN readData -> Content]
    BY <1>2, <2>1
  <2> QED BY <1>1, <2>2 DEF AgreeInv, BuffersOK
<1>4. AskedOK' /\ ReadsAsAsked' /\ WritesAsAsked'
  BY <1>1, <1>2, VectorsKept
<1>5. DatagramsKnown' /\ StorageOK' /\ SentAsAsked'
  BY <1>1, <1>2 DEF AgreeInv, DatagramsKnown, StorageOK, SentAsAsked
<1>6. DecryptsAsAsked'
  BY <1>1, <1>2, EventSame DEF AgreeInv, DecryptsAsAsked
<1> QED BY <1>3, <1>4, <1>5, <1>6 DEF AgreeInv

\* Sending an encrypted write keeps the agreement.
LEMMA EncryptedAgrees ==
    ASSUME IInv, AgreeInv, m_pipe # << >>, VOnEncrypted
    PROVE  AgreeInv'
<1> DEFINE x == Head(m_pipe)
           id == m_events[x].id
<1>0. m_packet \in Content
  BY DEF AgreeInv, BuffersOK
<1>1. /\ id \in DOMAIN m_writeRequests /\ id \in IDs
      /\ m_events' = Erase(m_events, x) /\ m_pipe' = Tail(m_pipe)
      /\ m_eventCounter' = m_eventCounter
      /\ DOMAIN m_writeRequests' = DOMAIN m_writeRequests
      /\ \A k \in DOMAIN m_writeRequests :
           m_writeRequests'[k].blockLocations = m_writeRequests[k].blockLocations
      /\ m_readRequests' = m_readRequests
      /\ sent \subseteq sent'
      /\ \A r \in sent' \ sent : /\ r.type = "WRITE" /\ r.id = id
                                 /\ Place(r) \in Left(m_writeRequests, id)
      /\ \A d \in reqNet' \ reqNet : d \in Datagram /\ RequestOf(d) \in sent'
  BY <1>0, EncryptedEffect
<1>2. /\ DOMAIN m_events' = DOMAIN m_events \ {x}
      /\ \A g \in DOMAIN m_events' : m_events'[g] = m_events[g]
      /\ \A k \in IDs : HasEvent("Decrypt", k)' => HasEvent("Decrypt", k)
  BY <1>1, FinishEffect
<1>3. /\ asked' = asked /\ repNet' = repNet /\ losses' = losses
      /\ m_packet' = m_packet /\ readData' = readData
      /\ m_allocMemory' = m_allocMemory /\ returned' = returned
      /\ current' = current /\ allowed' = allowed
      /\ m_events[x].type = "Encrypt"
  BY DEF VOnEncrypted, kernelVars
<1> HIDE DEF x, id
<1>4. AskedOK' /\ ReadsAsAsked' /\ WritesAsAsked'
  BY <1>1, <1>3, VectorsKept
<1>5. DatagramsKnown'
  BY <1>1, <1>3 DEF AgreeInv, DatagramsKnown
<1>6. BuffersOK'
  BY <1>2, <1>3 DEF AgreeInv, BuffersOK
<1>7. StorageOK'
  BY <1>3 DEF AgreeInv, StorageOK
<1>8. SentAsAsked'
  BY <1>1, <1>3 DEF AgreeInv, SentAsAsked, WritesAsAsked
<1>9. DecryptsAsAsked'
  BY <1>2, <1>3 DEF AgreeInv, DecryptsAsAsked
<1> QED BY <1>4, <1>5, <1>6, <1>7, <1>8, <1>9 DEF AgreeInv

\* Answering a read keeps the agreement: its buffer goes with its event.
LEMMA DecryptedAgrees ==
    ASSUME IInv, AgreeInv, m_pipe # << >>, VOnDecrypted
    PROVE  AgreeInv'
<1> DEFINE x == Head(m_pipe)
           id == m_events[x].id
<1>1. /\ x \in DOMAIN m_events /\ id \in IDs /\ m_events[x].type = "Decrypt"
      /\ m_events' = Erase(m_events, x) /\ m_pipe' = Tail(m_pipe)
      /\ m_eventCounter' = m_eventCounter
      /\ m_readRequests' = m_readRequests /\ m_writeRequests' = m_writeRequests
      /\ sent' = sent
  BY DecryptedEffect
<1>2. /\ DOMAIN m_events' = DOMAIN m_events \ {x}
      /\ \A g \in DOMAIN m_events' : m_events'[g] = m_events[g]
      /\ \A k \in IDs : HasEvent("Decrypt", k)' => HasEvent("Decrypt", k)
  BY <1>1, FinishEffect
<1>3. /\ asked' = asked /\ reqNet' = reqNet /\ repNet' = repNet /\ losses' = losses
      /\ m_packet' = m_packet /\ readData' = Erase(readData, x)
      /\ m_allocMemory' = m_allocMemory
      /\ returned' = [returned EXCEPT ![id] = readData[x]]
      /\ current' = current /\ allowed' = allowed
  BY DEF VOnDecrypted, netVars
<1> HIDE DEF x, id
<1>4. AskedOK' /\ ReadsAsAsked' /\ WritesAsAsked'
  BY <1>1, <1>3, VectorsKept
<1>5. DatagramsKnown' /\ SentAsAsked'
  BY <1>1, <1>3 DEF AgreeInv, DatagramsKnown, SentAsAsked
<1>6. /\ DOMAIN readData = {h \in DOMAIN m_events : m_events[h].type = "Decrypt"}
      /\ readData \in [DOMAIN readData -> Content]
  BY DEF AgreeInv, BuffersOK
<1>7. BuffersOK'
  <2>1. /\ DOMAIN readData' = DOMAIN readData \ {x}
        /\ readData' \in [DOMAIN readData' -> Content]
    BY <1>3, <1>6 DEF Erase
  <2> QED BY <1>2, <1>3, <1>6, <2>1 DEF AgreeInv, BuffersOK
<1>8. StorageOK'
  <2>1. readData[x] \in Content
    BY <1>1, <1>6
  <2> QED BY <1>3, <2>1 DEF AgreeInv, StorageOK
<1>9. DecryptsAsAsked'
  BY <1>2, <1>3 DEF AgreeInv, DecryptsAsAsked
<1> QED BY <1>4, <1>5, <1>7, <1>8, <1>9 DEF AgreeInv

\* A retry keeps the agreement.
LEMMA RetryAgrees ==
    ASSUME IInv, AgreeInv, NEW t \in m_callBacks, VCallBackWrapper(t)
    PROVE  AgreeInv'
<1>0. m_packet \in Content
  BY DEF AgreeInv, BuffersOK
<1>1. /\ DOMAIN m_readRequests' = DOMAIN m_readRequests
      /\ DOMAIN m_writeRequests' = DOMAIN m_writeRequests
      /\ \A k \in DOMAIN m_readRequests :
           m_readRequests'[k].blockLocations = m_readRequests[k].blockLocations
      /\ \A k \in DOMAIN m_writeRequests :
           m_writeRequests'[k].blockLocations = m_writeRequests[k].blockLocations
      /\ m_events' = m_events
      /\ sent \subseteq sent'
      /\ \A r \in sent' \ sent :
           \/ /\ r.type = "READ" /\ r.id \in DOMAIN m_readRequests
              /\ Place(r) \in Left(m_readRequests, r.id)
           \/ /\ r.type = "WRITE" /\ r.id \in DOMAIN m_writeRequests
              /\ Place(r) \in Left(m_writeRequests, r.id)
      /\ \A d \in reqNet' \ reqNet : d \in Datagram /\ RequestOf(d) \in sent'
  BY <1>0, RetryEffect
<1>2. /\ asked' = asked /\ repNet' = repNet /\ losses' = losses
      /\ m_packet' = m_packet /\ readData' = readData
      /\ m_allocMemory' = m_allocMemory /\ returned' = returned
      /\ current' = current /\ allowed' = allowed
  BY DEF VCallBackWrapper, kernelVars
<1>3. AskedOK' /\ ReadsAsAsked' /\ WritesAsAsked'
  BY <1>1, <1>2, VectorsKept
<1>4. DatagramsKnown'
  BY <1>1, <1>2 DEF AgreeInv, DatagramsKnown
<1>5. BuffersOK' /\ StorageOK'
  BY <1>1, <1>2 DEF AgreeInv, BuffersOK, StorageOK
<1>6. SentAsAsked'
  BY <1>1, <1>2 DEF AgreeInv, SentAsAsked, ReadsAsAsked, WritesAsAsked
<1>7. DecryptsAsAsked'
  BY <1>1, <1>2, EventSame DEF AgreeInv, DecryptsAsAsked
<1> QED BY <1>3, <1>4, <1>5, <1>6, <1>7 DEF AgreeInv

\* A step outside the vdr process leaves the Master alone.
LEMMA MasterUnchanged ==
    ASSUME UNCHANGED mVars
    PROVE  /\ m_readRequests' = m_readRequests /\ m_writeRequests' = m_writeRequests
           /\ m_events' = m_events /\ m_eventCounter' = m_eventCounter /\ m_pipe' = m_pipe
           /\ sent' = sent /\ nbd' = nbd
           /\ \A k : Left(m_readRequests, k)' = Left(m_readRequests, k)
           /\ \A k : Left(m_writeRequests, k)' = Left(m_writeRequests, k)
           /\ \A g : Signalled(g)' <=> Signalled(g)
           /\ \A ty, k : HasEvent(ty, k)' <=> HasEvent(ty, k)
<1>1. /\ m_readRequests' = m_readRequests /\ m_writeRequests' = m_writeRequests
      /\ m_events' = m_events /\ m_eventCounter' = m_eventCounter /\ m_pipe' = m_pipe
      /\ sent' = sent /\ nbd' = nbd
  BY DEF mVars, requestVars, eventVars
<1>2. /\ \A k : Left(m_readRequests, k)' = Left(m_readRequests, k)
      /\ \A k : Left(m_writeRequests, k)' = Left(m_writeRequests, k)
  BY <1>1 DEF Left
<1>3. /\ \A g : Signalled(g)' <=> Signalled(g)
  BY <1>1 DEF Signalled
<1> QED BY <1>1, <1>2, <1>3, EventSame

\* While the Master rests, the agreement concerns only what is on the wire and
\* what the minions store.
LEMMA RestAgrees ==
    ASSUME AgreeInv, UNCHANGED mVars, asked' = asked, m_packet' = m_packet,
           readData' = readData, DatagramsKnown', StorageOK'
    PROVE  AgreeInv'
<1>1. /\ m_readRequests' = m_readRequests /\ m_writeRequests' = m_writeRequests
      /\ m_events' = m_events /\ sent' = sent
      /\ \A ty, k : HasEvent(ty, k)' <=> HasEvent(ty, k)
  BY MasterUnchanged
<1>2. AskedOK' /\ ReadsAsAsked' /\ WritesAsAsked'
  BY <1>1, VectorsKept
<1>3. BuffersOK' /\ SentAsAsked' /\ DecryptsAsAsked'
  BY <1>1 DEF AgreeInv, BuffersOK, SentAsAsked, DecryptsAsAsked
<1> QED BY <1>2, <1>3 DEF AgreeInv

\* Where a datagram is addressed, a minion has memory.
LEMMA DatagramAddress ==
    ASSUME NEW d \in Datagram
    PROVE  /\ d.minionID \in Minions /\ d.blockOffset \in Slots /\ d.data \in Content
           /\ d.id \in IDs /\ d.type \in {"READ", "WRITE"}
           /\ Place(d).minionID = d.minionID /\ Place(d).blockOffset = d.blockOffset
  BY DEF Datagram, Place, RequestType

\* A minion that serves a request keeps the agreement.
LEMMA MinionAgrees ==
    ASSUME AgreeInv, NEW req \in reqNet, MinionRead(req) \/ MinionWrite(req)
    PROVE  AgreeInv'
<1>1. /\ UNCHANGED mVars /\ asked' = asked /\ m_packet' = m_packet /\ readData' = readData
      /\ losses' = losses /\ returned' = returned /\ current' = current /\ allowed' = allowed
      /\ reqNet' \in Receive(reqNet, req)
  BY DEF MinionRead, MinionWrite, kernelVars
<1>2. reqNet' \subseteq reqNet
  BY <1>1 DEF Receive
<1>3. req \in Datagram /\ RequestOf(req) \in sent
  BY DEF AgreeInv, DatagramsKnown
<1>4. /\ req.minionID \in Minions /\ req.blockOffset \in Slots /\ req.data \in Content
      /\ m_allocMemory \in [Minions -> [Slots -> Content]]
  BY <1>3, DatagramAddress DEF AgreeInv, StorageOK
<1>5. PICK data \in Content : repNet' = repNet \cup {Reply(req, data)}
  <2>1. m_allocMemory[req.minionID][req.blockOffset] \in Content /\ Blank \in Content
    BY <1>4, ContentFacts
  <2> QED BY <2>1 DEF MinionRead, MinionWrite
<1>6. sent' = sent
  BY <1>1, MasterUnchanged
<1>7. DatagramsKnown'
  <2>1. Reply(req, data) \in Datagram /\ RequestOf(Reply(req, data)) \in sent
    BY <1>3, ReplyIsDatagram
  <2> QED BY <1>2, <1>5, <1>6, <2>1 DEF AgreeInv, DatagramsKnown
<1>8. m_allocMemory' \in [Minions -> [Slots -> Content]]
  <2>1. CASE MinionRead(req)
    BY <1>4, <2>1 DEF MinionRead
  <2>2. CASE MinionWrite(req)
    <3>1. m_allocMemory' = [m_allocMemory EXCEPT ![req.minionID][req.blockOffset] = req.data]
      BY <2>2 DEF MinionWrite
    <3> QED BY <1>4, <3>1
  <2> QED BY <2>1, <2>2
<1>9. StorageOK'
  BY <1>1, <1>8 DEF AgreeInv, StorageOK
<1> QED BY <1>1, <1>7, <1>9, RestAgrees

\* Losing a datagram keeps the agreement.
LEMMA LoseAgrees ==
    ASSUME AgreeInv, NEW d, Lose(d)
    PROVE  AgreeInv'
<1>1. /\ UNCHANGED mVars /\ asked' = asked /\ m_packet' = m_packet /\ readData' = readData
      /\ losses < MaxLosses /\ losses' = losses + 1
      /\ returned' = returned /\ current' = current /\ allowed' = allowed
      /\ m_allocMemory' = m_allocMemory
      /\ reqNet' \subseteq reqNet /\ repNet' \subseteq repNet
  BY DEF Lose, kernelVars
<1>2. sent' = sent
  BY <1>1, MasterUnchanged
<1>3. DatagramsKnown'
  BY <1>1, <1>2 DEF AgreeInv, DatagramsKnown
<1>4. StorageOK'
  BY <1>1, VdrAssumption DEF AgreeInv, StorageOK
<1> QED BY <1>1, <1>3, <1>4, RestAgrees

\* Erasing adds no location.
LEMMA EraseAtSubset ==
    ASSUME NEW vec \in Seq(BlockLocation), NEW i \in DOMAIN vec
    PROVE  LocationsIn(EraseAt(vec, i)) \subseteq LocationsIn(vec)
<1>1. Len(vec) \in Nat /\ DOMAIN vec = 1 .. Len(vec)
  OBVIOUS
<1>2. \A j \in 1 .. Len(vec) - 1 : j \in DOMAIN vec /\ j + 1 \in DOMAIN vec
  BY <1>1
<1> QED BY <1>2 DEF LocationsIn, EraseAt

\* A reply keeps the agreement, whatever the Master does with it.
LEMMA ReplyAgrees ==
    ASSUME IInv, AgreeInv, NEW rep \in repNet, NEW m \in Minions, RecieveFromMinionCB(rep, m)
    PROVE  AgreeInv'
<1>1. /\ m_packet' = m_packet /\ reqNet' = reqNet /\ losses' = losses
      /\ m_allocMemory' = m_allocMemory /\ asked' = asked
      /\ returned' = returned /\ allowed' = allowed
      /\ repNet' \in Receive(repNet, rep)
  BY DEF RecieveFromMinionCB
<1>2. repNet' \subseteq repNet
  BY <1>1 DEF Receive
<1>3. rep \in Datagram
  BY DEF AgreeInv, DatagramsKnown
<1>4. CASE IgnoreReply(rep, m)
  <2>1. UNCHANGED mVars /\ readData' = readData /\ current' = current
    BY <1>4 DEF IgnoreReply
  <2>2. sent' = sent
    BY <2>1, MasterUnchanged
  <2>3. DatagramsKnown' /\ StorageOK'
    BY <1>1, <1>2, <2>1, <2>2 DEF AgreeInv, DatagramsKnown, StorageOK
  <2> QED BY <1>1, <2>1, <2>3, RestAgrees
<1>5. CASE VReplyReadIMP(rep, m)
  <2> DEFINE id == rep.id
             c == m_eventCounter
             e == [type |-> "Decrypt", id |-> id]
  <2>1. /\ id \in DOMAIN m_readRequests /\ id \in IDs
        /\ DOMAIN m_readRequests' = DOMAIN m_readRequests \ {id}
        /\ \A k \in DOMAIN m_readRequests' : Left(m_readRequests, k)' = Left(m_readRequests, k)
        /\ m_writeRequests' = m_writeRequests /\ sent' = sent
        /\ c \in Handle /\ c \notin DOMAIN m_events
        /\ m_events' = Put(m_events, c, e)
        /\ \A k \in IDs : HasEvent("Decrypt", k)' <=> HasEvent("Decrypt", k) \/ k = id
    BY <1>5, ReplyReadEffect
  <2>2. readData' = Put(readData, c, rep.data) /\ current' = current
    BY <1>5 DEF VReplyReadIMP
  <2>3. e.type = "Decrypt"
    OBVIOUS
  <2> HIDE DEF id, c, e
  <2>4. BuffersOK'
    <3>1. {h \in DOMAIN m_events' : m_events'[h].type = "Decrypt"} =
          {h \in DOMAIN m_events : m_events[h].type = "Decrypt"} \cup {c}
      BY <2>1, <2>3 DEF Put
    <3>2. rep.data \in Content
      BY <1>3, DatagramAddress
    <3>3. /\ DOMAIN readData = {h \in DOMAIN m_events : m_events[h].type = "Decrypt"}
          /\ readData \in [DOMAIN readData -> Content]
      BY DEF AgreeInv, BuffersOK
    <3>4. /\ DOMAIN readData' = DOMAIN readData \cup {c}
          /\ readData' \in [DOMAIN readData' -> Content]
      BY <2>2, <3>2, <3>3 DEF Put
    <3> QED BY <1>1, <3>1, <3>3, <3>4 DEF AgreeInv, BuffersOK
  <2>5. ReadsAsAsked'
    BY <1>1, <2>1 DEF AgreeInv, ReadsAsAsked
  <2>6. WritesAsAsked'
    <3>1. \A k : Left(m_writeRequests, k)' = Left(m_writeRequests, k)
      BY <2>1 DEF Left
    <3> QED BY <1>1, <2>1, <3>1 DEF AgreeInv, WritesAsAsked
  <2>7. DecryptsAsAsked'
    BY <1>1, <2>1 DEF AgreeInv, DecryptsAsAsked, ReadsAsAsked
  <2>8. AskedOK' /\ DatagramsKnown' /\ StorageOK' /\ SentAsAsked'
    BY <1>1, <1>2, <2>1, <2>2 DEF AgreeInv, AskedOK, DatagramsKnown, StorageOK, SentAsAsked
  <2> QED BY <2>4, <2>5, <2>6, <2>7, <2>8 DEF AgreeInv
<1>6. CASE VReplyWriteIMP(rep, m)
  <2> DEFINE id == rep.id
             vec == m_writeRequests[id].blockLocations
  <2>1. /\ id \in DOMAIN m_writeRequests /\ id \in IDs
        /\ m_readRequests' = m_readRequests /\ sent' = sent /\ m_events' = m_events
        /\ \A k \in DOMAIN m_writeRequests : k # id => m_writeRequests'[k] = m_writeRequests[k]
    BY <1>6, ReplyWriteEffect
  <2>2. PICK i \in DOMAIN vec :
          \/ /\ DOMAIN m_writeRequests' = DOMAIN m_writeRequests
             /\ m_writeRequests'[id].blockLocations = EraseAt(vec, i)
          \/ DOMAIN m_writeRequests' = DOMAIN m_writeRequests \ {id}
    BY <1>6, ReplyWriteEffect
  <2>3. /\ readData' = readData
        /\ current' = current \/ current' = [current EXCEPT ![asked[id].blk] = {asked[id].val}]
    BY <1>6 DEF VReplyWriteIMP
  <2>4. LocationsIn(EraseAt(vec, i)) \subseteq LocationsIn(vec)
    BY <2>1, MappedType, EraseAtSubset
  <2>5. \A k \in DOMAIN m_writeRequests' :
          k \in DOMAIN m_writeRequests /\ Left(m_writeRequests, k)' \subseteq Left(m_writeRequests, k)
    <3> SUFFICES ASSUME NEW k \in DOMAIN m_writeRequests'
                 PROVE  k \in DOMAIN m_writeRequests /\ Left(m_writeRequests, k)' \subseteq Left(m_writeRequests, k)
      OBVIOUS
    <3>1. CASE k = id
      <4>1. m_writeRequests'[k].blockLocations = EraseAt(vec, i)
        BY <2>2, <3>1
      <4> QED BY <2>1, <2>4, <3>1, <4>1 DEF Left
    <3>2. CASE k # id
      <4>1. k \in DOMAIN m_writeRequests /\ m_writeRequests'[k] = m_writeRequests[k]
        BY <2>1, <2>2, <3>2
      <4> QED BY <4>1 DEF Left
    <3> QED BY <3>1, <3>2
  <2>6. WritesAsAsked'
    BY <1>1, <2>5 DEF AgreeInv, WritesAsAsked
  <2>7. ReadsAsAsked'
    <3>1. \A k : Left(m_readRequests, k)' = Left(m_readRequests, k)
      BY <2>1 DEF Left
    <3> QED BY <1>1, <2>1, <3>1 DEF AgreeInv, ReadsAsAsked
  <2>8. StorageOK'
    <3>1. asked[id].blk \in Blocks /\ asked[id].val \in Value
      BY <2>1 DEF AgreeInv, AskedOK
    <3>2. current' \in [Blocks -> SUBSET Value]
      BY <2>3, <3>1 DEF AgreeInv, StorageOK
    <3> QED BY <1>1, <3>2 DEF AgreeInv, StorageOK
  <2>9. AskedOK' /\ DatagramsKnown' /\ BuffersOK' /\ SentAsAsked'
    BY <1>1, <1>2, <2>1, <2>3 DEF AgreeInv, AskedOK, DatagramsKnown, BuffersOK, SentAsAsked
  <2>10. DecryptsAsAsked'
    BY <1>1, <2>1, EventSame DEF AgreeInv, DecryptsAsAsked
  <2> QED BY <2>6, <2>7, <2>8, <2>9, <2>10 DEF AgreeInv
<1> QED BY <1>4, <1>5, <1>6 DEF RecieveFromMinionCB

\* The kernel has asked for nothing, and everything else is empty.
LEMMA InitAgrees == VInit => AgreeInv
<1> SUFFICES ASSUME VInit PROVE AgreeInv
  OBVIOUS
<1>1. /\ m_readRequests = [id \in {} |-> 0] /\ m_writeRequests = [id \in {} |-> 0]
      /\ m_events = [h \in {} |-> 0] /\ sent = {}
  BY DEF VInit, Init
<1>2. Unwritten \in Value /\ Blank \in Content
  BY ContentFacts
<1>3. 0 \in Blocks
  BY BlockTableAssumption DEF Blocks
<1>4. AskedOK
  BY <1>2, <1>3 DEF VInit, NotAsked, AskedOK
<1>5. BuffersOK
  BY <1>1, <1>2 DEF VInit, BuffersOK
<1>6. StorageOK
  BY <1>2, VdrAssumption DEF VInit, StorageOK
<1>7. DatagramsKnown /\ SentAsAsked /\ ReadsAsAsked /\ WritesAsAsked /\ DecryptsAsAsked
  BY <1>1 DEF VInit, DatagramsKnown, SentAsAsked, ReadsAsAsked, WritesAsAsked, DecryptsAsAsked,
              HasEvent
<1> QED BY <1>4, <1>5, <1>6, <1>7 DEF AgreeInv

\* Every step of the system keeps the Master's invariant and the agreement.
LEMMA NextAgrees ==
    ASSUME ReuseIds = FALSE
    PROVE  IInv /\ AgreeInv /\ [VNext]_vars => IInv' /\ AgreeInv'
<1> SUFFICES ASSUME IInv, AgreeInv, [VNext]_vars PROVE IInv' /\ AgreeInv'
  OBVIOUS
<1>1. IInv'
  BY VNextIsMasterStep, NextIInv DEF IInv
<1>2. CASE KernelStep
  BY <1>1, <1>2, ReadAgrees, WriteAgrees DEF KernelStep
<1>3. CASE WorkerStep
  BY <1>1, <1>3, SignalAgrees DEF WorkerStep
<1>4. CASE VOnEventFinishedCB
  BY <1>1, <1>4, EncryptedAgrees, DecryptedAgrees DEF VOnEventFinishedCB
<1>5. CASE TimerStep
  BY <1>1, <1>5, RetryAgrees DEF TimerStep
<1>6. CASE MinionStep
  BY <1>1, <1>6, MinionAgrees DEF MinionStep
<1>7. CASE ReplyStep
  BY <1>1, <1>7, ReplyAgrees DEF ReplyStep
<1>8. CASE LossStep
  BY <1>1, <1>8, LoseAgrees DEF LossStep
<1>9. CASE UNCHANGED vars
  <2>1. /\ UNCHANGED mVars /\ asked' = asked /\ m_packet' = m_packet /\ readData' = readData
        /\ reqNet' = reqNet /\ repNet' = repNet /\ losses' = losses
        /\ returned' = returned /\ current' = current /\ allowed' = allowed
        /\ m_allocMemory' = m_allocMemory
    BY <1>9 DEF vars, netVars, kernelVars
  <2>2. sent' = sent
    BY <2>1, MasterUnchanged
  <2>3. DatagramsKnown' /\ StorageOK'
    BY <2>1, <2>2 DEF AgreeInv, DatagramsKnown, StorageOK
  <2> QED BY <1>1, <2>1, <2>3, RestAgrees
<1> QED BY <1>1, <1>2, <1>3, <1>4, <1>5, <1>6, <1>7, <1>8, <1>9 DEF VNext

\* The sockets are bound once.
SocketsOK == socketOf \in SocketChoices

LEMMA SocketsStay == [VNext]_vars => socketOf' = socketOf
<1> SUFFICES ASSUME [VNext]_vars PROVE socketOf' = socketOf
  OBVIOUS
<1>1. CASE KernelStep
  BY <1>1 DEF KernelStep, VRead, VWrite
<1>2. CASE WorkerStep
  BY <1>2 DEF WorkerStep, VEncryptDecryptIMP
<1>3. CASE VOnEventFinishedCB
  BY <1>3 DEF VOnEventFinishedCB, VOnEncrypted, VOnDecrypted
<1>4. CASE TimerStep
  BY <1>4 DEF TimerStep, VCallBackWrapper
<1>5. CASE MinionStep
  BY <1>5 DEF MinionStep, MinionRead, MinionWrite
<1>6. CASE ReplyStep
  BY <1>6 DEF ReplyStep, RecieveFromMinionCB
<1>7. CASE LossStep
  BY <1>7 DEF LossStep, Lose
<1>8. CASE UNCHANGED vars
  BY <1>8 DEF vars
<1> QED BY <1>1, <1>2, <1>3, <1>4, <1>5, <1>6, <1>7, <1>8 DEF VNext

\* The agreement gives the types of the composition.
LEMMA TypeFromAgreement == IInv /\ AgreeInv /\ SocketsOK => VTypeOK
<1> SUFFICES ASSUME IInv, AgreeInv, SocketsOK PROVE VTypeOK
  OBVIOUS
<1>1. DOMAIN readData \subseteq Handle
  BY DEF AgreeInv, BuffersOK, IInv, TypeOK
<1>2. \A d \in reqNet \cup repNet :
        /\ [type |-> d.type, id |-> d.id, minionID |-> d.minionID,
            blockOffset |-> d.blockOffset] \in sent
        /\ d.data \in Content
  BY DatagramAddress DEF AgreeInv, DatagramsKnown, RequestOf
<1> QED BY <1>1, <1>2 DEF IInv, AgreeInv, BuffersOK, StorageOK, SocketsOK, VTypeOK

\* In the whole system, whatever is lost, repeated or late, the Master's state has
\* its types, the buffers and the minions' memory hold contents, and every datagram
\* on the network belongs to a request a minion proxy has sent.
THEOREM VdrTypeCorrect ==
    ASSUME ReuseIds = FALSE
    PROVE  VSpec => []VTypeOK
<1>1. VInit => IInv /\ AgreeInv /\ SocketsOK
  BY InitIInv, InitAgrees DEF VInit, SocketsOK
<1>2. IInv /\ AgreeInv /\ SocketsOK /\ [VNext]_vars => IInv' /\ AgreeInv' /\ SocketsOK'
  BY NextAgrees, SocketsStay DEF SocketsOK
<1>3. IInv /\ AgreeInv /\ SocketsOK => VTypeOK
  BY TypeFromAgreement
<1> QED BY <1>1, <1>2, <1>3, PTL DEF VSpec

---------------------------------------------------------------------------
(* A write waits for the minions on whose account no reply was put *)

\* A vector has no minion twice, so the linear search finds the one that answers.
VectorsDistinct ==
    \A id \in DOMAIN m_writeRequests :
        \A i, j \in DOMAIN m_writeRequests[id].blockLocations :
            m_writeRequests[id].blockLocations[i].minionID =
                m_writeRequests[id].blockLocations[j].minionID => i = j

WaitsForUncredited ==
    \A id \in DOMAIN m_writeRequests : \A loc \in Replicas(asked[id].blk) :
        loc \in Left(m_writeRequests, id) <=> loc.minionID \notin Credited(id)

CreditInv == VectorsDistinct /\ WaitsForUncredited

\* A datagram under way is for a replica of the block asked for under its handle.
LEMMA DatagramAsAsked ==
    ASSUME AgreeInv, NEW d \in reqNet \cup repNet
    PROVE  /\ d \in Datagram /\ d.id \in IDs /\ RequestOf(d) \in sent
           /\ d.type = asked[d.id].type
           /\ asked[d.id].blk \in Blocks
           /\ Place(d) \in Replicas(asked[d.id].blk)
           /\ Place(d) \in BlockLocation
<1>1. d \in Datagram /\ RequestOf(d) \in sent
  BY DEF AgreeInv, DatagramsKnown
<1>2. RequestOf(d).type = d.type /\ RequestOf(d).id = d.id /\ Place(RequestOf(d)) = Place(d)
  BY DEF RequestOf, Place
<1>3. d.type = asked[d.id].type /\ Place(d) \in Replicas(asked[d.id].blk)
  BY <1>1, <1>2 DEF AgreeInv, SentAsAsked
<1>4. d.id \in IDs
  BY <1>1, DatagramAddress
<1>5. asked[d.id].blk \in Blocks
  BY <1>4 DEF AgreeInv, AskedOK
<1> QED BY <1>1, <1>3, <1>4, <1>5, ReplicaFacts

\* The block of a mapped write.
LEMMA WriteAsked ==
    ASSUME IInv, AgreeInv, NEW id \in DOMAIN m_writeRequests
    PROVE  /\ id \in IDs /\ asked[id].type = "WRITE" /\ asked[id].val \in Handle
           /\ asked[id].blk \in Blocks
           /\ Left(m_writeRequests, id) \subseteq Replicas(asked[id].blk)
           /\ Replicas(asked[id].blk) \subseteq BlockLocation
<1>1. id \in IDs
  BY MappedType
<1>2. asked[id].blk \in Blocks
  BY <1>1 DEF AgreeInv, AskedOK
<1> QED BY <1>1, <1>2, ReplicaFacts DEF AgreeInv, WritesAsAsked

\* Nothing changes for the writes while their vectors and what was heard stay.
LEMMA VectorsKeepCredit ==
    ASSUME IInv, AgreeInv, CreditInv, heard' = heard, socketOf' = socketOf,
           DOMAIN m_writeRequests' = DOMAIN m_writeRequests,
           \A k \in DOMAIN m_writeRequests :
               /\ m_writeRequests'[k].blockLocations = m_writeRequests[k].blockLocations
               /\ asked'[k] = asked[k]
    PROVE  CreditInv'
<1>1. \A k \in DOMAIN m_writeRequests : Left(m_writeRequests, k)' = Left(m_writeRequests, k)
  BY DEF Left
<1>2. \A k, loc : HasReplied(k, loc)' <=> HasReplied(k, loc)
  BY DEF HasReplied
<1>3. VectorsDistinct'
  BY DEF CreditInv, VectorsDistinct
<1>4. \A k \in DOMAIN m_writeRequests : Credited(k)' = Credited(k)
  BY <1>2 DEF Credited
<1>5. WaitsForUncredited'
  BY <1>1, <1>4 DEF CreditInv, WaitsForUncredited
<1> QED BY <1>3, <1>5 DEF CreditInv

\* A new write waits for all its replicas, and nobody was heard under its handle.
LEMMA WriteCredit ==
    ASSUME IInv, AgreeInv, CreditInv, ReuseIds = FALSE, NumMinions > 1,
           NEW id \in IDs, NEW blk \in Blocks, VWrite(id, blk)
    PROVE  CreditInv'
<1>1. /\ nbd[id] = "free"
      /\ DOMAIN m_writeRequests' = DOMAIN m_writeRequests \cup {id}
      /\ m_writeRequests'[id].blockLocations = Translate(blk * BLOCK_SIZE)
      /\ Left(m_writeRequests, id)' = Replicas(blk)
      /\ \A k \in DOMAIN m_writeRequests :
           /\ m_writeRequests'[k] = m_writeRequests[k]
           /\ Left(m_writeRequests, k)' = Left(m_writeRequests, k)
  BY WriteEffect
<1>2. /\ asked' = [asked EXCEPT ![id] = [type |-> "WRITE", blk |-> blk, val |-> m_eventCounter]]
      /\ heard' = {h \in heard : h.id # id} /\ socketOf' = socketOf
  BY DEF VWrite
<1>3. /\ asked'[id].blk = blk
      /\ \A k \in DOMAIN m_writeRequests : k # id /\ asked'[k] = asked[k]
  <2>1. \A k \in DOMAIN m_writeRequests : k \in IDs /\ k # id
    BY <1>1, MappedType, WriteEffect
  <2> QED BY <1>2, <2>1 DEF AgreeInv, AskedOK
<1>4. /\ \A loc : ~HasReplied(id, loc)'
      /\ \A k, loc : k # id => (HasReplied(k, loc)' <=> HasReplied(k, loc))
  BY <1>2 DEF HasReplied
<1>5. VectorsDistinct'
  <2>1. \A i, j \in DOMAIN m_writeRequests'[id].blockLocations :
          m_writeRequests'[id].blockLocations[i].minionID =
            m_writeRequests'[id].blockLocations[j].minionID => i = j
    BY <1>1, ReplicaFacts
  <2> QED BY <1>1, <2>1 DEF CreditInv, VectorsDistinct
<1>6. Credited(id)' = {}
  BY <1>4 DEF Credited
<1>7. \A k \in DOMAIN m_writeRequests : Credited(k)' = Credited(k)
  BY <1>2, <1>3, <1>4 DEF Credited
<1>8. WaitsForUncredited'
  BY <1>1, <1>3, <1>6, <1>7 DEF CreditInv, WaitsForUncredited
<1> QED BY <1>5, <1>8 DEF CreditInv

\* What is heard after a reply, one more location, and what is credited, to the
\* minion of the proxy whose socket got it.
LEMMA CreditedAfterReply ==
    ASSUME AgreeInv, NEW rep \in repNet, NEW m \in Minions, RecieveFromMinionCB(rep, m)
    PROVE  /\ m = socketOf[Place(rep).minionID] /\ socketOf' = socketOf
           /\ \A k \in IDs, loc \in BlockLocation :
                HasReplied(k, loc)' <=> HasReplied(k, loc) \/ (k = rep.id /\ loc = Place(rep))
           /\ Credited(rep.id)' = Credited(rep.id) \cup {m}
           /\ \A k \in IDs : k # rep.id => Credited(k)' = Credited(k)
<1>1. rep \in Datagram /\ Place(rep).minionID = rep.minionID /\ rep.minionID \in Minions
  BY DatagramAddress DEF AgreeInv, DatagramsKnown
<1>2. m = socketOf[rep.minionID] /\ socketOf' = socketOf /\ asked' = asked
  BY DEF RecieveFromMinionCB
<1>3. heard' = heard \cup {[id |-> rep.id, minionID |-> rep.minionID,
                            blockOffset |-> rep.blockOffset]}
  BY DEF RecieveFromMinionCB
<1>4. ASSUME NEW k \in IDs, NEW loc \in BlockLocation
      PROVE  HasReplied(k, loc)' <=> HasReplied(k, loc) \/ (k = rep.id /\ loc = Place(rep))
  <2> DEFINE a == [id |-> k, minionID |-> loc.minionID, blockOffset |-> loc.blockOffset]
             b == [id |-> rep.id, minionID |-> rep.minionID, blockOffset |-> rep.blockOffset]
  <2>1. a = b <=> k = rep.id /\ loc = Place(rep)
    BY DEF Place, BlockLocation
  <2>2. HasReplied(k, loc)' <=> HasReplied(k, loc) \/ a = b
    BY <1>3 DEF HasReplied
  <2> QED BY <2>1, <2>2
<1>5. \A k \in IDs : Replicas(asked[k].blk) \subseteq BlockLocation
  BY ReplicaFacts DEF AgreeInv, AskedOK
<1>6. rep.id \in IDs /\ Place(rep) \in Replicas(asked[rep.id].blk)
  BY DatagramAsAsked
<1>7. ASSUME NEW k \in IDs, k # rep.id PROVE Credited(k)' = Credited(k)
  BY <1>2, <1>4, <1>5, <1>7 DEF Credited
<1>8. Credited(rep.id)' = Credited(rep.id) \cup {m}
  <2> DEFINE R == Replicas(asked[rep.id].blk)
  <2>1. {l \in R : HasReplied(rep.id, l)'} = {l \in R : HasReplied(rep.id, l)} \cup {Place(rep)}
    BY <1>4, <1>5, <1>6
  <2>2. Credited(rep.id)' = {socketOf[l.minionID] : l \in {l \in R : HasReplied(rep.id, l)'}}
    BY <1>2 DEF Credited
  <2>3. Credited(rep.id) = {socketOf[l.minionID] : l \in {l \in R : HasReplied(rep.id, l)}}
    BY DEF Credited
  <2> HIDE DEF R
  <2> QED BY <1>1, <1>2, <2>1, <2>2, <2>3
<1> QED BY <1>1, <1>2, <1>4, <1>7, <1>8

\* A reply to a write takes the location of the minion it is credited to out of
\* the vector, wherever it comes from.
LEMMA ReplyTakesItsPlace ==
    ASSUME IInv, AgreeInv, VectorsDistinct, NumMinions > 1, NEW rep \in repNet,
           NEW m \in Minions, RecieveFromMinionCB(rep, m), VReplyWriteIMP(rep, m)
    PROVE  \E loc \in Left(m_writeRequests, rep.id) :
             /\ rep.id \in DOMAIN m_writeRequests /\ rep.type = "WRITE" /\ loc.minionID = m
             /\ \/ /\ DOMAIN m_writeRequests' = DOMAIN m_writeRequests
                   /\ Left(m_writeRequests, rep.id)' = Left(m_writeRequests, rep.id) \ {loc}
                   /\ \A i, j \in DOMAIN m_writeRequests'[rep.id].blockLocations :
                        m_writeRequests'[rep.id].blockLocations[i].minionID =
                          m_writeRequests'[rep.id].blockLocations[j].minionID => i = j
                   /\ nbd' = nbd /\ current' = current
                \/ /\ DOMAIN m_writeRequests' = DOMAIN m_writeRequests \ {rep.id}
                   /\ Left(m_writeRequests, rep.id) = {loc}
                   /\ nbd[rep.id] = "pending" /\ nbd' = [nbd EXCEPT ![rep.id] = "answered"]
                   /\ current' = [current EXCEPT ![asked[rep.id].blk] = {asked[rep.id].val}]
<1> DEFINE id == rep.id
           vec == m_writeRequests[id].blockLocations
<1>1. id \in DOMAIN m_writeRequests /\ id \in IDs /\ rep.type = "WRITE" /\ nbd[id] = "pending"
  BY ReplyWriteEffect
<1>2. PICK i \in DOMAIN vec :
        /\ vec[i].minionID = m
        /\ \/ /\ Len(vec) > 1
              /\ DOMAIN m_writeRequests' = DOMAIN m_writeRequests
              /\ m_writeRequests'[id].blockLocations = EraseAt(vec, i)
              /\ nbd' = nbd
           \/ /\ Len(vec) = 1
              /\ DOMAIN m_writeRequests' = DOMAIN m_writeRequests \ {id}
              /\ nbd' = [nbd EXCEPT ![id] = "answered"]
  BY ReplyWriteEffect
<1>3. vec \in Seq(BlockLocation)
  BY <1>1, MappedType
<1>4. \A j, k \in DOMAIN vec : vec[j].minionID = vec[k].minionID => j = k
  BY <1>1 DEF VectorsDistinct
<1>5. vec[i] \in Left(m_writeRequests, id) /\ Left(m_writeRequests, id) = LocationsIn(vec)
  BY DEF Left, LocationsIn
<1>6. current' = IF nbd' = nbd THEN current
                 ELSE [current EXCEPT ![asked[id].blk] = {asked[id].val}]
  BY DEF VReplyWriteIMP
<1>7. CASE /\ DOMAIN m_writeRequests' = DOMAIN m_writeRequests
           /\ m_writeRequests'[id].blockLocations = EraseAt(vec, i)
           /\ nbd' = nbd
  <2>1. Left(m_writeRequests, id)' = LocationsIn(EraseAt(vec, i))
    BY <1>7 DEF Left
  <2>2. /\ LocationsIn(EraseAt(vec, i)) = LocationsIn(vec) \ {vec[i]}
        /\ \A j, k \in DOMAIN EraseAt(vec, i) :
             EraseAt(vec, i)[j].minionID = EraseAt(vec, i)[k].minionID => j = k
    BY <1>3, <1>4, EraseAtLeft
  <2> QED BY <1>1, <1>2, <1>5, <1>6, <1>7, <2>1, <2>2
<1>8. CASE /\ Len(vec) = 1
           /\ DOMAIN m_writeRequests' = DOMAIN m_writeRequests \ {id}
           /\ nbd' = [nbd EXCEPT ![id] = "answered"]
  <2>1. i = 1 /\ DOMAIN vec = {1}
    BY <1>3, <1>8
  <2>2. LocationsIn(vec) = {vec[i]}
    BY <2>1 DEF LocationsIn
  <2>3. nbd' # nbd
    BY <1>1, <1>8 DEF IInv, TypeOK
  <2> QED BY <1>1, <1>2, <1>5, <1>6, <1>8, <2>2, <2>3
<1> QED BY <1>2, <1>7, <1>8

\* Replies keep a write waiting for exactly the minions that were not credited.
LEMMA ReplyCredit ==
    ASSUME IInv, AgreeInv, CreditInv, NumMinions > 1, NEW rep \in repNet, NEW m \in Minions,
           RecieveFromMinionCB(rep, m)
    PROVE  CreditInv'
<1> DEFINE id == rep.id
<1>1. /\ Credited(id)' = Credited(id) \cup {m}
      /\ \A k \in IDs : k # id => Credited(k)' = Credited(k)
  BY CreditedAfterReply
<1>2. /\ rep.type = asked[id].type /\ asked[id].blk \in Blocks /\ id \in IDs
  BY DatagramAsAsked
<1>3. asked' = asked
  BY DEF RecieveFromMinionCB
<1>4. \A k \in DOMAIN m_writeRequests :
        k \in IDs /\ Left(m_writeRequests, k) \subseteq Replicas(asked[k].blk)
  BY WriteAsked
<1>5. CASE IgnoreReply(rep, m)
  <2>1. /\ m_writeRequests' = m_writeRequests
        /\ \A k : Left(m_writeRequests, k)' = Left(m_writeRequests, k)
    BY <1>5, MasterUnchanged DEF IgnoreReply
  <2>2. id \in DOMAIN m_writeRequests => \A loc \in Left(m_writeRequests, id) : loc.minionID # m
    <3> SUFFICES ASSUME id \in DOMAIN m_writeRequests, NEW loc \in Left(m_writeRequests, id)
                 PROVE  loc.minionID # m
      OBVIOUS
    <3>1. rep.type = "WRITE"
      BY <1>2, WriteAsked
    <3>2. \A i \in DOMAIN m_writeRequests[id].blockLocations :
            m_writeRequests[id].blockLocations[i].minionID # m
      BY <1>5, <3>1 DEF IgnoreReply
    <3> QED BY <3>2 DEF Left, LocationsIn
  <2>3. WaitsForUncredited'
    <3> SUFFICES ASSUME NEW k \in DOMAIN m_writeRequests, NEW loc \in Replicas(asked[k].blk)
                 PROVE  loc \in Left(m_writeRequests, k) <=> loc.minionID \notin Credited(k)'
      BY <1>3, <2>1 DEF WaitsForUncredited
    <3>1. loc \in Left(m_writeRequests, k) <=> loc.minionID \notin Credited(k)
      BY DEF CreditInv, WaitsForUncredited
    <3>2. CASE k = id
      BY <1>1, <2>2, <3>1, <3>2
    <3>3. CASE k # id
      BY <1>1, <1>4, <3>1, <3>3
    <3> QED BY <3>2, <3>3
  <2> QED BY <2>1, <2>3 DEF CreditInv, VectorsDistinct
<1>6. CASE VReplyReadIMP(rep, m)
  <2>1. m_writeRequests' = m_writeRequests /\ id \notin DOMAIN m_writeRequests
    BY <1>6, ReplyReadEffect
  <2>2. \A k : Left(m_writeRequests, k)' = Left(m_writeRequests, k)
    BY <2>1 DEF Left
  <2>3. \A k \in DOMAIN m_writeRequests : Credited(k)' = Credited(k)
    BY <1>1, <1>4, <2>1
  <2>4. WaitsForUncredited'
    BY <1>3, <2>1, <2>2, <2>3 DEF CreditInv, WaitsForUncredited
  <2> QED BY <2>1, <2>4 DEF CreditInv, VectorsDistinct
<1>7. CASE VReplyWriteIMP(rep, m)
  <2>1. PICK l \in Left(m_writeRequests, id) :
        /\ id \in DOMAIN m_writeRequests /\ l.minionID = m
        /\ \/ /\ DOMAIN m_writeRequests' = DOMAIN m_writeRequests
              /\ Left(m_writeRequests, id)' = Left(m_writeRequests, id) \ {l}
              /\ \A i, j \in DOMAIN m_writeRequests'[id].blockLocations :
                   m_writeRequests'[id].blockLocations[i].minionID =
                     m_writeRequests'[id].blockLocations[j].minionID => i = j
           \/ DOMAIN m_writeRequests' = DOMAIN m_writeRequests \ {id}
    BY <1>7, ReplyTakesItsPlace DEF CreditInv
  <2>2. \A k \in DOMAIN m_writeRequests : k # id => m_writeRequests'[k] = m_writeRequests[k]
    BY <1>7, ReplyWriteEffect
  <2>3. \A k \in DOMAIN m_writeRequests : k # id => Left(m_writeRequests, k)' = Left(m_writeRequests, k)
    BY <2>2 DEF Left
  <2>4. VectorsDistinct'
    <3> SUFFICES ASSUME NEW k \in DOMAIN m_writeRequests',
                        NEW i \in DOMAIN m_writeRequests'[k].blockLocations,
                        NEW j \in DOMAIN m_writeRequests'[k].blockLocations,
                        m_writeRequests'[k].blockLocations[i].minionID =
                          m_writeRequests'[k].blockLocations[j].minionID
                 PROVE  i = j
      BY DEF VectorsDistinct
    <3>1. CASE k = id
      BY <2>1, <3>1
    <3>2. CASE k # id
      <4>1. k \in DOMAIN m_writeRequests /\ m_writeRequests'[k] = m_writeRequests[k]
        BY <2>1, <2>2, <3>2
      <4> QED BY <4>1 DEF CreditInv, VectorsDistinct
    <3> QED BY <3>1, <3>2
  <2>5. WaitsForUncredited'
    <3> SUFFICES ASSUME NEW k \in DOMAIN m_writeRequests', NEW loc \in Replicas(asked[k].blk)
                 PROVE  loc \in Left(m_writeRequests, k)' <=> loc.minionID \notin Credited(k)'
      BY <1>3 DEF WaitsForUncredited
    <3>1. k \in DOMAIN m_writeRequests
      BY <2>1
    <3>2. loc \in Left(m_writeRequests, k) <=> loc.minionID \notin Credited(k)
      BY <3>1 DEF CreditInv, WaitsForUncredited
    <3>3. CASE k = id
      <4>1. l \in Replicas(asked[id].blk)
        BY <1>4, <2>1
      <4>2. loc = l <=> loc.minionID = m
        BY <1>2, <2>1, <3>3, <4>1, ReplicaFacts
      <4>3. Left(m_writeRequests, id)' = Left(m_writeRequests, id) \ {l}
        BY <2>1, <3>3
      <4> QED BY <1>1, <3>2, <3>3, <4>2, <4>3
    <3>4. CASE k # id
      BY <1>1, <1>4, <2>3, <3>1, <3>2, <3>4
    <3> QED BY <3>3, <3>4
  <2> QED BY <2>4, <2>5 DEF CreditInv
<1> QED BY <1>5, <1>6, <1>7 DEF RecieveFromMinionCB

\* Every step keeps it.
LEMMA NextCredit ==
    ASSUME ReuseIds = FALSE, NumMinions > 1
    PROVE  IInv /\ AgreeInv /\ CreditInv /\ [VNext]_vars => CreditInv'
<1> SUFFICES ASSUME IInv, AgreeInv, CreditInv, [VNext]_vars PROVE CreditInv'
  OBVIOUS
<1>0. m_packet \in Content /\ socketOf' = socketOf
  BY SocketsStay DEF AgreeInv, BuffersOK
<1>1. ASSUME UNCHANGED mVars, heard' = heard, asked' = asked PROVE CreditInv'
  BY <1>0, <1>1, MasterUnchanged, VectorsKeepCredit
<1>2. ASSUME NEW id \in IDs, NEW blk \in Blocks, VRead(id, blk) PROVE CreditInv'
  <2>1. /\ nbd[id] = "free" /\ m_writeRequests' = m_writeRequests
        /\ id \notin DOMAIN m_writeRequests
    BY <1>2, ReadEffect
  <2>2. /\ heard' = heard
        /\ asked' = [asked EXCEPT ![id] = [type |-> "READ", blk |-> blk, val |-> Unwritten]]
    BY <1>2 DEF VRead
  <2>3. \A k \in DOMAIN m_writeRequests : asked'[k] = asked[k]
    <3>1. \A k \in DOMAIN m_writeRequests : k \in IDs
      BY MappedType
    <3> QED BY <2>1, <2>2, <3>1 DEF AgreeInv, AskedOK
  <2> QED BY <1>0, <2>1, <2>2, <2>3, VectorsKeepCredit
<1>3. ASSUME NEW id \in IDs, NEW blk \in Blocks, VWrite(id, blk) PROVE CreditInv'
  BY <1>3, WriteCredit
<1>4. ASSUME NEW h \in DOMAIN m_events, VEncryptDecryptIMP(h) PROVE CreditInv'
  <2>1. heard' = heard /\ asked' = asked
    BY <1>4 DEF VEncryptDecryptIMP, kernelVars
  <2> QED BY <1>0, <1>4, <2>1, SignalEffect, VectorsKeepCredit
<1>5. ASSUME m_pipe # << >>, VOnEncrypted PROVE CreditInv'
  <2>1. heard' = heard /\ asked' = asked
    BY <1>5 DEF VOnEncrypted, kernelVars
  <2> QED BY <1>0, <1>5, <2>1, EncryptedEffect, VectorsKeepCredit
<1>6. ASSUME m_pipe # << >>, VOnDecrypted PROVE CreditInv'
  <2>1. heard' = heard /\ asked' = asked
    BY <1>6 DEF VOnDecrypted
  <2> QED BY <1>0, <1>6, <2>1, DecryptedEffect, VectorsKeepCredit
<1>7. ASSUME NEW t \in m_callBacks, VCallBackWrapper(t) PROVE CreditInv'
  <2>1. heard' = heard /\ asked' = asked
    BY <1>7 DEF VCallBackWrapper, kernelVars
  <2> QED BY <1>0, <1>7, <2>1, RetryEffect, VectorsKeepCredit
<1>8. CASE MinionStep
  BY <1>1, <1>8 DEF MinionStep, MinionRead, MinionWrite, kernelVars
<1>9. ASSUME NEW rep \in repNet, NEW m \in Minions, RecieveFromMinionCB(rep, m) PROVE CreditInv'
  BY <1>9, ReplyCredit
<1>10. CASE LossStep
  BY <1>1, <1>10 DEF LossStep, Lose, kernelVars
<1>11. CASE UNCHANGED vars
  BY <1>1, <1>11 DEF vars, kernelVars
<1> QED
  BY <1>2, <1>3, <1>4, <1>5, <1>6, <1>7, <1>8, <1>9, <1>10, <1>11
  DEF VNext, KernelStep, WorkerStep, VOnEventFinishedCB, TimerStep, ReplyStep

\* A sent write waits for each replica on whose minion's account
\* ProcessWriteReplyIMP has put no reply, and for no other; Master::OnTimerIMP
\* sends it again to just these: whatever proxy's socket gets the datagrams of
\* each minion, however many of them are lost, repeated or late, for every device
\* of two or more minions.
THEOREM RetriesGoToTheUncredited ==
    ASSUME ReuseIds = FALSE, NumMinions > 1
    PROVE  VSpec => []WaitsForTheUncredited
<1>1. VInit => IInv /\ AgreeInv
  BY InitIInv, InitAgrees DEF VInit
<1>2. VInit => CreditInv
  BY DEF VInit, Init, CreditInv, VectorsDistinct, WaitsForUncredited
<1>3. IInv /\ AgreeInv /\ CreditInv /\ [VNext]_vars => IInv' /\ AgreeInv' /\ CreditInv'
  BY NextAgrees, NextCredit
<1>4. IInv /\ AgreeInv /\ CreditInv => WaitsForTheUncredited
  <2> SUFFICES ASSUME IInv, AgreeInv, CreditInv, NEW id \in DOMAIN m_writeRequests
               PROVE  Left(m_writeRequests, id) =
                        {loc \in Replicas(asked[id].blk) : loc.minionID \notin Credited(id)}
    BY DEF WaitsForTheUncredited, WaitsFor, Left, LocationsIn
  <2> QED BY WriteAsked DEF CreditInv, WaitsForUncredited
<1> QED BY <1>1, <1>2, <1>3, <1>4, PTL DEF VSpec

\* What CreateUDPSocketIMP comes to on Linux: the datagrams of all minions reach the
\* socket of one proxy.
OneSocket == \A f \in SocketChoices : \A m, n \in Minions : f[m] = f[n]

\* With all replies credited to one minion, no reply is the last one of a write.
LEMMA NoLastReply ==
    ASSUME IInv, AgreeInv, CreditInv, SocketsOK, OneSocket, NumMinions > 1,
           NEW rep \in repNet, NEW m \in Minions, RecieveFromMinionCB(rep, m),
           VReplyWriteIMP(rep, m)
    PROVE  nbd' = nbd
<1> DEFINE id == rep.id
           R == Replicas(asked[id].blk)
<1> SUFFICES ASSUME nbd' # nbd PROVE FALSE
  OBVIOUS
<1>1. PICK loc \in Left(m_writeRequests, id) :
        id \in DOMAIN m_writeRequests /\ loc.minionID = m /\ Left(m_writeRequests, id) = {loc}
  BY ReplyTakesItsPlace DEF CreditInv
<1>2. asked[id].blk \in Blocks /\ Place(rep) \in BlockLocation /\ loc \in R
  BY <1>1, DatagramAsAsked, WriteAsked
<1>3. PICK other \in R : other # loc
  BY <1>2, ReplicaFacts
<1>4. other.minionID # m
  BY <1>1, <1>2, <1>3, ReplicaFacts
<1>5. other.minionID \in Credited(id)
  BY <1>1, <1>3 DEF CreditInv, WaitsForUncredited
<1>6. PICK h \in R : socketOf[h.minionID] = other.minionID
  BY <1>5 DEF Credited
<1>7. h.minionID \in Minions /\ Place(rep).minionID \in Minions
  BY <1>2, <1>6, ReplicaFacts DEF BlockLocation
<1>8. socketOf[h.minionID] = socketOf[Place(rep).minionID]
  BY <1>7 DEF OneSocket, SocketsOK
<1>9. m = socketOf[Place(rep).minionID]
  BY CreditedAfterReply
<1> QED BY <1>4, <1>6, <1>8, <1>9

\* No step answers a write then.
LEMMA NextHangs ==
    ASSUME ReuseIds = FALSE, NumMinions > 1, OneSocket
    PROVE  IInv /\ AgreeInv /\ CreditInv /\ SocketsOK /\ NoWriteIsAnswered /\ [VNext]_vars
             => NoWriteIsAnswered'
<1> SUFFICES ASSUME IInv, AgreeInv, CreditInv, SocketsOK, NoWriteIsAnswered, [VNext]_vars
             PROVE  NoWriteIsAnswered'
  OBVIOUS
<1>0. m_packet \in Content
  BY DEF AgreeInv, BuffersOK
<1>1. ASSUME nbd' = nbd, asked' = asked PROVE NoWriteIsAnswered'
  BY <1>1 DEF NoWriteIsAnswered
<1>2. ASSUME NEW id \in IDs, NEW blk \in Blocks, NEW type, NEW val,
             nbd' = [nbd EXCEPT ![id] = "pending"],
             asked' = [asked EXCEPT ![id] = [type |-> type, blk |-> blk, val |-> val]]
      PROVE  NoWriteIsAnswered'
  <2>1. nbd'[id] = "pending" /\ \A k \in IDs : k # id => nbd'[k] = nbd[k]
    BY <1>2 DEF IInv, TypeOK
  <2>2. \A k \in IDs : k # id => asked'[k] = asked[k]
    BY <1>2 DEF AgreeInv, AskedOK
  <2> QED BY <2>1, <2>2 DEF NoWriteIsAnswered
<1>3. ASSUME NEW id \in IDs, NEW blk \in Blocks, VRead(id, blk) PROVE NoWriteIsAnswered'
  BY <1>2, <1>3, ReadEffect DEF VRead
<1>4. ASSUME NEW id \in IDs, NEW blk \in Blocks, VWrite(id, blk) PROVE NoWriteIsAnswered'
  BY <1>2, <1>4, WriteEffect DEF VWrite
<1>5. ASSUME NEW h \in DOMAIN m_events, VEncryptDecryptIMP(h) PROVE NoWriteIsAnswered'
  BY <1>1, <1>5, SignalEffect DEF VEncryptDecryptIMP, kernelVars
<1>6. ASSUME m_pipe # << >>, VOnEncrypted PROVE NoWriteIsAnswered'
  BY <1>0, <1>1, <1>6, EncryptedEffect DEF VOnEncrypted, kernelVars
<1>7. ASSUME m_pipe # << >>, VOnDecrypted PROVE NoWriteIsAnswered'
  <2> DEFINE id == m_events[Head(m_pipe)].id
  <2>1. id \in IDs /\ HasEvent("Decrypt", id) /\ nbd' = [nbd EXCEPT ![id] = "answered"]
    BY <1>7, DecryptedEffect
  <2>2. asked' = asked /\ asked[id].type = "READ"
    BY <1>7, <2>1 DEF VOnDecrypted, AgreeInv, DecryptsAsAsked
  <2> HIDE DEF id
  <2>3. \A k \in IDs : k # id => nbd'[k] = nbd[k]
    BY <2>1 DEF IInv, TypeOK
  <2> QED BY <2>2, <2>3 DEF NoWriteIsAnswered
<1>8. ASSUME NEW t \in m_callBacks, VCallBackWrapper(t) PROVE NoWriteIsAnswered'
  BY <1>0, <1>1, <1>8, RetryEffect DEF VCallBackWrapper, kernelVars
<1>9. CASE MinionStep
  BY <1>1, <1>9, MasterUnchanged DEF MinionStep, MinionRead, MinionWrite, kernelVars
<1>10. ASSUME NEW rep \in repNet, NEW m \in Minions, RecieveFromMinionCB(rep, m)
       PROVE  NoWriteIsAnswered'
  <2>1. asked' = asked
    BY <1>10 DEF RecieveFromMinionCB
  <2>2. CASE VReplyReadIMP(rep, m)
    BY <1>1, <1>10, <2>1, <2>2, ReplyReadEffect
  <2>3. CASE VReplyWriteIMP(rep, m)
    BY <1>1, <1>10, <2>1, <2>3, NoLastReply
  <2>4. CASE IgnoreReply(rep, m)
    BY <1>1, <2>1, <2>4, MasterUnchanged DEF IgnoreReply
  <2> QED BY <1>10, <2>2, <2>3, <2>4 DEF RecieveFromMinionCB
<1>11. CASE LossStep
  BY <1>1, <1>11, MasterUnchanged DEF LossStep, Lose, kernelVars
<1>12. CASE UNCHANGED vars
  BY <1>1, <1>12, MasterUnchanged DEF vars, kernelVars
<1> QED
  BY <1>3, <1>4, <1>5, <1>6, <1>7, <1>8, <1>9, <1>10, <1>11, <1>12
  DEF VNext, KernelStep, WorkerStep, VOnEventFinishedCB, TimerStep, ReplyStep

\* With the sockets as CreateUDPSocketIMP binds them, and two minions or more, no
\* write is ever answered, however often it is sent again: the vector keeps the
\* replica of the other minion.
THEOREM WritesHang ==
    ASSUME ReuseIds = FALSE, NumMinions > 1, OneSocket
    PROVE  VSpec => []NoWriteIsAnswered
<1>1. VInit => IInv /\ AgreeInv /\ CreditInv /\ SocketsOK /\ NoWriteIsAnswered
  <2> SUFFICES ASSUME VInit
               PROVE  IInv /\ AgreeInv /\ CreditInv /\ SocketsOK /\ NoWriteIsAnswered
    OBVIOUS
  <2>1. IInv /\ AgreeInv
    BY InitIInv, InitAgrees DEF VInit
  <2>2. CreditInv
    BY DEF VInit, Init, CreditInv, VectorsDistinct, WaitsForUncredited
  <2>3. SocketsOK /\ NoWriteIsAnswered
    BY DEF VInit, NotAsked, SocketsOK, NoWriteIsAnswered
  <2> QED BY <2>1, <2>2, <2>3
<1>2. IInv /\ AgreeInv /\ CreditInv /\ SocketsOK /\ NoWriteIsAnswered /\ [VNext]_vars
        => IInv' /\ AgreeInv' /\ CreditInv' /\ SocketsOK' /\ NoWriteIsAnswered'
  BY NextAgrees, NextCredit, SocketsStay, NextHangs DEF SocketsOK
<1> QED BY <1>1, <1>2, PTL DEF VSpec

---------------------------------------------------------------------------
(* While one write is outstanding, the packet buffer is that write's *)

\* The 8 bytes of a handle make finitely many, and the kernel waits for the answer
\* to a write before it sends the next.
OneWriteAtATime == MaxWrites = 1 /\ IsFiniteSet(IDs)

OwnData(id) == [val |-> asked[id].val, enc |-> TRUE]
PlainData(id) == [val |-> asked[id].val, enc |-> FALSE]

OneWrite == \A id, k \in DOMAIN m_writeRequests : id = k

\* The buffer holds the data of the write being encrypted, in the clear until the
\* worker has signalled ...
PacketEncrypting ==
    \A h \in DOMAIN m_events : m_events[h].type = "Encrypt" =>
        m_packet = IF Signalled(h) THEN OwnData(m_events[h].id) ELSE PlainData(m_events[h].id)

\* ... and encrypted from the first sending to the last retry.
PacketEncrypted ==
    \A id \in DOMAIN m_writeRequests : ~HasEvent("Encrypt", id) => m_packet = OwnData(id)

PacketInv == OneWrite /\ PacketEncrypting /\ PacketEncrypted /\ WriteCarriesItsOwnData

\* The guard of a write lets it in when no other is mapped.
LEMMA NoOtherWrite ==
    ASSUME IInv, AgreeInv, OneWriteAtATime, NEW id, NEW blk, VWrite(id, blk)
    PROVE  DOMAIN m_writeRequests = {}
<1>1. IsFiniteSet(Outstanding("WRITE"))
  BY FS_Subset DEF OneWriteAtATime, Outstanding
<1>2. Cardinality(Outstanding("WRITE")) < 1
  BY DEF VWrite, OneWriteAtATime
<1>3. Cardinality(Outstanding("WRITE")) \in Nat
  BY <1>1, FS_CardinalityType
<1>4. Outstanding("WRITE") = {}
  BY <1>1, <1>2, <1>3, FS_EmptySet
<1>5. ASSUME NEW k \in DOMAIN m_writeRequests PROVE k \in Outstanding("WRITE")
  <2>1. k \in IDs /\ asked[k].type = "WRITE"
    BY WriteAsked
  <2>2. nbd[k] = "pending"
    BY <2>1 DEF IInv, Held
  <2> QED BY <2>1, <2>2 DEF Outstanding
<1> QED BY <1>4, <1>5

\* The request of an encryption is mapped.
LEMMA EncryptionIsMapped ==
    ASSUME IInv, NEW h \in DOMAIN m_events, m_events[h].type = "Encrypt"
    PROVE  m_events[h].id \in IDs /\ m_events[h].id \in DOMAIN m_writeRequests
           /\ HasEvent("Encrypt", m_events[h].id)
<1>1. m_events[h] \in Event
  BY DEF IInv, TypeOK
<1>2. m_events[h].id \in IDs /\ m_events[h] = [type |-> "Encrypt", id |-> m_events[h].id]
  BY <1>1 DEF Event
<1>3. HasEvent("Encrypt", m_events[h].id)
  BY <1>2 DEF HasEvent
<1> QED BY <1>2, <1>3 DEF IInv, EncryptedIsUnsent

\* While one write is mapped, one encryption is under way.
LEMMA OneEncryption ==
    ASSUME IInv, OneWrite, NEW g \in DOMAIN m_events, NEW h \in DOMAIN m_events,
           m_events[g].type = "Encrypt", m_events[h].type = "Encrypt"
    PROVE  g = h
  BY EncryptionIsMapped DEF OneWrite, IInv, EventsUnique

\* What goes out for a write is its own while nothing is sent and what was asked
\* under the handles in use stays.
LEMMA CarriedDataStays ==
    ASSUME AgreeInv, WriteCarriesItsOwnData, reqNet' \subseteq reqNet,
           \A k \in IDs : (\E r \in sent : r.id = k) => asked'[k] = asked[k]
    PROVE  WriteCarriesItsOwnData'
<1>1. \A d \in reqNet' : d.id \in IDs /\ \E r \in sent : r.id = d.id
  <2> SUFFICES ASSUME NEW d \in reqNet' PROVE d.id \in IDs /\ \E r \in sent : r.id = d.id
    OBVIOUS
  <2>1. d.id \in IDs /\ RequestOf(d) \in sent /\ RequestOf(d).id = d.id
    BY DatagramAsAsked DEF RequestOf
  <2> QED BY <2>1
<1> QED BY <1>1 DEF WriteCarriesItsOwnData

\* The packet stays the write's own while the vdr process has nothing to do with it.
LEMMA PacketStays ==
    ASSUME IInv, AgreeInv, PacketInv, m_packet' = m_packet, asked' = asked,
           reqNet' \subseteq reqNet,
           DOMAIN m_writeRequests' \subseteq DOMAIN m_writeRequests,
           \A k \in DOMAIN m_writeRequests' : HasEvent("Encrypt", k) => HasEvent("Encrypt", k)',
           \A h \in DOMAIN m_events' : m_events'[h].type = "Encrypt" =>
               /\ h \in DOMAIN m_events /\ m_events'[h] = m_events[h]
               /\ Signalled(h)' <=> Signalled(h)
    PROVE  PacketInv'
<1>1. \A k : OwnData(k)' = OwnData(k) /\ PlainData(k)' = PlainData(k)
  BY DEF OwnData, PlainData
<1>2. OneWrite'
  BY DEF PacketInv, OneWrite
<1>3. PacketEncrypting'
  BY <1>1 DEF PacketInv, PacketEncrypting
<1>4. PacketEncrypted'
  BY <1>1 DEF PacketInv, PacketEncrypted
<1>5. WriteCarriesItsOwnData'
  BY CarriedDataStays DEF PacketInv
<1> QED BY <1>2, <1>3, <1>4, <1>5 DEF PacketInv

\* A read does not touch the packet.
LEMMA ReadPacket ==
    ASSUME IInv, AgreeInv, PacketInv, ReuseIds = FALSE,
           NEW id \in IDs, NEW blk \in Blocks, VRead(id, blk)
    PROVE  PacketInv'
<1>1. /\ id \notin DOMAIN m_writeRequests
      /\ \A r \in sent : r.id # id
      /\ m_writeRequests' = m_writeRequests /\ m_events' = m_events /\ m_pipe' = m_pipe
      /\ \A d \in reqNet' \ reqNet : d.type = "READ"
  BY ReadEffect
<1>2. /\ asked' = [asked EXCEPT ![id] = [type |-> "READ", blk |-> blk, val |-> Unwritten]]
      /\ m_packet' = m_packet
  BY DEF VRead
<1>3. \A k \in IDs : k # id => asked'[k] = asked[k]
  BY <1>2 DEF AgreeInv, AskedOK
<1>4. \A k \in DOMAIN m_writeRequests : OwnData(k)' = OwnData(k) /\ PlainData(k)' = PlainData(k)
  BY <1>1, <1>3, MappedType DEF OwnData, PlainData
<1>5. OneWrite'
  BY <1>1 DEF PacketInv, OneWrite
<1>6. PacketEncrypting'
  <2>1. \A h : Signalled(h)' <=> Signalled(h)
    BY <1>1 DEF Signalled
  <2> QED BY <1>1, <1>2, <1>4, <2>1, EncryptionIsMapped DEF PacketInv, PacketEncrypting
<1>7. PacketEncrypted'
  BY <1>1, <1>2, <1>4, EventSame DEF PacketInv, PacketEncrypted
<1>8. WriteCarriesItsOwnData'
  <2> SUFFICES ASSUME NEW d \in reqNet', d.type = "WRITE"
               PROVE  d.data = [val |-> asked'[d.id].val, enc |-> TRUE]
    BY DEF WriteCarriesItsOwnData
  <2>1. d \in reqNet
    BY <1>1
  <2>2. d.id \in IDs /\ d.id # id
    <3>1. d.id \in IDs /\ RequestOf(d) \in sent /\ RequestOf(d).id = d.id
      BY <2>1, DatagramAsAsked DEF RequestOf
    <3> QED BY <1>1, <3>1
  <2> QED BY <1>3, <2>1, <2>2 DEF PacketInv, WriteCarriesItsOwnData
<1> QED BY <1>5, <1>6, <1>7, <1>8 DEF PacketInv

\* A write finds the buffer free and puts its own bytes there.
LEMMA WritePacket ==
    ASSUME IInv, AgreeInv, PacketInv, ReuseIds = FALSE, OneWriteAtATime,
           NEW id \in IDs, NEW blk \in Blocks, VWrite(id, blk)
    PROVE  PacketInv'
<1> DEFINE c == m_eventCounter
           e == [type |-> "Encrypt", id |-> id]
<1>1. /\ \A r \in sent : r.id # id
      /\ DOMAIN m_writeRequests' = DOMAIN m_writeRequests \cup {id}
      /\ c \notin DOMAIN m_events /\ m_events' = Put(m_events, c, e) /\ m_pipe' = m_pipe
      /\ HasEvent("Encrypt", id)'
  BY WriteEffect
<1>2. DOMAIN m_writeRequests = {}
  BY NoOtherWrite
<1>3. /\ asked' = [asked EXCEPT ![id] = [type |-> "WRITE", blk |-> blk, val |-> c]]
      /\ m_packet' = [val |-> c, enc |-> FALSE] /\ reqNet' = reqNet
  BY DEF VWrite, netVars
<1>4. asked'[id].val = c /\ \A k \in IDs : k # id => asked'[k] = asked[k]
  BY <1>3 DEF AgreeInv, AskedOK
<1>5. e.id = id /\ PlainData(id)' = m_packet'
  BY <1>3, <1>4 DEF PlainData
<1> HIDE DEF c, e
<1>6. OneWrite'
  BY <1>1, <1>2 DEF OneWrite
<1>7. PacketEncrypting'
  <2>1. \A h \in DOMAIN m_events : m_events[h].type # "Encrypt"
    BY <1>2, EncryptionIsMapped
  <2>2. /\ DOMAIN m_events' = DOMAIN m_events \cup {c} /\ m_events'[c] = e
        /\ \A h \in DOMAIN m_events : m_events'[h] = m_events[h]
    BY <1>1 DEF Put
  <2>3. \A g : Signalled(g)' <=> Signalled(g)
    BY <1>1 DEF Signalled
  <2>4. ~Signalled(c)
    BY <1>1 DEF Signalled, IInv, PipeKnown
  <2> SUFFICES ASSUME NEW h \in DOMAIN m_events', m_events'[h].type = "Encrypt"
               PROVE  m_packet' = IF Signalled(h)' THEN OwnData(m_events[h].id)'
                                                  ELSE PlainData(m_events[h].id)'
    BY DEF PacketEncrypting
  <2>5. h = c
    BY <2>1, <2>2
  <2>6. ~Signalled(h)'
    BY <2>3, <2>4, <2>5
  <2>7. m_events'[h].id = id
    BY <1>5, <2>2, <2>5
  <2>8. m_packet' = PlainData(m_events[h].id)'
    BY <1>5, <2>7 DEF PlainData
  <2> QED BY <2>6, <2>8
<1>8. PacketEncrypted'
  BY <1>1, <1>2 DEF PacketEncrypted
<1>9. WriteCarriesItsOwnData'
  BY <1>1, <1>3, <1>4, CarriedDataStays DEF PacketInv
<1> QED BY <1>6, <1>7, <1>8, <1>9 DEF PacketInv

\* The worker encrypts the buffer once.
LEMMA SignalPacket ==
    ASSUME IInv, AgreeInv, PacketInv, NEW h \in DOMAIN m_events, VEncryptDecryptIMP(h)
    PROVE  PacketInv'
<1>1. /\ ~Signalled(h) /\ \A g : Signalled(g)' <=> Signalled(g) \/ g = h
      /\ m_writeRequests' = m_writeRequests /\ m_events' = m_events
  BY SignalEffect
<1>2. asked' = asked /\ reqNet' = reqNet
  BY DEF VEncryptDecryptIMP, kernelVars, netVars
<1>3. CASE m_events[h].type # "Encrypt"
  <2>1. m_packet' = m_packet
    BY <1>3 DEF VEncryptDecryptIMP
  <2> QED BY <1>1, <1>2, <1>3, <2>1, EventSame, PacketStays
<1>4. CASE m_events[h].type = "Encrypt"
  <2> DEFINE id == m_events[h].id
  <2>1. m_packet' = Xor(m_packet)
    BY <1>4 DEF VEncryptDecryptIMP
  <2>2. m_packet = PlainData(id)
    BY <1>1, <1>4 DEF PacketInv, PacketEncrypting
  <2>3. m_packet' = OwnData(id) /\ OwnData(id)' = OwnData(id)
    BY <1>1, <1>2, <2>1, <2>2 DEF Xor, PlainData, OwnData
  <2>4. OneWrite'
    BY <1>1 DEF PacketInv, OneWrite
  <2>5. PacketEncrypting'
    <3>1. \A g \in DOMAIN m_events : m_events[g].type = "Encrypt" => g = h
      BY <1>4, OneEncryption DEF PacketInv
    <3> QED BY <1>1, <2>3, <3>1 DEF PacketEncrypting
  <2>6. PacketEncrypted'
    <3>1. id \in DOMAIN m_writeRequests /\ HasEvent("Encrypt", id)
      BY <1>4, EncryptionIsMapped
    <3>2. \A k \in DOMAIN m_writeRequests : k = id
      BY <3>1 DEF PacketInv, OneWrite
    <3> QED BY <1>1, <3>1, <3>2, EventSame DEF PacketEncrypted
  <2>7. WriteCarriesItsOwnData'
    BY <1>2, CarriedDataStays DEF PacketInv
  <2> QED BY <2>4, <2>5, <2>6, <2>7 DEF PacketInv
<1> QED BY <1>3, <1>4

\* The first sending of a write carries the buffer the worker has just encrypted.
LEMMA EncryptedPacket ==
    ASSUME IInv, AgreeInv, PacketInv, m_pipe # << >>, VOnEncrypted
    PROVE  PacketInv'
<1> DEFINE x == Head(m_pipe)
           id == m_events[x].id
<1>0. m_packet \in Content
  BY DEF AgreeInv, BuffersOK
<1>1. /\ id \in DOMAIN m_writeRequests /\ id \in IDs
      /\ DOMAIN m_writeRequests' = DOMAIN m_writeRequests
      /\ m_events' = Erase(m_events, x) /\ m_pipe' = Tail(m_pipe)
      /\ m_eventCounter' = m_eventCounter
      /\ \A d \in reqNet' \ reqNet : d.id = id /\ d.data = m_packet
  BY <1>0, EncryptedEffect
<1>2. /\ Signalled(x) /\ DOMAIN m_events' = DOMAIN m_events \ {x}
      /\ \A g \in DOMAIN m_events' : m_events'[g] = m_events[g]
  BY <1>1, FinishEffect
<1>3. x \in DOMAIN m_events /\ m_events[x].type = "Encrypt"
  BY HeadIsKnown DEF VOnEncrypted
<1>4. m_packet' = m_packet /\ asked' = asked
  BY DEF VOnEncrypted, kernelVars
<1>5. m_packet = OwnData(id)
  BY <1>2, <1>3 DEF PacketInv, PacketEncrypting
<1>6. \A k : OwnData(k)' = OwnData(k)
  BY <1>4 DEF OwnData
<1> HIDE DEF x, id
<1>7. OneWrite'
  BY <1>1 DEF PacketInv, OneWrite
<1>8. PacketEncrypting'
  <2>1. \A g \in DOMAIN m_events : m_events[g].type = "Encrypt" => g = x
    BY <1>3, OneEncryption DEF PacketInv
  <2> QED BY <1>2, <2>1 DEF PacketEncrypting
<1>9. PacketEncrypted'
  <2>1. \A k \in DOMAIN m_writeRequests : k = id
    BY <1>1 DEF PacketInv, OneWrite
  <2> SUFFICES ASSUME NEW k \in DOMAIN m_writeRequests' PROVE m_packet' = OwnData(k)'
    BY DEF PacketEncrypted
  <2>2. k = id
    BY <1>1, <2>1
  <2> QED BY <1>4, <1>5, <1>6, <2>2
<1>10. WriteCarriesItsOwnData'
  <2> SUFFICES ASSUME NEW d \in reqNet', d.type = "WRITE" PROVE d.data = OwnData(d.id)'
    BY DEF WriteCarriesItsOwnData, OwnData
  <2>1. CASE d \in reqNet
    BY <1>6, <2>1 DEF PacketInv, WriteCarriesItsOwnData, OwnData
  <2>2. CASE d \notin reqNet
    BY <1>1, <1>5, <1>6, <2>2
  <2> QED BY <2>1, <2>2
<1> QED BY <1>7, <1>8, <1>9, <1>10 DEF PacketInv

\* A finished decryption is none of a write.
LEMMA DecryptedPacket ==
    ASSUME IInv, AgreeInv, PacketInv, m_pipe # << >>, VOnDecrypted
    PROVE  PacketInv'
<1> DEFINE x == Head(m_pipe)
           id == m_events[x].id
<1>1. /\ id \in IDs /\ HasEvent("Decrypt", id) /\ x \in DOMAIN m_events
      /\ m_events' = Erase(m_events, x) /\ m_pipe' = Tail(m_pipe)
      /\ m_eventCounter' = m_eventCounter /\ m_writeRequests' = m_writeRequests
  BY DecryptedEffect
<1>2. /\ DOMAIN m_events' = DOMAIN m_events \ {x}
      /\ \A g \in DOMAIN m_events' : m_events'[g] = m_events[g]
      /\ \A g \in DOMAIN m_events' : Signalled(g)' <=> Signalled(g)
      /\ \A ty \in {"Encrypt", "Decrypt"}, k \in IDs :
           HasEvent(ty, k)' <=> HasEvent(ty, k) /\ k # id
  BY <1>1, FinishEffect
<1>3. m_packet' = m_packet /\ asked' = asked /\ reqNet' = reqNet
  BY DEF VOnDecrypted, netVars
<1> HIDE DEF x, id
<1>4. id \notin DOMAIN m_writeRequests
  BY <1>1, WriteAsked DEF AgreeInv, DecryptsAsAsked
<1>5. \A k \in DOMAIN m_writeRequests' : HasEvent("Encrypt", k) => HasEvent("Encrypt", k)'
  BY <1>1, <1>2, <1>4, MappedType
<1> QED BY <1>1, <1>2, <1>3, <1>5, PacketStays

\* A retry of a write carries the buffer, which no other write has taken.
LEMMA RetryPacket ==
    ASSUME IInv, AgreeInv, PacketInv, NEW t \in m_callBacks, VCallBackWrapper(t)
    PROVE  PacketInv'
<1>0. m_packet \in Content
  BY DEF AgreeInv, BuffersOK
<1>1. /\ DOMAIN m_writeRequests' = DOMAIN m_writeRequests
      /\ m_events' = m_events /\ m_pipe' = m_pipe
      /\ \A d \in reqNet' \ reqNet : d.type = "WRITE" =>
           /\ d.id \in DOMAIN m_writeRequests /\ ~HasEvent("Encrypt", d.id)
           /\ d.data = m_packet
  BY <1>0, RetryEffect
<1>2. m_packet' = m_packet /\ asked' = asked
  BY DEF VCallBackWrapper, kernelVars
<1>3. \A k : OwnData(k)' = OwnData(k) /\ PlainData(k)' = PlainData(k)
  BY <1>2 DEF OwnData, PlainData
<1>4. OneWrite'
  BY <1>1 DEF PacketInv, OneWrite
<1>5. PacketEncrypting'
  <2>1. \A g : Signalled(g)' <=> Signalled(g)
    BY <1>1 DEF Signalled
  <2> QED BY <1>1, <1>2, <1>3, <2>1 DEF PacketInv, PacketEncrypting
<1>6. PacketEncrypted'
  BY <1>1, <1>2, <1>3, EventSame DEF PacketInv, PacketEncrypted
<1>7. WriteCarriesItsOwnData'
  <2> SUFFICES ASSUME NEW d \in reqNet', d.type = "WRITE" PROVE d.data = OwnData(d.id)'
    BY DEF WriteCarriesItsOwnData, OwnData
  <2>1. CASE d \in reqNet
    BY <1>3, <2>1 DEF PacketInv, WriteCarriesItsOwnData, OwnData
  <2>2. CASE d \notin reqNet
    BY <1>1, <1>3, <2>2 DEF PacketInv, PacketEncrypted
  <2> QED BY <2>1, <2>2
<1> QED BY <1>4, <1>5, <1>6, <1>7 DEF PacketInv

\* A reply leaves the buffer alone.
LEMMA ReplyPacket ==
    ASSUME IInv, AgreeInv, PacketInv, NEW rep \in repNet, NEW m \in Minions,
           RecieveFromMinionCB(rep, m)
    PROVE  PacketInv'
<1>1. m_packet' = m_packet /\ asked' = asked /\ reqNet' = reqNet
  BY DEF RecieveFromMinionCB
<1>2. CASE VReplyReadIMP(rep, m)
  <2>1. /\ rep.id \in IDs /\ m_writeRequests' = m_writeRequests
        /\ m_eventCounter \notin DOMAIN m_events
        /\ m_events' = Put(m_events, m_eventCounter, [type |-> "Decrypt", id |-> rep.id])
        /\ m_pipe' = m_pipe
        /\ \A ty \in {"Encrypt", "Decrypt"}, k \in IDs :
             HasEvent(ty, k)' <=> HasEvent(ty, k) \/ (ty = "Decrypt" /\ k = rep.id)
    BY <1>2, ReplyReadEffect
  <2>2. \A h \in DOMAIN m_events' : m_events'[h].type = "Encrypt" =>
            h \in DOMAIN m_events /\ m_events'[h] = m_events[h]
    BY <2>1 DEF Put
  <2>3. \A g : Signalled(g)' <=> Signalled(g)
    BY <2>1 DEF Signalled
  <2>4. \A k \in DOMAIN m_writeRequests' : HasEvent("Encrypt", k) => HasEvent("Encrypt", k)'
    BY <2>1, MappedType
  <2>5. DOMAIN m_writeRequests' \subseteq DOMAIN m_writeRequests
    BY <2>1
  <2> QED BY <1>1, <2>2, <2>3, <2>4, <2>5, PacketStays
<1>3. CASE VReplyWriteIMP(rep, m)
  <2>1. /\ DOMAIN m_writeRequests' \subseteq DOMAIN m_writeRequests
        /\ m_events' = m_events /\ m_pipe' = m_pipe
    BY <1>3, ReplyWriteEffect
  <2>2. \A g : Signalled(g)' <=> Signalled(g)
    BY <2>1 DEF Signalled
  <2> QED BY <1>1, <2>1, <2>2, EventSame, PacketStays
<1>4. CASE IgnoreReply(rep, m)
  BY <1>1, <1>4, MasterUnchanged, PacketStays DEF IgnoreReply
<1> QED BY <1>2, <1>3, <1>4 DEF RecieveFromMinionCB

\* Every step keeps it.
LEMMA NextPacket ==
    ASSUME ReuseIds = FALSE, OneWriteAtATime
    PROVE  IInv /\ AgreeInv /\ PacketInv /\ [VNext]_vars => PacketInv'
<1> SUFFICES ASSUME IInv, AgreeInv, PacketInv, [VNext]_vars PROVE PacketInv'
  OBVIOUS
<1>1. ASSUME UNCHANGED mVars, m_packet' = m_packet, asked' = asked, reqNet' \subseteq reqNet
      PROVE  PacketInv'
  BY <1>1, MasterUnchanged, PacketStays
<1>2. ASSUME NEW id \in IDs, NEW blk \in Blocks, VRead(id, blk) PROVE PacketInv'
  BY <1>2, ReadPacket
<1>3. ASSUME NEW id \in IDs, NEW blk \in Blocks, VWrite(id, blk) PROVE PacketInv'
  BY <1>3, WritePacket
<1>4. ASSUME NEW h \in DOMAIN m_events, VEncryptDecryptIMP(h) PROVE PacketInv'
  BY <1>4, SignalPacket
<1>5. ASSUME m_pipe # << >>, VOnEncrypted PROVE PacketInv'
  BY <1>5, EncryptedPacket
<1>6. ASSUME m_pipe # << >>, VOnDecrypted PROVE PacketInv'
  BY <1>6, DecryptedPacket
<1>7. ASSUME NEW t \in m_callBacks, VCallBackWrapper(t) PROVE PacketInv'
  BY <1>7, RetryPacket
<1>8. CASE MinionStep
  BY <1>1, <1>8 DEF MinionStep, MinionRead, MinionWrite, kernelVars, Receive
<1>9. ASSUME NEW rep \in repNet, NEW m \in Minions, RecieveFromMinionCB(rep, m) PROVE PacketInv'
  BY <1>9, ReplyPacket
<1>10. CASE LossStep
  BY <1>1, <1>10 DEF LossStep, Lose, kernelVars
<1>11. CASE UNCHANGED vars
  BY <1>1, <1>11 DEF vars, kernelVars, netVars
<1> QED
  BY <1>2, <1>3, <1>4, <1>5, <1>6, <1>7, <1>8, <1>9, <1>10, <1>11
  DEF VNext, KernelStep, WorkerStep, VOnEventFinishedCB, TimerStep, ReplyStep

\* What goes out for a write, first or again, is that write's own data, encrypted
\* once, although TcpReader, Encryptor and Master share one buffer for all writes:
\* for a kernel that waits for the answer to each, on any network.
THEOREM WritesCarryTheirData ==
    ASSUME ReuseIds = FALSE, OneWriteAtATime
    PROVE  VSpec => []WriteCarriesItsOwnData
<1>1. VInit => IInv /\ AgreeInv
  BY InitIInv, InitAgrees DEF VInit
<1>2. VInit => PacketInv
  BY DEF VInit, Init, PacketInv, OneWrite, PacketEncrypting, PacketEncrypted,
         WriteCarriesItsOwnData
<1>3. IInv /\ AgreeInv /\ PacketInv /\ [VNext]_vars => IInv' /\ AgreeInv' /\ PacketInv'
  BY NextAgrees, NextPacket
<1>4. PacketInv => WriteCarriesItsOwnData
  BY DEF PacketInv
<1> QED BY <1>1, <1>2, <1>3, <1>4, PTL DEF VSpec

---------------------------------------------------------------------------
(* What the minions hold, the datagrams in flight and the reads under way *)

MemoryAt(loc) == m_allocMemory[loc.minionID][loc.blockOffset]

\* A replica holds one of these values, encrypted if it was ever written.
MayHold(content, values) ==
    content.val \in values /\ (content.val # Unwritten => content.enc = TRUE)

WaitsForOne(id) == \E loc : Left(m_writeRequests, id) = {loc}

\* A mapped write has one datagram, request or reply, at a time on its way to or from
\* each replica, and a single one when it waits for a single location.
WritesInFlight ==
    /\ \A d \in reqNet \cup repNet : d.type = "WRITE" => d.id \in DOMAIN m_writeRequests
    /\ \A d, e \in reqNet \cup repNet :
           d.type = "WRITE" /\ e.type = "WRITE" /\ Place(d) = Place(e) => d = e
    /\ \A d, e \in reqNet \cup repNet :
           d.type = "WRITE" /\ e.type = "WRITE" /\ WaitsForOne(d.id) => d = e
    /\ \A d \in repNet : d.type = "WRITE" => d.data = Blank

\* A location that has replied, or whose reply is on its way, has the write.
Stored ==
    /\ \A id \in DOMAIN m_writeRequests : \A loc \in Replicas(asked[id].blk) :
           HasReplied(id, loc) => MemoryAt(loc) = OwnData(id)
    /\ \A d \in repNet : d.type = "WRITE" => MemoryAt(Place(d)) = OwnData(d.id)

\* Of those that will have replied after the step, too.
HeardStored ==
    \A id \in DOMAIN m_writeRequests : \A loc \in Replicas(asked[id].blk) :
        HasReplied(id, loc)' => MemoryAt(loc) = OwnData(id)

\* Every replica of a block holds a value that a read may return.
MemoryReadable ==
    \A blk \in Blocks : \A loc \in Replicas(blk) : MayHold(MemoryAt(loc), current[blk])

\* What a mapped write carries is such a value.
WritesReadable == \A id \in DOMAIN m_writeRequests : asked[id].val \in current[asked[id].blk]

\* A read may return whatever its block's replicas come to hold while it is
\* outstanding, ...
ReadsAllowed ==
    \A id \in IDs : nbd[id] = "pending" /\ asked[id].type = "READ" =>
        current[asked[id].blk] \subseteq allowed[id]

\* ... its replies carry that ...
RepliesAllowed ==
    \A d \in repNet : d.type = "READ" /\ nbd[d.id] = "pending" =>
        MayHold(d.data, allowed[d.id])

\* ... and so does its buffer, encrypted until the worker has signalled.
BufferAllowed(h) ==
    /\ readData[h].val \in allowed[m_events[h].id]
    /\ readData[h].val # Unwritten => (readData[h].enc <=> ~Signalled(h))
BuffersAllowed == \A h \in DOMAIN readData : BufferAllowed(h)

DeviceInv ==
    /\ WritesInFlight
    /\ Stored
    /\ MemoryReadable
    /\ WritesReadable
    /\ ReadsAllowed
    /\ RepliesAllowed
    /\ BuffersAllowed

VInv == IInv /\ AgreeInv /\ CreditInv /\ PacketInv /\ DeviceInv

\* What holds of the writes in flight holds while none is sent.
LEMMA FlightsStay ==
    ASSUME WritesInFlight, DOMAIN m_writeRequests' = DOMAIN m_writeRequests,
           \A k \in DOMAIN m_writeRequests :
               Left(m_writeRequests, k)' = Left(m_writeRequests, k),
           \A d \in reqNet' : d.type = "WRITE" => d \in reqNet,
           \A d \in repNet' : d.type = "WRITE" => d \in repNet
    PROVE  WritesInFlight'
<1>1. \A k \in DOMAIN m_writeRequests : WaitsForOne(k)' <=> WaitsForOne(k)
  BY DEF WaitsForOne
<1> QED BY <1>1 DEF WritesInFlight

\* A step that hears nobody new.
LEMMA QuietStored ==
    ASSUME Stored, heard' = heard
    PROVE  HeardStored
  BY DEF Stored, HeardStored, HasReplied

\* What is stored stays while the minions get nothing.
LEMMA StoredStays ==
    ASSUME WritesInFlight, Stored, HeardStored, m_allocMemory' = m_allocMemory,
           DOMAIN m_writeRequests' = DOMAIN m_writeRequests,
           \A k \in DOMAIN m_writeRequests : asked'[k] = asked[k],
           \A d \in repNet' : d.type = "WRITE" => d \in repNet
    PROVE  Stored'
<1>1. \A loc : MemoryAt(loc)' = MemoryAt(loc)
  BY DEF MemoryAt
<1>2. \A k \in DOMAIN m_writeRequests : OwnData(k)' = OwnData(k)
  BY DEF OwnData
<1>3. \A k \in DOMAIN m_writeRequests : \A loc \in Replicas(asked[k].blk) :
        HasReplied(k, loc)' => MemoryAt(loc)' = OwnData(k)'
  BY <1>1, <1>2 DEF HeardStored
<1>4. \A d \in repNet' : d.type = "WRITE" => MemoryAt(Place(d))' = OwnData(d.id)'
  BY <1>1, <1>2 DEF Stored, WritesInFlight
<1> QED BY <1>3, <1>4 DEF Stored

\* What a read may return stays so while the readable values only grow.
LEMMA MemoryStays ==
    ASSUME MemoryReadable, m_allocMemory' = m_allocMemory,
           \A blk \in Blocks : current[blk] \subseteq current'[blk]
    PROVE  MemoryReadable'
  BY DEF MemoryReadable, MemoryAt, MayHold

\* The buffer of a read stays what it may be while its event stays.
LEMMA BufferStays ==
    ASSUME NEW h, BufferAllowed(h), readData'[h] = readData[h], m_events'[h] = m_events[h],
           allowed[m_events[h].id] \subseteq allowed'[m_events[h].id],
           Signalled(h)' <=> Signalled(h)
    PROVE  BufferAllowed(h)'
  BY DEF BufferAllowed

\* A reading buffer belongs to a read that is outstanding.
LEMMA BufferOfARead ==
    ASSUME IInv, AgreeInv, NEW h \in DOMAIN readData
    PROVE  /\ h \in DOMAIN m_events /\ m_events[h].type = "Decrypt"
           /\ m_events[h].id \in IDs /\ HasEvent("Decrypt", m_events[h].id)
           /\ readData[h] \in Content
<1>1. h \in DOMAIN m_events /\ m_events[h].type = "Decrypt" /\ readData[h] \in Content
  BY DEF AgreeInv, BuffersOK
<1>2. m_events[h] \in Event
  BY <1>1 DEF IInv, TypeOK
<1>3. m_events[h].id \in IDs /\ m_events[h] = [type |-> "Decrypt", id |-> m_events[h].id]
  BY <1>1, <1>2 DEF Event
<1> QED BY <1>1, <1>3 DEF HasEvent

\* Nothing the vdr process and the kernel keep changes: the network and the
\* memory are as they were, or datagrams are gone.
LEMMA DeviceStays ==
    ASSUME VInv, UNCHANGED mVars, readData' = readData, m_allocMemory' = m_allocMemory,
           asked' = asked, current' = current, allowed' = allowed, HeardStored,
           \A d \in reqNet' : d.type = "WRITE" => d \in reqNet, repNet' \subseteq repNet
    PROVE  DeviceInv'
<1>1. /\ m_writeRequests' = m_writeRequests /\ m_events' = m_events /\ nbd' = nbd
      /\ \A k : Left(m_writeRequests, k)' = Left(m_writeRequests, k)
      /\ \A g : Signalled(g)' <=> Signalled(g)
  BY MasterUnchanged
<1>2. WritesInFlight'
  BY <1>1, FlightsStay DEF VInv, DeviceInv
<1>3. Stored'
  BY <1>1, StoredStays DEF VInv, DeviceInv
<1>4. MemoryReadable'
  BY MemoryStays DEF VInv, DeviceInv
<1>5. WritesReadable' /\ ReadsAllowed'
  BY <1>1 DEF VInv, DeviceInv, WritesReadable, ReadsAllowed
<1>6. RepliesAllowed'
  BY <1>1 DEF VInv, DeviceInv, RepliesAllowed, MayHold
<1>7. BuffersAllowed'
  BY <1>1, BufferStays DEF VInv, DeviceInv, BuffersAllowed
<1> QED BY <1>2, <1>3, <1>4, <1>5, <1>6, <1>7 DEF DeviceInv

\* A new read may return what its block's replicas hold.
LEMMA ReadDevice ==
    ASSUME VInv, ReuseIds = FALSE, NEW id \in IDs, NEW blk \in Blocks, VRead(id, blk)
    PROVE  DeviceInv'
<1> USE DEF VInv, DeviceInv
<1>1. /\ nbd[id] = "free" /\ nbd' = [nbd EXCEPT ![id] = "pending"]
      /\ id \notin DOMAIN m_writeRequests /\ ~HasEvent("Decrypt", id)
      /\ \A r \in sent : r.id # id
      /\ m_writeRequests' = m_writeRequests /\ m_events' = m_events /\ m_pipe' = m_pipe
      /\ \A d \in reqNet' \ reqNet : d.type = "READ"
  BY ReadEffect
<1>2. /\ asked' = [asked EXCEPT ![id] = [type |-> "READ", blk |-> blk, val |-> Unwritten]]
      /\ allowed' = [allowed EXCEPT ![id] = current[blk]]
      /\ readData' = readData /\ repNet' = repNet /\ m_allocMemory' = m_allocMemory
      /\ current' = current /\ heard' = heard
  BY DEF VRead
<1>3. /\ asked'[id] = [type |-> "READ", blk |-> blk, val |-> Unwritten]
      /\ \A k \in IDs : k # id => asked'[k] = asked[k]
  BY <1>2 DEF AgreeInv, AskedOK
<1>4. allowed'[id] = current[blk] /\ \A k \in IDs : k # id => allowed'[k] = allowed[k]
  BY <1>2 DEF AgreeInv, StorageOK
<1>5. \A k \in IDs : k # id => nbd'[k] = nbd[k]
  BY <1>1 DEF IInv, TypeOK
<1>6. \A k \in DOMAIN m_writeRequests : k \in IDs /\ k # id
  BY <1>1, MappedType
<1>7. \A k : Left(m_writeRequests, k)' = Left(m_writeRequests, k)
  BY <1>1 DEF Left
<1>8. WritesInFlight'
  BY <1>1, <1>2, <1>7, FlightsStay
<1>9. Stored'
  BY <1>1, <1>2, <1>3, <1>6, QuietStored, StoredStays
<1>10. MemoryReadable'
  BY <1>2, MemoryStays
<1>11. WritesReadable'
  BY <1>1, <1>2, <1>3, <1>6 DEF WritesReadable
<1>12. ReadsAllowed'
  <2> SUFFICES ASSUME NEW k \in IDs, nbd'[k] = "pending", asked'[k].type = "READ"
               PROVE  current'[asked'[k].blk] \subseteq allowed'[k]
    BY DEF ReadsAllowed
  <2>1. CASE k = id
    BY <1>2, <1>3, <1>4, <2>1
  <2>2. CASE k # id
    BY <1>2, <1>3, <1>4, <1>5, <2>2 DEF ReadsAllowed
  <2> QED BY <2>1, <2>2
<1>13. RepliesAllowed'
  <2> SUFFICES ASSUME NEW d \in repNet, d.type = "READ", nbd'[d.id] = "pending"
               PROVE  MayHold(d.data, allowed'[d.id])
    BY <1>2 DEF RepliesAllowed, MayHold
  <2>1. d.id \in IDs /\ d.id # id
    <3>1. d.id \in IDs /\ RequestOf(d) \in sent /\ RequestOf(d).id = d.id
      BY DatagramAsAsked DEF RequestOf
    <3> QED BY <1>1, <3>1
  <2> QED BY <1>4, <1>5, <2>1 DEF RepliesAllowed
<1>14. BuffersAllowed'
  <2> SUFFICES ASSUME NEW h \in DOMAIN readData PROVE BufferAllowed(h)'
    BY <1>2 DEF BuffersAllowed
  <2>1. m_events[h].id \in IDs /\ m_events[h].id # id
    BY <1>1, BufferOfARead
  <2>2. Signalled(h)' <=> Signalled(h)
    BY <1>1 DEF Signalled
  <2> QED BY <1>1, <1>2, <1>4, <2>1, <2>2, BufferStays DEF BuffersAllowed
<1> QED BY <1>8, <1>9, <1>10, <1>11, <1>12, <1>13, <1>14

\* A new write finds no other in flight; reads of its block may return it.
LEMMA WriteDevice ==
    ASSUME VInv, ReuseIds = FALSE, OneWriteAtATime,
           NEW id \in IDs, NEW blk \in Blocks, VWrite(id, blk)
    PROVE  DeviceInv'
<1> USE DEF VInv, DeviceInv
<1> DEFINE c == m_eventCounter
           e == [type |-> "Encrypt", id |-> id]
<1>1. /\ nbd[id] = "free" /\ nbd' = [nbd EXCEPT ![id] = "pending"]
      /\ ~HasEvent("Decrypt", id) /\ \A r \in sent : r.id # id
      /\ DOMAIN m_writeRequests' = DOMAIN m_writeRequests \cup {id}
      /\ Left(m_writeRequests, id)' = Replicas(blk)
      /\ c \notin DOMAIN m_events /\ m_events' = Put(m_events, c, e) /\ m_pipe' = m_pipe
  BY WriteEffect
<1>2. /\ asked' = [asked EXCEPT ![id] = [type |-> "WRITE", blk |-> blk, val |-> c]]
      /\ current' = [current EXCEPT ![blk] = @ \cup {c}]
      /\ allowed' = [k \in IDs |->
           IF k \in Outstanding("READ") /\ asked[k].blk = blk
           THEN allowed[k] \cup {c} ELSE allowed[k]]
      /\ readData' = readData /\ reqNet' = reqNet /\ repNet' = repNet
      /\ m_allocMemory' = m_allocMemory /\ heard' = {h \in heard : h.id # id}
  BY DEF VWrite, netVars
<1>3. /\ asked'[id] = [type |-> "WRITE", blk |-> blk, val |-> c]
      /\ \A k \in IDs : k # id => asked'[k] = asked[k]
  BY <1>2 DEF AgreeInv, AskedOK
<1>4. \A k \in IDs : k # id => nbd'[k] = nbd[k]
  BY <1>1 DEF IInv, TypeOK
<1>5. /\ c \in current'[blk]
      /\ \A b \in Blocks : current[b] \subseteq current'[b]
      /\ \A b \in Blocks : b # blk => current'[b] = current[b]
      /\ current'[blk] = current[blk] \cup {c}
  BY <1>2 DEF AgreeInv, StorageOK
<1>6. \A k \in IDs : allowed[k] \subseteq allowed'[k]
  BY <1>2
<1>7. DOMAIN m_writeRequests = {}
  BY NoOtherWrite
<1>8. \A d \in reqNet \cup repNet : d.type # "WRITE"
  BY <1>7 DEF WritesInFlight
<1> HIDE DEF c, e
<1>9. WritesInFlight'
  BY <1>2, <1>8 DEF WritesInFlight
<1>10. Stored'
  <2>1. \A loc : ~HasReplied(id, loc)'
    BY <1>2 DEF HasReplied
  <2> QED BY <1>1, <1>2, <1>7, <1>8, <2>1 DEF Stored
<1>11. MemoryReadable'
  BY <1>2, <1>5, MemoryStays
<1>12. WritesReadable'
  BY <1>1, <1>3, <1>5, <1>7 DEF WritesReadable
<1>13. ReadsAllowed'
  <2> SUFFICES ASSUME NEW k \in IDs, nbd'[k] = "pending", asked'[k].type = "READ"
               PROVE  current'[asked'[k].blk] \subseteq allowed'[k]
    BY DEF ReadsAllowed
  <2>1. k # id
    BY <1>3
  <2>2. asked'[k] = asked[k] /\ asked[k].blk \in Blocks /\ nbd[k] = "pending"
    BY <1>3, <1>4, <2>1 DEF AgreeInv, AskedOK
  <2>3. current[asked[k].blk] \subseteq allowed[k]
    BY <2>2 DEF ReadsAllowed
  <2>4. k \in Outstanding("READ")
    BY <2>2 DEF Outstanding
  <2>5. CASE asked[k].blk = blk
    BY <1>2, <1>5, <2>2, <2>3, <2>4, <2>5
  <2>6. CASE asked[k].blk # blk
    BY <1>2, <1>5, <2>2, <2>3, <2>6
  <2> QED BY <2>5, <2>6
<1>14. RepliesAllowed'
  <2> SUFFICES ASSUME NEW d \in repNet, d.type = "READ", nbd'[d.id] = "pending"
               PROVE  MayHold(d.data, allowed'[d.id])
    BY <1>2 DEF RepliesAllowed, MayHold
  <2>1. d.id \in IDs /\ d.id # id
    <3>1. d.id \in IDs /\ RequestOf(d) \in sent /\ RequestOf(d).id = d.id
      BY DatagramAsAsked DEF RequestOf
    <3> QED BY <1>1, <3>1
  <2>2. MayHold(d.data, allowed[d.id])
    BY <1>4, <2>1 DEF RepliesAllowed
  <2> QED BY <1>6, <2>1, <2>2 DEF MayHold
<1>15. BuffersAllowed'
  <2> SUFFICES ASSUME NEW h \in DOMAIN readData PROVE BufferAllowed(h)'
    BY <1>2 DEF BuffersAllowed
  <2>1. m_events[h].id \in IDs /\ h \in DOMAIN m_events
    BY BufferOfARead
  <2>2. m_events'[h] = m_events[h]
    BY <1>1, <2>1 DEF Put
  <2>3. Signalled(h)' <=> Signalled(h)
    BY <1>1 DEF Signalled
  <2>4. readData'[h] = readData[h] /\ allowed[m_events[h].id] \subseteq allowed'[m_events[h].id]
    BY <1>2, <1>6, <2>1
  <2>5. BufferAllowed(h)
    BY DEF BuffersAllowed
  <2> QED BY <2>2, <2>3, <2>4, <2>5, BufferStays
<1> QED BY <1>9, <1>10, <1>11, <1>12, <1>13, <1>14, <1>15

\* The worker decrypts the buffer of a read once.
LEMMA SignalDevice ==
    ASSUME VInv, NEW h \in DOMAIN m_events, VEncryptDecryptIMP(h)
    PROVE  DeviceInv'
<1> USE DEF VInv, DeviceInv
<1>1. /\ ~Signalled(h) /\ \A g : Signalled(g)' <=> Signalled(g) \/ g = h
      /\ m_writeRequests' = m_writeRequests /\ m_events' = m_events /\ nbd' = nbd
  BY SignalEffect
<1>2. /\ asked' = asked /\ current' = current /\ allowed' = allowed
      /\ reqNet' = reqNet /\ repNet' = repNet /\ m_allocMemory' = m_allocMemory
      /\ heard' = heard
  BY DEF VEncryptDecryptIMP, kernelVars, netVars
<1>3. \A k : Left(m_writeRequests, k)' = Left(m_writeRequests, k)
  BY <1>1 DEF Left
<1>4. WritesInFlight' /\ Stored' /\ MemoryReadable'
  BY <1>1, <1>2, <1>3, FlightsStay, QuietStored, StoredStays, MemoryStays
<1>5. WritesReadable' /\ ReadsAllowed' /\ RepliesAllowed'
  BY <1>1, <1>2 DEF WritesReadable, ReadsAllowed, RepliesAllowed, MayHold
<1>6. BuffersAllowed'
  <2>1. \/ readData' = readData /\ h \notin DOMAIN readData
        \/ h \in DOMAIN readData /\ readData' = [readData EXCEPT ![h] = Xor(readData[h])]
    <3>1. m_events[h].type = "Encrypt" \/ m_events[h].type = "Decrypt"
      BY DEF IInv, TypeOK, Event
    <3> QED BY <3>1 DEF VEncryptDecryptIMP, AgreeInv, BuffersOK
  <2>2. DOMAIN readData' = DOMAIN readData
    BY <2>1
  <2> SUFFICES ASSUME NEW g \in DOMAIN readData PROVE BufferAllowed(g)'
    BY <2>2 DEF BuffersAllowed
  <2>3. BufferAllowed(g) /\ readData[g] \in Content
    BY BufferOfARead DEF BuffersAllowed
  <2>4. CASE g # h
    <3>1. readData'[g] = readData[g]
      BY <2>1, <2>4
    <3> QED BY <1>1, <1>2, <2>3, <2>4, <3>1, BufferStays
  <2>5. CASE g = h
    <3>1. readData'[g] = Xor(readData[g])
      BY <2>1, <2>5
    <3>2. readData'[g].val = readData[g].val /\ readData'[g].enc = ~readData[g].enc
          /\ readData[g].enc \in BOOLEAN
      BY <2>3, <3>1, ContentFacts
    <3> QED BY <1>1, <1>2, <2>3, <2>5, <3>2 DEF BufferAllowed
  <2> QED BY <2>4, <2>5
<1> QED BY <1>4, <1>5, <1>6

\* New datagrams of one write, one for each location it waits for, on a network
\* that has none of a write.
LEMMA FlightsBegin ==
    ASSUME VInv, NEW id \in DOMAIN m_writeRequests, m_packet \in Content,
           \A d \in reqNet \cup repNet : d.type # "WRITE",
           repNet' = repNet, DOMAIN m_writeRequests' = DOMAIN m_writeRequests,
           Left(m_writeRequests, id)' = Left(m_writeRequests, id),
           \A d \in reqNet' \ reqNet : d.type = "WRITE" =>
               /\ d \in Datagram /\ d.id = id /\ d.data = m_packet
               /\ Place(d) \in Left(m_writeRequests, id)
    PROVE  WritesInFlight'
<1>1. \A d \in reqNet' \cup repNet' : d.type = "WRITE" =>
          /\ d \in Datagram /\ d.id = id /\ d.data = m_packet
          /\ Place(d) \in Left(m_writeRequests, id)
  OBVIOUS
<1>2. \A d, e \in reqNet' \cup repNet' :
          d.type = "WRITE" /\ e.type = "WRITE" /\ Place(d) = Place(e) => d = e
  BY <1>1, SameDatagram
<1>3. ASSUME NEW d \in reqNet' \cup repNet', NEW e \in reqNet' \cup repNet',
             d.type = "WRITE", e.type = "WRITE", WaitsForOne(d.id)'
      PROVE  d = e
  <2>1. PICK loc : Left(m_writeRequests, id)' = {loc}
    BY <1>1, <1>3 DEF WaitsForOne
  <2>2. Place(d) = loc /\ Place(e) = loc
    BY <1>1, <1>3, <2>1
  <2> QED BY <1>2, <1>3, <2>2
<1> QED BY <1>1, <1>2, <1>3 DEF WritesInFlight

\* The first sending of a write puts one datagram on its way to each replica.
LEMMA EncryptedDevice ==
    ASSUME VInv, m_pipe # << >>, VOnEncrypted
    PROVE  DeviceInv'
<1> USE DEF VInv, DeviceInv
<1> DEFINE x == Head(m_pipe)
           id == m_events[x].id
<1>0. m_packet \in Content
  BY DEF AgreeInv, BuffersOK
<1>1. /\ id \in DOMAIN m_writeRequests /\ id \in IDs
      /\ \A r \in sent : ~(r.type = "WRITE" /\ r.id = id)
      /\ m_events' = Erase(m_events, x) /\ m_pipe' = Tail(m_pipe)
      /\ m_eventCounter' = m_eventCounter /\ nbd' = nbd
      /\ DOMAIN m_writeRequests' = DOMAIN m_writeRequests
      /\ \A k \in DOMAIN m_writeRequests :
           m_writeRequests'[k].blockLocations = m_writeRequests[k].blockLocations
      /\ \A d \in reqNet' \ reqNet : /\ d \in Datagram /\ d.id = id /\ d.data = m_packet
                                     /\ Place(d) \in Left(m_writeRequests, id)
  BY <1>0, EncryptedEffect
<1>2. /\ DOMAIN m_events' = DOMAIN m_events \ {x}
      /\ \A g \in DOMAIN m_events' : m_events'[g] = m_events[g]
      /\ \A g \in DOMAIN m_events' : Signalled(g)' <=> Signalled(g)
  BY <1>1, FinishEffect
<1>3. m_events[x].type = "Encrypt"
  BY DEF VOnEncrypted
<1>4. /\ asked' = asked /\ current' = current /\ allowed' = allowed
      /\ readData' = readData /\ repNet' = repNet /\ m_allocMemory' = m_allocMemory
      /\ heard' = heard
  BY DEF VOnEncrypted, kernelVars
<1> HIDE DEF x, id
<1>5. \A k \in DOMAIN m_writeRequests : Left(m_writeRequests, k)' = Left(m_writeRequests, k)
  BY <1>1 DEF Left
<1>6. \A d \in reqNet \cup repNet : d.type # "WRITE"
  <2> SUFFICES ASSUME NEW d \in reqNet \cup repNet, d.type = "WRITE" PROVE FALSE
    OBVIOUS
  <2>1. d.id = id
    BY <1>1 DEF WritesInFlight, PacketInv, OneWrite
  <2>2. RequestOf(d) \in sent /\ RequestOf(d).type = d.type /\ RequestOf(d).id = d.id
    BY DatagramAsAsked DEF RequestOf
  <2> QED BY <1>1, <2>1, <2>2
<1>7. WritesInFlight'
  <2>1. \A d \in reqNet' \ reqNet : d.type = "WRITE" =>
               /\ d \in Datagram /\ d.id = id /\ d.data = m_packet
               /\ Place(d) \in Left(m_writeRequests, id)
    BY <1>1
  <2>2. ASSUME NEW k \in DOMAIN m_writeRequests, k = id PROVE WritesInFlight'
    BY <1>0, <1>1, <1>4, <1>5, <1>6, <2>1, <2>2, FlightsBegin
  <2> QED BY <1>1, <2>2
<1>8. Stored' /\ MemoryReadable'
  BY <1>1, <1>4, QuietStored, StoredStays, MemoryStays
<1>9. WritesReadable' /\ ReadsAllowed' /\ RepliesAllowed'
  BY <1>1, <1>4 DEF WritesReadable, ReadsAllowed, RepliesAllowed, MayHold
<1>10. BuffersAllowed'
  <2> SUFFICES ASSUME NEW h \in DOMAIN readData PROVE BufferAllowed(h)'
    BY <1>4 DEF BuffersAllowed
  <2>1. h \in DOMAIN m_events /\ h # x
    BY <1>3, BufferOfARead
  <2> QED BY <1>2, <1>4, <2>1, BufferStays DEF BuffersAllowed
<1> QED BY <1>7, <1>8, <1>9, <1>10

\* A read that is answered is no longer outstanding.
LEMMA DecryptedDevice ==
    ASSUME VInv, m_pipe # << >>, VOnDecrypted
    PROVE  DeviceInv'
<1> USE DEF VInv, DeviceInv
<1> DEFINE x == Head(m_pipe)
           id == m_events[x].id
<1>1. /\ id \in IDs /\ nbd' = [nbd EXCEPT ![id] = "answered"]
      /\ m_events' = Erase(m_events, x) /\ m_pipe' = Tail(m_pipe)
      /\ m_eventCounter' = m_eventCounter /\ m_writeRequests' = m_writeRequests
  BY DecryptedEffect
<1>2. /\ DOMAIN m_events' = DOMAIN m_events \ {x}
      /\ \A g \in DOMAIN m_events' : m_events'[g] = m_events[g]
      /\ \A g \in DOMAIN m_events' : Signalled(g)' <=> Signalled(g)
  BY <1>1, FinishEffect
<1>3. /\ asked' = asked /\ current' = current /\ allowed' = allowed
      /\ readData' = Erase(readData, x) /\ reqNet' = reqNet /\ repNet' = repNet
      /\ m_allocMemory' = m_allocMemory /\ heard' = heard
  BY DEF VOnDecrypted, netVars
<1> HIDE DEF x, id
<1>4. \A k \in IDs : nbd'[k] = "pending" => nbd[k] = "pending"
  BY <1>1 DEF IInv, TypeOK
<1>5. \A k : Left(m_writeRequests, k)' = Left(m_writeRequests, k)
  BY <1>1 DEF Left
<1>6. WritesInFlight' /\ Stored' /\ MemoryReadable'
  BY <1>1, <1>3, <1>5, FlightsStay, QuietStored, StoredStays, MemoryStays
<1>7. WritesReadable' /\ ReadsAllowed'
  BY <1>1, <1>3, <1>4 DEF WritesReadable, ReadsAllowed
<1>8. RepliesAllowed'
  <2>1. \A d \in repNet : d.id \in IDs
    BY DatagramAsAsked
  <2> QED BY <1>3, <1>4, <2>1 DEF RepliesAllowed, MayHold
<1>9. BuffersAllowed'
  <2>1. DOMAIN readData' = DOMAIN readData \ {x}
        /\ \A h \in DOMAIN readData' : readData'[h] = readData[h]
    BY <1>3 DEF Erase
  <2> SUFFICES ASSUME NEW h \in DOMAIN readData' PROVE BufferAllowed(h)'
    BY DEF BuffersAllowed
  <2>2. h \in DOMAIN readData /\ h \in DOMAIN m_events' /\ readData'[h] = readData[h]
    BY <1>2, <2>1, BufferOfARead
  <2> QED BY <1>2, <1>3, <2>2, BufferStays DEF BuffersAllowed
<1> QED BY <1>6, <1>7, <1>8, <1>9

\* A retry of a write finds nothing of it in flight, when what was sent before has
\* arrived or is lost.
LEMMA RetryDevice ==
    ASSUME VInv, Timely = TRUE, NEW t \in m_callBacks, VCallBackWrapper(t)
    PROVE  DeviceInv'
<1> USE DEF VInv, DeviceInv
<1>0. m_packet \in Content
  BY DEF AgreeInv, BuffersOK
<1>1. /\ DOMAIN m_writeRequests' = DOMAIN m_writeRequests
      /\ \A k \in DOMAIN m_writeRequests :
           m_writeRequests'[k].blockLocations = m_writeRequests[k].blockLocations
      /\ m_events' = m_events /\ m_pipe' = m_pipe /\ nbd' = nbd
      /\ \A d \in reqNet' \ reqNet :
           /\ d \in Datagram /\ d.id = t.id
           /\ d.type = "WRITE" => /\ d.id \in DOMAIN m_writeRequests /\ d.data = m_packet
                                  /\ Place(d) \in Left(m_writeRequests, d.id)
  BY <1>0, RetryEffect
<1>2. /\ asked' = asked /\ current' = current /\ allowed' = allowed
      /\ readData' = readData /\ repNet' = repNet /\ m_allocMemory' = m_allocMemory
      /\ heard' = heard
  BY DEF VCallBackWrapper, kernelVars
<1>3. \A d \in reqNet \cup repNet : d.id # t.id
  BY DEF VCallBackWrapper, InFlight
<1>4. \A k \in DOMAIN m_writeRequests : Left(m_writeRequests, k)' = Left(m_writeRequests, k)
  BY <1>1 DEF Left
<1>5. \A g : Signalled(g)' <=> Signalled(g)
  BY <1>1 DEF Signalled
<1>6. WritesInFlight'
  <2>1. CASE t.id \in DOMAIN m_writeRequests
    <3>1. \A d \in reqNet \cup repNet : d.type # "WRITE"
      BY <1>3, <2>1 DEF WritesInFlight, PacketInv, OneWrite
    <3>2. \A d \in reqNet' \ reqNet : d.type = "WRITE" =>
            /\ d \in Datagram /\ d.id = t.id /\ d.data = m_packet
            /\ Place(d) \in Left(m_writeRequests, t.id)
      BY <1>1
    <3>3. ASSUME NEW k \in DOMAIN m_writeRequests, k = t.id PROVE WritesInFlight'
      BY <1>0, <1>1, <1>2, <1>4, <3>1, <3>2, <3>3, FlightsBegin
    <3> QED BY <2>1, <3>3
  <2>2. CASE t.id \notin DOMAIN m_writeRequests
    <3>1. \A d \in reqNet' : d.type = "WRITE" => d \in reqNet
      BY <1>1, <2>2
    <3> QED BY <1>1, <1>2, <1>4, <3>1, FlightsStay
  <2> QED BY <2>1, <2>2
<1>7. Stored' /\ MemoryReadable'
  BY <1>1, <1>2, QuietStored, StoredStays, MemoryStays
<1>8. WritesReadable' /\ ReadsAllowed' /\ RepliesAllowed'
  BY <1>1, <1>2 DEF WritesReadable, ReadsAllowed, RepliesAllowed, MayHold
<1>9. BuffersAllowed'
  BY <1>1, <1>2, <1>5, BufferStays DEF BuffersAllowed
<1> QED BY <1>6, <1>7, <1>8, <1>9

\* A write on its way to a minion is none on its way back.
LEMMA RequestIsNoReply ==
    ASSUME VInv, NEW d \in reqNet, d.type = "WRITE"
    PROVE  d.data = OwnData(d.id) /\ d \notin repNet
<1>1. d.data = OwnData(d.id)
  BY DEF VInv, PacketInv, WriteCarriesItsOwnData, OwnData
<1>2. d.data.enc = TRUE
  BY <1>1 DEF OwnData
<1>3. d \in repNet => d.data = Blank
  BY DEF VInv, DeviceInv, WritesInFlight
<1> QED BY <1>1, <1>2, <1>3, ContentFacts

\* A minion's answer to a read is what it holds.
LEMMA MinionReadDevice ==
    ASSUME VInv, NEW req \in reqNet, MinionRead(req)
    PROVE  DeviceInv'
<1> USE DEF VInv, DeviceInv
<1> DEFINE new == Reply(req, MemoryAt(Place(req)))
<1>1. /\ req \in Datagram /\ req.id \in IDs /\ asked[req.id].type = "READ"
      /\ asked[req.id].blk \in Blocks /\ Place(req) \in Replicas(asked[req.id].blk)
      /\ Place(req) \in BlockLocation
  BY DatagramAsAsked DEF MinionRead
<1>2. MemoryAt(Place(req)) = m_allocMemory[req.minionID][req.blockOffset]
  BY <1>1, DatagramAddress DEF MemoryAt
<1>3. MemoryAt(Place(req)) \in Content
  BY <1>1, <1>2, DatagramAddress DEF AgreeInv, StorageOK
<1>4. /\ new.type = "READ" /\ new.id = req.id /\ new.data = MemoryAt(Place(req))
  BY <1>1, <1>3, ReplyIsDatagram DEF MinionRead
<1>5. /\ UNCHANGED mVars /\ readData' = readData /\ m_allocMemory' = m_allocMemory
      /\ asked' = asked /\ current' = current /\ allowed' = allowed
      /\ reqNet' \subseteq reqNet /\ repNet' = repNet \cup {new} /\ heard' = heard
  BY <1>2 DEF MinionRead, Receive, kernelVars
<1> HIDE DEF new
<1>6. /\ m_writeRequests' = m_writeRequests /\ m_events' = m_events /\ nbd' = nbd
      /\ \A k : Left(m_writeRequests, k)' = Left(m_writeRequests, k)
      /\ \A g : Signalled(g)' <=> Signalled(g)
  BY <1>5, MasterUnchanged
<1>7. \A d \in repNet' : d.type = "WRITE" => d \in repNet
  BY <1>4, <1>5
<1>8. WritesInFlight' /\ Stored' /\ MemoryReadable'
  BY <1>5, <1>6, <1>7, FlightsStay, QuietStored, StoredStays, MemoryStays
<1>9. WritesReadable' /\ ReadsAllowed'
  BY <1>5, <1>6 DEF WritesReadable, ReadsAllowed
<1>10. RepliesAllowed'
  <2> SUFFICES ASSUME NEW d \in repNet', d.type = "READ", nbd[d.id] = "pending"
               PROVE  MayHold(d.data, allowed[d.id])
    BY <1>5, <1>6 DEF RepliesAllowed, MayHold
  <2>1. CASE d \in repNet
    BY <2>1 DEF RepliesAllowed
  <2>2. CASE d = new
    <3>1. MayHold(d.data, current[asked[d.id].blk])
      BY <1>1, <1>4, <2>2 DEF MemoryReadable
    <3>2. current[asked[d.id].blk] \subseteq allowed[d.id]
      BY <1>1, <1>4, <2>2 DEF ReadsAllowed
    <3> QED BY <3>1, <3>2 DEF MayHold
  <2> QED BY <1>5, <2>1, <2>2
<1>11. BuffersAllowed'
  BY <1>5, <1>6, BufferStays DEF BuffersAllowed
<1> QED BY <1>8, <1>9, <1>10, <1>11

\* A minion that gets a write has it, at that place and no other, and says so.
LEMMA MinionWriteEffect ==
    ASSUME VInv, Duplicates = FALSE, NEW req \in reqNet, MinionWrite(req)
    PROVE  LET new == Reply(req, Blank)
           IN  /\ req.id \in DOMAIN m_writeRequests /\ Place(req) \in BlockLocation
               /\ MemoryAt(Place(req))' = OwnData(req.id)
               /\ \A loc \in BlockLocation :
                    loc # Place(req) => MemoryAt(loc)' = MemoryAt(loc)
               /\ reqNet' = reqNet \ {req} /\ repNet' = repNet \cup {new}
               /\ new.type = "WRITE" /\ new.id = req.id /\ new.data = Blank
               /\ Place(new) = Place(req)
<1> USE DEF VInv, DeviceInv
<1> DEFINE new == Reply(req, Blank)
<1>1. /\ req.type = "WRITE" /\ reqNet' \in Receive(reqNet, req)
      /\ m_allocMemory' = [m_allocMemory EXCEPT ![req.minionID][req.blockOffset] = req.data]
      /\ repNet' = repNet \cup {new}
  BY DEF MinionWrite
<1>2. req \in Datagram /\ Place(req) \in BlockLocation
  BY DatagramAsAsked
<1>3. /\ req.minionID \in Minions /\ req.blockOffset \in Slots
      /\ Place(req).minionID = req.minionID /\ Place(req).blockOffset = req.blockOffset
  BY <1>2, DatagramAddress
<1>4. req.id \in DOMAIN m_writeRequests
  BY <1>1 DEF WritesInFlight
<1>5. req.data = OwnData(req.id)
  BY <1>1, RequestIsNoReply
<1>6. m_allocMemory \in [Minions -> [Slots -> Content]]
  BY DEF AgreeInv, StorageOK
<1>7. MemoryAt(Place(req))' = OwnData(req.id)
  <2>1. m_allocMemory'[req.minionID][req.blockOffset] = req.data
    BY <1>1, <1>3, <1>6
  <2> QED BY <1>3, <1>5, <2>1 DEF MemoryAt, Place
<1>8. ASSUME NEW loc \in BlockLocation, loc # Place(req) PROVE MemoryAt(loc)' = MemoryAt(loc)
  <2>1. /\ loc.minionID \in Minions /\ loc.blockOffset \in Slots
        /\ loc.minionID # req.minionID \/ loc.blockOffset # req.blockOffset
    BY <1>8 DEF BlockLocation, Place
  <2> QED BY <1>1, <1>3, <1>6, <2>1 DEF MemoryAt
<1>9. reqNet' = reqNet \ {req}
  BY <1>1 DEF Receive
<1>10. new.type = "WRITE" /\ new.id = req.id /\ new.data = Blank /\ Place(new) = Place(req)
  BY <1>1, <1>2, ContentFacts, ReplyIsDatagram
<1> QED BY <1>1, <1>2, <1>4, <1>7, <1>8, <1>9, <1>10

\* What a minion gets of a write is a value that a read may return.
LEMMA MinionWriteDevice ==
    ASSUME VInv, Duplicates = FALSE, NEW req \in reqNet, MinionWrite(req)
    PROVE  DeviceInv'
<1> USE DEF VInv, DeviceInv
<1> DEFINE new == Reply(req, Blank)
           id == req.id
<1>1. /\ id \in DOMAIN m_writeRequests /\ Place(req) \in BlockLocation
      /\ MemoryAt(Place(req))' = OwnData(id)
      /\ \A loc \in BlockLocation : loc # Place(req) => MemoryAt(loc)' = MemoryAt(loc)
      /\ reqNet' = reqNet \ {req} /\ repNet' = repNet \cup {new}
      /\ new.type = "WRITE" /\ new.id = id /\ new.data = Blank /\ Place(new) = Place(req)
  BY MinionWriteEffect
<1>2. /\ UNCHANGED mVars /\ readData' = readData
      /\ asked' = asked /\ current' = current /\ allowed' = allowed /\ heard' = heard
  BY DEF MinionWrite, kernelVars
<1>3. req.type = "WRITE" /\ req \notin repNet
  BY RequestIsNoReply DEF MinionWrite
<1> HIDE DEF new
<1>4. /\ m_writeRequests' = m_writeRequests /\ m_events' = m_events /\ nbd' = nbd
      /\ \A k : Left(m_writeRequests, k)' = Left(m_writeRequests, k)
      /\ \A g : Signalled(g)' <=> Signalled(g)
  BY <1>2, MasterUnchanged
<1>5. \A k : OwnData(k)' = OwnData(k)
  BY <1>2 DEF OwnData
<1>6. /\ asked[id].blk \in Blocks /\ Place(req) \in Replicas(asked[id].blk)
      /\ asked[id].val \in Handle
  BY <1>1, WriteAsked, DatagramAsAsked
<1>7. WritesInFlight'
  <2>1. \A d \in reqNet' \cup repNet' : d = new \/ (d \in reqNet \cup repNet /\ d # req)
    BY <1>1, <1>3
  <2>2. \A d \in reqNet' \cup repNet' : d.type = "WRITE" => d.id \in DOMAIN m_writeRequests
    BY <1>1, <2>1 DEF WritesInFlight
  <2>3. \A d \in reqNet' \cup repNet' : d.type = "WRITE" /\ Place(d) = Place(req) => d = new
    BY <1>3, <2>1 DEF WritesInFlight
  <2>4. \A d, e \in reqNet' \cup repNet' :
          d.type = "WRITE" /\ e.type = "WRITE" /\ Place(d) = Place(e) => d = e
    BY <1>1, <2>1, <2>3 DEF WritesInFlight
  <2>5. \A d \in repNet' : d.type = "WRITE" => d.data = Blank
    BY <1>1 DEF WritesInFlight
  <2>6. ASSUME NEW d \in reqNet' \cup repNet', d.type = "WRITE", WaitsForOne(d.id)
        PROVE  d = new
    <3>1. d.id = id
      BY <1>1, <2>2, <2>6 DEF PacketInv, OneWrite
    <3> QED BY <1>3, <2>1, <2>6, <3>1 DEF WritesInFlight
  <2>7. \A k : WaitsForOne(k)' <=> WaitsForOne(k)
    BY <1>4 DEF WaitsForOne
  <2>8. \A d, e \in reqNet' \cup repNet' :
          d.type = "WRITE" /\ e.type = "WRITE" /\ WaitsForOne(d.id)' => d = e
    <3>1. \A d, e \in reqNet' \cup repNet' :
            d.type = "WRITE" /\ e.type = "WRITE" => d.id = e.id
      BY <2>2 DEF PacketInv, OneWrite
    <3> QED BY <2>6, <2>7, <3>1
  <2> QED BY <1>4, <2>2, <2>4, <2>5, <2>8 DEF WritesInFlight
<1>8. Stored'
  <2>0. \A k, loc : HasReplied(k, loc)' <=> HasReplied(k, loc)
    BY <1>2 DEF HasReplied
  <2>1. ASSUME NEW k \in DOMAIN m_writeRequests, NEW loc \in Replicas(asked[k].blk),
               HasReplied(k, loc)
        PROVE  MemoryAt(loc)' = OwnData(k)
    <3>1. k = id /\ loc \in BlockLocation
      BY <1>1, WriteAsked DEF PacketInv, OneWrite
    <3>2. MemoryAt(loc) = OwnData(k)
      BY <2>1 DEF Stored
    <3> QED BY <1>1, <3>1, <3>2
  <2>2. ASSUME NEW d \in repNet', d.type = "WRITE" PROVE MemoryAt(Place(d))' = OwnData(d.id)
    <3>1. CASE d = new
      <4>1. MemoryAt(Place(d))' = MemoryAt(Place(req))'
        BY <1>1, <3>1 DEF MemoryAt
      <4> QED BY <1>1, <3>1, <4>1
    <3>2. CASE d # new
      <4>1. d \in repNet /\ d # req
        BY <1>1, <1>3, <3>2
      <4>2. Place(d) # Place(req) /\ Place(d) \in BlockLocation
        BY <1>3, <2>2, <4>1, DatagramAsAsked DEF WritesInFlight
      <4>3. MemoryAt(Place(d))' = MemoryAt(Place(d))
        BY <1>1, <4>2
      <4> QED BY <2>2, <4>1, <4>3 DEF Stored
    <3> QED BY <3>1, <3>2
  <2> QED BY <1>2, <1>4, <1>5, <2>0, <2>1, <2>2 DEF Stored
<1>9. MemoryReadable'
  <2> SUFFICES ASSUME NEW blk \in Blocks, NEW loc \in Replicas(blk)
               PROVE  MayHold(MemoryAt(loc)', current[blk])
    BY <1>2 DEF MemoryReadable, MayHold
  <2>1. loc \in BlockLocation
    BY ReplicaFacts
  <2>2. CASE loc # Place(req)
    BY <1>1, <2>1, <2>2 DEF MemoryReadable
  <2>3. CASE loc = Place(req)
    <3>1. blk = asked[id].blk
      BY <1>6, <2>3, ReplicaFacts
    <3>2. MemoryAt(loc)' = OwnData(id)
      BY <1>1, <2>3
    <3>3. asked[id].val \in current[blk]
      BY <1>1, <3>1 DEF WritesReadable
    <3> QED BY <3>2, <3>3 DEF MayHold, OwnData
  <2> QED BY <2>2, <2>3
<1>10. WritesReadable' /\ ReadsAllowed'
  BY <1>2, <1>4 DEF WritesReadable, ReadsAllowed
<1>11. RepliesAllowed'
  <2>1. \A d \in repNet' : d.type = "READ" => d \in repNet
    BY <1>1
  <2> QED BY <1>2, <1>4, <2>1 DEF RepliesAllowed, MayHold
<1>12. BuffersAllowed'
  BY <1>2, <1>4, BufferStays DEF BuffersAllowed
<1> QED BY <1>7, <1>8, <1>9, <1>10, <1>11, <1>12

\* Whose reply is heard has the write.
LEMMA ReplyStored ==
    ASSUME VInv, NEW rep \in repNet, NEW m \in Minions, RecieveFromMinionCB(rep, m)
    PROVE  HeardStored
<1> USE DEF VInv, DeviceInv
<1> SUFFICES ASSUME NEW id \in DOMAIN m_writeRequests, NEW loc \in Replicas(asked[id].blk),
                    HasReplied(id, loc)'
             PROVE  MemoryAt(loc) = OwnData(id)
  BY DEF HeardStored
<1>1. id \in IDs /\ loc \in BlockLocation /\ asked[id].type = "WRITE"
  BY WriteAsked
<1>2. HasReplied(id, loc) \/ (id = rep.id /\ loc = Place(rep))
  BY <1>1, CreditedAfterReply
<1>3. id = rep.id => rep.type = "WRITE"
  BY <1>1, DatagramAsAsked
<1> QED BY <1>2, <1>3 DEF Stored

\* A read takes the first reply's data for its own buffer.
LEMMA ReplyReadDevice ==
    ASSUME VInv, NEW rep \in repNet, NEW m \in Minions,
           RecieveFromMinionCB(rep, m), VReplyReadIMP(rep, m)
    PROVE  DeviceInv'
<1> USE DEF VInv, DeviceInv
<1> DEFINE c == m_eventCounter
           e == [type |-> "Decrypt", id |-> rep.id]
<1>1. /\ rep.id \in IDs /\ nbd[rep.id] = "pending" /\ nbd' = nbd
      /\ m_writeRequests' = m_writeRequests
      /\ c \notin DOMAIN m_events /\ m_events' = Put(m_events, c, e) /\ m_pipe' = m_pipe
  BY ReplyReadEffect
<1>2. /\ asked' = asked /\ allowed' = allowed /\ reqNet' = reqNet
      /\ m_allocMemory' = m_allocMemory /\ repNet' \subseteq repNet
  BY DEF RecieveFromMinionCB, Receive
<1>3. rep.type = "READ" /\ readData' = Put(readData, c, rep.data) /\ current' = current
  BY DEF VReplyReadIMP
<1>4. e.id = rep.id
  OBVIOUS
<1> HIDE DEF c, e
<1>5. \A k : Left(m_writeRequests, k)' = Left(m_writeRequests, k)
  BY <1>1 DEF Left
<1>6. WritesInFlight' /\ Stored' /\ MemoryReadable'
  BY <1>1, <1>2, <1>3, <1>5, FlightsStay, ReplyStored, StoredStays, MemoryStays
<1>7. WritesReadable' /\ ReadsAllowed' /\ RepliesAllowed'
  BY <1>1, <1>2, <1>3 DEF WritesReadable, ReadsAllowed, RepliesAllowed, MayHold
<1>8. BuffersAllowed'
  <2>1. /\ DOMAIN readData' = DOMAIN readData \cup {c} /\ readData'[c] = rep.data
        /\ \A h \in DOMAIN readData : h # c => readData'[h] = readData[h]
    BY <1>3 DEF Put
  <2>2. /\ m_events'[c] = e /\ \A h \in DOMAIN m_events : m_events'[h] = m_events[h]
    BY <1>1 DEF Put
  <2>3. \A g : Signalled(g)' <=> Signalled(g)
    BY <1>1 DEF Signalled
  <2>4. ~Signalled(c)
    BY <1>1 DEF Signalled, IInv, PipeKnown
  <2> SUFFICES ASSUME NEW h \in DOMAIN readData' PROVE BufferAllowed(h)'
    BY DEF BuffersAllowed
  <2>5. CASE h = c
    <3>1. MayHold(rep.data, allowed[rep.id])
      BY <1>1, <1>3 DEF RepliesAllowed
    <3>2. readData'[h] = rep.data /\ m_events'[h].id = rep.id /\ ~Signalled(h)'
      BY <1>4, <2>1, <2>2, <2>3, <2>4, <2>5
    <3> QED BY <1>2, <3>1, <3>2 DEF MayHold, BufferAllowed
  <2>6. CASE h # c
    <3>1. h \in DOMAIN readData /\ h \in DOMAIN m_events
      BY <2>1, <2>6, BufferOfARead
    <3>2. readData'[h] = readData[h] /\ m_events'[h] = m_events[h]
      BY <2>1, <2>2, <2>6, <3>1
    <3> QED BY <1>2, <2>3, <3>1, <3>2, BufferStays DEF BuffersAllowed
  <2> QED BY <2>5, <2>6
<1> QED BY <1>6, <1>7, <1>8

\* What has become of the write datagrams when a reply to a write is received: one
\* is left at most, and none when the write waited for a single location.
LEMMA ReplyWriteFlights ==
    ASSUME VInv, Duplicates = FALSE, NEW rep \in repNet, NEW m \in Minions,
           RecieveFromMinionCB(rep, m), rep.type = "WRITE"
    PROVE  /\ reqNet' \cup repNet' \subseteq reqNet \cup repNet /\ repNet' \subseteq repNet
           /\ \A d \in reqNet' \cup repNet' : d.type = "WRITE" => d.id = rep.id
           /\ \A d, e \in reqNet' \cup repNet' : d.type = "WRITE" /\ e.type = "WRITE" => d = e
           /\ WaitsForOne(rep.id) => \A d \in reqNet' \cup repNet' : d.type # "WRITE"
<1> USE DEF VInv, DeviceInv
<1>1. reqNet' = reqNet /\ repNet' = repNet \ {rep}
  BY DEF RecieveFromMinionCB, Receive
<1>2. rep \notin reqNet
  BY RequestIsNoReply
<1>3. \A d \in reqNet' \cup repNet' : d \in reqNet \cup repNet /\ d # rep
  BY <1>1, <1>2
<1>4. \A d \in reqNet \cup repNet : d.type = "WRITE" => d.id = rep.id
  BY DEF WritesInFlight, PacketInv, OneWrite
<1>5. \A d \in reqNet' \cup repNet' : d.type = "WRITE" =>
        Place(d) # Place(rep) /\ Place(d) \in Replicas(asked[rep.id].blk)
  BY <1>3, <1>4, DatagramAsAsked DEF WritesInFlight
<1>6. asked[rep.id].blk \in Blocks /\ Place(rep) \in Replicas(asked[rep.id].blk)
  BY DatagramAsAsked
<1>7. ASSUME NEW d \in reqNet' \cup repNet', NEW e \in reqNet' \cup repNet',
             d.type = "WRITE", e.type = "WRITE"
      PROVE  d = e
  <2>1. Place(d) = Place(e)
    BY <1>5, <1>6, <1>7, ReplicaFacts
  <2> QED BY <1>3, <1>7, <2>1 DEF WritesInFlight
<1>8. WaitsForOne(rep.id) => \A d \in reqNet' \cup repNet' : d.type # "WRITE"
  BY <1>3 DEF WritesInFlight
<1> QED BY <1>1, <1>3, <1>4, <1>7, <1>8

\* When the reply for the last location comes, both replicas have replied: what
\* took the other location out of the vector was a reply credited to another
\* minion than this one is, hence from another minion.
LEMMA LastReplyStored ==
    ASSUME VInv, NumMinions > 1, NEW rep \in repNet, NEW m \in Minions,
           RecieveFromMinionCB(rep, m), rep.type = "WRITE", rep.id \in DOMAIN m_writeRequests,
           NEW loc, Left(m_writeRequests, rep.id) = {loc}, loc.minionID = m
    PROVE  \A l \in Replicas(asked[rep.id].blk) : MemoryAt(l) = OwnData(rep.id)
<1> USE DEF VInv, DeviceInv
<1> DEFINE id == rep.id
           R == Replicas(asked[id].blk)
<1>1. asked[id].blk \in Blocks /\ Place(rep) \in R
  BY DatagramAsAsked
<1>2. loc \in R
  BY WriteAsked
<1>3. /\ \A a, b \in R : a.minionID = b.minionID => a = b
      /\ \A a \in R : \E b \in R : b # a
      /\ \A a, b, c \in R : a = b \/ b = c \/ a = c
  BY <1>1, ReplicaFacts
<1>4. PICK other \in R : other # loc
  BY <1>2, <1>3
<1>5. other.minionID \in Credited(id)
  BY <1>4 DEF CreditInv, WaitsForUncredited
<1>6. PICK h \in R : HasReplied(id, h) /\ socketOf[h.minionID] = other.minionID
  BY <1>5 DEF Credited
<1>7. other.minionID # m
  BY <1>2, <1>3, <1>4
<1>8. h # Place(rep)
  BY <1>6, <1>7, CreditedAfterReply
<1>9. MemoryAt(h) = OwnData(id) /\ MemoryAt(Place(rep)) = OwnData(id)
  BY <1>6 DEF Stored
<1> HIDE DEF R
<1>10. \A l \in R : l = h \/ l = Place(rep)
  BY <1>1, <1>3, <1>6, <1>8
<1> QED BY <1>9, <1>10 DEF R

\* The last reply makes the write what every replica holds.
LEMMA ReplyWriteDevice ==
    ASSUME VInv, NumMinions > 1, Duplicates = FALSE, NEW rep \in repNet, NEW m \in Minions,
           RecieveFromMinionCB(rep, m), VReplyWriteIMP(rep, m)
    PROVE  DeviceInv'
<1> USE DEF VInv, DeviceInv
<1> DEFINE id == rep.id
<1>1. PICK l \in Left(m_writeRequests, id) :
      /\ id \in DOMAIN m_writeRequests /\ rep.type = "WRITE" /\ l.minionID = m
      /\ \/ /\ DOMAIN m_writeRequests' = DOMAIN m_writeRequests
            /\ nbd' = nbd /\ current' = current
         \/ /\ DOMAIN m_writeRequests' = DOMAIN m_writeRequests \ {id}
            /\ Left(m_writeRequests, id) = {l}
            /\ nbd' = [nbd EXCEPT ![id] = "answered"]
            /\ current' = [current EXCEPT ![asked[id].blk] = {asked[id].val}]
  BY ReplyTakesItsPlace DEF CreditInv
<1>3. /\ asked' = asked /\ allowed' = allowed /\ m_allocMemory' = m_allocMemory
      /\ readData' = readData
  BY DEF RecieveFromMinionCB, VReplyWriteIMP
<1>4. m_events' = m_events /\ m_pipe' = m_pipe
  BY ReplyWriteEffect
<1>5. /\ reqNet' \cup repNet' \subseteq reqNet \cup repNet /\ repNet' \subseteq repNet
      /\ \A d \in reqNet' \cup repNet' : d.type = "WRITE" => d.id = id
      /\ \A d, e \in reqNet' \cup repNet' : d.type = "WRITE" /\ e.type = "WRITE" => d = e
      /\ WaitsForOne(id) => \A d \in reqNet' \cup repNet' : d.type # "WRITE"
  BY <1>1, ReplyWriteFlights
<1>6. \A k \in DOMAIN m_writeRequests : k = id
  BY <1>1 DEF PacketInv, OneWrite
<1>7. /\ id \in IDs /\ asked[id].type = "WRITE" /\ asked[id].blk \in Blocks
      /\ asked[id].val \in Handle
  BY <1>1, WriteAsked
<1>8. \A loc : MemoryAt(loc)' = MemoryAt(loc)
  BY <1>3 DEF MemoryAt
<1>11. BuffersAllowed'
  <2>1. \A g : Signalled(g)' <=> Signalled(g)
    BY <1>4 DEF Signalled
  <2> QED BY <1>3, <1>4, <2>1, BufferStays DEF BuffersAllowed
<1>12. \A d \in repNet' : d.type = "WRITE" => d.data = Blank
  BY <1>5 DEF WritesInFlight
<1>16. CASE /\ DOMAIN m_writeRequests' = DOMAIN m_writeRequests
            /\ nbd' = nbd /\ current' = current
  <2>1. WritesInFlight'
    BY <1>1, <1>5, <1>12, <1>16 DEF WritesInFlight
  <2>2. Stored'
    BY <1>3, <1>5, <1>16, ReplyStored, StoredStays
  <2>3. MemoryReadable'
    BY <1>3, <1>16, MemoryStays
  <2>4. WritesReadable' /\ ReadsAllowed' /\ RepliesAllowed'
    BY <1>3, <1>5, <1>16 DEF WritesReadable, ReadsAllowed, RepliesAllowed, MayHold
  <2> QED BY <1>11, <2>1, <2>2, <2>3, <2>4
<1>17. CASE /\ DOMAIN m_writeRequests' = DOMAIN m_writeRequests \ {id}
            /\ Left(m_writeRequests, id) = {l}
            /\ nbd' = [nbd EXCEPT ![id] = "answered"]
            /\ current' = [current EXCEPT ![asked[id].blk] = {asked[id].val}]
  <2>1. DOMAIN m_writeRequests' = {}
    BY <1>6, <1>17
  <2>2. \A d \in reqNet' \cup repNet' : d.type # "WRITE"
    BY <1>5, <1>17 DEF WaitsForOne
  <2>3. /\ current'[asked[id].blk] = {asked[id].val}
        /\ \A b \in Blocks : b # asked[id].blk => current'[b] = current[b]
    BY <1>7, <1>17 DEF AgreeInv, StorageOK
  <2>4. \A k \in IDs : nbd'[k] = "pending" => nbd[k] = "pending" /\ k # id
    BY <1>17 DEF IInv, TypeOK
  <2>5. \A b \in Blocks : current'[b] \subseteq current[b]
    BY <1>1, <1>7, <2>3 DEF WritesReadable
  <2>6. WritesInFlight'
    BY <2>2 DEF WritesInFlight
  <2>7. Stored'
    BY <2>1, <2>2 DEF Stored
  <2>8. MemoryReadable'
    <3> SUFFICES ASSUME NEW blk \in Blocks, NEW loc \in Replicas(blk)
                 PROVE  MayHold(MemoryAt(loc), current'[blk])
      BY <1>8 DEF MemoryReadable, MayHold
    <3>1. CASE blk = asked[id].blk
      <4>1. MemoryAt(loc) = OwnData(id)
        BY <1>1, <1>17, <3>1, LastReplyStored
      <4> QED BY <2>3, <3>1, <4>1 DEF MayHold, OwnData
    <3>2. CASE blk # asked[id].blk
      BY <2>3, <3>2 DEF MemoryReadable
    <3> QED BY <3>1, <3>2
  <2>9. WritesReadable'
    BY <2>1 DEF WritesReadable
  <2>10. ReadsAllowed'
    <3>1. \A k \in IDs : asked[k].blk \in Blocks
      BY DEF AgreeInv, AskedOK
    <3> QED BY <1>3, <2>4, <2>5, <3>1 DEF ReadsAllowed
  <2>11. RepliesAllowed'
    <3>1. \A d \in repNet' : d.id \in IDs /\ d \in repNet
      BY <1>5, DatagramAsAsked
    <3> QED BY <1>3, <2>4, <3>1 DEF RepliesAllowed, MayHold
  <2> QED BY <1>11, <2>6, <2>7, <2>8, <2>9, <2>10, <2>11
<1> QED BY <1>1, <1>16, <1>17

\* Whatever the network loses, it repeats nothing, and what was sent has arrived or
\* is lost when the timeout comes; the two replicas of a block are on two minions.
SteadyNetwork == NumMinions > 1 /\ Timely = TRUE /\ Duplicates = FALSE

\* Every step keeps it.
LEMMA NextDevice ==
    ASSUME ReuseIds = FALSE, OneWriteAtATime, SteadyNetwork
    PROVE  VInv /\ [VNext]_vars => DeviceInv'
<1> SUFFICES ASSUME VInv, [VNext]_vars PROVE DeviceInv'
  OBVIOUS
<1> USE DEF SteadyNetwork
<1>1. ASSUME NEW id \in IDs, NEW blk \in Blocks, VRead(id, blk) PROVE DeviceInv'
  BY <1>1, ReadDevice
<1>2. ASSUME NEW id \in IDs, NEW blk \in Blocks, VWrite(id, blk) PROVE DeviceInv'
  BY <1>2, WriteDevice
<1>3. ASSUME NEW h \in DOMAIN m_events, VEncryptDecryptIMP(h) PROVE DeviceInv'
  BY <1>3, SignalDevice
<1>4. ASSUME m_pipe # << >>, VOnEncrypted PROVE DeviceInv'
  BY <1>4, EncryptedDevice
<1>5. ASSUME m_pipe # << >>, VOnDecrypted PROVE DeviceInv'
  BY <1>5, DecryptedDevice
<1>6. ASSUME NEW t \in m_callBacks, VCallBackWrapper(t) PROVE DeviceInv'
  BY <1>6, RetryDevice
<1>7. ASSUME NEW req \in reqNet, MinionRead(req) PROVE DeviceInv'
  BY <1>7, MinionReadDevice
<1>8. ASSUME NEW req \in reqNet, MinionWrite(req) PROVE DeviceInv'
  BY <1>8, MinionWriteDevice
<1>9. ASSUME NEW rep \in repNet, NEW m \in Minions, RecieveFromMinionCB(rep, m)
      PROVE  DeviceInv'
  <2>1. CASE VReplyReadIMP(rep, m)
    BY <1>9, <2>1, ReplyReadDevice
  <2>2. CASE VReplyWriteIMP(rep, m)
    BY <1>9, <2>2, ReplyWriteDevice
  <2>3. CASE IgnoreReply(rep, m)
    <3>1. /\ UNCHANGED mVars /\ readData' = readData /\ m_allocMemory' = m_allocMemory
          /\ asked' = asked /\ current' = current /\ allowed' = allowed
          /\ reqNet' = reqNet /\ repNet' \subseteq repNet
      BY <1>9, <2>3 DEF IgnoreReply, RecieveFromMinionCB, Receive
    <3> QED BY <1>9, <3>1, ReplyStored, DeviceStays
  <2> QED BY <1>9, <2>1, <2>2, <2>3 DEF RecieveFromMinionCB
<1>10. CASE LossStep
  <2>1. /\ UNCHANGED mVars /\ readData' = readData /\ m_allocMemory' = m_allocMemory
        /\ asked' = asked /\ current' = current /\ allowed' = allowed
        /\ reqNet' \subseteq reqNet /\ repNet' \subseteq repNet /\ heard' = heard
    BY <1>10 DEF LossStep, Lose, kernelVars
  <2> QED BY <2>1, QuietStored, DeviceStays DEF VInv, DeviceInv
<1>11. CASE UNCHANGED vars
  <2>1. /\ UNCHANGED mVars /\ readData' = readData /\ m_allocMemory' = m_allocMemory
        /\ asked' = asked /\ current' = current /\ allowed' = allowed
        /\ reqNet' = reqNet /\ repNet' = repNet /\ heard' = heard
    BY <1>11 DEF vars, kernelVars, netVars
  <2> QED BY <2>1, QuietStored, DeviceStays DEF VInv, DeviceInv
<1> QED
  BY <1>1, <1>2, <1>3, <1>4, <1>5, <1>6, <1>7, <1>8, <1>9, <1>10, <1>11
  DEF VNext, KernelStep, WorkerStep, VOnEventFinishedCB, TimerStep, MinionStep, ReplyStep

\* Nothing was issued, sent or stored at first.
LEMMA InitDevice == VInit => VInv
<1> SUFFICES ASSUME VInit PROVE VInv
  OBVIOUS
<1>1. IInv /\ AgreeInv
  BY InitIInv, InitAgrees DEF VInit
<1>2. CreditInv
  BY DEF VInit, Init, CreditInv, VectorsDistinct, WaitsForUncredited
<1>3. PacketInv
  BY DEF VInit, Init, PacketInv, OneWrite, PacketEncrypting, PacketEncrypted,
         WriteCarriesItsOwnData
<1>4. DeviceInv
  <2>1. WritesInFlight /\ Stored /\ WritesReadable /\ RepliesAllowed /\ BuffersAllowed
    BY DEF VInit, Init, WritesInFlight, Stored, WritesReadable, RepliesAllowed, BuffersAllowed
  <2>2. ReadsAllowed
    BY DEF VInit, Init, ReadsAllowed
  <2>3. MemoryReadable
    <3> SUFFICES ASSUME NEW blk \in Blocks, NEW loc \in Replicas(blk)
                 PROVE  MayHold(MemoryAt(loc), current[blk])
      BY DEF MemoryReadable
    <3>1. loc.minionID \in Minions /\ loc.blockOffset \in Slots
      BY ReplicaFacts DEF BlockLocation
    <3>2. MemoryAt(loc) = Blank /\ current[blk] = {Unwritten}
      BY <3>1 DEF VInit, MemoryAt
    <3> QED BY <3>2, ContentFacts DEF MayHold
  <2> QED BY <2>1, <2>2, <2>3 DEF DeviceInv
<1> QED BY <1>1, <1>2, <1>3, <1>4 DEF VInv

\* Every step keeps the invariant.
LEMMA NextVInv ==
    ASSUME ReuseIds = FALSE, OneWriteAtATime, SteadyNetwork
    PROVE  VInv /\ [VNext]_vars => VInv'
  BY NextAgrees, NextCredit, NextPacket, NextDevice DEF VInv, SteadyNetwork

\* A block with no write outstanding has on each of its replicas the encrypted data
\* of the last write the kernel was told has succeeded, whatever datagrams were
\* lost, however often the write was sent again, and whatever proxy's socket gets
\* the datagrams of each minion: for two minions or more, a kernel that waits for
\* the answer to each write and uses no handle twice, and a network that repeats
\* nothing and keeps nothing longer than the timeout.
THEOREM AnsweredWritesAreStored ==
    ASSUME ReuseIds = FALSE, OneWriteAtATime, SteadyNetwork
    PROVE  VSpec => []AnsweredWriteIsOnEveryReplica
<1>1. VInv => AnsweredWriteIsOnEveryReplica
  <2> SUFFICES ASSUME VInv, NEW blk \in Blocks, NEW v \in Handle, current[blk] = {v},
                      NEW loc \in Replicas(blk)
               PROVE  MemoryAt(loc) = [val |-> v, enc |-> TRUE]
    BY DEF AnsweredWriteIsOnEveryReplica, MemoryAt
  <2>1. MayHold(MemoryAt(loc), current[blk])
    BY DEF VInv, DeviceInv, MemoryReadable
  <2>2. MemoryAt(loc).val = v /\ MemoryAt(loc).enc = TRUE
    BY <2>1, ContentFacts DEF MayHold
  <2>3. loc.minionID \in Minions /\ loc.blockOffset \in Slots
    BY ReplicaFacts DEF BlockLocation
  <2>4. MemoryAt(loc) \in Content
    BY <2>3 DEF VInv, AgreeInv, StorageOK, MemoryAt
  <2> QED BY <2>2, <2>4, ContentFacts
<1> QED BY <1>1, InitDevice, NextVInv, PTL DEF VSpec

---------------------------------------------------------------------------
(* The vdr process, the network and the minions implement the block device *)

\* What the device's variables are does not change.
LEMMA DeviceStutters ==
    ASSUME nbd' = nbd, asked' = asked, returned' = returned, current' = current,
           allowed' = allowed
    PROVE  UNCHANGED Device!deviceVars
  BY DEF Device!deviceVars

\* Replacing what one read has returned replaces its result.
LEMMA ResultReplaced ==
    ASSUME AgreeInv, NEW id \in IDs, NEW content,
           returned' = [returned EXCEPT ![id] = content]
    PROVE  [k \in IDs |-> InTheClear(returned[k])]' =
             [[k \in IDs |-> InTheClear(returned[k])] EXCEPT ![id] = InTheClear(content)]
<1>1. returned'[id] = content /\ \A k \in IDs : k # id => returned'[k] = returned[k]
  BY DEF AgreeInv, StorageOK
<1>2. /\ InTheClear(returned'[id]) = InTheClear(content)
      /\ \A k \in IDs : k # id => InTheClear(returned'[k]) = InTheClear(returned[k])
  BY <1>1
<1> QED BY <1>2

\* A request is a request to the device.
LEMMA IssuesRead ==
    ASSUME VInv, ReuseIds = FALSE, NEW id \in IDs, NEW blk \in Blocks, VRead(id, blk)
    PROVE  Device!IssueRead(id, blk)
<1>1. nbd[id] = "free" /\ nbd' = [nbd EXCEPT ![id] = "pending"]
  BY ReadEffect DEF VInv
<1>2. /\ asked' = [asked EXCEPT ![id] = [type |-> "READ", blk |-> blk, val |-> Unwritten]]
      /\ allowed' = [allowed EXCEPT ![id] = current[blk]]
      /\ returned' = [returned EXCEPT ![id] = Blank] /\ current' = current
  BY DEF VRead
<1>3. InTheClear(Blank) = Unwritten
  BY ContentFacts DEF InTheClear
<1>4. [k \in IDs |-> InTheClear(returned[k])]' =
        [[k \in IDs |-> InTheClear(returned[k])] EXCEPT ![id] = Unwritten]
  BY <1>2, <1>3, ResultReplaced DEF VInv
<1> QED BY <1>1, <1>2, <1>4 DEF Device!IssueRead, Device!Issue

\* A write of the kernel is one the device accepts.
LEMMA IssuesWrite ==
    ASSUME VInv, ReuseIds = FALSE, NEW id \in IDs, NEW blk \in Blocks, VWrite(id, blk)
    PROVE  \E val \in Value : Device!IssueWrite(id, blk, val)
<1> DEFINE c == m_eventCounter
<1>1. nbd[id] = "free" /\ nbd' = [nbd EXCEPT ![id] = "pending"] /\ c \in Handle
  BY WriteEffect DEF VInv
<1>2. /\ ~BeingWritten(blk)
      /\ asked' = [asked EXCEPT ![id] = [type |-> "WRITE", blk |-> blk, val |-> c]]
      /\ current' = [current EXCEPT ![blk] = @ \cup {c}]
      /\ allowed' = [k \in IDs |->
           IF k \in Outstanding("READ") /\ asked[k].blk = blk
           THEN allowed[k] \cup {c} ELSE allowed[k]]
      /\ returned' = returned
  BY DEF VWrite
<1> HIDE DEF c
<1>3. Device!Pending("WRITE", blk) = {}
  BY <1>2 DEF Device!Pending, BeingWritten, Outstanding
<1>4. \A k \in IDs : k \in Device!Pending("READ", blk) <=>
                       k \in Outstanding("READ") /\ asked[k].blk = blk
  BY DEF Device!Pending, Outstanding
<1>5. allowed' = [k \in IDs |-> IF k \in Device!Pending("READ", blk)
                                THEN allowed[k] \cup {c} ELSE allowed[k]]
  BY <1>2, <1>4
<1>6. Device!Issue(id, "WRITE", blk, c)
  BY <1>1, <1>2 DEF Device!Issue
<1>7. Device!IssueWrite(id, blk, c)
  BY <1>2, <1>3, <1>5, <1>6 DEF Device!IssueWrite
<1> QED BY <1>1, <1>7 DEF Value

\* A finished decryption answers a read with a value the device allows.
LEMMA AnswersRead ==
    ASSUME VInv, m_pipe # << >>, VOnDecrypted
    PROVE  Device!AnswerRead(m_events[Head(m_pipe)].id)
<1> DEFINE x == Head(m_pipe)
           id == m_events[x].id
<1>1. /\ x \in DOMAIN m_events /\ id \in IDs /\ HasEvent("Decrypt", id)
      /\ m_events[x].type = "Decrypt"
      /\ nbd[id] = "pending" /\ nbd' = [nbd EXCEPT ![id] = "answered"]
      /\ m_events' = Erase(m_events, x) /\ m_pipe' = Tail(m_pipe)
      /\ m_eventCounter' = m_eventCounter
  BY DecryptedEffect DEF VInv
<1>2. Signalled(x)
  BY <1>1, FinishEffect DEF VInv
<1>3. /\ returned' = [returned EXCEPT ![id] = readData[x]]
      /\ asked' = asked /\ current' = current /\ allowed' = allowed
  BY DEF VOnDecrypted
<1> HIDE DEF x, id
<1>4. asked[id].type = "READ"
  BY <1>1 DEF VInv, AgreeInv, DecryptsAsAsked
<1>5. x \in DOMAIN readData
  BY <1>1 DEF VInv, AgreeInv, BuffersOK
<1>6. BufferAllowed(x)
  BY <1>5 DEF VInv, DeviceInv, BuffersAllowed
<1>7. InTheClear(readData[x]) = readData[x].val /\ readData[x].val \in allowed[id]
  BY <1>2, <1>6 DEF BufferAllowed, InTheClear, id
<1>8. [k \in IDs |-> InTheClear(returned[k])]' =
        [[k \in IDs |-> InTheClear(returned[k])] EXCEPT ![id] = readData[x].val]
  BY <1>1, <1>3, <1>7, ResultReplaced DEF VInv
<1>9. Device!Answer(id, "READ")
  BY <1>1, <1>3, <1>4 DEF Device!Answer
<1>10. Device!AnswerRead(id)
  BY <1>3, <1>7, <1>8, <1>9 DEF Device!AnswerRead
<1> QED BY <1>10 DEF id, x

\* The last reply answers a write; any other reply is none the kernel sees.
LEMMA AnswersWrite ==
    ASSUME VInv, NumMinions > 1, NEW rep \in repNet, NEW m \in Minions,
           RecieveFromMinionCB(rep, m)
    PROVE  (rep.id \in IDs /\ Device!AnswerWrite(rep.id)) \/ UNCHANGED Device!deviceVars
<1> USE DEF VInv
<1>1. asked' = asked /\ returned' = returned /\ allowed' = allowed
  BY DEF RecieveFromMinionCB
<1>2. CASE VReplyReadIMP(rep, m)
  <2>1. nbd' = nbd /\ current' = current
    BY <1>2, ReplyReadEffect DEF VReplyReadIMP
  <2> QED BY <1>1, <2>1, DeviceStutters
<1>3. CASE VReplyWriteIMP(rep, m)
  <2>1. \/ nbd' = nbd /\ current' = current
        \/ /\ nbd[rep.id] = "pending" /\ nbd' = [nbd EXCEPT ![rep.id] = "answered"]
           /\ current' = [current EXCEPT ![asked[rep.id].blk] = {asked[rep.id].val}]
    BY <1>3, ReplyTakesItsPlace DEF CreditInv
  <2>2. rep.id \in IDs /\ asked[rep.id].type = "WRITE"
    BY <1>3, ReplyTakesItsPlace, WriteAsked DEF CreditInv
  <2>3. CASE nbd' = nbd /\ current' = current
    BY <1>1, <2>3, DeviceStutters
  <2>4. CASE /\ nbd[rep.id] = "pending" /\ nbd' = [nbd EXCEPT ![rep.id] = "answered"]
             /\ current' = [current EXCEPT ![asked[rep.id].blk] = {asked[rep.id].val}]
    <3>1. Device!Answer(rep.id, "WRITE")
      BY <1>1, <2>2, <2>4 DEF Device!Answer
    <3>2. Device!AnswerWrite(rep.id)
      BY <1>1, <2>4, <3>1 DEF Device!AnswerWrite
    <3> QED BY <2>2, <3>2
  <2> QED BY <2>1, <2>3, <2>4
<1>4. CASE IgnoreReply(rep, m)
  <2>1. nbd' = nbd /\ current' = current
    BY <1>4, MasterUnchanged DEF IgnoreReply
  <2> QED BY <1>1, <2>1, DeviceStutters
<1> QED BY <1>2, <1>3, <1>4 DEF RecieveFromMinionCB

\* The initial states are initial states of the device.
LEMMA InitIsDeviceInit == VInit => Device!DeviceInit
<1>1. InTheClear(Blank) = Unwritten
  BY ContentFacts DEF InTheClear
<1> QED BY <1>1 DEF VInit, Init, NotAsked, Device!DeviceInit

\* Every step is a step of the device or leaves it alone.
LEMMA NextIsDeviceStep ==
    ASSUME ReuseIds = FALSE, OneWriteAtATime, SteadyNetwork
    PROVE  VInv /\ [VNext]_vars => [Device!DeviceNext]_(Device!deviceVars)
<1> SUFFICES ASSUME VInv, [VNext]_vars PROVE Device!DeviceNext \/ UNCHANGED Device!deviceVars
  OBVIOUS
<1>0. m_packet \in Content
  BY DEF VInv, AgreeInv, BuffersOK
<1>1. ASSUME NEW id \in IDs, NEW blk \in Blocks, VRead(id, blk) PROVE Device!DeviceNext
  BY <1>1, IssuesRead DEF Device!DeviceNext
<1>2. ASSUME NEW id \in IDs, NEW blk \in Blocks, VWrite(id, blk) PROVE Device!DeviceNext
  BY <1>2, IssuesWrite DEF Device!DeviceNext
<1>3. ASSUME nbd' = nbd, UNCHANGED kernelVars PROVE UNCHANGED Device!deviceVars
  BY <1>3, DeviceStutters DEF kernelVars
<1>4. ASSUME NEW h \in DOMAIN m_events, VEncryptDecryptIMP(h)
      PROVE  UNCHANGED Device!deviceVars
  BY <1>3, <1>4, SignalEffect DEF VEncryptDecryptIMP, VInv
<1>5. ASSUME m_pipe # << >>, VOnEncrypted PROVE UNCHANGED Device!deviceVars
  BY <1>0, <1>3, <1>5, EncryptedEffect DEF VOnEncrypted, VInv
<1>6. ASSUME m_pipe # << >>, VOnDecrypted PROVE Device!DeviceNext
  <2>1. m_events[Head(m_pipe)].id \in IDs
    BY <1>6, HeadIsKnown DEF VInv
  <2> QED BY <1>6, <2>1, AnswersRead DEF Device!DeviceNext
<1>7. ASSUME NEW t \in m_callBacks, VCallBackWrapper(t) PROVE UNCHANGED Device!deviceVars
  BY <1>0, <1>3, <1>7, RetryEffect DEF VCallBackWrapper, VInv
<1>8. CASE MinionStep
  BY <1>3, <1>8, MasterUnchanged DEF MinionStep, MinionRead, MinionWrite
<1>9. ASSUME NEW rep \in repNet, NEW m \in Minions, RecieveFromMinionCB(rep, m)
      PROVE  Device!DeviceNext \/ UNCHANGED Device!deviceVars
  BY <1>9, AnswersWrite DEF Device!DeviceNext, SteadyNetwork
<1>10. CASE LossStep
  BY <1>3, <1>10, MasterUnchanged DEF LossStep, Lose
<1>11. CASE UNCHANGED vars
  BY <1>3, <1>11, MasterUnchanged DEF vars
<1> QED
  BY <1>1, <1>2, <1>4, <1>5, <1>6, <1>7, <1>8, <1>9, <1>10, <1>11
  DEF VNext, KernelStep, WorkerStep, VOnEventFinishedCB, TimerStep, ReplyStep

\* The whole system, through encryption, loss and retries, implements the block
\* device the kernel expects: requests are answered once, and a read returns, in
\* the clear, the last write answered before it was issued or one outstanding
\* meanwhile.  For two minions or more, any number of losses, whatever proxy's
\* socket gets the datagrams of each minion, a kernel that waits for the answer to
\* each write and uses no handle twice, and a network that repeats nothing and
\* keeps nothing longer than the timeout.  With all replies at one socket
\* (WritesHang) the device never answers a write, which its specification allows.
THEOREM VdrImplementsBlockDevice ==
    ASSUME ReuseIds = FALSE, OneWriteAtATime, SteadyNetwork
    PROVE  VSpec => ImplementsBlockDevice
<1> QED
  BY InitDevice, NextVInv, InitIsDeviceInit, NextIsDeviceStep, PTL
  DEF VSpec, ImplementsBlockDevice, Device!DeviceSpec
===========================================================================
