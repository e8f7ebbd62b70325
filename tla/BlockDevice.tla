---------------------------- MODULE BlockDevice ----------------------------
(***************************************************************************)
(* What the kernel may expect of the device behind /dev/nbd: every request *)
(* is answered at most once, and a read returns the last write of its      *)
(* block that was answered before the read was issued, or one that was     *)
(* outstanding while the read was.  That is a regular register for each    *)
(* block; it says nothing of where the blocks are, of encryption, of       *)
(* retries or of minions, and module Vdr is shown to implement it.         *)
(***************************************************************************)
CONSTANTS
    IDs,      \* the handles of requests
    Blocks,   \* the blocks of the device
    Value,    \* what a block may contain
    Initial   \* what it contains before the first write

VARIABLES
    state,    \* what the kernel knows of each handle
    request,  \* what it asked for under it
    result,   \* what the read under it has returned
    readable, \* what a read of a block may return if it is issued now
    allowed   \* what the read under a handle may return

deviceVars == <<state, request, result, readable, allowed>>

Pending(type_, blk_) ==
    {id \in IDs : state[id] = "pending" /\ request[id].type = type_ /\ request[id].blk = blk_}

DeviceInit ==
    /\ state = [id \in IDs |-> "free"]
    /\ \A id \in IDs : request[id].type = "none"
    /\ result = [id \in IDs |-> Initial]
    /\ readable = [blk \in Blocks |-> {Initial}]
    /\ allowed = [id \in IDs |-> {Initial}]

\* A handle may be used again once it was answered.
Issue(id, type_, blk_, val_) ==
    /\ state[id] \in {"free", "answered"}
    /\ state' = [state EXCEPT ![id] = "pending"]
    /\ request' = [request EXCEPT ![id] = [type |-> type_, blk |-> blk_, val |-> val_]]

IssueRead(id, blk_) ==
    /\ Issue(id, "READ", blk_, Initial)
    /\ allowed' = [allowed EXCEPT ![id] = readable[blk_]]
    /\ result' = [result EXCEPT ![id] = Initial]
    /\ UNCHANGED readable

\* The block layer has one write of a block outstanding at a time.
IssueWrite(id, blk_, val_) ==
    /\ Issue(id, "WRITE", blk_, val_)
    /\ Pending("WRITE", blk_) = {}
    /\ readable' = [readable EXCEPT ![blk_] = @ \cup {val_}]
    /\ allowed' = [r \in IDs |-> IF r \in Pending("READ", blk_)
                                 THEN allowed[r] \cup {val_} ELSE allowed[r]]
    /\ UNCHANGED result

Answer(id, type_) ==
    /\ state[id] = "pending"
    /\ request[id].type = type_
    /\ state' = [state EXCEPT ![id] = "answered"]
    /\ UNCHANGED <<request, allowed>>

AnswerRead(id) ==
    /\ Answer(id, "READ")
    /\ \E val \in allowed[id] : result' = [result EXCEPT ![id] = val]
    /\ UNCHANGED readable

AnswerWrite(id) ==
    /\ Answer(id, "WRITE")
    /\ readable' = [readable EXCEPT ![request[id].blk] = {request[id].val}]
    /\ UNCHANGED result

DeviceNext ==
    \E id \in IDs :
        \/ \E blk \in Blocks : IssueRead(id, blk) \/ \E val \in Value : IssueWrite(id, blk, val)
        \/ AnswerRead(id)
        \/ AnswerWrite(id)

DeviceSpec == DeviceInit /\ [][DeviceNext]_deviceVars
===========================================================================
