---------------------------- MODULE Encryptor ----------------------------
(***************************************************************************)
(* Encryptor and Eventer (framework/encryptor, framework/eventer) on the   *)
(* ThreadPool: a caller asks for a buffer to be encrypted or decrypted, a  *)
(* worker goes through it and signals, through a pipe, the event that was  *)
(* set for it, and the reactor's thread runs the callback.                 *)
(*                                                                         *)
(* The pool's owner is the caller.  It need not be the reactor's thread    *)
(* ("Thread-Safe Eventer", and encryptor_test.cpp has two threads); in the *)
(* vdr process it is, which is a special case.                             *)
(***************************************************************************)
EXTENDS ThreadPool, Sequences

CONSTANTS
    BuffParts,    \* a buffer's bytes, as parts a worker transforms one by one
    PipeCapacity, \* how many handles fit into the pipe
    MaxHandles    \* bound on Eventer's handle counter

\* A task of the pool is one buffer's: the caller leaves a buffer alone until
\* its callback has run.
Buffers == UserTasks

ASSUME EncryptorAssumption ==
    /\ BuffParts \in Nat
    /\ PipeCapacity \in Nat
    /\ MaxHandles \in Nat

VARIABLES
    m_events,        \* Eventer::m_events: from handle to the buffer of its callback
    m_handleCounter, \* Eventer::m_handleCounter
    m_pipe,          \* Eventer::m_pipe
    m_eventsLock,    \* does the reactor's thread run a callback with the lock held?
    usrHandle,       \* what OnEventFinishedCB has read from the pipe
    taskHandle,      \* the handle bound into the task of each buffer
    buff,            \* is a part of a buffer encrypted?
    pos,             \* how far the task of each buffer has got
    wanted           \* what the caller last asked the buffer to become

eventVars == <<m_events, m_handleCounter, m_pipe, m_eventsLock, usrHandle>>
buffVars == <<taskHandle, buff, pos, wanted>>
vars == <<poolVars, eventVars, buffVars>>

Handle == 0 .. MaxHandles
NoHandle == MaxHandles + 1

\* A buffer is in use from Encrypt or Decrypt to the end of its callback.
InUse(b) == \E h \in DOMAIN m_events : m_events[h] = b

EncryptorInit ==
    /\ PoolInit
    /\ m_events = EmptyMap
    /\ m_handleCounter = 0
    /\ m_pipe = << >>
    /\ m_eventsLock = FALSE
    /\ usrHandle = NoHandle
    /\ taskHandle = [b \in Buffers |-> NoHandle]
    /\ buff = [b \in Buffers |-> [i \in 1 .. BuffParts |-> FALSE]]
    /\ pos = [b \in Buffers |-> 0]
    /\ wanted = [b \in Buffers |-> FALSE]

---------------------------------------------------------------------------
(* The caller *)

\* A mutant: numbers the events by how many there are.
SetEvent_BySize(b) ==
    /\ ~m_eventsLock
    /\ m_handleCounter < MaxHandles
    /\ m_events' = Put(m_events, Cardinality(DOMAIN m_events), b)
    /\ taskHandle' = [taskHandle EXCEPT ![b] = Cardinality(DOMAIN m_events)]
    /\ m_handleCounter' = m_handleCounter + 1
    /\ UNCHANGED <<m_pipe, m_eventsLock, usrHandle>>

\* Eventer::SetEvent, which waits for a callback to end, returns the handle.
SetEvent(b) ==
    /\ ~m_eventsLock
    /\ m_handleCounter < MaxHandles
    /\ m_events' = Put(m_events, m_handleCounter, b)
    /\ taskHandle' = [taskHandle EXCEPT ![b] = m_handleCounter]
    /\ m_handleCounter' = m_handleCounter + 1
    /\ UNCHANGED <<m_pipe, m_eventsLock, usrHandle>>

\* Encrypt and Decrypt are both SendTaskToThreadPoolIMP: an event, then a task.
\* Nobody knows the event before the task is in the queue.
SendTaskToThreadPoolIMP(b) ==
    /\ ~InUse(b)
    /\ SetEvent(b)
    /\ Add(b)
    /\ wanted' = [wanted EXCEPT ![b] = ~@]
    /\ UNCHANGED <<buff, pos>>

---------------------------------------------------------------------------
(* EncryptDecryptIMP in a worker *)

XorPart(b) ==
    /\ pos[b] < BuffParts
    /\ buff' = [buff EXCEPT ![b][pos[b] + 1] = ~@]
    /\ pos' = [pos EXCEPT ![b] = @ + 1]
    /\ UNCHANGED <<poolVars, eventVars, taskHandle, wanted>>

\* A mutant: signals before the loop over the buffer has ended.
SignalEvent_Early(t, b) ==
    /\ pos[b] >= BuffParts - 1
    /\ ~m_eventsLock
    /\ m_pipe' = Append(m_pipe, taskHandle[b])
    /\ TaskReturns(t)

\* Eventer::SignalEvent waits for a callback to end.  The pipe does not block: if
\* it is full the exception leaves the worker's function and ends the process.
SignalEvent(t, b) ==
    /\ pos[b] = BuffParts
    /\ ~m_eventsLock
    /\ IF Len(m_pipe) < PipeCapacity
       THEN m_pipe' = Append(m_pipe, taskHandle[b]) /\ TaskReturns(t)
       ELSE ProcessEnds /\ UNCHANGED m_pipe

EncryptDecryptIMP(t) ==
    /\ pc[t] \in Buffers
    /\ \/ XorPart(pc[t])
       \/ /\ SignalEvent(t, pc[t])
          /\ pos' = [pos EXCEPT ![pc[t]] = 0]
          /\ UNCHANGED <<m_events, m_handleCounter, m_eventsLock, usrHandle,
                         taskHandle, buff, wanted>>

---------------------------------------------------------------------------
(* Eventer::OnEventFinishedCB in the reactor's thread *)

ReadPipe ==
    /\ usrHandle = NoHandle
    /\ m_pipe # << >>
    /\ usrHandle' = Head(m_pipe)
    /\ m_pipe' = Tail(m_pipe)
    /\ UNCHANGED <<poolVars, m_events, m_handleCounter, m_eventsLock, buffVars>>

\* The lock is taken; the assert, and the callback is called.
CallbackBegins ==
    /\ usrHandle # NoHandle
    /\ ~m_eventsLock
    /\ IF usrHandle \in DOMAIN m_events
       THEN m_eventsLock' = TRUE /\ UNCHANGED poolVars
       ELSE ProcessEnds /\ UNCHANGED m_eventsLock
    /\ UNCHANGED <<m_events, m_handleCounter, m_pipe, usrHandle, buffVars>>

\* A mutant: leaves the event in the map.
CallbackEnds_Keeps ==
    /\ m_eventsLock
    /\ m_eventsLock' = FALSE
    /\ usrHandle' = NoHandle
    /\ UNCHANGED <<poolVars, m_events, m_handleCounter, m_pipe, buffVars>>

CallbackEnds ==
    /\ m_eventsLock
    /\ m_events' = Erase(m_events, usrHandle)
    /\ m_eventsLock' = FALSE
    /\ usrHandle' = NoHandle
    /\ UNCHANGED <<poolVars, m_handleCounter, m_pipe, buffVars>>

OnEventFinishedCB == ReadPipe \/ CallbackBegins \/ CallbackEnds

---------------------------------------------------------------------------

Unseen == UNCHANGED <<eventVars, buffVars>>

WorkerStep(t) == EncryptDecryptIMP(t) \/ (PoolThread(t) /\ Unseen)

EncryptorNext ==
    /\ ~aborted
    /\ \/ \E b \in Buffers : SendTaskToThreadPoolIMP(b)
       \/ OwnerCalls /\ Unseen
       \/ OwnerStep /\ Unseen
       \/ DeadlinePasses /\ Unseen
       \/ \E t \in Threads : WorkerStep(t)
       \/ \E t \in Threads : SpuriousWakeup(t) /\ Unseen
       \/ OnEventFinishedCB

EncryptorSpec == EncryptorInit /\ [][EncryptorNext]_vars

\* Every thread runs, a task's loop and a callback end, and time passes.
FairEncryptorSpec ==
    /\ EncryptorSpec
    /\ WF_vars(OwnerStep /\ Unseen)
    /\ WF_vars(DeadlinePasses /\ Unseen)
    /\ \A t \in Threads : WF_vars(WorkerStep(t))
    /\ WF_vars(OnEventFinishedCB)

---------------------------------------------------------------------------
(* Properties *)

\* When a buffer's callback runs, a worker has gone over every byte of it exactly
\* once since it was asked to, and is not in it any more.
CallbackSeesTheWholeBuffer ==
    m_eventsLock =>
        \A i \in 1 .. BuffParts : buff[m_events[usrHandle]][i] = wanted[m_events[usrHandle]]

\* Where the end of an event's task is on its way to the callback.
Signals(h) ==
    {i \in DOMAIN m_pipe : m_pipe[i] = h} \cup (IF usrHandle = h THEN {"read"} ELSE {})
Workers(h) ==
    {t \in Threads : pc[t] = m_events[h] /\ taskHandle[m_events[h]] = h}

\* Every event set is in exactly one place on its way: in the queue, with one
\* worker, or in the pipe up to its callback; so its callback runs once, finds its
\* handle in the map, and no worker finds the pipe full if it has room for the
\* events set at one time.  Only destroying the pool takes tasks away.
EventIsOnItsWay ==
    /\ ~aborted
    /\ stopped # "destroyed" /\ at # "cancel" =>
        \A h \in DOMAIN m_events :
            m_tasks[m_events[h]] + Cardinality(Workers(h)) + Cardinality(Signals(h)) = 1

\* A buffer's callback runs, whatever the pool is resized to meanwhile, unless it
\* is left without threads.
EveryBufferIsDone ==
    \A b \in Buffers :
        InUse(b) ~> (~InUse(b) \/ m_numThreadsShouldExist = 0 \/ ~Running)
===========================================================================
