-------------------------- MODULE ThreadPoolProofs --------------------------
(***************************************************************************)
(* The thread pool, for every number of threads, tasks and calls: its      *)
(* types; and, when a thread is in the map before it ends, that every      *)
(* thread is known, that Stop leaves none behind, that poison and threads  *)
(* add up to the number asked for, and that no task waits while every      *)
(* thread sleeps. And the Encryptor on it, as long as its pipe has room    *)
(* for every task: a callback sees the whole buffer, and every event is on *)
(* its way.                                                                *)
(***************************************************************************)
EXTENDS Encryptor, FiniteSetTheorems, TLAPS

---------------------------------------------------------------------------
(* Types, and the owner's place *)

\* The owner is in an operation or out of all, holds the mutex in its own walks
\* over the map only, and has a thread to insert only in AddThreadImp.
OwnerPlace ==
    /\ at \in {"out", "resize", "insert", "clean", "walk", "spin", "cancel"}
    /\ call \in {"none", "Start", "SetNum", "Stop", "Destroy"}
    /\ call = "none" <=> at = "out"
    /\ at \in {"clean", "walk", "spin", "cancel"} =>
           call \in {"Stop", "Destroy"} /\ m_numThreadsShouldExist = 0
    /\ call \in {"Stop", "Destroy"} => target = 0
    /\ target \in 0 .. MaxThreads
    /\ at = "insert" <=> newThread # Nobody
    /\ at = "insert" => left > 0
    /\ lock = Owner <=> at \in {"walk", "cancel"}
    /\ stopped = "destroyed" => call = "none"

PlaceInv == PoolTypeOK /\ OwnerPlace

\* A step that leaves the owner, the lock and the map alone.
LEMMA KeepsPlace ==
    ASSUME PlaceInv,
           UNCHANGED <<mapVars, m_numThreadsShouldExist, callVars, stopVars, aborted>>,
           m_tasks' \in [Task -> Nat], pc' \in [Threads -> ThreadState],
           waiting' \subseteq {t \in Threads : pc'[t] = "loop"}
    PROVE  PlaceInv'
BY DEF PlaceInv, PoolTypeOK, OwnerPlace, mapVars, callVars, stopVars

\* push and notify_one keep the queue's types.
LEMMA EnqueueType ==
    ASSUME PoolTypeOK, NEW task \in Task, Enqueue(task)
    PROVE  /\ m_tasks' \in [Task -> Nat] /\ waiting' \subseteq waiting
           /\ m_tasks' = [m_tasks EXCEPT ![task] = @ + 1]
BY DEF PoolTypeOK, Enqueue

\* An insertion and an erasure keep the type of the map.
LEMMA MapChangeType ==
    ASSUME PoolTypeOK, NEW t \in Threads, NEW entry \in [ptr : BOOLEAN, done : BOOLEAN]
    PROVE  /\ DOMAIN Put(m_threads, t, entry) = DOMAIN m_threads \cup {t}
           /\ Put(m_threads, t, entry) \in
                [DOMAIN Put(m_threads, t, entry) -> [ptr : BOOLEAN, done : BOOLEAN]]
           /\ DOMAIN Erase(m_threads, t) = DOMAIN m_threads \ {t}
           /\ Erase(m_threads, t) \in
                [DOMAIN Erase(m_threads, t) -> [ptr : BOOLEAN, done : BOOLEAN]]
BY DEF PoolTypeOK, Put, Erase

\* Owner, Nobody and the threads are all different.
LEMMA Names ==
    Owner \notin Threads /\ Nobody \notin Threads /\ Owner # Nobody
BY ThreadPoolAssumption DEF Owner, Nobody, Threads

\* A place in the pool is no task, and "loop" is a state of a thread.
LEMMA States ==
    /\ UserTasks \cap PoolPlaces = {} /\ UserTasks \subseteq Task
    /\ Poison \in Task /\ Cleanup \in Task /\ Poison # Cleanup
    /\ Poison \notin UserTasks /\ Cleanup \notin UserTasks
BY ThreadPoolAssumption DEF Task, Poison, Cleanup

\* The pool starts with no threads and no call, and with the mutex free.
LEMMA InitPlace == ASSUME PoolInit PROVE PlaceInv
BY ThreadPoolAssumption, Names
DEF PoolInit, PlaceInv, PoolTypeOK, OwnerPlace, EmptyMap, ThreadState, PoolPlaces, Task

\* A task pushed by a user changes the queue only.
LEMMA AddPlace ==
    ASSUME PlaceInv, NEW task \in UserTasks, Add(task)
    PROVE  PlaceInv'
<1>1. m_tasks' \in [Task -> Nat] /\ waiting' \subseteq waiting
  BY EnqueueType, States DEF PlaceInv, Add
<1>2. pc' = pc
  BY DEF Add
<1>3. waiting' \subseteq {t \in Threads : pc'[t] = "loop"}
  BY <1>1, <1>2 DEF PlaceInv, PoolTypeOK
<1> QED BY <1>1, <1>2, <1>3, KeepsPlace DEF Add, PlaceInv, PoolTypeOK

\* A worker pops a task and goes to it, or waits.
LEMMA DequeuePlace ==
    ASSUME PlaceInv, NEW t \in Threads, Dequeue(t)
    PROVE  PlaceInv'
<1>1. CASE DequeueWaits(t) /\ UNCHANGED pc
  BY <1>1, KeepsPlace DEF Dequeue, DequeueWaits, PlaceInv, PoolTypeOK
<1>2. ASSUME NEW task \in Task, DequeueTakes(task),
             pc' = [pc EXCEPT ![t] = IF task = Poison THEN "poisoned"
                                     ELSE IF task = Cleanup THEN "toClean" ELSE task]
      PROVE  PlaceInv'
  <2>1. m_tasks[task] \in Nat /\ m_tasks[task] > 0
    BY <1>2 DEF DequeueTakes, IsTop, Queued, PlaceInv, PoolTypeOK
  <2>2. m_tasks' \in [Task -> Nat] /\ waiting' = waiting
    BY <1>2, <2>1 DEF DequeueTakes, PlaceInv, PoolTypeOK
  <2>3. pc' \in [Threads -> ThreadState]
    BY <1>2 DEF PlaceInv, PoolTypeOK, ThreadState, PoolPlaces, Task
  <2>4. waiting' \subseteq {u \in Threads : pc'[u] = "loop"}
    BY <1>2, <2>2 DEF Dequeue, PlaceInv, PoolTypeOK
  <2> QED BY <2>2, <2>3, <2>4, KeepsPlace DEF Dequeue
<1> QED BY <1>1, <1>2 DEF Dequeue

\* A spurious wakeup only ends the wait.
LEMMA WakeupPlace ==
    ASSUME PlaceInv, NEW t \in Threads, SpuriousWakeup(t)
    PROVE  PlaceInv'
<1>1. pc' = pc /\ m_tasks' = m_tasks /\ waiting' \subseteq waiting
  BY DEF SpuriousWakeup
<1>2. waiting' \subseteq {u \in Threads : pc'[u] = "loop"}
  BY <1>1 DEF PlaceInv, PoolTypeOK
<1> QED BY <1>1, <1>2, KeepsPlace DEF SpuriousWakeup, PlaceInv, PoolTypeOK

\* A worker goes back to its loop, or ends.
LEMMA ReturnsPlace ==
    ASSUME PlaceInv, NEW t \in Threads, TaskReturns(t) \/ ThreadEnds(t)
    PROVE  PlaceInv'
<1>1. /\ m_tasks' = m_tasks /\ waiting' = waiting /\ pc[t] # "loop"
      /\ pc' = [pc EXCEPT ![t] = "loop"] \/ pc' = [pc EXCEPT ![t] = "ended"]
      /\ UNCHANGED <<mapVars, m_numThreadsShouldExist, callVars, stopVars, aborted>>
  BY States DEF TaskReturns, ThreadEnds, queueVars, PoolPlaces
<1>2. pc' \in [Threads -> ThreadState]
  BY <1>1 DEF PlaceInv, PoolTypeOK, ThreadState, PoolPlaces
<1>3. waiting' \subseteq {u \in Threads : pc'[u] = "loop"}
  BY <1>1 DEF PlaceInv, PoolTypeOK
<1> QED BY <1>1, <1>2, <1>3, KeepsPlace DEF PlaceInv, PoolTypeOK

\* A worker that took poison marks the entry of its own number.
LEMMA PoisonTakenPlace ==
    ASSUME PlaceInv, NEW t \in Threads, PoisonTaken(t)
    PROVE  PlaceInv'
<1> DEFINE entry == [ptr |-> t \in DOMAIN m_threads /\ m_threads[t].ptr, done |-> TRUE]
<1>1. entry \in [ptr : BOOLEAN, done : BOOLEAN]
  BY DEF PlaceInv, PoolTypeOK
<1>2. m_threads' = Put(m_threads, t, entry)
  BY DEF PoisonTaken, SetThreadDoneImp
<1> HIDE DEF entry
<1>3. /\ DOMAIN m_threads' = DOMAIN m_threads \cup {t}
      /\ m_threads' \in [DOMAIN m_threads' -> [ptr : BOOLEAN, done : BOOLEAN]]
  BY <1>1, <1>2, MapChangeType DEF PlaceInv
<1>4. /\ pc[t] = "poisoned" /\ pc' = [pc EXCEPT ![t] = "done"]
      /\ UNCHANGED <<queueVars, lock, unvisited, m_numThreadsShouldExist, callVars,
                     stopVars, aborted>>
  BY DEF PoisonTaken
<1>5. pc' \in [Threads -> ThreadState] /\ waiting' \subseteq {u \in Threads : pc'[u] = "loop"}
  BY <1>4 DEF PlaceInv, PoolTypeOK, ThreadState, PoolPlaces, queueVars
<1>6. PoolTypeOK'
  BY <1>3, <1>4, <1>5 DEF PlaceInv, PoolTypeOK, queueVars, callVars
<1> QED BY <1>4, <1>6 DEF PlaceInv, OwnerPlace, callVars, stopVars

\* The cleanup task takes a mutex the owner does not hold, and gives it back.
LEMMA CleanupPlace ==
    ASSUME PlaceInv, NEW t \in Threads, CleanupTaskImp(t)
    PROVE  PlaceInv'
<1>1. /\ UNCHANGED <<queueVars, m_threads, m_numThreadsShouldExist, callVars, stopVars, aborted>>
      /\ lock # Owner /\ lock' \in {t, Nobody} /\ unvisited' \subseteq DOMAIN m_threads
      /\ pc[t] # "loop"
      /\ pc' = [pc EXCEPT ![t] = "cleaning"] \/ pc' = [pc EXCEPT ![t] = "loop"]
  BY Names DEF CleanupTaskImp, TakeMutex, ReleaseMutex, PlaceInv, PoolTypeOK
<1>2. pc' \in [Threads -> ThreadState] /\ waiting' \subseteq {u \in Threads : pc'[u] = "loop"}
  BY <1>1 DEF PlaceInv, PoolTypeOK, ThreadState, PoolPlaces, queueVars
<1>3. PoolTypeOK'
  BY <1>1, <1>2 DEF PlaceInv, PoolTypeOK, queueVars, callVars
<1> QED BY <1>1, <1>3, Names DEF PlaceInv, OwnerPlace, callVars, stopVars

\* A walk over the map goes on to an entry that is left, or ends the process.
LEMMA VisitPlace ==
    ASSUME PlaceInv, NEW who, NEW t \in unvisited, Visit(who, t)
    PROVE  PlaceInv'
<1>1. CASE ProcessEnds
  BY <1>1, KeepsPlace DEF ProcessEnds, PlaceInv, PoolTypeOK, queueVars, mapVars, OwnerPlace,
     callVars, stopVars
<1>2. CASE /\ m_threads' \in {Erase(m_threads, t), m_threads}
           /\ unvisited' = unvisited \ {t}
           /\ UNCHANGED <<queueVars, pc, lock, m_numThreadsShouldExist, callVars,
                          stopVars, aborted>>
  <2>1. t \in Threads
    BY DEF PlaceInv, PoolTypeOK
  <2>2. [ptr |-> TRUE, done |-> TRUE] \in [ptr : BOOLEAN, done : BOOLEAN]
    OBVIOUS
  <2>3. /\ DOMAIN Erase(m_threads, t) = DOMAIN m_threads \ {t}
        /\ Erase(m_threads, t) \in
              [DOMAIN Erase(m_threads, t) -> [ptr : BOOLEAN, done : BOOLEAN]]
    BY <2>1, <2>2, MapChangeType DEF PlaceInv
  <2>4. /\ DOMAIN m_threads' \in {DOMAIN m_threads \ {t}, DOMAIN m_threads}
        /\ m_threads' \in [DOMAIN m_threads' -> [ptr : BOOLEAN, done : BOOLEAN]]
    BY <1>2, <2>3 DEF PlaceInv, PoolTypeOK
  <2>5. PoolTypeOK'
    BY <1>2, <2>4 DEF PlaceInv, PoolTypeOK, queueVars, callVars
  <2> QED BY <1>2, <2>5 DEF PlaceInv, OwnerPlace, callVars, stopVars
<1> QED BY <1>1, <1>2 DEF Visit

\* A call of the owner begins outside all others.
LEMMA CallsPlace ==
    ASSUME PlaceInv, OwnerCalls
    PROVE  PlaceInv'
<1>1. CASE Start
  <2>1. /\ call = "none" /\ call' = "Start" /\ at' = "resize" /\ stopped # "destroyed"
        /\ left' = m_numThreadsShouldExist /\ target' = m_numThreadsShouldExist
        /\ UNCHANGED <<newThread, calls, queueVars, pc, mapVars, m_numThreadsShouldExist,
                       stopVars>>
    BY <1>1 DEF Start, Begin, Idle
  <2>2. PoolTypeOK'
    BY <2>1, ThreadPoolAssumption DEF PlaceInv, PoolTypeOK, queueVars, mapVars
  <2> QED BY <2>1, <2>2 DEF PlaceInv, OwnerPlace, PoolTypeOK, mapVars, stopVars
<1>2. ASSUME NEW n \in 0 .. MaxThreads, SetNum(n) PROVE PlaceInv'
  <2>1. /\ call = "none" /\ stopped # "destroyed"
        /\ \/ /\ call' = "SetNum" /\ at' = "resize" /\ target' = n
              /\ left' = n - m_numThreadsShouldExist /\ UNCHANGED m_numThreadsShouldExist
           \/ /\ call' = "none" /\ at' = "out" /\ target' = 0
              /\ left' = 0 /\ m_numThreadsShouldExist' = n
        /\ UNCHANGED <<newThread, queueVars, pc, mapVars, stopVars>>
    BY <1>2 DEF SetNum, Begin, Idle
  <2>2. PoolTypeOK'
    BY <2>1, ThreadPoolAssumption DEF PlaceInv, PoolTypeOK, queueVars, mapVars
  <2> QED BY <2>1, <2>2, ThreadPoolAssumption
          DEF PlaceInv, OwnerPlace, PoolTypeOK, mapVars, stopVars
<1>3. ASSUME NEW c \in {"Stop", "Destroy"}, BeginStop(c) PROVE PlaceInv'
  <2>1. /\ call = "none" /\ stopped # "destroyed" /\ call' = c /\ target' = 0
        /\ \/ /\ at' = "resize"
              /\ left' = 0 - m_numThreadsShouldExist /\ UNCHANGED m_numThreadsShouldExist
           \/ at' = "clean" /\ left' = 0 /\ m_numThreadsShouldExist' = 0
        /\ UNCHANGED <<newThread, queueVars, pc, mapVars, stopped>>
    BY <1>3 DEF BeginStop, Begin, Idle
  <2>2. PoolTypeOK'
    BY <2>1, ThreadPoolAssumption DEF PlaceInv, PoolTypeOK, queueVars, mapVars
  <2> QED BY <2>1, <2>2, ThreadPoolAssumption DEF PlaceInv, OwnerPlace, PoolTypeOK, mapVars
<1> QED BY <1>1, <1>2, <1>3 DEF OwnerCalls

\* AddThreadImp has the thread it created in hand.
LEMMA CreatePlace ==
    ASSUME PlaceInv, NEW t \in Threads, CreateThread(t)
    PROVE  PlaceInv'
<1>1. /\ at = "resize" /\ left > 0 /\ pc[t] = "none"
      /\ pc' = [pc EXCEPT ![t] = "loop"] /\ newThread' = t /\ at' = "insert"
      /\ UNCHANGED <<queueVars, mapVars, m_numThreadsShouldExist, call, left, target, calls,
                     stopVars, aborted>>
  BY DEF CreateThread
<1>2. PoolTypeOK'
  BY <1>1 DEF PlaceInv, PoolTypeOK, ThreadState, PoolPlaces, queueVars, mapVars
<1> QED BY <1>1, <1>2, Names DEF PlaceInv, OwnerPlace, mapVars, stopVars

\* AddThreadImp puts the thread into the map and goes on with the next one.
LEMMA InsertPlace ==
    ASSUME PlaceInv, InsertThread
    PROVE  PlaceInv'
<1> DEFINE entry == [ptr |-> TRUE, done |-> FALSE]
<1>1. entry \in [ptr : BOOLEAN, done : BOOLEAN] /\ newThread \in Threads
  BY DEF InsertThread, PlaceInv, PoolTypeOK, OwnerPlace
<1>2. /\ at = "insert" /\ newThread' = Nobody /\ left' = left - 1 /\ at' = "resize"
      /\ m_threads' \in {m_threads, Put(m_threads, newThread, entry)}
      /\ UNCHANGED <<queueVars, pc, lock, unvisited, m_numThreadsShouldExist, call, target,
                     calls, stopVars, aborted>>
  BY DEF InsertThread
<1> HIDE DEF entry
<1>3. /\ DOMAIN m_threads' \in {DOMAIN m_threads, DOMAIN m_threads \cup {newThread}}
      /\ m_threads' \in [DOMAIN m_threads' -> [ptr : BOOLEAN, done : BOOLEAN]]
  <2>1. CASE m_threads' = m_threads
    BY <2>1 DEF PlaceInv, PoolTypeOK
  <2>2. CASE m_threads' = Put(m_threads, newThread, entry)
    <3>1. /\ DOMAIN Put(m_threads, newThread, entry) = DOMAIN m_threads \cup {newThread}
          /\ Put(m_threads, newThread, entry) \in
               [DOMAIN Put(m_threads, newThread, entry) -> [ptr : BOOLEAN, done : BOOLEAN]]
      BY <1>1, MapChangeType DEF PlaceInv
    <3> QED BY <2>2, <3>1
  <2> QED BY <1>2, <2>1, <2>2
<1>4. left' \in -MaxThreads .. MaxThreads
  BY <1>2, ThreadPoolAssumption DEF PlaceInv, PoolTypeOK, OwnerPlace
<1>5. PoolTypeOK'
  BY <1>1, <1>2, <1>3, <1>4 DEF PlaceInv, PoolTypeOK, queueVars
<1> QED BY <1>2, <1>5 DEF PlaceInv, OwnerPlace, stopVars

\* SetNumThreads pushes poison for what is too much, and returns.
LEMMA ResizePlace ==
    ASSUME PlaceInv, AddPoison \/ EndResize
    PROVE  PlaceInv'
<1>1. /\ at = "resize" /\ UNCHANGED <<pc, mapVars, stopVars, newThread, calls>>
      /\ m_tasks' \in [Task -> Nat] /\ waiting' \subseteq waiting
  BY EnqueueType, States
  DEF AddPoison, EndResize, Return, Goto, PlaceInv, PoolTypeOK, queueVars
<1>2. CASE AddPoison
  <2>1. /\ left < 0 /\ left' = left + 1
        /\ UNCHANGED <<m_numThreadsShouldExist, call, at, target>>
    BY <1>2 DEF AddPoison
  <2>2. PoolTypeOK'
    BY <1>1, <2>1, ThreadPoolAssumption DEF PlaceInv, PoolTypeOK, mapVars
  <2> QED BY <1>1, <2>1, <2>2 DEF PlaceInv, OwnerPlace, PoolTypeOK, mapVars, stopVars
<1>3. CASE EndResize
  <2>1. /\ left' = left /\ m_numThreadsShouldExist' = target
        /\ \/ /\ call \in {"SetNum", "Start"} /\ call' = "none" /\ at' = "out" /\ target' = 0
           \/ /\ call \notin {"SetNum", "Start"} /\ at' = "clean" /\ UNCHANGED <<call, target>>
    BY <1>3 DEF EndResize, Return, Goto
  <2>2. PoolTypeOK'
    BY <1>1, <2>1, ThreadPoolAssumption DEF PlaceInv, PoolTypeOK, OwnerPlace, mapVars
  <2> QED BY <1>1, <2>1, <2>2, ThreadPoolAssumption
          DEF PlaceInv, OwnerPlace, PoolTypeOK, mapVars, stopVars
<1> QED BY <1>2, <1>3

\* Stop and the destructor go from one stage to the next.
LEMMA StopPlace ==
    ASSUME PlaceInv, OwnerCleans \/ EndStop \/ EndDestroy \/ DeadlinePasses
    PROVE  PlaceInv'
<1>1. UNCHANGED <<m_tasks, waiting, pc, m_threads, m_numThreadsShouldExist, left, newThread>>
  BY DEF OwnerCleans, EndStop, EndDestroy, DeadlinePasses, TakeMutex, ReleaseMutex, Goto,
     Return, queueVars, mapVars, callVars
<1>2. lock' \in {lock, Owner, Nobody} /\ unvisited' \in {unvisited, DOMAIN m_threads}
  BY DEF OwnerCleans, EndStop, EndDestroy, DeadlinePasses, TakeMutex, ReleaseMutex, mapVars
<1>3. PoolTypeOK'
  BY <1>1, <1>2 DEF PlaceInv, PoolTypeOK
<1>4. \/ at = "clean" /\ lock' = Owner /\ at' = "walk" /\ UNCHANGED <<call, target, stopped>>
      \/ at = "walk" /\ lock' = Nobody /\ at' = "spin" /\ UNCHANGED <<call, target, stopped>>
      \/ /\ at = "spin" /\ lock = Nobody /\ lock' = Nobody /\ at' = "out" /\ call' = "none"
         /\ target' = 0
      \/ at = "spin" /\ lock' = Owner /\ at' = "cancel" /\ UNCHANGED <<call, target, stopped>>
      \/ at = "cancel" /\ lock' = Nobody /\ at' = "out" /\ call' = "none" /\ target' = 0
      \/ UNCHANGED <<at, lock, call, target, stopped>>
  <2>1. CASE OwnerCleans
    BY <2>1 DEF OwnerCleans, TakeMutex, ReleaseMutex, Goto, stopVars
  <2>2. CASE EndStop
    <3>1. CASE call = "Stop"
      BY <2>2, <3>1 DEF EndStop, Return, mapVars
    <3>2. CASE call # "Stop"
      BY <2>2, <3>2 DEF EndStop, Goto, TakeMutex
    <3> QED BY <3>1, <3>2
  <2>3. CASE EndDestroy
    BY <2>3 DEF EndDestroy, ReleaseMutex, Return
  <2>4. CASE DeadlinePasses
    BY <2>4 DEF DeadlinePasses, mapVars, callVars
  <2> QED BY <2>1, <2>2, <2>3, <2>4
<1> QED BY <1>1, <1>3, <1>4, ThreadPoolAssumption, Names DEF PlaceInv, OwnerPlace

\* The destructor ends a thread of the map, or the process ends.
LEMMA CancelPlace ==
    ASSUME PlaceInv, NEW t \in unvisited, CancelJoinThreadImp(t)
    PROVE  PlaceInv'
<1>1. CASE ProcessEnds
  BY <1>1, KeepsPlace DEF ProcessEnds, PlaceInv, PoolTypeOK, queueVars, mapVars, OwnerPlace,
     callVars, stopVars
<1>2. CASE /\ pc' = [pc EXCEPT ![t] = "ended"]
           /\ waiting' = waiting \ {t}
           /\ unvisited' = unvisited \ {t}
           /\ UNCHANGED <<m_tasks, m_threads, lock, m_numThreadsShouldExist, callVars,
                          stopVars, aborted>>
  <2>1. PoolTypeOK'
    BY <1>2 DEF PlaceInv, PoolTypeOK, ThreadState, PoolPlaces, callVars
  <2> QED BY <1>2, <2>1 DEF PlaceInv, OwnerPlace, callVars, stopVars
<1> QED BY <1>1, <1>2 DEF CancelJoinThreadImp

\* Every step keeps the types and the owner in its place.
LEMMA NextPlace ==
    ASSUME PlaceInv, [PoolNext]_poolVars
    PROVE  PlaceInv'
<1>1. CASE UNCHANGED poolVars
  BY <1>1 DEF PlaceInv, PoolTypeOK, OwnerPlace, poolVars, queueVars, mapVars, callVars, stopVars
<1>2. CASE PoolNext
  <2>1. ASSUME NEW task \in UserTasks, Add(task) PROVE PlaceInv'
    BY <2>1, AddPlace
  <2>2. CASE OwnerCalls
    BY <2>2, CallsPlace
  <2>3. CASE OwnerStep
    BY <2>3, CreatePlace, InsertPlace, ResizePlace, StopPlace, VisitPlace, CancelPlace
    DEF OwnerStep
  <2>4. CASE DeadlinePasses
    BY <2>4, StopPlace
  <2>5. ASSUME NEW t \in Threads, PoolThread(t) \/ TaskReturns(t) \/ SpuriousWakeup(t)
        PROVE  PlaceInv'
    BY <2>5, DequeuePlace, PoisonTakenPlace, ReturnsPlace, CleanupPlace, VisitPlace,
       WakeupPlace DEF PoolThread
  <2> QED BY <1>2, <2>1, <2>2, <2>3, <2>4, <2>5 DEF PoolNext
<1> QED BY <1>1, <1>2

\* The pool's type invariant, whatever the order of the owner's and the workers'
\* steps.
THEOREM PoolTypeCorrect == PoolSpec => []PoolTypeOK
<1>1. PoolInit => PlaceInv
  BY InitPlace
<1>2. PlaceInv /\ [PoolNext]_poolVars => PlaceInv'
  BY NextPlace
<1>3. PlaceInv => PoolTypeOK
  BY DEF PlaceInv
<1> QED BY <1>1, <1>2, <1>3, PTL DEF PoolSpec

---------------------------------------------------------------------------
(* No thread is lost, and every entry can be joined *)

\* The map has every thread that runs, but for the one AddThreadImp is about to
\* insert; an entry has its ThreadPtr, and says done of a thread that is; what
\* cleans with the mutex is a worker in CleanupTaskImp, or the owner; and the
\* destructor has ended the threads it has come past.
Known ==
    /\ ~aborted
    /\ \A t \in Alive : t \in DOMAIN m_threads \/ t = newThread
    /\ \A t \in DOMAIN m_threads :
           /\ m_threads[t].ptr
           /\ pc[t] # "none"
           /\ m_threads[t].done => pc[t] \in {"done", "ended"}
    /\ newThread # Nobody =>
           newThread \notin DOMAIN m_threads /\ pc[newThread] \notin {"none", "done", "ended"}
    /\ lock \in Threads => pc[lock] = "cleaning"
    /\ at = "cancel" => \A t \in DOMAIN m_threads \ unvisited : pc[t] = "ended"
    /\ stopped = "destroyed" => Alive = {}

KnownInv == PlaceInv /\ Known

\* A worker goes from one place to another, neither of them past its end.
LEMMA WorkerMoves ==
    ASSUME KnownInv, NEW t \in Threads, NEW x,
           pc[t] \notin {"none", "done", "ended"}, x \notin {"none", "done", "ended"},
           pc' = [pc EXCEPT ![t] = x], lock = t => x = "cleaning",
           UNCHANGED <<mapVars, at, newThread, stopped, aborted>>
    PROVE  Known'
<1>1. pc \in [Threads -> ThreadState] /\ DOMAIN m_threads \subseteq Threads
      /\ newThread \in Threads \cup {Nobody}
  BY DEF KnownInv, PlaceInv, PoolTypeOK
<1>2. Alive' = Alive /\ t \in Alive
  BY <1>1 DEF Alive
<1> QED BY <1>1, <1>2 DEF KnownInv, Known, mapVars

\* Nothing that matters here changes.
LEMMA KeepsKnown ==
    ASSUME Known, UNCHANGED <<pc, mapVars, at, newThread, stopped, aborted>>
    PROVE  Known'
BY DEF Known, Alive, mapVars

\* Taking a task neither makes nor loses a thread.
LEMMA DequeueKnown ==
    ASSUME KnownInv, NEW t \in Threads, Dequeue(t)
    PROVE  Known'
<1>1. /\ pc[t] = "loop" /\ UNCHANGED <<mapVars, at, newThread, stopped, aborted>>
  BY DEF Dequeue, callVars, stopVars
<1>2. CASE UNCHANGED pc
  BY <1>1, <1>2, KeepsKnown DEF KnownInv
<1>3. ASSUME NEW task \in Task,
             pc' = [pc EXCEPT ![t] = IF task = Poison THEN "poisoned"
                                     ELSE IF task = Cleanup THEN "toClean" ELSE task]
      PROVE  Known'
  <2> DEFINE x == IF task = Poison THEN "poisoned" ELSE IF task = Cleanup THEN "toClean" ELSE task
  <2>1. x \notin {"none", "done", "ended"}
    BY States DEF Task, PoolPlaces
  <2>2. lock # t
    BY <1>1 DEF KnownInv, Known
  <2>3. pc' = [pc EXCEPT ![t] = x]
    BY <1>3
  <2> HIDE DEF x
  <2> QED BY <1>1, <2>1, <2>2, <2>3, WorkerMoves
<1> QED BY <1>2, <1>3 DEF Dequeue

\* The cleanup task changes no entry outside its visits.
LEMMA CleanupKnown ==
    ASSUME KnownInv, NEW t \in Threads, CleanupTaskImp(t)
    PROVE  Known'
<1>1. /\ UNCHANGED <<m_threads, at, newThread, stopped, aborted>>
      /\ at # "cancel"
      /\ \/ pc[t] = "toClean" /\ lock' = t /\ pc' = [pc EXCEPT ![t] = "cleaning"]
         \/ pc[t] = "cleaning" /\ lock' = Nobody /\ pc' = [pc EXCEPT ![t] = "loop"]
  BY Names DEF CleanupTaskImp, TakeMutex, ReleaseMutex, callVars, stopVars, KnownInv, PlaceInv,
     OwnerPlace
<1>2. pc \in [Threads -> ThreadState] /\ DOMAIN m_threads \subseteq Threads
      /\ newThread \in Threads \cup {Nobody}
  BY DEF KnownInv, PlaceInv, PoolTypeOK
<1>3. Alive' = Alive
  BY <1>1, <1>2 DEF Alive
<1> QED BY <1>1, <1>2, <1>3, Names DEF KnownInv, Known

\* A thread that ends has taken its poison before.
LEMMA EndsKnown ==
    ASSUME KnownInv, NEW t \in Threads, ThreadEnds(t)
    PROVE  Known'
<1>1. /\ pc[t] = "done" /\ pc' = [pc EXCEPT ![t] = "ended"]
      /\ UNCHANGED <<mapVars, at, newThread, stopped, aborted>>
  BY DEF ThreadEnds, callVars, stopVars
<1>2. pc \in [Threads -> ThreadState] /\ DOMAIN m_threads \subseteq Threads
      /\ newThread \in Threads \cup {Nobody}
  BY DEF KnownInv, PlaceInv, PoolTypeOK
<1>3. Alive' = Alive \ {t}
  BY <1>1, <1>2 DEF Alive
<1> QED BY <1>1, <1>2, <1>3, Names DEF KnownInv, Known, mapVars

\* The entry is there: SetThreadDoneImp makes none without a ThreadPtr.
LEMMA PoisonTakenKnown ==
    ASSUME KnownInv, LateInsert = FALSE, NEW t \in Threads, PoisonTaken(t)
    PROVE  Known'
<1> DEFINE entry == [ptr |-> t \in DOMAIN m_threads /\ m_threads[t].ptr, done |-> TRUE]
<1>1. /\ pc[t] = "poisoned" /\ pc' = [pc EXCEPT ![t] = "done"] /\ t # newThread
      /\ m_threads' = Put(m_threads, t, entry)
      /\ UNCHANGED <<unvisited, lock, at, newThread, stopped, aborted>>
  BY DEF PoisonTaken, SetThreadDoneImp, callVars, stopVars
<1>2. pc \in [Threads -> ThreadState] /\ DOMAIN m_threads \subseteq Threads
      /\ newThread \in Threads \cup {Nobody}
  BY DEF KnownInv, PlaceInv, PoolTypeOK
<1>3. Alive' = Alive /\ t \in Alive
  BY <1>1, <1>2 DEF Alive
<1>4. t \in DOMAIN m_threads /\ m_threads[t].ptr
  BY <1>1, <1>3 DEF KnownInv, Known
<1>5. entry.ptr /\ entry.done
  BY <1>4
<1> HIDE DEF entry
<1>6. /\ DOMAIN m_threads' = DOMAIN m_threads
      /\ m_threads'[t] = entry
      /\ \A u \in DOMAIN m_threads : u # t => m_threads'[u] = m_threads[u]
  BY <1>1, <1>4 DEF Put
<1>7. \A u \in DOMAIN m_threads' :
           /\ m_threads'[u].ptr
           /\ pc'[u] # "none"
           /\ m_threads'[u].done => pc'[u] \in {"done", "ended"}
  BY <1>1, <1>2, <1>5, <1>6 DEF KnownInv, Known
<1> QED BY <1>1, <1>2, <1>3, <1>4, <1>6, <1>7 DEF KnownInv, Known

\* A thread that is joined has ended, and its entry can be used.
LEMMA VisitKnown ==
    ASSUME KnownInv, NEW who, NEW t \in unvisited, Visit(who, t), at # "cancel"
    PROVE  Known'
<1>1. t \in DOMAIN m_threads /\ t \in Threads /\ m_threads[t].ptr
  BY DEF KnownInv, Known, PlaceInv, PoolTypeOK
<1>2. /\ Finished(who, t) => pc[t] = "ended"
      /\ m_threads' = IF Finished(who, t) THEN Erase(m_threads, t) ELSE m_threads
      /\ UNCHANGED <<pc, lock, at, newThread, stopped, aborted>>
  BY <1>1 DEF Visit, callVars, stopVars
<1>3. CASE m_threads' = m_threads
  BY <1>2, <1>3 DEF KnownInv, Known, Alive
<1>4. CASE m_threads' = Erase(m_threads, t) /\ pc[t] = "ended"
  <2>1. /\ DOMAIN m_threads' = DOMAIN m_threads \ {t}
        /\ \A u \in DOMAIN m_threads : u # t => m_threads'[u] = m_threads[u]
    BY <1>4 DEF Erase
  <2>2. Alive' = Alive /\ t \notin Alive
    BY <1>2, <1>4 DEF Alive
  <2> QED BY <1>2, <1>4, <2>1, <2>2 DEF KnownInv, Known
<1> QED BY <1>2, <1>3, <1>4

\* A new thread is the one AddThreadImp has in hand.
LEMMA CreateKnown ==
    ASSUME KnownInv, NEW t \in Threads, CreateThread(t)
    PROVE  Known'
<1>1. /\ at = "resize" /\ pc[t] = "none" /\ newThread = Nobody /\ stopped # "destroyed"
      /\ pc' = [pc EXCEPT ![t] = "loop"] /\ newThread' = t /\ at' = "insert"
      /\ UNCHANGED <<mapVars, stopped, aborted>>
  BY DEF CreateThread, stopVars, KnownInv, PlaceInv, OwnerPlace
<1>2. pc \in [Threads -> ThreadState] /\ DOMAIN m_threads \subseteq Threads
  BY DEF KnownInv, PlaceInv, PoolTypeOK
<1>3. Alive' = Alive \cup {t}
  BY <1>1, <1>2 DEF Alive
<1>4. t \notin DOMAIN m_threads /\ lock # t
  BY <1>1 DEF KnownInv, Known
<1>5. \A u \in Threads : u # t => pc'[u] = pc[u]
  BY <1>1, <1>2
<1>6. pc'[t] = "loop"
  BY <1>1, <1>2
<1>7. /\ m_threads' = m_threads /\ unvisited' = unvisited /\ lock' = lock
      /\ stopped' = stopped /\ aborted' = aborted
  BY <1>1 DEF mapVars
<1>8. \A u \in Alive' : u \in DOMAIN m_threads' \/ u = newThread'
  <2>1. \A u \in Alive : u \in DOMAIN m_threads
    BY <1>1, Names DEF KnownInv, Known, Alive
  <2> QED BY <1>1, <1>3, <1>7, <2>1
<1>9. \A u \in DOMAIN m_threads' :
           /\ m_threads'[u].ptr
           /\ pc'[u] # "none"
           /\ m_threads'[u].done => pc'[u] \in {"done", "ended"}
  BY <1>2, <1>4, <1>5, <1>7 DEF KnownInv, Known
<1>10. newThread' \notin DOMAIN m_threads' /\ pc'[newThread'] \notin {"none", "done", "ended"}
  BY <1>1, <1>4, <1>6, <1>7
<1>11. lock' \in Threads => pc'[lock'] = "cleaning"
  BY <1>4, <1>5, <1>7 DEF KnownInv, Known
<1> QED BY <1>1, <1>7, <1>8, <1>9, <1>10, <1>11 DEF KnownInv, Known

\* And it is in the map before AddThreadImp goes on.
LEMMA InsertKnown ==
    ASSUME KnownInv, InsertThread
    PROVE  Known'
<1> DEFINE entry == [ptr |-> TRUE, done |-> FALSE]
<1>1. newThread \in Threads /\ newThread \notin DOMAIN m_threads
      /\ pc[newThread] \notin {"none", "done", "ended"} /\ stopped # "destroyed"
  BY DEF InsertThread, KnownInv, Known, PlaceInv, OwnerPlace, PoolTypeOK
<1>2. /\ newThread' = Nobody /\ at' = "resize"
      /\ m_threads' = Put(m_threads, newThread, entry)
      /\ UNCHANGED <<pc, lock, stopped, aborted>>
  BY <1>1 DEF InsertThread, stopVars
<1>3. entry.ptr /\ ~entry.done
  OBVIOUS
<1> HIDE DEF entry
<1>4. /\ DOMAIN m_threads' = DOMAIN m_threads \cup {newThread}
      /\ m_threads'[newThread] = entry
      /\ \A u \in DOMAIN m_threads : u # newThread => m_threads'[u] = m_threads[u]
  BY <1>2 DEF Put
<1>5. Alive' = Alive
  BY <1>2 DEF Alive
<1> QED BY <1>1, <1>2, <1>3, <1>4, <1>5 DEF KnownInv, Known

\* The stages of Stop change no entry outside their visits.
LEMMA StopKnown ==
    ASSUME KnownInv, OwnerCleans \/ EndStop \/ EndDestroy \/ DeadlinePasses
    PROVE  Known'
<1>1. UNCHANGED <<pc, m_threads, newThread, aborted>> /\ lock' \in {lock, Owner, Nobody}
  BY DEF OwnerCleans, EndStop, EndDestroy, DeadlinePasses, TakeMutex, ReleaseMutex, Goto,
     Return, mapVars, callVars
<1>2. Alive' = Alive
  BY <1>1 DEF Alive
<1>3. at' = "cancel" => unvisited' = DOMAIN m_threads \/ (at = "cancel" /\ UNCHANGED unvisited)
  <2>1. CASE OwnerCleans
    BY <2>1 DEF OwnerCleans, Goto
  <2>2. CASE EndStop
    BY <2>2 DEF EndStop, Goto, TakeMutex, Return
  <2>3. CASE EndDestroy
    BY <2>3 DEF EndDestroy, Return
  <2>4. CASE DeadlinePasses
    BY <2>4 DEF DeadlinePasses, mapVars, callVars
  <2> QED BY <2>1, <2>2, <2>3, <2>4
<1>4. stopped' = "destroyed" => stopped = "destroyed" \/ (at = "cancel" /\ unvisited = {})
  BY DEF OwnerCleans, EndStop, EndDestroy, DeadlinePasses, ReleaseMutex, stopVars
<1>5. at = "cancel" => newThread = Nobody
  BY DEF KnownInv, PlaceInv, OwnerPlace
<1>6. (at = "cancel" /\ unvisited = {}) => Alive = {}
  BY <1>5, Names DEF KnownInv, Known, PlaceInv, PoolTypeOK, Alive
<1> QED BY <1>1, <1>2, <1>3, <1>4, <1>6, Names DEF KnownInv, Known

\* The destructor ends the next thread.
LEMMA CancelKnown ==
    ASSUME KnownInv, NEW t \in unvisited, CancelJoinThreadImp(t)
    PROVE  Known'
<1>1. t \in DOMAIN m_threads /\ t \in Threads /\ m_threads[t].ptr
  BY DEF KnownInv, Known, PlaceInv, PoolTypeOK
<1>2. /\ at = "cancel" /\ pc' = [pc EXCEPT ![t] = "ended"] /\ unvisited' = unvisited \ {t}
      /\ UNCHANGED <<m_threads, lock, at, newThread, stopped, aborted>>
  BY <1>1 DEF CancelJoinThreadImp, callVars, stopVars
<1>3. pc \in [Threads -> ThreadState] /\ DOMAIN m_threads \subseteq Threads
      /\ lock = Owner /\ newThread = Nobody /\ stopped # "destroyed"
  BY <1>2 DEF KnownInv, PlaceInv, PoolTypeOK, OwnerPlace
<1>4. Alive' = Alive \ {t}
  BY <1>1, <1>2, <1>3 DEF Alive
<1> QED BY <1>1, <1>2, <1>3, <1>4, Names DEF KnownInv, Known

\* Beginning a call, and pushing poison, change no thread.
LEMMA CallsKnown ==
    ASSUME KnownInv, OwnerCalls \/ AddPoison \/ EndResize
    PROVE  Known'
<1>1. UNCHANGED <<pc, mapVars, newThread, stopped, aborted>> /\ at' # "cancel"
  <2>1. CASE OwnerCalls
    BY <2>1 DEF OwnerCalls, Start, SetNum, BeginStop, Begin, stopVars
  <2>2. CASE AddPoison \/ EndResize
    BY <2>2 DEF AddPoison, EndResize, Return, Goto, stopVars
  <2> QED BY <2>1, <2>2
<1> QED BY <1>1 DEF KnownInv, Known, Alive, mapVars

\* Every step keeps all live threads in the map.
LEMMA NextKnown ==
    ASSUME KnownInv, [PoolNext]_poolVars, LateInsert = FALSE
    PROVE  KnownInv'
<1>1. PlaceInv'
  BY NextPlace DEF KnownInv
<1>2. CASE UNCHANGED poolVars
  BY <1>1, <1>2, KeepsKnown DEF KnownInv, poolVars, callVars, stopVars
<1>3. CASE PoolNext
  <2>1. ASSUME NEW task \in UserTasks, Add(task) PROVE Known'
    BY <2>1, KeepsKnown DEF Add, KnownInv, callVars, stopVars
  <2>2. ASSUME OwnerCalls PROVE Known'
    BY <2>2, CallsKnown
  <2>3. ASSUME OwnerStep PROVE Known'
    <3>1. ASSUME NEW t \in unvisited, at = "walk", Visit(Owner, t) PROVE Known'
      BY <3>1, VisitKnown
    <3> QED BY <2>3, <3>1, CreateKnown, InsertKnown, CallsKnown, StopKnown, CancelKnown
            DEF OwnerStep
  <2>4. ASSUME DeadlinePasses PROVE Known'
    BY <2>4, StopKnown
  <2>5. ASSUME NEW t \in Threads, PoolThread(t) \/ TaskReturns(t) \/ SpuriousWakeup(t)
        PROVE  Known'
    <3>1. ASSUME NEW e \in unvisited, Visit(t, e) PROVE Known'
      <4>1. at # "cancel"
        BY <3>1, Names DEF Visit, KnownInv, PlaceInv, OwnerPlace
      <4> QED BY <3>1, <4>1, VisitKnown
    <3>2. CASE SpuriousWakeup(t)
      BY <3>2, KeepsKnown DEF SpuriousWakeup, KnownInv, callVars, stopVars
    <3>3. CASE TaskReturns(t)
      <4>1. /\ pc[t] \in UserTasks /\ pc' = [pc EXCEPT ![t] = "loop"]
            /\ UNCHANGED <<mapVars, at, newThread, stopped, aborted>>
        BY <3>3 DEF TaskReturns, callVars, stopVars
      <4>2. pc[t] \notin PoolPlaces
        BY <4>1, States
      <4>3. lock # t
        BY <4>2 DEF KnownInv, Known, PoolPlaces
      <4> QED BY <4>1, <4>2, <4>3, WorkerMoves DEF PoolPlaces
    <3> QED BY <2>5, <3>1, <3>2, <3>3, DequeueKnown, PoisonTakenKnown, EndsKnown, CleanupKnown
            DEF PoolThread
  <2> QED BY <1>1, <1>3, <2>1, <2>2, <2>3, <2>4, <2>5 DEF PoolNext, KnownInv
<1> QED BY <1>2, <1>3

\* There are no threads at first.
LEMMA InitKnown == ASSUME PoolInit PROVE KnownInv
BY InitPlace, Names DEF PoolInit, KnownInv, Known, Alive, EmptyMap

\* The map and the threads agree in every reachable state.
LEMMA KnownAlways ==
    ASSUME LateInsert = FALSE
    PROVE  PoolSpec => []KnownInv
<1>1. PoolInit => KnownInv
  BY InitKnown
<1>2. KnownInv /\ [PoolNext]_poolVars => KnownInv'
  BY NextKnown
<1> QED BY <1>1, <1>2, PTL DEF PoolSpec

\* If no thread can end before AddThreadImp has inserted it, between two
\* operations the map has every thread that runs, with its ThreadPtr, and no
\* cleaning has used a null pointer.
THEOREM ThreadsAreKnown ==
    ASSUME LateInsert = FALSE
    PROVE  PoolSpec => []EveryThreadIsKnown
<1>1. KnownInv => EveryThreadIsKnown
  BY Names DEF KnownInv, Known, PlaceInv, OwnerPlace, EveryThreadIsKnown, Alive
<1> QED BY <1>1, KnownAlways, PTL

\* No thread runs when Stop has returned true, nor after the destructor.
THEOREM StopEndsTheThreads ==
    ASSUME LateInsert = FALSE
    PROVE  PoolSpec => []StoppedMeansEnded
<1>1. KnownInv => StoppedMeansEnded
  <2> SUFFICES ASSUME KnownInv PROVE StoppedMeansEnded
    OBVIOUS
  <2>1. stopped = "destroyed" => Alive = {}
    BY DEF KnownInv, Known
  <2>2. (call = "none" /\ ~Running) => Alive = {}
    BY Names DEF KnownInv, Known, PlaceInv, OwnerPlace, Running, Alive
  <2> QED BY <2>1, <2>2 DEF StoppedMeansEnded
<1> QED BY <1>1, KnownAlways, PTL

---------------------------------------------------------------------------
(* The threads and the poison add up *)

\* The threads that have taken no poison yet.
Staying == Alive \ Poisoned

\* In the middle of an operation what the owner has yet to create or to poison
\* makes up the difference; from then on Stop has as many poisonous tasks as
\* threads, and only cancelling takes threads without poison.
Balance ==
    LET n == Cardinality(Staying)
        p == m_tasks[Poison]
    IN  /\ at = "out" /\ stopped # "destroyed" =>
               n - p = IF Running THEN m_numThreadsShouldExist ELSE 0
        /\ at = "resize" => n - p + left = target
        /\ at = "insert" => n - p + left = target + 1
        /\ at \in {"clean", "walk", "spin"} => n = p
        /\ at = "cancel" => n <= p

BalanceInv == KnownInv /\ Balance

\* Sets of threads are finite.
LEMMA ThreadSets ==
    ASSUME NEW S \in SUBSET Threads
    PROVE  IsFiniteSet(S) /\ Cardinality(S) \in Nat
<1>1. IsFiniteSet(Threads)
  BY FS_Interval, ThreadPoolAssumption DEF Threads
<1>2. IsFiniteSet(S)
  BY <1>1, FS_Subset
<1> QED BY <1>2, FS_CardinalityType

\* The threads that stay are finitely many.
LEMMA StayingType ==
    ASSUME PoolTypeOK
    PROVE  /\ Staying \in SUBSET Threads /\ IsFiniteSet(Staying)
           /\ Cardinality(Staying) \in Nat /\ m_tasks[Poison] \in Nat
           /\ left \in Int /\ m_numThreadsShouldExist \in Nat
<1>1. Staying \in SUBSET Threads
  BY DEF Staying, Alive
<1>2. m_tasks[Poison] \in Nat /\ left \in Int /\ m_numThreadsShouldExist \in Nat
  BY States, ThreadPoolAssumption DEF PoolTypeOK
<1> QED BY <1>1, <1>2, ThreadSets

\* No thread comes, goes or takes poison, and the owner stays where it is.
LEMMA KeepsBalance ==
    ASSUME Balance, Staying' = Staying, m_tasks'[Poison] = m_tasks[Poison],
           UNCHANGED <<at, left, target, m_numThreadsShouldExist, stopped>>,
           at = "out" => (Running' <=> Running)
    PROVE  Balance'
BY DEF Balance

\* Adding a user's task adds no poison.
LEMMA EnqueueOther ==
    ASSUME PoolTypeOK, NEW task \in Task, task # Poison, Enqueue(task)
    PROVE  m_tasks'[Poison] = m_tasks[Poison]
BY States DEF Enqueue, PoolTypeOK

\* A thread that takes poison is one less to stay, and so is the poison.
LEMMA DequeueBalance ==
    ASSUME BalanceInv, NEW t \in Threads, Dequeue(t)
    PROVE  Balance'
<1>1. /\ UNCHANGED <<m_threads, at, left, target, m_numThreadsShouldExist, stopped>>
      /\ pc[t] = "loop"
  BY DEF Dequeue, mapVars, callVars, stopVars
<1>2. Running' <=> Running
  BY <1>1 DEF Running
<1>3. PoolTypeOK
  BY DEF BalanceInv, KnownInv, PlaceInv
<1>4. CASE DequeueWaits(t) /\ UNCHANGED pc
  <2>1. Staying' = Staying /\ m_tasks' = m_tasks
    BY <1>4 DEF Staying, Alive, Poisoned, DequeueWaits
  <2> QED BY <1>1, <1>2, <2>1, KeepsBalance DEF BalanceInv
<1>5. ASSUME NEW task \in Task, DequeueTakes(task),
             pc' = [pc EXCEPT ![t] = IF task = Poison THEN "poisoned"
                                     ELSE IF task = Cleanup THEN "toClean" ELSE task]
      PROVE  Balance'
  <2>1. m_tasks' = [m_tasks EXCEPT ![task] = @ - 1] /\ pc \in [Threads -> ThreadState]
        /\ m_tasks \in [Task -> Nat]
    BY <1>3, <1>5 DEF DequeueTakes, PoolTypeOK
  <2>2. CASE task # Poison
    <3> DEFINE x == IF task = Cleanup THEN "toClean" ELSE task
    <3>1. x \notin {"none", "ended", "poisoned", "done"}
      BY <2>2, States DEF Task, PoolPlaces
    <3>2. pc' = [pc EXCEPT ![t] = x]
      BY <1>5, <2>2
    <3> HIDE DEF x
    <3>3. Staying' = Staying
      BY <1>1, <2>1, <3>1, <3>2 DEF Staying, Alive, Poisoned
    <3>4. m_tasks'[Poison] = m_tasks[Poison]
      BY <2>1, <2>2, States
    <3> QED BY <1>1, <1>2, <3>3, <3>4, KeepsBalance DEF BalanceInv
  <2>3. CASE task = Poison
    <3>1. pc' = [pc EXCEPT ![t] = "poisoned"]
      BY <1>5, <2>3
    <3>2. Staying' = Staying \ {t} /\ t \in Staying
      BY <1>1, <2>1, <3>1 DEF Staying, Alive, Poisoned
    <3>3. Cardinality(Staying') = Cardinality(Staying) - 1
      BY <1>3, <3>2, StayingType, FS_RemoveElement
    <3>4. m_tasks'[Poison] = m_tasks[Poison] - 1
      BY <2>1, <2>3, States
    <3>5. target \in Nat
      BY ThreadPoolAssumption DEF BalanceInv, KnownInv, PlaceInv, OwnerPlace
    <3> QED BY <1>1, <1>2, <1>3, <3>3, <3>4, <3>5, StayingType DEF BalanceInv, Balance
  <2> QED BY <2>2, <2>3
<1> QED BY <1>4, <1>5 DEF Dequeue

\* A worker's other steps keep it among the threads that stay or that go, and
\* leave an entry in the map.
LEMMA WorkerBalance ==
    ASSUME BalanceInv, NEW t \in Threads, LateInsert = FALSE,
           PoisonTaken(t) \/ ThreadEnds(t) \/ CleanupTaskImp(t) \/ TaskReturns(t)
    PROVE  Balance'
<1>1. PoolTypeOK
  BY DEF BalanceInv, KnownInv, PlaceInv
<1>2. UNCHANGED <<m_tasks, at, left, target, m_numThreadsShouldExist, stopped>>
  BY DEF PoisonTaken, ThreadEnds, CleanupTaskImp, TaskReturns, queueVars, callVars, stopVars
<1>3. Staying' = Staying
  <2>1. pc \in [Threads -> ThreadState]
    BY <1>1 DEF PoolTypeOK
  <2>2. CASE PoisonTaken(t) \/ ThreadEnds(t)
    BY <2>1, <2>2 DEF PoisonTaken, ThreadEnds, Staying, Alive, Poisoned
  <2>3. CASE CleanupTaskImp(t)
    BY <2>1, <2>3 DEF CleanupTaskImp, Staying, Alive, Poisoned
  <2>4. CASE TaskReturns(t)
    <3>1. pc[t] \notin PoolPlaces /\ pc' = [pc EXCEPT ![t] = "loop"]
      BY <2>4, States DEF TaskReturns
    <3> QED BY <2>1, <3>1 DEF Staying, Alive, Poisoned, PoolPlaces
  <2> QED BY <2>2, <2>3, <2>4
<1>4. at = "out" => (Running' <=> Running)
  <2>1. CASE PoisonTaken(t)
    <3>1. DOMAIN m_threads' = DOMAIN m_threads \cup {t}
      BY <2>1 DEF PoisonTaken, SetThreadDoneImp, Put
    <3>2. t \in Alive
      BY <2>1 DEF PoisonTaken, Alive
    <3>3. at = "out" => t \in DOMAIN m_threads
      BY <3>2, Names DEF BalanceInv, KnownInv, Known, PlaceInv, OwnerPlace
    <3> QED BY <3>1, <3>3 DEF Running
  <2>2. CASE ThreadEnds(t) \/ CleanupTaskImp(t) \/ TaskReturns(t)
    BY <2>2 DEF ThreadEnds, CleanupTaskImp, TakeMutex, ReleaseMutex, TaskReturns, mapVars, Running
  <2> QED BY <2>1, <2>2
<1> QED BY <1>2, <1>3, <1>4, KeepsBalance DEF BalanceInv

\* A worker that cleans does not empty the map: its own entry stays.
LEMMA VisitBalance ==
    ASSUME BalanceInv, NEW who \in Threads \cup {Owner}, NEW t \in unvisited, Visit(who, t),
           who = Owner => at = "walk"
    PROVE  Balance'
<1>1. t \in DOMAIN m_threads /\ t \in Threads /\ m_threads[t].ptr /\ lock = who
  BY DEF Visit, BalanceInv, KnownInv, Known, PlaceInv, PoolTypeOK
<1>2. /\ m_threads' = IF Finished(who, t) THEN Erase(m_threads, t) ELSE m_threads
      /\ UNCHANGED <<pc, m_tasks, at, left, target, m_numThreadsShouldExist, stopped>>
  BY <1>1 DEF Visit, queueVars, callVars, stopVars
<1>3. Staying' = Staying
  BY <1>2 DEF Staying, Alive, Poisoned
<1>4. ASSUME at = "out" PROVE Running' <=> Running
  <2>1. who \in Threads
    BY <1>4
  <2>2. who \in Alive
    BY <1>1, <2>1 DEF BalanceInv, KnownInv, Known, Alive
  <2>3. who \in DOMAIN m_threads
    BY <1>4, <2>1, <2>2, Names DEF BalanceInv, KnownInv, Known, PlaceInv, OwnerPlace
  <2>4. CASE m_threads' = m_threads
    BY <2>4 DEF Running
  <2>5. CASE m_threads' = Erase(m_threads, t) /\ t # who
    <3>1. DOMAIN m_threads' = DOMAIN m_threads \ {t}
      BY <2>5 DEF Erase
    <3> QED BY <2>3, <2>5, <3>1 DEF Running
  <2> QED BY <1>2, <2>4, <2>5 DEF Finished
<1> QED BY <1>2, <1>3, <1>4, KeepsBalance DEF BalanceInv

\* What a call has left to do is what the wanted number asks for.
LEMMA CallsBalance ==
    ASSUME BalanceInv, OwnerCalls
    PROVE  Balance'
<1>1. PoolTypeOK /\ at = "out" /\ stopped # "destroyed"
  BY DEF BalanceInv, KnownInv, PlaceInv, OwnerPlace, OwnerCalls, Start, SetNum, BeginStop,
     Begin, Idle
<1>2. UNCHANGED <<pc, m_tasks, m_threads, stopped>>
  BY DEF OwnerCalls, Start, SetNum, BeginStop, queueVars, mapVars, stopVars
<1>3. Staying' = Staying /\ Running' = Running
  BY <1>2 DEF Staying, Alive, Poisoned, Running
<1>4. /\ Cardinality(Staying) \in Nat /\ m_tasks[Poison] \in Nat
      /\ m_numThreadsShouldExist \in Nat
      /\ Cardinality(Staying) - m_tasks[Poison] =
             IF Running THEN m_numThreadsShouldExist ELSE 0
  BY <1>1, StayingType DEF BalanceInv, Balance
<1>5. CASE Start
  <2>1. ~Running /\ at' = "resize" /\ left' = m_numThreadsShouldExist
        /\ target' = m_numThreadsShouldExist
    BY <1>5 DEF Start, Begin
  <2> QED BY <1>2, <1>3, <1>4, <2>1 DEF Balance
<1>6. ASSUME NEW n \in 0 .. MaxThreads, SetNum(n) PROVE Balance'
  <2>1. CASE Running
    <3>1. at' = "resize" /\ left' = n - m_numThreadsShouldExist /\ target' = n
      BY <1>6, <2>1 DEF SetNum, Begin
    <3> QED BY <1>2, <1>3, <1>4, <2>1, <3>1 DEF Balance
  <2>2. CASE ~Running
    <3>1. at' = "out"
      BY <1>6, <2>2 DEF SetNum, Begin
    <3> QED BY <1>2, <1>3, <1>4, <2>2, <3>1 DEF Balance
  <2> QED BY <2>1, <2>2
<1>7. ASSUME NEW c, BeginStop(c) PROVE Balance'
  <2>1. CASE Running
    <3>1. at' = "resize" /\ left' = 0 - m_numThreadsShouldExist /\ target' = 0
      BY <1>7, <2>1 DEF BeginStop, Begin
    <3> QED BY <1>2, <1>3, <1>4, <2>1, <3>1 DEF Balance
  <2>2. CASE ~Running
    <3>1. at' = "clean"
      BY <1>7, <2>2 DEF BeginStop, Begin
    <3> QED BY <1>2, <1>3, <1>4, <2>2, <3>1 DEF Balance
  <2> QED BY <2>1, <2>2
<1> QED BY <1>5, <1>6, <1>7 DEF OwnerCalls

\* The thread in hand stays, and is counted as left until it is inserted.
LEMMA CreateBalance ==
    ASSUME BalanceInv, NEW t \in Threads, CreateThread(t)
    PROVE  Balance'
<1>1. /\ at = "resize" /\ at' = "insert" /\ pc[t] = "none" /\ pc' = [pc EXCEPT ![t] = "loop"]
      /\ UNCHANGED <<m_tasks, left, target>>
  BY DEF CreateThread, queueVars
<1>2. PoolTypeOK /\ pc \in [Threads -> ThreadState] /\ target \in Nat
  BY ThreadPoolAssumption DEF BalanceInv, KnownInv, PlaceInv, PoolTypeOK, OwnerPlace
<1>3. Staying' = Staying \cup {t} /\ t \notin Staying
  BY <1>1, <1>2 DEF Staying, Alive, Poisoned
<1>4. Cardinality(Staying') = Cardinality(Staying) + 1
  BY <1>2, <1>3, StayingType, FS_AddElement
<1> QED BY <1>1, <1>2, <1>4, StayingType DEF BalanceInv, Balance

\* Inserting it takes it off what is left; no thread and no poison changes.
LEMMA InsertBalance ==
    ASSUME BalanceInv, InsertThread
    PROVE  Balance'
<1>1. /\ at = "insert" /\ at' = "resize" /\ left' = left - 1
      /\ UNCHANGED <<pc, m_tasks, target>>
  BY DEF InsertThread, queueVars
<1>2. PoolTypeOK /\ target \in Nat
  BY ThreadPoolAssumption DEF BalanceInv, KnownInv, PlaceInv, OwnerPlace
<1>3. Staying' = Staying
  BY <1>1 DEF Staying, Alive, Poisoned
<1> QED BY <1>1, <1>2, <1>3, StayingType DEF BalanceInv, Balance

\* The queue gets a poisonous task for each thread that is to go.
LEMMA PoisonBalance ==
    ASSUME BalanceInv, AddPoison
    PROVE  Balance'
<1>1. PoolTypeOK /\ target \in Nat
  BY ThreadPoolAssumption DEF BalanceInv, KnownInv, PlaceInv, OwnerPlace
<1>2. /\ at = "resize" /\ at' = "resize" /\ left' = left + 1 /\ UNCHANGED <<pc, target>>
      /\ Enqueue(Poison)
  BY DEF AddPoison
<1>3. m_tasks'[Poison] = m_tasks[Poison] + 1
  BY <1>1, <1>2, EnqueueType, States DEF PoolTypeOK
<1>4. Staying' = Staying
  BY <1>2 DEF Staying, Alive, Poisoned
<1> QED BY <1>1, <1>2, <1>3, <1>4, StayingType DEF BalanceInv, Balance

\* The number is stored when the threads and the poison make it up; without an
\* entry there is no thread, so there is nothing left of either.
LEMMA ResizeBalance ==
    ASSUME BalanceInv, EndResize
    PROVE  Balance'
<1>1. PoolTypeOK /\ target \in Nat
  BY ThreadPoolAssumption DEF BalanceInv, KnownInv, PlaceInv, OwnerPlace
<1>2. /\ at = "resize" /\ left = 0 /\ UNCHANGED <<pc, m_threads>>
      /\ m_numThreadsShouldExist' = target
  BY DEF EndResize, mapVars
<1>3. m_tasks'[Poison] = m_tasks[Poison]
  BY <1>1, EnqueueOther, States DEF EndResize, queueVars
<1>4. Staying' = Staying /\ Running' = Running
  BY <1>2 DEF Staying, Alive, Poisoned, Running
<1>5. /\ Cardinality(Staying) \in Nat /\ m_tasks[Poison] \in Nat
      /\ Cardinality(Staying) - m_tasks[Poison] = target
  BY <1>1, <1>2, StayingType DEF BalanceInv, Balance
<1>6. CASE call \in {"SetNum", "Start"}
  <2>1. at' = "out"
    BY <1>6 DEF EndResize, Return
  <2>2. ~Running => Staying = {}
    BY <1>2, Names DEF Staying, Alive, Running, BalanceInv, KnownInv, Known, PlaceInv, OwnerPlace
  <2>3. ~Running => Cardinality(Staying) = 0
    BY <2>2, FS_EmptySet
  <2> QED BY <1>1, <1>2, <1>3, <1>4, <1>5, <2>1, <2>3 DEF Balance
<1>7. CASE call \notin {"SetNum", "Start"}
  <2>1. at' = "clean" /\ target = 0
    BY <1>2, <1>7 DEF EndResize, Goto, BalanceInv, KnownInv, PlaceInv, OwnerPlace
  <2> QED BY <1>3, <1>4, <1>5, <2>1 DEF Balance
<1> QED BY <1>6, <1>7

\* The stages of Stop push no poison and end no thread.
LEMMA StopBalance ==
    ASSUME BalanceInv, OwnerCleans \/ EndStop \/ EndDestroy \/ DeadlinePasses
    PROVE  Balance'
<1>1. UNCHANGED <<m_tasks, pc, m_threads, m_numThreadsShouldExist, left>>
  BY DEF OwnerCleans, EndStop, EndDestroy, DeadlinePasses, TakeMutex, ReleaseMutex, Goto,
     Return, queueVars, mapVars, callVars
<1>2. Staying' = Staying /\ Running' = Running
  BY <1>1 DEF Staying, Alive, Poisoned, Running
<1>3. /\ Cardinality(Staying) \in Nat /\ m_tasks[Poison] \in Nat
  BY StayingType DEF BalanceInv, KnownInv, PlaceInv
<1>4. CASE OwnerCleans
  <2>1. at \in {"clean", "walk"} /\ at' \in {"walk", "spin"}
    BY <1>4 DEF OwnerCleans, Goto
  <2> QED BY <1>1, <1>2, <1>3, <2>1 DEF BalanceInv, Balance
<1>5. CASE EndStop
  <2>1. at = "spin" /\ at' \in {"out", "cancel"} /\ m_numThreadsShouldExist = 0
    BY <1>5 DEF EndStop, Goto, Return, BalanceInv, KnownInv, PlaceInv, OwnerPlace
  <2> QED BY <1>1, <1>2, <1>3, <2>1 DEF BalanceInv, Balance
<1>6. CASE EndDestroy
  <2>1. at' = "out" /\ stopped' = "destroyed"
    BY <1>6 DEF EndDestroy, Return
  <2> QED BY <2>1 DEF Balance
<1>7. CASE DeadlinePasses
  <2>1. UNCHANGED <<at, target, stopped>>
    BY <1>7 DEF DeadlinePasses, callVars
  <2> QED BY <1>1, <1>2, <2>1, KeepsBalance DEF BalanceInv
<1> QED BY <1>4, <1>5, <1>6, <1>7

\* Nothing is claimed of the numbers while the destructor cancels.
LEMMA CancelBalance ==
    ASSUME BalanceInv, NEW t \in unvisited, CancelJoinThreadImp(t)
    PROVE  Balance'
<1>1. t \in Threads /\ m_threads[t].ptr /\ pc \in [Threads -> ThreadState] /\ PoolTypeOK
  BY DEF BalanceInv, KnownInv, Known, PlaceInv, PoolTypeOK
<1>2. /\ at = "cancel" /\ at' = "cancel" /\ m_tasks' = m_tasks
      /\ pc' = [pc EXCEPT ![t] = "ended"]
  BY <1>1 DEF CancelJoinThreadImp, callVars
<1>3. Staying' = Staying \ {t}
  BY <1>1, <1>2 DEF Staying, Alive, Poisoned
<1>4. Cardinality(Staying') <= Cardinality(Staying) /\ Cardinality(Staying') \in Nat
  BY <1>1, <1>3, StayingType, ThreadSets, FS_RemoveElement
<1> QED BY <1>1, <1>2, <1>4, StayingType DEF BalanceInv, Balance

\* Every step keeps the sum.
LEMMA NextBalance ==
    ASSUME BalanceInv, [PoolNext]_poolVars, LateInsert = FALSE
    PROVE  BalanceInv'
<1>1. KnownInv'
  BY NextKnown DEF BalanceInv
<1>2. ASSUME UNCHANGED poolVars PROVE Balance'
  BY <1>2 DEF BalanceInv, Balance, Staying, Alive, Poisoned, Running, poolVars, queueVars,
     mapVars, callVars, stopVars
<1>3. ASSUME PoolNext PROVE Balance'
  <2>1. ASSUME NEW task \in UserTasks, Add(task) PROVE Balance'
    <3>1. m_tasks'[Poison] = m_tasks[Poison]
      BY <2>1, EnqueueOther, States DEF Add, BalanceInv, KnownInv, PlaceInv
    <3>2. UNCHANGED <<pc, m_threads, at, left, target, m_numThreadsShouldExist, stopped>>
      BY <2>1 DEF Add, mapVars, callVars, stopVars
    <3> QED BY <3>1, <3>2, KeepsBalance DEF BalanceInv, Staying, Alive, Poisoned, Running
  <2>2. ASSUME OwnerCalls PROVE Balance'
    BY <2>2, CallsBalance
  <2>3. ASSUME OwnerStep PROVE Balance'
    <3>1. ASSUME NEW t \in unvisited, at = "walk", Visit(Owner, t) PROVE Balance'
      BY <3>1, VisitBalance
    <3> QED BY <2>3, <3>1, CreateBalance, InsertBalance, PoisonBalance, ResizeBalance,
               StopBalance, CancelBalance DEF OwnerStep
  <2>4. ASSUME DeadlinePasses PROVE Balance'
    BY <2>4, StopBalance
  <2>5. ASSUME NEW t \in Threads, PoolThread(t) \/ TaskReturns(t) \/ SpuriousWakeup(t)
        PROVE  Balance'
    <3>1. ASSUME NEW e \in unvisited, Visit(t, e) PROVE Balance'
      BY <3>1, VisitBalance, Names
    <3>2. ASSUME SpuriousWakeup(t) PROVE Balance'
      <4>1. UNCHANGED <<m_tasks, pc, m_threads, at, left, target, m_numThreadsShouldExist, stopped>>
        BY <3>2 DEF SpuriousWakeup, mapVars, callVars, stopVars
      <4> QED BY <4>1, KeepsBalance DEF BalanceInv, Staying, Alive, Poisoned, Running
    <3> QED BY <2>5, <3>1, <3>2, DequeueBalance, WorkerBalance DEF PoolThread
  <2> QED BY <1>3, <2>1, <2>2, <2>3, <2>4, <2>5 DEF PoolNext
<1> QED BY <1>1, <1>2, <1>3 DEF BalanceInv

\* Nothing stays, nothing is queued and nothing is left to do at first.
LEMMA InitBalance == ASSUME PoolInit PROVE BalanceInv
<1>1. KnownInv
  BY InitKnown
<1>2. Staying = {} /\ m_tasks[Poison] = 0 /\ ~Running /\ at = "out"
  BY States DEF PoolInit, Staying, Alive, Running, EmptyMap
<1> QED BY <1>1, <1>2, FS_EmptySet DEF BalanceInv, Balance

\* If no thread can end before AddThreadImp has inserted it: between two
\* operations the threads left when all poison is eaten are those that should
\* exist, so another SetNum adds no unnecessary poison.
THEOREM PoisonAddsUp ==
    ASSUME LateInsert = FALSE
    PROVE  PoolSpec => []ThreadsAddUp
<1>1. PoolInit => BalanceInv
  BY InitBalance
<1>2. BalanceInv /\ [PoolNext]_poolVars => BalanceInv'
  BY NextBalance
<1>3. BalanceInv => ThreadsAddUp
  BY DEF BalanceInv, Balance, KnownInv, PlaceInv, OwnerPlace, ThreadsAddUp, Staying
<1> QED BY <1>1, <1>2, <1>3, PTL DEF PoolSpec

---------------------------------------------------------------------------
(* No wakeup is lost *)

Sleepers == IsFiniteSet(QueueEntries) /\ NoLostWakeup

SleepInv == BalanceInv /\ Sleepers

\* A task more, or one less, is one entry more or one less.
LEMMA EntryPushed ==
    ASSUME m_tasks \in [Task -> Nat], NEW task \in Task,
           m_tasks' = [m_tasks EXCEPT ![task] = @ + 1], IsFiniteSet(QueueEntries)
    PROVE  IsFiniteSet(QueueEntries)' /\ QueueLength' = QueueLength + 1
<1> DEFINE e == <<task, m_tasks[task] + 1>>
<1>1. QueueEntries' = QueueEntries \cup {e} /\ e \notin QueueEntries
  <2>1. \A other \in Task : other # task => m_tasks'[other] = m_tasks[other]
    OBVIOUS
  <2>2. m_tasks[task] \in Nat /\ m_tasks'[task] = m_tasks[task] + 1
    OBVIOUS
  <2>3. 1 .. m_tasks'[task] = (1 .. m_tasks[task]) \cup {m_tasks[task] + 1}
    BY <2>2
  <2>4. e \notin QueueEntries
    BY <2>2 DEF QueueEntries
  <2>5. ASSUME NEW x \in QueueEntries' PROVE x \in QueueEntries \cup {e}
    BY <2>1, <2>3, <2>5 DEF QueueEntries
  <2>6. ASSUME NEW x \in QueueEntries \cup {e} PROVE x \in QueueEntries'
    BY <2>1, <2>3, <2>6 DEF QueueEntries
  <2> QED BY <2>4, <2>5, <2>6
<1> HIDE DEF e
<1>2. IsFiniteSet(QueueEntries \cup {e})
      /\ Cardinality(QueueEntries \cup {e}) = Cardinality(QueueEntries) + 1
  BY <1>1, FS_AddElement
<1> QED BY <1>1, <1>2 DEF QueueLength

\* The queue has one entry less when a task is popped.
LEMMA EntryPopped ==
    ASSUME m_tasks \in [Task -> Nat], NEW task \in Task, m_tasks[task] > 0,
           m_tasks' = [m_tasks EXCEPT ![task] = @ - 1], IsFiniteSet(QueueEntries)
    PROVE  IsFiniteSet(QueueEntries)' /\ QueueLength' = QueueLength - 1
<1> DEFINE e == <<task, m_tasks[task]>>
<1>1. QueueEntries' = QueueEntries \ {e} /\ e \in QueueEntries
  <2>1. \A other \in Task : other # task => m_tasks'[other] = m_tasks[other]
    OBVIOUS
  <2>2. m_tasks[task] \in Nat /\ m_tasks'[task] = m_tasks[task] - 1
    OBVIOUS
  <2>3. 1 .. m_tasks'[task] = (1 .. m_tasks[task]) \ {m_tasks[task]}
    BY <2>2
  <2>4. e \in QueueEntries
    BY <2>2 DEF QueueEntries
  <2>5. ASSUME NEW x \in QueueEntries' PROVE x \in QueueEntries \ {e}
    BY <2>1, <2>3, <2>5 DEF QueueEntries
  <2>6. ASSUME NEW x \in QueueEntries \ {e} PROVE x \in QueueEntries'
    BY <2>1, <2>3, <2>6 DEF QueueEntries
  <2> QED BY <2>4, <2>5, <2>6
<1> HIDE DEF e
<1>2. IsFiniteSet(QueueEntries \ {e})
      /\ Cardinality(QueueEntries \ {e}) = Cardinality(QueueEntries) - 1
  BY <1>1, FS_RemoveElement
<1> QED BY <1>1, <1>2 DEF QueueLength

\* An empty queue has no entries, and the poison is part of the queue.
LEMMA QueueSize ==
    ASSUME m_tasks \in [Task -> Nat], IsFiniteSet(QueueEntries)
    PROVE  /\ QueueLength \in Nat
           /\ Queued = {} => QueueLength = 0
           /\ m_tasks[Poison] <= QueueLength
<1>1. QueueLength \in Nat
  BY FS_CardinalityType DEF QueueLength
<1>2. ASSUME Queued = {} PROVE QueueLength = 0
  <2>1. \A task \in Task : m_tasks[task] = 0
    BY <1>2 DEF Queued
  <2>2. QueueEntries = {}
    BY <2>1 DEF QueueEntries
  <2> QED BY <2>2, FS_EmptySet DEF QueueLength
<1>3. m_tasks[Poison] <= QueueLength
  <2> DEFINE p == m_tasks[Poison]
             S == {Poison} \X (1 .. p)
  <2>1. p \in Nat
    BY States
  <2>2. IsFiniteSet(1 .. p) /\ Cardinality(1 .. p) = p
    BY <2>1, FS_Interval
  <2>3. IsFiniteSet({Poison}) /\ Cardinality({Poison}) = 1
    BY FS_Singleton
  <2>4. Cardinality(S) = 1 * p
    BY <2>2, <2>3, FS_Product
  <2>5. S \in SUBSET QueueEntries
    BY States DEF QueueEntries
  <2> HIDE DEF S, p
  <2>6. Cardinality(S) <= Cardinality(QueueEntries)
    BY <2>5, FS_Subset
  <2>7. m_tasks[Poison] = p
    BY DEF p
  <2> QED BY <2>1, <2>4, <2>6, <2>7 DEF QueueLength
<1> QED BY <1>1, <1>2, <1>3

\* The threads that are awake are finitely many.
LEMMA AwakeType == Awake \in SUBSET Threads /\ Cardinality(Awake) \in Nat /\ IsFiniteSet(Awake)
<1>1. Awake \in SUBSET Threads
  BY DEF Awake
<1> QED BY <1>1, ThreadSets

\* Nobody falls asleep, nobody leaves the queue, and the queue stays.
LEMMA KeepsSleepers ==
    ASSUME Sleepers, m_tasks' = m_tasks, waiting' \subseteq waiting, Awake \subseteq Awake',
           m_tasks \in [Task -> Nat]
    PROVE  Sleepers'
<1>1. QueueEntries' = QueueEntries /\ QueueLength' = QueueLength
  BY DEF QueueEntries, QueueLength
<1>2. Awake' \in SUBSET Threads /\ IsFiniteSet(Awake') /\ Cardinality(Awake') \in Nat
  <2>1. Awake' \in SUBSET Threads
    BY DEF Awake
  <2> QED BY <2>1, ThreadSets
<1>3. Cardinality(Awake) <= Cardinality(Awake')
  BY <1>2, FS_Subset
<1>4. QueueLength \in Nat /\ Cardinality(Awake) \in Nat
  BY QueueSize, AwakeType DEF Sleepers
<1> QED BY <1>1, <1>2, <1>3, <1>4 DEF Sleepers, NoLostWakeup

\* notify_one wakes a thread for the task.
LEMMA EnqueueSleepers ==
    ASSUME SleepInv, NEW task \in Task, Enqueue(task), pc' = pc
    PROVE  Sleepers'
<1>1. m_tasks \in [Task -> Nat] /\ waiting \subseteq {t \in Threads : pc[t] = "loop"}
  BY DEF SleepInv, BalanceInv, KnownInv, PlaceInv, PoolTypeOK
<1>2. IsFiniteSet(QueueEntries)' /\ QueueLength' = QueueLength + 1
  BY <1>1, EntryPushed DEF Enqueue, SleepInv, Sleepers
<1>3. CASE waiting = {}
  BY <1>2, <1>3 DEF Enqueue, Sleepers, NoLostWakeup
<1>4. CASE waiting # {}
  <2>1. PICK t \in waiting : waiting' = waiting \ {t}
    BY <1>4 DEF Enqueue
  <2>2. Awake' = Awake \cup {t} /\ t \notin Awake
    BY <1>1, <2>1 DEF Awake
  <2>3. Cardinality(Awake') = Cardinality(Awake) + 1
    BY <2>2, AwakeType, FS_AddElement
  <2>4. QueueLength <= Cardinality(Awake)
    BY <1>4 DEF SleepInv, Sleepers, NoLostWakeup
  <2>5. QueueLength \in Nat /\ Cardinality(Awake) \in Nat
    BY <1>1, QueueSize, AwakeType DEF SleepInv, Sleepers
  <2> QED BY <1>2, <2>3, <2>4, <2>5 DEF Sleepers, NoLostWakeup
<1> QED BY <1>3, <1>4

\* A thread sleeps on an empty queue, or takes one task itself.
LEMMA DequeueSleepers ==
    ASSUME SleepInv, NEW t \in Threads, Dequeue(t)
    PROVE  Sleepers'
<1>1. /\ m_tasks \in [Task -> Nat] /\ waiting \subseteq {u \in Threads : pc[u] = "loop"}
      /\ pc \in [Threads -> ThreadState] /\ IsFiniteSet(QueueEntries)
  BY DEF SleepInv, Sleepers, BalanceInv, KnownInv, PlaceInv, PoolTypeOK
<1>2. CASE DequeueWaits(t)
  <2>1. m_tasks' = m_tasks /\ Queued = {}
    BY <1>2 DEF DequeueWaits
  <2>2. QueueEntries' = QueueEntries /\ QueueLength' = QueueLength /\ QueueLength = 0
    BY <1>1, <2>1, QueueSize DEF QueueEntries, QueueLength
  <2>3. Cardinality(Awake') \in Nat
    <3>1. Awake' \in SUBSET Threads
      BY DEF Awake
    <3> QED BY <3>1, ThreadSets
  <2> QED BY <1>1, <2>2, <2>3 DEF Sleepers, NoLostWakeup
<1>3. ASSUME NEW task \in Task, DequeueTakes(task),
             pc' = [pc EXCEPT ![t] = IF task = Poison THEN "poisoned"
                                     ELSE IF task = Cleanup THEN "toClean" ELSE task]
      PROVE  Sleepers'
  <2>1. m_tasks' = [m_tasks EXCEPT ![task] = @ - 1] /\ m_tasks[task] > 0 /\ waiting' = waiting
    BY <1>3 DEF DequeueTakes, IsTop, Queued
  <2>2. IsFiniteSet(QueueEntries)' /\ QueueLength' = QueueLength - 1
    BY <1>1, <2>1, EntryPopped
  <2>3. pc'[t] # "loop"
    BY <1>1, <1>3, States DEF Task, PoolPlaces
  <2>4. Awake' = Awake \ {t} /\ t \in Awake
    BY <1>1, <1>3, <2>1, <2>3 DEF Awake, Dequeue
  <2>5. Cardinality(Awake') = Cardinality(Awake) - 1
    BY <2>4, AwakeType, FS_RemoveElement
  <2>6. QueueLength \in Nat /\ Cardinality(Awake) \in Nat
    BY <1>1, QueueSize, AwakeType
  <2> QED BY <2>1, <2>2, <2>5, <2>6 DEF SleepInv, Sleepers, NoLostWakeup
<1> QED BY <1>2, <1>3 DEF Dequeue

\* While the destructor cancels threads nobody sleeps: there is poison for
\* every thread, so a sleeper would be one more than the tasks allow.
LEMMA NobodySleepsAtCancel ==
    ASSUME SleepInv, at = "cancel"
    PROVE  waiting = {}
<1>1. /\ m_tasks \in [Task -> Nat] /\ waiting \subseteq {u \in Threads : pc[u] = "loop"}
      /\ IsFiniteSet(QueueEntries) /\ PoolTypeOK
  BY DEF SleepInv, Sleepers, BalanceInv, KnownInv, PlaceInv, PoolTypeOK
<1> SUFFICES ASSUME waiting # {} PROVE FALSE
  OBVIOUS
<1>2. PICK t \in waiting : TRUE
  OBVIOUS
<1>3. Awake \cup {t} \in SUBSET Staying /\ t \notin Awake
  BY <1>1 DEF Awake, Staying, Alive, Poisoned
<1>4. Cardinality(Awake \cup {t}) = Cardinality(Awake) + 1
  BY <1>3, AwakeType, FS_AddElement
<1>5. Cardinality(Awake \cup {t}) <= Cardinality(Staying)
  BY <1>1, <1>3, StayingType, FS_Subset
<1>6. /\ Cardinality(Staying) <= m_tasks[Poison] /\ m_tasks[Poison] <= QueueLength
      /\ QueueLength <= Cardinality(Awake)
  BY <1>1, QueueSize DEF SleepInv, Sleepers, NoLostWakeup, BalanceInv, Balance
<1>7. /\ Cardinality(Awake) \in Nat /\ Cardinality(Staying) \in Nat /\ m_tasks[Poison] \in Nat
      /\ QueueLength \in Nat
  BY <1>1, AwakeType, StayingType, QueueSize
<1> QED BY <1>4, <1>5, <1>6, <1>7

\* Steps of other threads take nobody off the queue.
LEMMA OtherSleepers ==
    ASSUME SleepInv,
           \/ OwnerCalls \/ InsertThread \/ OwnerCleans \/ EndStop \/ EndDestroy
           \/ DeadlinePasses
           \/ \E t \in Threads : \/ CreateThread(t) \/ PoisonTaken(t) \/ ThreadEnds(t)
                                 \/ CleanupTaskImp(t) \/ TaskReturns(t) \/ SpuriousWakeup(t)
           \/ \E who, t \in unvisited \cup Threads \cup {Owner} : t \in unvisited /\ Visit(who, t)
    PROVE  Sleepers'
<1>1. m_tasks \in [Task -> Nat] /\ pc \in [Threads -> ThreadState]
      /\ waiting \subseteq {u \in Threads : pc[u] = "loop"}
  BY DEF SleepInv, BalanceInv, KnownInv, PlaceInv, PoolTypeOK
<1>2. ASSUME OwnerCalls \/ InsertThread \/ OwnerCleans \/ EndStop \/ EndDestroy \/ DeadlinePasses
      PROVE  UNCHANGED <<m_tasks, waiting, pc>>
  BY <1>2 DEF OwnerCalls, Start, SetNum, BeginStop, InsertThread, OwnerCleans, EndStop,
     EndDestroy, DeadlinePasses, queueVars
<1>3. ASSUME NEW t \in Threads,
             \/ CreateThread(t) \/ PoisonTaken(t) \/ ThreadEnds(t)
             \/ CleanupTaskImp(t) \/ TaskReturns(t)
      PROVE  /\ UNCHANGED <<m_tasks, waiting>> /\ pc[t] # "loop"
             /\ \E x : pc' = [pc EXCEPT ![t] = x]
  BY <1>3, States DEF CreateThread, PoisonTaken, ThreadEnds, CleanupTaskImp, TaskReturns,
     queueVars, PoolPlaces
<1>4. ASSUME NEW t \in Threads, SpuriousWakeup(t)
      PROVE  m_tasks' = m_tasks /\ waiting' \subseteq waiting /\ pc' = pc
  BY <1>4 DEF SpuriousWakeup
<1>5. ASSUME NEW who, NEW t, Visit(who, t)
      PROVE  UNCHANGED <<m_tasks, waiting, pc>>
  BY <1>5 DEF Visit, ProcessEnds, queueVars
<1>6. m_tasks' = m_tasks /\ waiting' \subseteq waiting /\ Awake \subseteq Awake'
  <2>1. CASE m_tasks' = m_tasks /\ waiting' \subseteq waiting /\ pc' = pc
    BY <2>1 DEF Awake
  <2>2. ASSUME NEW t \in Threads, UNCHANGED <<m_tasks, waiting>>, pc[t] # "loop",
               NEW x, pc' = [pc EXCEPT ![t] = x]
        PROVE  m_tasks' = m_tasks /\ waiting' \subseteq waiting /\ Awake \subseteq Awake'
    BY <1>1, <2>2 DEF Awake
  <2> QED BY <1>2, <1>3, <1>4, <1>5, <2>1, <2>2
<1> QED BY <1>1, <1>6, KeepsSleepers DEF SleepInv

\* Every step leaves enough threads awake for what is queued.
LEMMA NextSleep ==
    ASSUME SleepInv, [PoolNext]_poolVars, LateInsert = FALSE
    PROVE  SleepInv'
<1>1. BalanceInv'
  BY NextBalance DEF SleepInv
<1>2. ASSUME UNCHANGED poolVars PROVE Sleepers'
  BY <1>2 DEF SleepInv, Sleepers, NoLostWakeup, QueueLength, QueueEntries, Awake, poolVars,
     queueVars
<1>3. ASSUME PoolNext PROVE Sleepers'
  <2>1. ASSUME NEW task \in UserTasks, Add(task) PROVE Sleepers'
    BY <2>1, EnqueueSleepers, States DEF Add
  <2>2. ASSUME OwnerStep PROVE Sleepers'
    <3>1. ASSUME AddPoison PROVE Sleepers'
      BY <3>1, EnqueueSleepers, States DEF AddPoison
    <3>2. ASSUME EndResize PROVE Sleepers'
      <4>1. CASE Enqueue(Cleanup)
        BY <3>2, <4>1, EnqueueSleepers, States DEF EndResize
      <4>2. CASE UNCHANGED queueVars
        BY <3>2, <4>2 DEF EndResize, SleepInv, Sleepers, NoLostWakeup, QueueLength,
           QueueEntries, Awake, queueVars
      <4> QED BY <3>2, <4>1, <4>2 DEF EndResize
    <3>3. ASSUME NEW t \in unvisited, CancelJoinThreadImp(t) PROVE Sleepers'
      <4>1. at = "cancel" /\ m_tasks' = m_tasks /\ waiting' \subseteq waiting
        BY <3>3 DEF CancelJoinThreadImp, ProcessEnds, queueVars
      <4>2. waiting' = {}
        BY <4>1, NobodySleepsAtCancel
      <4> QED BY <4>1, <4>2 DEF SleepInv, Sleepers, NoLostWakeup, QueueEntries
    <3>4. ASSUME NEW t \in unvisited, Visit(Owner, t) PROVE Sleepers'
      BY <3>4, OtherSleepers
    <3> QED BY <2>2, <3>1, <3>2, <3>3, <3>4, OtherSleepers DEF OwnerStep
  <2>3. ASSUME NEW t \in Threads, PoolThread(t) \/ TaskReturns(t) \/ SpuriousWakeup(t)
        PROVE  Sleepers'
    BY <2>3, DequeueSleepers, OtherSleepers DEF PoolThread
  <2> QED BY <1>3, <2>1, <2>2, <2>3, OtherSleepers DEF PoolNext
<1> QED BY <1>1, <1>2, <1>3 DEF SleepInv

\* Nobody sleeps at first.
LEMMA InitSleep == ASSUME PoolInit PROVE SleepInv
<1>1. QueueEntries = {} /\ waiting = {}
  BY DEF PoolInit, QueueEntries
<1> QED BY <1>1, InitBalance, FS_EmptySet DEF SleepInv, Sleepers, NoLostWakeup

\* The pool's whole invariant.
LEMMA SleepAlways ==
    ASSUME LateInsert = FALSE
    PROVE  PoolSpec => []SleepInv
<1>1. PoolInit => SleepInv
  BY InitSleep
<1>2. SleepInv /\ [PoolNext]_poolVars => SleepInv'
  BY NextSleep
<1> QED BY <1>1, <1>2, PTL DEF PoolSpec

\* As long as some thread sleeps, the threads that are awake and on their way to
\* the queue are at least as many as the tasks in it: notify_one, one for each
\* task, is enough.
THEOREM WakeupsSuffice ==
    ASSUME LateInsert = FALSE
    PROVE  PoolSpec => []NoLostWakeup
<1>1. SleepInv => NoLostWakeup
  BY DEF SleepInv, Sleepers
<1> QED BY <1>1, SleepAlways, PTL

---------------------------------------------------------------------------
(* The Encryptor: every event is in one place *)

\* The handles of the tasks that have ended and whose callback has not.
Signalled == {m_pipe[i] : i \in DOMAIN m_pipe} \cup ({usrHandle} \ {NoHandle})

\* A worker has gone through the first parts of the buffer, or through all.
UpToPos(b) == \A i \in 1 .. BuffParts : (buff[b][i] = wanted[b]) <=> (i <= pos[b])
Whole(b) == pos[b] = 0 /\ \A i \in 1 .. BuffParts : buff[b][i] = wanted[b]

EventTypes ==
    /\ m_handleCounter \in 0 .. MaxHandles
    /\ \A h \in DOMAIN m_events : h \in 0 .. m_handleCounter - 1 /\ m_events[h] \in Buffers
    /\ m_pipe \in Seq(Handle)
    /\ taskHandle \in [Buffers -> Handle \cup {NoHandle}]
    /\ buff \in [Buffers -> [1 .. BuffParts -> BOOLEAN]]
    /\ pos \in [Buffers -> 0 .. BuffParts]
    /\ wanted \in [Buffers -> BOOLEAN]

\* A buffer has one event, whose handle is in its task; its task is in the queue,
\* with one worker, or over and signalled once, and its contents are as far as
\* the task is.  Only cancelling a worker takes a task away.
EventPlaces ==
    /\ \A h \in DOMAIN m_events : taskHandle[m_events[h]] = h
    /\ \A b \in Buffers :
           m_tasks[b] > 0 => /\ m_tasks[b] = 1 /\ InUse(b)
                             /\ pos[b] = 0 /\ UpToPos(b)
                             /\ \A t \in Threads : pc[t] # b
    /\ \A t \in Threads :
           pc[t] \in Buffers => /\ InUse(pc[t]) /\ UpToPos(pc[t])
                                /\ \A u \in Threads : pc[u] = pc[t] => u = t
    /\ \A h \in Signalled : /\ h \in DOMAIN m_events /\ m_tasks[m_events[h]] = 0
                            /\ Whole(m_events[h])
                            /\ \A t \in Threads : pc[t] # m_events[h]
    /\ \A i, j \in DOMAIN m_pipe : m_pipe[i] = m_pipe[j] => i = j
    /\ \A i \in DOMAIN m_pipe : m_pipe[i] # usrHandle
    /\ \A b \in Buffers : InUse(b) \/ Whole(b)
    /\ m_eventsLock => usrHandle # NoHandle
    /\ (at # "cancel" /\ stopped # "destroyed") =>
           \A h \in DOMAIN m_events :
               \/ m_tasks[m_events[h]] > 0
               \/ \E t \in Threads : pc[t] = m_events[h]
               \/ h \in Signalled

EventInv == SleepInv /\ EventTypes /\ EventPlaces

\* A step of the pool that neither takes nor adds nor ends a user's task; it may
\* cancel one while the pool is destroyed.
PoolKeepsTasks ==
    /\ \A b \in Buffers : m_tasks'[b] = m_tasks[b]
    /\ \A t \in Threads : pc'[t] \in Buffers => pc'[t] = pc[t]
    /\ (at' # "cancel" /\ stopped' # "destroyed") =>
           /\ at # "cancel" /\ stopped # "destroyed"
           /\ \A t \in Threads : pc[t] \in Buffers => pc'[t] = pc[t]

\* Such a step leaves the events where they are.
LEMMA KeepsEvents ==
    ASSUME EventTypes, EventPlaces, PoolKeepsTasks, Unseen
    PROVE  EventTypes' /\ EventPlaces'
<1>1. UNCHANGED <<m_events, m_handleCounter, m_pipe, m_eventsLock, usrHandle, taskHandle,
                  buff, pos, wanted>>
  BY DEF Unseen, eventVars, buffVars
<1>2. EventTypes'
  BY <1>1 DEF EventTypes
<1>3. Signalled' = Signalled
  BY <1>1 DEF Signalled
<1>4. \A b : InUse(b)' <=> InUse(b)
  BY <1>1 DEF InUse
<1>5. \A b : (UpToPos(b)' <=> UpToPos(b)) /\ (Whole(b)' <=> Whole(b))
  BY <1>1 DEF UpToPos, Whole
<1>6. \A h \in DOMAIN m_events : m_events[h] \in Buffers
  BY DEF EventTypes
<1>7. /\ \A b \in Buffers :
           m_tasks'[b] > 0 => /\ m_tasks'[b] = 1 /\ InUse(b)'
                              /\ pos'[b] = 0 /\ UpToPos(b)'
                              /\ \A t \in Threads : pc'[t] # b
  BY <1>1, <1>4, <1>5 DEF EventPlaces, PoolKeepsTasks
<1>8. \A t \in Threads :
           pc'[t] \in Buffers => /\ InUse(pc[t])' /\ UpToPos(pc[t])' /\ pc'[t] = pc[t]
                                 /\ \A u \in Threads : pc'[u] = pc'[t] => u = t
  BY <1>1, <1>4, <1>5 DEF EventPlaces, PoolKeepsTasks
<1>9. \A h \in Signalled : /\ h \in DOMAIN m_events /\ m_tasks'[m_events[h]] = 0
                           /\ Whole(m_events[h])'
                           /\ \A t \in Threads : pc'[t] # m_events[h]
  BY <1>1, <1>5, <1>6 DEF EventPlaces, PoolKeepsTasks
<1>10. (at' # "cancel" /\ stopped' # "destroyed") =>
           \A h \in DOMAIN m_events :
               \/ m_tasks'[m_events[h]] > 0
               \/ \E t \in Threads : pc'[t] = m_events[h]
               \/ h \in Signalled
  BY <1>6 DEF EventPlaces, PoolKeepsTasks
<1> QED BY <1>1, <1>2, <1>3, <1>4, <1>5, <1>7, <1>8, <1>9, <1>10 DEF EventPlaces

\* The owner's operations, but for Add, and what the pool does in its threads
\* besides taking tasks.
LEMMA OwnerKeepsTasks ==
    ASSUME SleepInv, OwnerCalls \/ OwnerStep \/ DeadlinePasses
    PROVE  PoolKeepsTasks
<1>1. PoolTypeOK /\ OwnerPlace /\ pc \in [Threads -> ThreadState] /\ m_tasks \in [Task -> Nat]
  BY DEF SleepInv, BalanceInv, KnownInv, PlaceInv, PoolTypeOK
<1>2. ASSUME NEW task \in {Poison, Cleanup}, Enqueue(task)
      PROVE  \A b \in Buffers : m_tasks'[b] = m_tasks[b]
  BY <1>1, <1>2, States DEF Enqueue, Buffers
<1>3. CASE OwnerCalls \/ DeadlinePasses
  <2>1. UNCHANGED <<m_tasks, pc, stopped>>
    BY <1>3 DEF OwnerCalls, Start, SetNum, BeginStop, DeadlinePasses, queueVars, stopVars
  <2>2. at' # "cancel" => at # "cancel"
    BY <1>1, <1>3 DEF OwnerCalls, Start, SetNum, BeginStop, Begin, Idle, DeadlinePasses,
       callVars, OwnerPlace
  <2> QED BY <2>1, <2>2 DEF PoolKeepsTasks
<1>4. ASSUME NEW t \in Threads, CreateThread(t) PROVE PoolKeepsTasks
  <2>1. /\ UNCHANGED <<m_tasks, stopped>> /\ at = "resize" /\ pc[t] = "none"
        /\ pc' = [pc EXCEPT ![t] = "loop"]
    BY <1>4 DEF CreateThread, queueVars, stopVars
  <2>2. "loop" \notin Buffers /\ "none" \notin Buffers
    BY States DEF Buffers, PoolPlaces
  <2> QED BY <1>1, <2>1, <2>2 DEF PoolKeepsTasks
<1>5. CASE InsertThread \/ AddPoison \/ EndResize
  <2>1. at \in {"resize", "insert"}
    BY <1>5 DEF InsertThread, AddPoison, EndResize, stopVars
  <2>2. \A b \in Buffers : m_tasks'[b] = m_tasks[b]
    BY <1>2, <1>5 DEF InsertThread, AddPoison, EndResize, queueVars
  <2>3. UNCHANGED <<pc, stopped>>
    BY <1>5 DEF InsertThread, AddPoison, EndResize, stopVars
  <2> QED BY <2>1, <2>2, <2>3 DEF PoolKeepsTasks
<1>6. CASE OwnerCleans \/ EndStop \/ EndDestroy
  <2>1. UNCHANGED <<m_tasks, pc>>
    BY <1>6 DEF OwnerCleans, EndStop, EndDestroy, queueVars
  <2>2. /\ at' # "cancel" => at # "cancel" \/ stopped' = "destroyed"
        /\ stopped # "destroyed"
    BY <1>1, <1>6 DEF OwnerCleans, EndStop, EndDestroy, OwnerPlace
  <2> QED BY <2>1, <2>2 DEF PoolKeepsTasks
<1>7. ASSUME NEW t \in unvisited, Visit(Owner, t) PROVE PoolKeepsTasks
  BY <1>7 DEF Visit, ProcessEnds, PoolKeepsTasks, queueVars, callVars, stopVars
<1>8. ASSUME NEW t \in unvisited, CancelJoinThreadImp(t) PROVE PoolKeepsTasks
  <2>1. at' = "cancel" /\ m_tasks' = m_tasks
        /\ (pc' = pc \/ pc' = [pc EXCEPT ![t] = "ended"])
    BY <1>8 DEF CancelJoinThreadImp, ProcessEnds, queueVars, callVars
  <2>2. "ended" \notin Buffers
    BY States DEF Buffers, PoolPlaces
  <2> QED BY <1>1, <2>1, <2>2 DEF PoolKeepsTasks
<1> QED BY <1>3, <1>4, <1>5, <1>6, <1>7, <1>8 DEF OwnerStep

\* What a worker does outside the users' tasks leaves those where they are.
LEMMA WorkerKeepsTasks ==
    ASSUME SleepInv, NEW t \in Threads,
           \/ PoisonTaken(t) \/ ThreadEnds(t) \/ CleanupTaskImp(t) \/ SpuriousWakeup(t)
           \/ \E e \in unvisited : Visit(t, e)
    PROVE  PoolKeepsTasks
<1>1. pc \in [Threads -> ThreadState]
  BY DEF SleepInv, BalanceInv, KnownInv, PlaceInv, PoolTypeOK
<1>2. UNCHANGED <<m_tasks, at, stopped>>
  BY DEF PoisonTaken, ThreadEnds, CleanupTaskImp, SpuriousWakeup, Visit, ProcessEnds,
     queueVars, callVars, stopVars
<1>3. \/ pc' = pc
      \/ pc[t] \in PoolPlaces /\ \E x \in PoolPlaces : pc' = [pc EXCEPT ![t] = x]
  BY DEF PoisonTaken, ThreadEnds, CleanupTaskImp, SpuriousWakeup, Visit, ProcessEnds, PoolPlaces
<1>4. Buffers \cap PoolPlaces = {}
  BY States DEF Buffers
<1> QED BY <1>1, <1>2, <1>3, <1>4 DEF PoolKeepsTasks

\* A worker takes a buffer's task.
LEMMA DequeueEvents ==
    ASSUME EventInv, NEW t \in Threads, Dequeue(t), Unseen
    PROVE  EventTypes' /\ EventPlaces'
<1>1. /\ m_tasks \in [Task -> Nat] /\ pc \in [Threads -> ThreadState]
      /\ pc[t] = "loop" /\ UNCHANGED <<at, stopped>>
  BY DEF Dequeue, EventInv, SleepInv, BalanceInv, KnownInv, PlaceInv, PoolTypeOK, callVars,
     stopVars
<1>2. Buffers \cap PoolPlaces = {} /\ Buffers \subseteq Task
      /\ Poison \notin Buffers /\ Cleanup \notin Buffers
  BY States DEF Buffers
<1>3. CASE DequeueWaits(t) /\ UNCHANGED pc
  <2>1. PoolKeepsTasks
    BY <1>1, <1>3 DEF DequeueWaits, PoolKeepsTasks
  <2> QED BY <2>1, KeepsEvents DEF EventInv
<1>4. ASSUME NEW task \in Task, DequeueTakes(task), task \notin Buffers,
             pc' = [pc EXCEPT ![t] = IF task = Poison THEN "poisoned"
                                     ELSE IF task = Cleanup THEN "toClean" ELSE task]
      PROVE  EventTypes' /\ EventPlaces'
  <2>1. m_tasks' = [m_tasks EXCEPT ![task] = @ - 1]
    BY <1>4 DEF DequeueTakes
  <2>2. \A b \in Buffers : m_tasks'[b] = m_tasks[b]
    BY <1>1, <1>2, <1>4, <2>1
  <2>3. pc'[t] \in PoolPlaces /\ \A u \in Threads : u # t => pc'[u] = pc[u]
    BY <1>1, <1>4 DEF Task, Buffers, PoolPlaces
  <2>4. pc[t] \in PoolPlaces
    BY <1>1 DEF PoolPlaces
  <2>5. PoolKeepsTasks
    BY <1>1, <1>2, <2>2, <2>3, <2>4 DEF PoolKeepsTasks
  <2> QED BY <2>5, KeepsEvents DEF EventInv
<1>5. ASSUME NEW b \in Buffers, DequeueTakes(b), pc' = [pc EXCEPT ![t] = b]
      PROVE  EventTypes' /\ EventPlaces'
  <2>1. m_tasks' = [m_tasks EXCEPT ![b] = @ - 1] /\ m_tasks[b] > 0
    BY <1>5 DEF DequeueTakes, IsTop, Queued
  <2>2. /\ m_tasks[b] = 1 /\ InUse(b) /\ pos[b] = 0 /\ UpToPos(b)
        /\ \A u \in Threads : pc[u] # b
    BY <2>1 DEF EventInv, EventPlaces
  <2>3. m_tasks'[b] = 0 /\ \A c \in Buffers : c # b => m_tasks'[c] = m_tasks[c]
    BY <1>1, <1>2, <2>1, <2>2
  <2>4. pc'[t] = b /\ pc[t] \notin Buffers /\ \A u \in Threads : u # t => pc'[u] = pc[u]
    BY <1>1, <1>2, <1>5 DEF PoolPlaces
  <2>5. UNCHANGED <<m_events, m_handleCounter, m_pipe, m_eventsLock, usrHandle, taskHandle,
                    buff, pos, wanted>>
    BY DEF Unseen, eventVars, buffVars
  <2>6. EventTypes'
    BY <2>5 DEF EventInv, EventTypes
  <2>7. Signalled' = Signalled
    BY <2>5 DEF Signalled
  <2>8. \A c : InUse(c)' <=> InUse(c)
    BY <2>5 DEF InUse
  <2>9. \A c : (UpToPos(c)' <=> UpToPos(c)) /\ (Whole(c)' <=> Whole(c))
    BY <2>5 DEF UpToPos, Whole
  <2>10. \A h \in DOMAIN m_events : m_events[h] \in Buffers
    BY DEF EventInv, EventTypes
  <2>11. \A c \in Buffers :
           m_tasks'[c] > 0 => /\ m_tasks'[c] = 1 /\ InUse(c)'
                              /\ pos'[c] = 0 /\ UpToPos(c)'
                              /\ \A u \in Threads : pc'[u] # c
    BY <2>2, <2>3, <2>4, <2>5, <2>8, <2>9 DEF EventInv, EventPlaces
  <2>12. \A u \in Threads :
           pc'[u] \in Buffers => \A v \in Threads : pc'[v] = pc'[u] => v = u
    BY <2>2, <2>4 DEF EventInv, EventPlaces
  <2>13. \A u \in Threads, c \in Buffers : pc'[u] = c => InUse(c)' /\ UpToPos(c)'
    BY <2>2, <2>4, <2>8, <2>9 DEF EventInv, EventPlaces
  <2>14. \A h \in Signalled : /\ h \in DOMAIN m_events /\ m_tasks'[m_events[h]] = 0
                              /\ Whole(m_events[h])
                              /\ \A u \in Threads : pc'[u] # m_events[h]
    BY <2>1, <2>3, <2>4, <2>10 DEF EventInv, EventPlaces
  <2>15. (at' # "cancel" /\ stopped' # "destroyed") =>
           \A h \in DOMAIN m_events :
               \/ m_tasks'[m_events[h]] > 0
               \/ \E u \in Threads : pc'[u] = m_events[h]
               \/ h \in Signalled
    BY <1>1, <2>3, <2>4, <2>10 DEF EventInv, EventPlaces
  <2>16. \A u \in Threads : pc'[u] \in Buffers => InUse(pc[u])' /\ UpToPos(pc[u])'
    BY <2>13
  <2> QED BY <2>5, <2>6, <2>7, <2>8, <2>9, <2>11, <2>12, <2>14, <2>15, <2>16
          DEF EventInv, EventPlaces
<1> QED BY <1>2, <1>3, <1>4, <1>5 DEF Dequeue

\* A new event, with a handle no event has had, and a task for it.
LEMMA SendEvents ==
    ASSUME EventInv, NEW b \in Buffers, SendTaskToThreadPoolIMP(b)
    PROVE  m_tasks[b] = 0 /\ EventTypes' /\ EventPlaces'
<1> DEFINE h0 == m_handleCounter
<1>1. /\ ~InUse(b) /\ h0 < MaxHandles
      /\ m_events' = Put(m_events, h0, b)
      /\ taskHandle' = [taskHandle EXCEPT ![b] = h0]
      /\ m_handleCounter' = h0 + 1
      /\ wanted' = [wanted EXCEPT ![b] = ~@]
      /\ UNCHANGED <<m_pipe, m_eventsLock, usrHandle, buff, pos, pc, at, stopped>>
      /\ m_tasks' = [m_tasks EXCEPT ![b] = @ + 1]
      /\ at # "cancel" /\ stopped # "destroyed"
  BY DEF SendTaskToThreadPoolIMP, SetEvent, Add, Enqueue, Idle, callVars, stopVars, EventInv,
     SleepInv, BalanceInv, KnownInv, PlaceInv, OwnerPlace
<1>2. m_tasks \in [Task -> Nat] /\ b \in Task
  BY States DEF EventInv, SleepInv, BalanceInv, KnownInv, PlaceInv, PoolTypeOK, Buffers
<1>3. m_tasks[b] = 0
  BY <1>1, <1>2 DEF EventInv, EventPlaces
<1>4. m_tasks'[b] = 1 /\ \A c \in Buffers : c # b => m_tasks'[c] = m_tasks[c]
  BY <1>1, <1>2, <1>3 DEF Buffers, Task
<1>5. h0 \in 0 .. MaxHandles /\ h0 \notin DOMAIN m_events /\ MaxHandles \in Nat
  BY EncryptorAssumption DEF EventInv, EventTypes
<1>6. \A h \in DOMAIN m_events : h \in 0 .. h0 - 1 /\ m_events[h] \in Buffers /\ m_events[h] # b
  BY <1>1 DEF EventInv, EventTypes, InUse
<1>7. /\ DOMAIN m_events' = DOMAIN m_events \cup {h0}
      /\ m_events'[h0] = b
      /\ \A h \in DOMAIN m_events : m_events'[h] = m_events[h]
  BY <1>1, <1>5 DEF Put
<1>8. /\ taskHandle \in [Buffers -> Handle \cup {NoHandle}]
      /\ buff \in [Buffers -> [1 .. BuffParts -> BOOLEAN]]
      /\ pos \in [Buffers -> 0 .. BuffParts] /\ wanted \in [Buffers -> BOOLEAN]
  BY DEF EventInv, EventTypes
<1>9. EventTypes'
  <2>1. m_handleCounter' \in 0 .. MaxHandles
    BY <1>1, <1>5
  <2>2. \A h \in DOMAIN m_events' : h \in 0 .. m_handleCounter' - 1 /\ m_events'[h] \in Buffers
    BY <1>1, <1>5, <1>6, <1>7
  <2>3. taskHandle' \in [Buffers -> Handle \cup {NoHandle}]
    BY <1>1, <1>5, <1>8 DEF Handle
  <2>4. wanted' \in [Buffers -> BOOLEAN]
    BY <1>1, <1>8
  <2> QED BY <1>1, <2>1, <2>2, <2>3, <2>4 DEF EventInv, EventTypes
<1>10. /\ \A c \in Buffers : c # b => wanted'[c] = wanted[c]
       /\ wanted'[b] = ~wanted[b]
  BY <1>1, <1>8
<1>11. Whole(b)
  BY <1>1 DEF EventInv, EventPlaces
<1>12. UpToPos(b)' /\ pos'[b] = 0
  <2>1. ASSUME NEW i \in 1 .. BuffParts PROVE buff[b][i] # ~wanted[b] /\ ~(i <= pos[b])
    <3>1. buff[b][i] = wanted[b] /\ pos[b] = 0
      BY <1>11, <2>1 DEF Whole
    <3>2. wanted[b] \in BOOLEAN
      BY <1>8
    <3> QED BY <2>1, <3>1, <3>2
  <2>2. \A i \in 1 .. BuffParts : (buff'[b][i] = wanted'[b]) <=> (i <= pos'[b])
    BY <1>1, <1>10, <2>1
  <2> QED BY <1>1, <1>11, <2>2 DEF UpToPos, Whole
<1>13. \A c \in Buffers : c # b => (UpToPos(c)' <=> UpToPos(c)) /\ (Whole(c)' <=> Whole(c))
  BY <1>1, <1>10 DEF UpToPos, Whole
<1>14. InUse(b)' /\ \A c : InUse(c) => InUse(c)'
  BY <1>7 DEF InUse
<1>15. Signalled' = Signalled
  BY <1>1 DEF Signalled
<1>16. \A h \in DOMAIN m_events' : taskHandle'[m_events'[h]] = h
  BY <1>1, <1>6, <1>7, <1>8 DEF EventInv, EventPlaces
<1>17. \A c \in Buffers :
           m_tasks'[c] > 0 => /\ m_tasks'[c] = 1 /\ InUse(c)'
                              /\ pos'[c] = 0 /\ UpToPos(c)'
                              /\ \A t \in Threads : pc'[t] # c
  <2>1. \A t \in Threads : pc[t] # b
    BY <1>1 DEF EventInv, EventPlaces
  <2> QED BY <1>1, <1>4, <1>12, <1>13, <1>14, <2>1 DEF EventInv, EventPlaces
<1>18. \A t \in Threads :
           pc'[t] \in Buffers => /\ InUse(pc[t])' /\ UpToPos(pc[t])'
                                 /\ \A u \in Threads : pc'[u] = pc'[t] => u = t
  BY <1>1, <1>12, <1>13, <1>14 DEF EventInv, EventPlaces
<1>19. \A h \in Signalled : /\ h \in DOMAIN m_events' /\ m_tasks'[m_events'[h]] = 0
                            /\ Whole(m_events[h])'
                            /\ \A t \in Threads : pc'[t] # m_events'[h]
  BY <1>1, <1>4, <1>6, <1>7, <1>13 DEF EventInv, EventPlaces
<1>20. \A c \in Buffers : InUse(c)' \/ Whole(c)'
  BY <1>13, <1>14 DEF EventInv, EventPlaces
<1>21. \A h \in DOMAIN m_events' :
               \/ m_tasks'[m_events'[h]] > 0
               \/ \E t \in Threads : pc'[t] = m_events'[h]
               \/ h \in Signalled
  BY <1>1, <1>4, <1>6, <1>7 DEF EventInv, EventPlaces
<1>22. EventPlaces'
  BY <1>1, <1>15, <1>16, <1>17, <1>18, <1>19, <1>20, <1>21 DEF EventInv, EventPlaces
<1> QED BY <1>3, <1>9, <1>22

\* The worker goes over one part more.
LEMMA XorEvents ==
    ASSUME EventInv, NEW t \in Threads, pc[t] \in Buffers, XorPart(pc[t])
    PROVE  EventTypes' /\ EventPlaces'
<1> SUFFICES ASSUME NEW b \in Buffers, pc[t] = b, XorPart(b)
             PROVE  EventTypes' /\ EventPlaces'
  OBVIOUS
<1>1. /\ pos[b] < BuffParts /\ buff' = [buff EXCEPT ![b][pos[b] + 1] = ~@]
      /\ pos' = [pos EXCEPT ![b] = @ + 1]
      /\ UNCHANGED <<pc, m_tasks, at, stopped, m_events, m_handleCounter, m_pipe,
                     m_eventsLock, usrHandle, taskHandle, wanted>>
  BY DEF XorPart, poolVars, queueVars, callVars, stopVars, eventVars
<1>2. /\ buff \in [Buffers -> [1 .. BuffParts -> BOOLEAN]]
      /\ pos \in [Buffers -> 0 .. BuffParts] /\ wanted \in [Buffers -> BOOLEAN]
      /\ BuffParts \in Nat
  BY EncryptorAssumption DEF EventInv, EventTypes
<1>3. /\ pos[b] \in Nat /\ pos[b] + 1 \in 1 .. BuffParts
  BY <1>1, <1>2
<1>4. /\ buff'[b][pos[b] + 1] = ~buff[b][pos[b] + 1]
      /\ \A i \in 1 .. BuffParts : i # pos[b] + 1 => buff'[b][i] = buff[b][i]
      /\ \A c \in Buffers : c # b => buff'[c] = buff[c] /\ pos'[c] = pos[c]
      /\ pos'[b] = pos[b] + 1
  BY <1>1, <1>2, <1>3
<1>5. EventTypes'
  <2>1. buff' \in [Buffers -> [1 .. BuffParts -> BOOLEAN]]
    BY <1>1, <1>2, <1>3
  <2>2. pos' \in [Buffers -> 0 .. BuffParts]
    BY <1>1, <1>2, <1>3
  <2> QED BY <1>1, <2>1, <2>2 DEF EventInv, EventTypes
<1>6. UpToPos(b)'
  <2>1. UpToPos(b)
    BY DEF EventInv, EventPlaces
  <2>2. ASSUME NEW i \in 1 .. BuffParts
        PROVE  (buff'[b][i] = wanted[b]) <=> (i <= pos[b] + 1)
    <3>1. CASE i # pos[b] + 1
      BY <1>3, <1>4, <2>1, <3>1 DEF UpToPos
    <3>2. CASE i = pos[b] + 1
      <4>1. buff[b][i] # wanted[b] /\ buff[b][i] \in BOOLEAN /\ wanted[b] \in BOOLEAN
        BY <1>2, <1>3, <2>1, <3>2 DEF UpToPos
      <4>2. buff'[b][i] = wanted[b]
        BY <1>4, <3>2, <4>1
      <4> QED BY <1>3, <3>2, <4>2
    <3> QED BY <3>1, <3>2
  <2> QED BY <1>1, <1>4, <2>2 DEF UpToPos
<1>7. \A c \in Buffers : c # b => (UpToPos(c)' <=> UpToPos(c)) /\ (Whole(c)' <=> Whole(c))
  BY <1>1, <1>4 DEF UpToPos, Whole
<1>8. \A c : InUse(c)' <=> InUse(c)
  BY <1>1 DEF InUse
<1>9. Signalled' = Signalled /\ InUse(b)
  BY <1>1 DEF Signalled, EventInv, EventPlaces
<1>10. \A c \in Buffers :
           m_tasks'[c] > 0 => /\ m_tasks'[c] = 1 /\ InUse(c)'
                              /\ pos'[c] = 0 /\ UpToPos(c)'
                              /\ \A u \in Threads : pc'[u] # c
  BY <1>1, <1>4, <1>7, <1>8 DEF EventInv, EventPlaces
<1>11. \A u \in Threads :
           pc'[u] \in Buffers => /\ InUse(pc[u])' /\ UpToPos(pc[u])'
                                 /\ \A v \in Threads : pc'[v] = pc'[u] => v = u
  BY <1>1, <1>6, <1>7, <1>8 DEF EventInv, EventPlaces
<1>12. \A h \in Signalled : m_events[h] \in Buffers /\ m_events[h] # b
  BY DEF EventInv, EventPlaces, EventTypes
<1>13. \A h \in Signalled : Whole(m_events[h])'
  BY <1>1, <1>7, <1>12 DEF EventInv, EventPlaces
<1>14. \A c \in Buffers : InUse(c)' \/ Whole(c)'
  BY <1>7, <1>8, <1>9 DEF EventInv, EventPlaces
<1>15. EventPlaces'
  BY <1>1, <1>9, <1>10, <1>11, <1>13, <1>14 DEF EventInv, EventPlaces
<1> QED BY <1>5, <1>15

\* A handle is put at the end of the pipe, and taken from its front.
LEMMA PipeChange ==
    ASSUME NEW S, NEW s \in Seq(S), NEW x \in S
    PROVE  /\ DOMAIN s = 1 .. Len(s) /\ Len(s) \in Nat
           /\ Append(s, x) \in Seq(S) /\ DOMAIN Append(s, x) = 1 .. Len(s) + 1
           /\ Append(s, x)[Len(s) + 1] = x
           /\ \A i \in 1 .. Len(s) : Append(s, x)[i] = s[i]
           /\ s # << >> =>
                /\ Tail(s) \in Seq(S) /\ DOMAIN Tail(s) = 1 .. Len(s) - 1
                /\ Len(s) > 0 /\ Head(s) = s[1]
                /\ \A i \in 1 .. Len(s) - 1 : Tail(s)[i] = s[i + 1]
OBVIOUS

\* A pipe that has room for a handle of every buffer has room for one more while
\* a worker is in a buffer.
LEMMA PipeHasRoom ==
    ASSUME EventInv, NEW t \in Threads, NEW b \in Buffers, pc[t] = b,
           Cardinality(UserTasks) <= PipeCapacity
    PROVE  Len(m_pipe) < PipeCapacity
<1> DEFINE n == Len(m_pipe)
           S == 1 .. n
           T == Buffers \ {b}
           f == [i \in S |-> m_events[m_pipe[i]]]
<1>1. n \in Nat /\ DOMAIN m_pipe = S
  BY DEF EventInv, EventTypes
<1>2. \A i \in S : m_pipe[i] \in Signalled
  BY <1>1 DEF Signalled
<1>3. \A i \in S : /\ m_pipe[i] \in DOMAIN m_events /\ m_events[m_pipe[i]] \in T
                   /\ taskHandle[m_events[m_pipe[i]]] = m_pipe[i]
  BY <1>2 DEF EventInv, EventTypes, EventPlaces
<1>4. \A i, j \in S : m_events[m_pipe[i]] = m_events[m_pipe[j]] => i = j
  <2> SUFFICES ASSUME NEW i \in S, NEW j \in S, m_events[m_pipe[i]] = m_events[m_pipe[j]]
               PROVE  i = j
    OBVIOUS
  <2>1. m_pipe[i] = m_pipe[j]
    BY <1>3
  <2> QED BY <1>1, <2>1 DEF EventInv, EventPlaces
<1>5. f \in Injection(S, T)
  BY <1>3, <1>4 DEF Injection, IsInjective
<1>6. IsFiniteSet(Buffers) /\ IsFiniteSet(T) /\ Cardinality(T) = Cardinality(Buffers) - 1
  BY ThreadPoolAssumption, FS_RemoveElement DEF Buffers
<1>7. Cardinality(Buffers) \in Nat
  BY <1>6, FS_CardinalityType
<1>8. Cardinality(S) = n
  <2>1. \A k \in Nat : Cardinality(1 .. k) = k
    BY FS_Interval
  <2> QED BY <1>1, <2>1
<1> HIDE DEF f
<1>9. Cardinality(S) <= Cardinality(T)
  BY <1>5, <1>6, FS_Injection
<1> QED BY <1>1, <1>6, <1>7, <1>8, <1>9, EncryptorAssumption DEF Buffers

\* A worker signals the event of a buffer it has gone through.
LEMMA SignalEvents ==
    ASSUME EventInv, NEW t \in Threads, NEW b \in Buffers, pc[t] = b,
           pos[b] = BuffParts, m_pipe' = Append(m_pipe, taskHandle[b]), TaskReturns(t),
           pos' = [pos EXCEPT ![b] = 0],
           UNCHANGED <<m_events, m_handleCounter, m_eventsLock, usrHandle, taskHandle, buff,
                       wanted>>
    PROVE  EventTypes' /\ EventPlaces'
<1>1. /\ pc' = [pc EXCEPT ![t] = "loop"] /\ UNCHANGED <<m_tasks, at, stopped>>
      /\ pc \in [Threads -> ThreadState] /\ m_tasks \in [Task -> Nat] /\ b \in Task
  BY States DEF TaskReturns, queueVars, callVars, stopVars, EventInv, SleepInv, BalanceInv,
     KnownInv, PlaceInv, PoolTypeOK, Buffers
<1>2. PICK h0 \in DOMAIN m_events : m_events[h0] = b
  BY DEF EventInv, EventPlaces, InUse
<1>3. taskHandle[b] = h0 /\ h0 \in Handle
  BY <1>2, EncryptorAssumption DEF EventInv, EventPlaces, EventTypes, Handle
<1>4. h0 \notin Signalled
  BY <1>2 DEF EventInv, EventPlaces
<1> DEFINE n == Len(m_pipe)
<1>5. /\ n \in Nat /\ DOMAIN m_pipe = 1 .. n /\ m_pipe' \in Seq(Handle)
      /\ DOMAIN m_pipe' = 1 .. n + 1 /\ m_pipe'[n + 1] = h0
      /\ \A i \in 1 .. n : m_pipe'[i] = m_pipe[i]
  BY <1>3, PipeChange DEF EventInv, EventTypes
<1> HIDE DEF n
<1>6. h0 # NoHandle
  BY <1>3, EncryptorAssumption DEF Handle, NoHandle
<1>7. Signalled' = Signalled \cup {h0}
  <2>1. {m_pipe'[i] : i \in DOMAIN m_pipe'} = {m_pipe[i] : i \in DOMAIN m_pipe} \cup {h0}
    BY <1>5
  <2> QED BY <2>1 DEF Signalled
<1>8. pos \in [Buffers -> 0 .. BuffParts] /\ BuffParts \in Nat
  BY EncryptorAssumption DEF EventInv, EventTypes
<1>9. pos'[b] = 0 /\ \A c \in Buffers : c # b => pos'[c] = pos[c]
  BY <1>8
<1>10. EventTypes'
  <2>1. pos' \in [Buffers -> 0 .. BuffParts]
    BY <1>8
  <2> QED BY <1>5, <2>1 DEF EventInv, EventTypes
<1>11. Whole(b)'
  <2>1. UpToPos(b)
    BY DEF EventInv, EventPlaces
  <2>2. \A i \in 1 .. BuffParts : buff[b][i] = wanted[b]
    BY <1>8, <2>1 DEF UpToPos
  <2> QED BY <1>9, <2>2 DEF Whole
<1>12. \A c \in Buffers : c # b => (UpToPos(c)' <=> UpToPos(c)) /\ (Whole(c)' <=> Whole(c))
  BY <1>9 DEF UpToPos, Whole
<1>13. \A c : InUse(c)' <=> InUse(c)
  BY DEF InUse
<1>14. pc'[t] = "loop" /\ "loop" \notin Buffers /\ \A u \in Threads : u # t => pc'[u] = pc[u]
  BY <1>1, States DEF Buffers, PoolPlaces
<1>15. \A u \in Threads : pc'[u] # b
  BY <1>14 DEF EventInv, EventPlaces
<1>16. m_tasks[b] = 0
  BY <1>1 DEF EventInv, EventPlaces
<1>17. \A c \in Buffers :
           m_tasks'[c] > 0 => /\ m_tasks'[c] = 1 /\ InUse(c)'
                              /\ pos'[c] = 0 /\ UpToPos(c)'
                              /\ \A u \in Threads : pc'[u] # c
  BY <1>1, <1>9, <1>12, <1>13, <1>14, <1>16 DEF EventInv, EventPlaces
<1>18. \A u \in Threads :
           pc'[u] \in Buffers => /\ InUse(pc[u])' /\ UpToPos(pc[u])'
                                 /\ \A v \in Threads : pc'[v] = pc'[u] => v = u
  BY <1>12, <1>13, <1>14, <1>15 DEF EventInv, EventPlaces
<1>19. \A h \in Signalled : m_events[h] \in Buffers /\ m_events[h] # b
  BY DEF EventInv, EventPlaces, EventTypes
<1>20. \A h \in Signalled' : /\ h \in DOMAIN m_events' /\ m_tasks'[m_events'[h]] = 0
                             /\ Whole(m_events[h])'
                             /\ \A u \in Threads : pc'[u] # m_events'[h]
  <2>1. ASSUME NEW h \in Signalled PROVE h \in DOMAIN m_events /\ m_tasks[m_events[h]] = 0
           /\ Whole(m_events[h]) /\ \A u \in Threads : pc[u] # m_events[h]
    BY <2>1 DEF EventInv, EventPlaces
  <2>2. ASSUME NEW h \in Signalled
        PROVE  Whole(m_events[h])' /\ \A u \in Threads : pc'[u] # m_events[h]
    BY <1>12, <1>14, <1>19, <2>1, <2>2
  <2>3. Whole(m_events[h0])'
    BY <1>2, <1>11
  <2> QED BY <1>1, <1>2, <1>7, <1>15, <1>16, <2>1, <2>2, <2>3
<1>21. \A i, j \in DOMAIN m_pipe' : m_pipe'[i] = m_pipe'[j] => i = j
  <2>1. \A i \in 1 .. n : m_pipe[i] # h0
    BY <1>4, <1>5 DEF Signalled
  <2>2. \A i, j \in 1 .. n : m_pipe[i] = m_pipe[j] => i = j
    BY <1>5 DEF EventInv, EventPlaces
  <2> QED BY <1>5, <2>1, <2>2
<1>22. \A i \in DOMAIN m_pipe' : m_pipe'[i] # usrHandle
  <2>1. h0 # usrHandle
    BY <1>4, <1>6 DEF Signalled
  <2>2. \A i \in 1 .. n : m_pipe[i] # usrHandle
    BY <1>5 DEF EventInv, EventPlaces
  <2> QED BY <1>5, <2>1, <2>2
<1>23. \A c \in Buffers : InUse(c)' \/ Whole(c)'
  BY <1>11, <1>12, <1>13 DEF EventInv, EventPlaces
<1>24. (at' # "cancel" /\ stopped' # "destroyed") =>
           \A h \in DOMAIN m_events :
               \/ m_tasks'[m_events[h]] > 0
               \/ \E u \in Threads : pc'[u] = m_events[h]
               \/ h \in Signalled'
  <2>1. \A h \in DOMAIN m_events : m_events[h] = b => h = h0
    BY <1>3 DEF EventInv, EventPlaces
  <2> QED BY <1>1, <1>7, <1>14, <2>1 DEF EventInv, EventPlaces
<1>25. EventPlaces'
  BY <1>17, <1>18, <1>20, <1>21, <1>22, <1>23, <1>24 DEF EventInv, EventPlaces
<1> QED BY <1>10, <1>25

\* The reactor's thread reads a handle, which is that of an event.
LEMMA ReadEvents ==
    ASSUME EventInv, ReadPipe
    PROVE  EventTypes' /\ EventPlaces'
<1> DEFINE n == Len(m_pipe)
<1>1. /\ usrHandle = NoHandle /\ m_pipe # << >> /\ usrHandle' = Head(m_pipe)
      /\ m_pipe' = Tail(m_pipe)
      /\ UNCHANGED <<pc, m_tasks, at, stopped, m_events, m_handleCounter, m_eventsLock,
                     taskHandle, buff, pos, wanted>>
  BY DEF ReadPipe, poolVars, queueVars, callVars, stopVars, buffVars
<1>2. m_pipe \in Seq(Handle) /\ MaxHandles \in Handle
  BY EncryptorAssumption DEF EventInv, EventTypes, Handle
<1>3. /\ n \in Nat /\ n > 0 /\ DOMAIN m_pipe = 1 .. n /\ m_pipe' \in Seq(Handle)
      /\ DOMAIN m_pipe' = 1 .. n - 1 /\ usrHandle' = m_pipe[1]
      /\ \A i \in 1 .. n - 1 : m_pipe'[i] = m_pipe[i + 1]
  BY <1>1, <1>2, PipeChange
<1> HIDE DEF n
<1>4. usrHandle' # NoHandle
  <2>1. m_pipe[1] \in Handle
    BY <1>2, <1>3
  <2> QED BY <1>3, <2>1, EncryptorAssumption DEF Handle, NoHandle
<1>5. Signalled' = Signalled
  <2>1. ASSUME NEW h \in Signalled' PROVE h \in Signalled
    <3>1. CASE h = usrHandle'
      BY <1>3, <3>1 DEF Signalled
    <3>2. ASSUME NEW i \in DOMAIN m_pipe', h = m_pipe'[i] PROVE h \in Signalled
      <4>1. h = m_pipe[i + 1] /\ i + 1 \in DOMAIN m_pipe
        BY <1>3, <3>2
      <4> QED BY <4>1 DEF Signalled
    <3> QED BY <2>1, <3>1, <3>2 DEF Signalled
  <2>2. ASSUME NEW h \in Signalled PROVE h \in Signalled'
    <3>1. PICK i \in 1 .. n : h = m_pipe[i]
      BY <1>1, <1>3, <2>2 DEF Signalled
    <3>2. CASE i = 1
      BY <1>3, <1>4, <3>1, <3>2 DEF Signalled
    <3>3. CASE i # 1
      <4>1. i - 1 \in 1 .. n - 1 /\ (i - 1) + 1 = i
        BY <1>3, <3>3
      <4>2. h = m_pipe'[i - 1]
        BY <1>3, <3>1, <4>1
      <4> QED BY <1>3, <4>1, <4>2 DEF Signalled
    <3> QED BY <3>2, <3>3
  <2> QED BY <2>1, <2>2
<1>6. EventTypes'
  BY <1>1, <1>3 DEF EventInv, EventTypes
<1>7. \A c : InUse(c)' <=> InUse(c)
  BY <1>1 DEF InUse
<1>8. \A c : (UpToPos(c)' <=> UpToPos(c)) /\ (Whole(c)' <=> Whole(c))
  BY <1>1 DEF UpToPos, Whole
<1>9. \A i, j \in 1 .. n : m_pipe[i] = m_pipe[j] => i = j
  BY <1>3 DEF EventInv, EventPlaces
<1>10. \A i, j \in DOMAIN m_pipe' : m_pipe'[i] = m_pipe'[j] => i = j
  <2> SUFFICES ASSUME NEW i \in 1 .. n - 1, NEW j \in 1 .. n - 1, m_pipe'[i] = m_pipe'[j]
               PROVE  i = j
    BY <1>3
  <2>1. i + 1 \in 1 .. n /\ j + 1 \in 1 .. n /\ m_pipe[i + 1] = m_pipe[j + 1]
    BY <1>3
  <2>2. i + 1 = j + 1
    BY <1>9, <2>1
  <2> QED BY <1>3, <2>2
<1>11. \A i \in DOMAIN m_pipe' : m_pipe'[i] # usrHandle'
  <2> SUFFICES ASSUME NEW i \in 1 .. n - 1, m_pipe'[i] = usrHandle' PROVE FALSE
    BY <1>3
  <2>1. i + 1 \in 1 .. n /\ 1 \in 1 .. n /\ m_pipe[i + 1] = m_pipe[1] /\ i + 1 # 1
    BY <1>3
  <2> QED BY <1>9, <2>1
<1>12. EventPlaces'
  BY <1>1, <1>4, <1>5, <1>7, <1>8, <1>10, <1>11 DEF EventInv, EventPlaces
<1> QED BY <1>6, <1>12

\* The callback runs, and its event goes.
LEMMA CallbackEvents ==
    ASSUME EventInv, CallbackEnds
    PROVE  EventTypes' /\ EventPlaces'
<1>1. /\ usrHandle # NoHandle /\ m_events' = Erase(m_events, usrHandle) /\ ~m_eventsLock'
      /\ usrHandle' = NoHandle
      /\ UNCHANGED <<pc, m_tasks, at, stopped, m_handleCounter, m_pipe, taskHandle, buff, pos,
                     wanted>>
  BY DEF CallbackEnds, EventInv, EventPlaces, poolVars, queueVars, callVars, stopVars, buffVars
<1> DEFINE b == m_events[usrHandle]
<1>2. usrHandle \in Signalled
  BY <1>1 DEF Signalled
<1>3. /\ usrHandle \in DOMAIN m_events /\ b \in Buffers /\ m_tasks[b] = 0 /\ Whole(b)
      /\ \A t \in Threads : pc[t] # b
  BY <1>2 DEF EventInv, EventPlaces, EventTypes
<1>4. /\ DOMAIN m_events' = DOMAIN m_events \ {usrHandle}
      /\ \A h \in DOMAIN m_events : h # usrHandle => m_events'[h] = m_events[h]
  BY <1>1 DEF Erase
<1>5. \A i \in DOMAIN m_pipe : m_pipe[i] # usrHandle
  BY DEF EventInv, EventPlaces
<1>6. Signalled' = Signalled \ {usrHandle}
  BY <1>1, <1>5 DEF Signalled
<1>7. EventTypes'
  BY <1>1, <1>4 DEF EventInv, EventTypes
<1>8. \A c : (UpToPos(c)' <=> UpToPos(c)) /\ (Whole(c)' <=> Whole(c))
  BY <1>1 DEF UpToPos, Whole
<1>9. \A c : c # b /\ InUse(c) => InUse(c)'
  BY <1>4 DEF InUse
<1>10. \A i \in DOMAIN m_pipe : m_pipe[i] # NoHandle
  BY EncryptorAssumption DEF EventInv, EventTypes, Handle, NoHandle
<1> HIDE DEF b
<1>11. \A c \in Buffers : InUse(c)' \/ Whole(c)'
  BY <1>3, <1>8, <1>9 DEF EventInv, EventPlaces
<1>12. \A c \in Buffers :
           m_tasks'[c] > 0 => /\ m_tasks'[c] = 1 /\ InUse(c)'
                              /\ pos'[c] = 0 /\ UpToPos(c)'
                              /\ \A u \in Threads : pc'[u] # c
  BY <1>1, <1>3, <1>8, <1>9 DEF EventInv, EventPlaces
<1>13. \A u \in Threads :
           pc'[u] \in Buffers => /\ InUse(pc[u])' /\ UpToPos(pc[u])'
                                 /\ \A v \in Threads : pc'[v] = pc'[u] => v = u
  BY <1>1, <1>3, <1>8, <1>9 DEF EventInv, EventPlaces
<1>14. \A h \in Signalled' : /\ h \in DOMAIN m_events' /\ m_tasks'[m_events'[h]] = 0
                             /\ Whole(m_events[h])'
                             /\ \A u \in Threads : pc'[u] # m_events'[h]
  BY <1>1, <1>4, <1>6, <1>8 DEF EventInv, EventPlaces
<1>15. (at' # "cancel" /\ stopped' # "destroyed") =>
           \A h \in DOMAIN m_events' :
               \/ m_tasks'[m_events'[h]] > 0
               \/ \E u \in Threads : pc'[u] = m_events'[h]
               \/ h \in Signalled'
  BY <1>1, <1>4, <1>6 DEF EventInv, EventPlaces
<1>16. \A h \in DOMAIN m_events' : taskHandle'[m_events'[h]] = h
  BY <1>1, <1>4 DEF EventInv, EventPlaces
<1>17. \A i \in DOMAIN m_pipe' : m_pipe'[i] # usrHandle'
  BY <1>1, <1>10
<1>18. \A i, j \in DOMAIN m_pipe' : m_pipe'[i] = m_pipe'[j] => i = j
  BY <1>1 DEF EventInv, EventPlaces
<1>19. EventPlaces'
  BY <1>1, <1>11, <1>12, <1>13, <1>14, <1>15, <1>16, <1>17, <1>18 DEF EventPlaces
<1> QED BY <1>7, <1>19

\* Every step of the Encryptor is one of the pool, or leaves the pool alone, and
\* keeps the events on their way.
LEMMA NextEvents ==
    ASSUME EventInv, [EncryptorNext]_vars, LateInsert = FALSE,
           Cardinality(UserTasks) <= PipeCapacity
    PROVE  EventInv'
<1>1. ASSUME UNCHANGED vars PROVE [PoolNext]_poolVars /\ EventTypes' /\ EventPlaces'
  <2>1. Unseen /\ UNCHANGED poolVars
    BY <1>1 DEF vars, Unseen
  <2>2. PoolKeepsTasks
    BY <2>1 DEF PoolKeepsTasks, poolVars, queueVars, callVars, stopVars
  <2> QED BY <2>1, <2>2, KeepsEvents DEF EventInv
<1>2. ASSUME EncryptorNext PROVE [PoolNext]_poolVars /\ EventTypes' /\ EventPlaces'
  <2>1. ~aborted
    BY <1>2 DEF EncryptorNext
  <2>2. ASSUME NEW b \in Buffers, SendTaskToThreadPoolIMP(b)
        PROVE  PoolNext /\ EventTypes' /\ EventPlaces'
    <3>1. m_tasks[b] = 0 /\ EventTypes' /\ EventPlaces'
      BY <2>2, SendEvents
    <3>2. Add(b)
      BY <2>2 DEF SendTaskToThreadPoolIMP
    <3> QED BY <2>1, <3>1, <3>2 DEF PoolNext, Buffers
  <2>3. ASSUME OwnerCalls \/ OwnerStep \/ DeadlinePasses, Unseen
        PROVE  PoolNext /\ EventTypes' /\ EventPlaces'
    <3>1. PoolNext
      BY <2>1, <2>3 DEF PoolNext
    <3>2. PoolKeepsTasks
      BY <2>3, OwnerKeepsTasks DEF EventInv
    <3> QED BY <2>3, <3>1, <3>2, KeepsEvents DEF EventInv
  <2>4. ASSUME NEW t \in Threads, PoolThread(t) \/ SpuriousWakeup(t), Unseen
        PROVE  PoolNext /\ EventTypes' /\ EventPlaces'
    <3>1. PoolNext
      BY <2>1, <2>4 DEF PoolNext
    <3>2. CASE Dequeue(t)
      BY <2>4, <3>1, <3>2, DequeueEvents
    <3>3. CASE \/ PoisonTaken(t) \/ ThreadEnds(t) \/ CleanupTaskImp(t) \/ SpuriousWakeup(t)
               \/ \E e \in unvisited : Visit(t, e)
      <4>1. PoolKeepsTasks
        BY <3>3, WorkerKeepsTasks DEF EventInv
      <4> QED BY <2>4, <3>1, <4>1, KeepsEvents DEF EventInv
    <3> QED BY <2>4, <3>2, <3>3 DEF PoolThread
  <2>5. ASSUME NEW t \in Threads, EncryptDecryptIMP(t)
        PROVE  [PoolNext]_poolVars /\ EventTypes' /\ EventPlaces'
    <3>1. pc[t] \in Buffers
      BY <2>5 DEF EncryptDecryptIMP
    <3>2. CASE XorPart(pc[t])
      BY <3>1, <3>2, XorEvents DEF XorPart
    <3>3. CASE /\ SignalEvent(t, pc[t]) /\ pos' = [pos EXCEPT ![pc[t]] = 0]
               /\ UNCHANGED <<m_events, m_handleCounter, m_eventsLock, usrHandle,
                              taskHandle, buff, wanted>>
      <4> SUFFICES ASSUME NEW b \in Buffers, pc[t] = b, SignalEvent(t, b),
                          pos' = [pos EXCEPT ![b] = 0]
                   PROVE  [PoolNext]_poolVars /\ EventTypes' /\ EventPlaces'
        BY <3>1, <3>3
      <4>1. Len(m_pipe) < PipeCapacity
        BY PipeHasRoom
      <4>2. pos[b] = BuffParts /\ m_pipe' = Append(m_pipe, taskHandle[b]) /\ TaskReturns(t)
        BY <4>1 DEF SignalEvent
      <4>3. EventTypes' /\ EventPlaces'
        BY <3>3, <4>2, SignalEvents
      <4>4. PoolNext
        BY <2>1, <4>2 DEF PoolNext
      <4> QED BY <4>3, <4>4
    <3> QED BY <2>5, <3>2, <3>3 DEF EncryptDecryptIMP
  <2>6. ASSUME OnEventFinishedCB PROVE UNCHANGED poolVars /\ EventTypes' /\ EventPlaces'
    <3>1. CASE ReadPipe
      BY <3>1, ReadEvents DEF ReadPipe
    <3>2. CASE CallbackBegins
      <4>1. usrHandle \in Signalled
        BY <3>2 DEF CallbackBegins, Signalled
      <4>2. usrHandle \in DOMAIN m_events
        BY <4>1 DEF EventInv, EventPlaces
      <4>3. /\ usrHandle # NoHandle
            /\ UNCHANGED <<poolVars, m_events, m_handleCounter, m_pipe, usrHandle, buffVars>>
        BY <3>2, <4>2 DEF CallbackBegins
      <4>4. EventTypes'
        BY <4>3 DEF EventInv, EventTypes, buffVars
      <4>5. EventPlaces'
        BY <4>3 DEF EventInv, EventPlaces, Signalled, InUse, UpToPos, Whole, buffVars, poolVars,
           queueVars, callVars, stopVars
      <4> QED BY <4>3, <4>4, <4>5
    <3>3. CASE CallbackEnds
      BY <3>3, CallbackEvents DEF CallbackEnds
    <3> QED BY <2>6, <3>1, <3>2, <3>3 DEF OnEventFinishedCB
  <2> QED BY <1>2, <2>2, <2>3, <2>4, <2>5, <2>6 DEF EncryptorNext, WorkerStep
<1>3. [PoolNext]_poolVars /\ EventTypes' /\ EventPlaces'
  BY <1>1, <1>2
<1>4. SleepInv'
  BY <1>3, NextSleep DEF EventInv
<1> QED BY <1>3, <1>4 DEF EventInv

\* There are no events at first.
LEMMA InitEvents == ASSUME EncryptorInit PROVE EventInv
<1>1. SleepInv
  BY InitSleep DEF EncryptorInit
<1>2. EventTypes
  BY EncryptorAssumption DEF EncryptorInit, EventTypes, EmptyMap, Handle
<1>3. m_tasks = [task \in Task |-> 0] /\ pc = [t \in Threads |-> "none"]
  BY DEF EncryptorInit, PoolInit
<1>4. \A b \in Buffers : m_tasks[b] = 0 /\ Whole(b)
  BY <1>3 DEF EncryptorInit, Whole, Buffers, Task
<1>5. "none" \notin Buffers
  BY States DEF Buffers, PoolPlaces
<1>6. Signalled = {} /\ m_pipe = << >> /\ DOMAIN m_events = {} /\ ~m_eventsLock
  BY DEF EncryptorInit, Signalled, EmptyMap
<1>7. EventPlaces
  BY <1>3, <1>4, <1>5, <1>6 DEF EventPlaces
<1> QED BY <1>1, <1>2, <1>7 DEF EventInv

\* The events' invariant, if the pipe has room for every buffer's event.
LEMMA EventsAlways ==
    ASSUME LateInsert = FALSE, Cardinality(UserTasks) <= PipeCapacity
    PROVE  EncryptorSpec => []EventInv
<1>1. EncryptorInit => EventInv
  BY InitEvents
<1>2. EventInv /\ [EncryptorNext]_vars => EventInv'
  BY NextEvents
<1> QED BY <1>1, <1>2, PTL DEF EncryptorSpec

\* When a buffer's callback runs, a worker has gone over every part of it exactly
\* once since it was asked to.
THEOREM CallbacksSeeWholeBuffers ==
    ASSUME LateInsert = FALSE, Cardinality(UserTasks) <= PipeCapacity
    PROVE  EncryptorSpec => []CallbackSeesTheWholeBuffer
<1>1. EventInv => CallbackSeesTheWholeBuffer
  <2> SUFFICES ASSUME EventInv, m_eventsLock
               PROVE  \A i \in 1 .. BuffParts :
                          buff[m_events[usrHandle]][i] = wanted[m_events[usrHandle]]
    BY DEF CallbackSeesTheWholeBuffer
  <2>1. usrHandle \in Signalled
    BY DEF EventInv, EventPlaces, Signalled
  <2>2. Whole(m_events[usrHandle])
    BY <2>1 DEF EventInv, EventPlaces
  <2> QED BY <2>2 DEF Whole
<1> QED BY <1>1, EventsAlways, PTL

\* An event is in one place only.
LEMMA OnePlace ==
    ASSUME EventInv, at # "cancel", stopped # "destroyed", NEW h \in DOMAIN m_events
    PROVE  m_tasks[m_events[h]] + Cardinality(Workers(h)) + Cardinality(Signals(h)) = 1
<1> DEFINE b == m_events[h]
<1>1. b \in Buffers /\ taskHandle[b] = h /\ h # NoHandle /\ m_tasks[b] \in Nat
  BY States, EncryptorAssumption
  DEF EventInv, EventTypes, EventPlaces, NoHandle, SleepInv, BalanceInv, KnownInv, PlaceInv,
      PoolTypeOK, Buffers
<1>2. Workers(h) = {t \in Threads : pc[t] = b}
  BY <1>1 DEF Workers
<1>3. Cardinality({}) = 0 /\ \A x : Cardinality({x}) = 1
  BY FS_EmptySet, FS_Singleton
<1>4. h \notin Signalled => Signals(h) = {}
  BY <1>1 DEF Signalled, Signals
<1>5. h \in Signalled => m_tasks[b] = 0 /\ Workers(h) = {}
  BY <1>2 DEF EventInv, EventPlaces
<1>6. CASE h \in Signalled
  <2>1. \E x : Signals(h) = {x}
    <3>1. CASE usrHandle = h
      <4>1. {i \in DOMAIN m_pipe : m_pipe[i] = h} = {}
        BY <3>1 DEF EventInv, EventPlaces
      <4>2. Signals(h) = {"read"}
        BY <3>1, <4>1 DEF Signals
      <4> QED BY <4>2
    <3>2. CASE usrHandle # h
      <4>1. PICK i \in DOMAIN m_pipe : m_pipe[i] = h
        BY <1>6, <3>2 DEF Signalled
      <4>2. \A j \in DOMAIN m_pipe : m_pipe[j] = h => j = i
        BY <4>1 DEF EventInv, EventPlaces
      <4>3. Signals(h) = {i}
        BY <3>2, <4>1, <4>2 DEF Signals
      <4> QED BY <4>3
    <3> QED BY <3>1, <3>2
  <2>2. Cardinality(Signals(h)) = 1
    BY <1>3, <2>1
  <2>3. m_tasks[b] = 0 /\ Cardinality(Workers(h)) = 0
    BY <1>3, <1>5, <1>6
  <2> QED BY <2>2, <2>3
<1>7. CASE h \notin Signalled
  <2>1. Cardinality(Signals(h)) = 0
    BY <1>3, <1>4, <1>7
  <2>2. CASE m_tasks[b] > 0
    <3>1. m_tasks[b] = 1 /\ Workers(h) = {}
      BY <1>1, <1>2, <2>2 DEF EventInv, EventPlaces
    <3> QED BY <1>3, <2>1, <3>1
  <2>3. CASE ~(m_tasks[b] > 0)
    <3>1. PICK t \in Threads : pc[t] = b
      BY <1>7, <2>3 DEF EventInv, EventPlaces
    <3>2. \A u \in Threads : pc[u] = b => u = t
      BY <1>1, <3>1 DEF EventInv, EventPlaces
    <3>3. Workers(h) = {t}
      BY <1>2, <3>1, <3>2
    <3>4. Cardinality(Workers(h)) = 1
      BY <1>3, <3>3
    <3>5. m_tasks[b] = 0
      BY <1>1, <2>3
    <3> QED BY <2>1, <3>4, <3>5
  <2> QED BY <2>2, <2>3
<1> QED BY <1>6, <1>7

\* Every event set is in exactly one place on its way to its callback, and the
\* process never ends because of one, if the pipe has room for every buffer's
\* event and no thread can end before AddThreadImp has inserted it.
THEOREM EventsAreOnTheirWay ==
    ASSUME LateInsert = FALSE, Cardinality(UserTasks) <= PipeCapacity
    PROVE  EncryptorSpec => []EventIsOnItsWay
<1>1. EventInv => EventIsOnItsWay
  BY OnePlace DEF EventIsOnItsWay, EventInv, SleepInv, BalanceInv, KnownInv, Known
<1> QED BY <1>1, EventsAlways, PTL

===========================================================================
