---------------------------- MODULE ThreadPool ----------------------------
(***************************************************************************)
(* Class ThreadPool (framework/thread_pool) with its queue, WaitableQ      *)
(* (framework/include/waitable_q.hpp): worker threads that take tasks off  *)
(* a priority queue, end when they take a poisonous one, and are joined by *)
(* whoever cleans the map of threads.  One thread, the owner, calls the    *)
(* public operations.                                                      *)
(*                                                                         *)
(* Every critical section of the queue's lock is one step.  The sections of *)
(* m_threadsMutex that only read or insert are one step each; cleaning,    *)
(* which waits for other threads inside, is one step for each entry.       *)
(***************************************************************************)
EXTENDS Integers, FiniteSets, StdMap

CONSTANTS
    NumThreads,   \* how many threads may ever be created
    UserTasks,    \* what is given to Add
    UserPriority, \* the Priority each of them is added with
    MaxThreads,   \* the argument of the constructor, and bound on that of SetNum
    MaxCalls,     \* bound on the calls of SetNum, Stop and the destructor
    LateInsert    \* may a thread end before AddThreadImp has inserted it?

LOW == 0
MEDIUM == 1
HIGH == 2
CLEAN_TASK_PRIORITY == 4
POISON_TASK_PRIORITY == 5

Poison == "poison"        \* Task::CreatePoisonousTask()
Cleanup == "cleanup"      \* the task bound to CleanupTaskImp
Task == UserTasks \cup {Poison, Cleanup}

\* Where a thread is outside the users' tasks: not created, between two tasks,
\* about to tell that it is done, past that, ended, before or in CleanThreadsIfImp.
PoolPlaces == {"none", "loop", "poisoned", "done", "ended", "toClean", "cleaning"}

ASSUME ThreadPoolAssumption ==
    /\ NumThreads \in Nat
    /\ IsFiniteSet(UserTasks)
    /\ UserTasks \cap ({Poison, Cleanup} \cup PoolPlaces) = {}
    /\ UserPriority \in [UserTasks -> {LOW, MEDIUM, HIGH}]
    /\ MaxThreads \in Nat
    /\ MaxCalls \in Nat
    /\ LateInsert \in BOOLEAN

\* Threads are numbered in the order of their creation.  Only their identity
\* matters: nothing depends on the order the map has them in.
Threads == 1 .. NumThreads
Owner == 0
Nobody == -1

VARIABLES
    m_tasks,      \* WaitableQ::m_q: how often each task is in the queue
    waiting,      \* the threads asleep in WaitableQ::m_cond
    pc,           \* where each thread is in ThreadActionImp
    m_threads,    \* from thread to whether it has its ThreadPtr, and its done flag
    lock,         \* who cleans the map with m_threadsMutex held
    unvisited,    \* the entries the holder of the lock has not come to
    m_numThreadsShouldExist,
    call,         \* the public operation the owner is in
    at,           \* where the owner is in it
    left,         \* threadsDifference, or the threads Start has yet to create
    target,       \* numThreads_ of the SetNum under way
    newThread,    \* created by AddThreadImp and not yet in the map
    calls,        \* how many of them there were
    late,         \* has Stop's deadline passed?
    endedInTime,  \* had every thread ended when it did?
    stopped,      \* what the last Stop has returned
    aborted       \* an assert has failed, or a null pointer was used

queueVars == <<m_tasks, waiting>>
mapVars == <<m_threads, lock, unvisited>>
callVars == <<call, at, left, target, newThread, calls>>
stopVars == <<late, endedInTime, stopped>>
poolVars == <<queueVars, pc, mapVars, m_numThreadsShouldExist, callVars, stopVars, aborted>>

---------------------------------------------------------------------------
(* Data *)

Priority(task) ==
    IF task = Poison THEN POISON_TASK_PRIORITY
    ELSE IF task = Cleanup THEN CLEAN_TASK_PRIORITY
    ELSE UserPriority[task]

ThreadState == PoolPlaces \cup UserTasks

Alive == {t \in Threads : pc[t] \notin {"none", "ended"}}

\* A thread that will end: it has taken a poisonous task.
Poisoned == {t \in Threads : pc[t] \in {"poisoned", "done"}}

Queued == {task \in Task : m_tasks[task] > 0}

\* std::priority_queue::top: any of those no other one is more urgent than.
IsTop(task) == task \in Queued /\ \A other \in Queued : Priority(other) <= Priority(task)

Running == DOMAIN m_threads # {}

PoolInit ==
    /\ m_tasks = [task \in Task |-> 0]
    /\ waiting = {}
    /\ pc = [t \in Threads |-> "none"]
    /\ m_threads = EmptyMap
    /\ lock = Nobody
    /\ unvisited = {}
    /\ m_numThreadsShouldExist = MaxThreads
    /\ call = "none"
    /\ at = "out"
    /\ left = 0
    /\ target = 0
    /\ newThread = Nobody
    /\ calls = 0
    /\ late = FALSE
    /\ endedInTime = FALSE
    /\ stopped = "never"
    /\ aborted = FALSE

---------------------------------------------------------------------------
(* WaitableQ *)

\* A mutant: wakes a sleeper only when the queue was empty.
Enqueue_WhenEmpty(task) ==
    /\ m_tasks' = [m_tasks EXCEPT ![task] = @ + 1]
    /\ IF waiting = {} \/ Queued # {} THEN UNCHANGED waiting
       ELSE \E t \in waiting : waiting' = waiting \ {t}

\* push and notify_one, which wakes one of the sleepers if there is one.
Enqueue(task) ==
    /\ m_tasks' = [m_tasks EXCEPT ![task] = @ + 1]
    /\ IF waiting = {} THEN UNCHANGED waiting
       ELSE \E t \in waiting : waiting' = waiting \ {t}

\* The loop of Dequeue: sleep while the queue is empty, whatever one was woken for.
DequeueWaits(t) ==
    /\ Queued = {}
    /\ waiting' = waiting \cup {t}
    /\ UNCHANGED m_tasks

DequeueTakes(task) ==
    /\ IsTop(task)
    /\ m_tasks' = [m_tasks EXCEPT ![task] = @ - 1]
    /\ UNCHANGED waiting

---------------------------------------------------------------------------
(* CleanThreadsIfImp, by the owner in Stop and by a worker in CleanupTaskImp *)

TakeMutex(who) ==
    /\ lock = Nobody
    /\ lock' = who
    /\ unvisited' = DOMAIN m_threads
    /\ UNCHANGED m_threads

\* A mutant: joins the threads that still work as well.
Finished_Any(who, t) == t # who

\* FinishedExecutionForImp excludes the calling thread, FinishedExecutionUntilImp
\* does not have to.
Finished(who, t) == t # who /\ m_threads[t].done

\* join on a null ThreadPtr, a failing assert, or an exception nobody catches.
ProcessEnds ==
    /\ aborted' = TRUE
    /\ UNCHANGED <<queueVars, pc, mapVars, m_numThreadsShouldExist, callVars, stopVars>>

\* A mutant: erases the entry whether or not its thread was joined.
Visit_ErasesAll(who, t) ==
    /\ lock = who
    /\ t \in unvisited
    /\ Finished(who, t) => pc[t] = "ended"
    /\ m_threads' = Erase(m_threads, t)
    /\ unvisited' = unvisited \ {t}
    /\ UNCHANGED <<queueVars, pc, lock, m_numThreadsShouldExist, callVars, stopVars, aborted>>

\* The next entry.  join waits for the thread to end, with the mutex held.
Visit(who, t) ==
    /\ lock = who
    /\ t \in unvisited
    /\ IF Finished(who, t) /\ ~m_threads[t].ptr
       THEN ProcessEnds
       ELSE /\ Finished(who, t) => pc[t] = "ended"
            /\ m_threads' = IF Finished(who, t) THEN Erase(m_threads, t) ELSE m_threads
            /\ unvisited' = unvisited \ {t}
            /\ UNCHANGED <<queueVars, pc, lock, m_numThreadsShouldExist, callVars,
                           stopVars, aborted>>

ReleaseMutex(who) ==
    /\ lock = who
    /\ unvisited = {}
    /\ lock' = Nobody
    /\ UNCHANGED <<m_threads, unvisited>>

---------------------------------------------------------------------------
(* ThreadActionImp *)

Dequeue(t) ==
    /\ pc[t] = "loop"
    /\ t \notin waiting
    /\ \/ DequeueWaits(t) /\ UNCHANGED pc
       \/ \E task \in Task :
            /\ DequeueTakes(task)
            /\ pc' = [pc EXCEPT ![t] = IF task = Poison THEN "poisoned"
                                       ELSE IF task = Cleanup THEN "toClean" ELSE task]
    /\ UNCHANGED <<mapVars, m_numThreadsShouldExist, callVars, stopVars, aborted>>

\* m_cond.wait may return without having been notified.
SpuriousWakeup(t) ==
    /\ t \in waiting
    /\ waiting' = waiting \ {t}
    /\ UNCHANGED <<m_tasks, pc, mapVars, m_numThreadsShouldExist, callVars, stopVars, aborted>>

\* m_threads[id_] makes an entry without a ThreadPtr when there is none, and the
\* mutex is not taken.
SetThreadDoneImp(t) ==
    m_threads' = Put(m_threads, t,
        [ptr |-> t \in DOMAIN m_threads /\ m_threads[t].ptr, done |-> TRUE])

\* Nothing in the code makes a new thread wait until AddThreadImp has inserted it:
\* that is LateInsert = TRUE.  FALSE is an assumption on timing, that the owner's
\* insertion is sooner than the thread's first task.
PoisonTaken(t) ==
    /\ pc[t] = "poisoned"
    /\ LateInsert \/ t # newThread
    /\ SetThreadDoneImp(t)
    /\ pc' = [pc EXCEPT ![t] = "done"]
    /\ UNCHANGED <<queueVars, lock, unvisited, m_numThreadsShouldExist, callVars,
                   stopVars, aborted>>

ThreadEnds(t) ==
    /\ pc[t] = "done"
    /\ pc' = [pc EXCEPT ![t] = "ended"]
    /\ UNCHANGED <<queueVars, mapVars, m_numThreadsShouldExist, callVars, stopVars, aborted>>

\* t.Do() for the task that cleans
CleanupTaskImp(t) ==
    /\ \/ pc[t] = "toClean" /\ TakeMutex(t) /\ pc' = [pc EXCEPT ![t] = "cleaning"]
       \/ pc[t] = "cleaning" /\ ReleaseMutex(t) /\ pc' = [pc EXCEPT ![t] = "loop"]
    /\ UNCHANGED <<queueVars, m_numThreadsShouldExist, callVars, stopVars, aborted>>

\* t.Do() for a user's task returns.  Tasks that throw are not modelled: what they
\* throw is thrown on, out of the thread's function, and ends the process.
TaskReturns(t) ==
    /\ pc[t] \in UserTasks
    /\ pc' = [pc EXCEPT ![t] = "loop"]
    /\ UNCHANGED <<queueVars, mapVars, m_numThreadsShouldExist, callVars, stopVars, aborted>>

\* What the pool does in a thread, apart from the users' tasks.
PoolThread(t) ==
    \/ Dequeue(t)
    \/ PoisonTaken(t)
    \/ ThreadEnds(t)
    \/ CleanupTaskImp(t)
    \/ \E e \in unvisited : Visit(t, e)

---------------------------------------------------------------------------
(* The owner *)

Idle == call = "none" /\ ~aborted /\ stopped # "destroyed"

Begin(call_, at_, left_, target_) ==
    /\ Idle
    /\ left_ <= Cardinality({t \in Threads : pc[t] = "none"})
    /\ call' = call_
    /\ at' = at_
    /\ left' = left_
    /\ target' = target_
    /\ UNCHANGED newThread

Counted == calls < MaxCalls /\ calls' = calls + 1

Goto(at_) == at' = at_ /\ UNCHANGED <<call, left, target, newThread, calls>>

Return ==
    /\ call' = "none"
    /\ at' = "out"
    /\ target' = 0
    /\ UNCHANGED <<left, newThread, calls>>

\* ThreadPool::Add
Add(task) ==
    /\ Idle
    /\ Enqueue(task)
    /\ UNCHANGED <<pc, mapVars, m_numThreadsShouldExist, callVars, stopVars, aborted>>

\* ThreadPool::Start, which asserts that there are no threads
Start ==
    /\ ~Running
    /\ Begin("Start", "resize", m_numThreadsShouldExist, m_numThreadsShouldExist)
    /\ UNCHANGED <<calls, queueVars, pc, mapVars, m_numThreadsShouldExist, stopVars, aborted>>

\* ThreadPool::SetNum up to its loops.  IsRunning takes the mutex.
SetNum(numThreads_) ==
    /\ Counted
    /\ lock = Nobody
    /\ IF Running
       THEN /\ Begin("SetNum", "resize", numThreads_ - m_numThreadsShouldExist, numThreads_)
            /\ UNCHANGED m_numThreadsShouldExist
       ELSE /\ Begin("none", "out", 0, 0)
            /\ m_numThreadsShouldExist' = numThreads_
    /\ UNCHANGED <<queueVars, pc, mapVars, stopVars, aborted>>

\* Stop calls SetNum(0), and so does the destructor, which calls Stop with a
\* deadline that has passed already.
BeginStop(call_) ==
    /\ Counted
    /\ lock = Nobody
    /\ IF Running
       THEN /\ Begin(call_, "resize", 0 - m_numThreadsShouldExist, 0)
            /\ UNCHANGED m_numThreadsShouldExist
       ELSE /\ Begin(call_, "clean", 0, 0)
            /\ m_numThreadsShouldExist' = 0
    /\ late' = (call_ = "Destroy")
    /\ endedInTime' = FALSE
    /\ UNCHANGED <<queueVars, pc, mapVars, stopped, aborted>>

\* AddThreadImp: the thread runs before it is in the map.
CreateThread(t) ==
    /\ at = "resize"
    /\ left > 0
    /\ pc[t] = "none"
    /\ \A u \in Threads : pc[u] = "none" => t <= u
    /\ pc' = [pc EXCEPT ![t] = "loop"]
    /\ newThread' = t
    /\ at' = "insert"
    /\ UNCHANGED <<queueVars, mapVars, m_numThreadsShouldExist, call, left, target, calls,
                   stopVars, aborted>>

\* map::insert leaves an entry alone that is there already; the ThreadPtr is lost.
InsertThread ==
    /\ at = "insert"
    /\ lock = Nobody
    /\ m_threads' = IF newThread \in DOMAIN m_threads THEN m_threads
                    ELSE Put(m_threads, newThread, [ptr |-> TRUE, done |-> FALSE])
    /\ newThread' = Nobody
    /\ left' = left - 1
    /\ at' = "resize"
    /\ UNCHANGED <<queueVars, pc, lock, unvisited, m_numThreadsShouldExist, call, target,
                   calls, stopVars, aborted>>

AddPoison ==
    /\ at = "resize"
    /\ left < 0
    /\ Enqueue(Poison)
    /\ left' = left + 1
    /\ UNCHANGED <<pc, mapVars, m_numThreadsShouldExist, call, at, target, newThread, calls,
                   stopVars, aborted>>

\* A mutant: does not remember the new number.
EndResize_Forgets ==
    /\ at = "resize"
    /\ left = 0
    /\ IF target < m_numThreadsShouldExist THEN Enqueue(Cleanup) ELSE UNCHANGED queueVars
    /\ IF call \in {"SetNum", "Start"} THEN Return ELSE Goto("clean")
    /\ UNCHANGED <<pc, mapVars, m_numThreadsShouldExist, stopVars, aborted>>

\* A mutant: counts the threads a Start creates once more.
EndResize_Adds ==
    /\ at = "resize"
    /\ left = 0
    /\ IF target < m_numThreadsShouldExist THEN Enqueue(Cleanup) ELSE UNCHANGED queueVars
    /\ m_numThreadsShouldExist' = IF call = "Start" THEN target + target ELSE target
    /\ IF call \in {"SetNum", "Start"} THEN Return ELSE Goto("clean")
    /\ UNCHANGED <<pc, mapVars, stopVars, aborted>>

\* InsertCleanupTaskImp if threads are to end, and the store
EndResize ==
    /\ at = "resize"
    /\ left = 0
    /\ IF target < m_numThreadsShouldExist THEN Enqueue(Cleanup) ELSE UNCHANGED queueVars
    /\ m_numThreadsShouldExist' = target
    /\ IF call \in {"SetNum", "Start"} THEN Return ELSE Goto("clean")
    /\ UNCHANGED <<pc, mapVars, stopVars, aborted>>

\* Stop's own cleaning
OwnerCleans ==
    /\ \/ at = "clean" /\ TakeMutex(Owner) /\ Goto("walk")
       \/ at = "walk" /\ ReleaseMutex(Owner) /\ Goto("spin")
    /\ UNCHANGED <<queueVars, pc, m_numThreadsShouldExist, stopVars, aborted>>

DeadlinePasses ==
    /\ call = "Stop"
    /\ ~late
    /\ late' = TRUE
    /\ endedInTime' = (Alive = {})
    /\ UNCHANGED <<queueVars, pc, mapVars, m_numThreadsShouldExist, callVars, stopped, aborted>>

\* Stop yields until the deadline or until nothing is left in the map.
EndStop ==
    /\ at = "spin"
    /\ lock = Nobody
    /\ late \/ ~Running
    /\ IF call = "Stop"
       THEN /\ Return
            /\ stopped' = IF Running THEN "false" ELSE "true"
            /\ UNCHANGED mapVars
       ELSE Goto("cancel") /\ TakeMutex(Owner) /\ UNCHANGED stopped
    /\ UNCHANGED <<queueVars, pc, m_numThreadsShouldExist, late, endedInTime, aborted>>

\* CancelJoinThreadImp on the next entry.  A user's task and the wait for one can
\* be cancelled; a thread that has taken the poison ends by itself.
CancelJoinThreadImp(t) ==
    /\ at = "cancel"
    /\ t \in unvisited
    /\ IF ~m_threads[t].ptr
       THEN ProcessEnds
       ELSE /\ pc[t] \notin {"poisoned", "done"}
            /\ pc' = [pc EXCEPT ![t] = "ended"]
            /\ waiting' = waiting \ {t}
            /\ unvisited' = unvisited \ {t}
            /\ UNCHANGED <<m_tasks, m_threads, lock, m_numThreadsShouldExist, callVars,
                           stopVars, aborted>>

\* A mutant: leaves without waiting for the threads.
EndDestroy_Hurries ==
    /\ at = "cancel"
    /\ Return
    /\ lock' = Nobody
    /\ stopped' = "destroyed"
    /\ UNCHANGED <<queueVars, pc, m_threads, unvisited, m_numThreadsShouldExist, late,
                   endedInTime, aborted>>

EndDestroy ==
    /\ at = "cancel"
    /\ ReleaseMutex(Owner)
    /\ Return
    /\ stopped' = "destroyed"
    /\ UNCHANGED <<queueVars, pc, m_numThreadsShouldExist, late, endedInTime, aborted>>

OwnerStep ==
    \/ \E t \in Threads : CreateThread(t)
    \/ InsertThread
    \/ AddPoison
    \/ EndResize
    \/ OwnerCleans
    \/ \E t \in unvisited : at = "walk" /\ Visit(Owner, t)
    \/ EndStop
    \/ \E t \in unvisited : CancelJoinThreadImp(t)
    \/ EndDestroy

OwnerCalls ==
    \/ Start
    \/ \E n \in 0 .. MaxThreads : SetNum(n)
    \/ BeginStop("Stop")
    \/ BeginStop("Destroy")

---------------------------------------------------------------------------
(* A pool whose tasks do nothing the pool could notice *)

PoolNext ==
    /\ ~aborted
    /\ \/ \E task \in UserTasks : m_tasks[task] = 0 /\ Add(task)
       \/ OwnerCalls
       \/ OwnerStep
       \/ DeadlinePasses
       \/ \E t \in Threads : PoolThread(t) \/ TaskReturns(t) \/ SpuriousWakeup(t)

PoolSpec == PoolInit /\ [][PoolNext]_poolVars

\* Threads that are not in a user's task run, and time passes.
PoolFairness ==
    /\ WF_poolVars(OwnerStep)
    /\ WF_poolVars(DeadlinePasses)
    /\ \A t \in Threads : WF_poolVars(PoolThread(t))

FairPoolSpec == PoolSpec /\ PoolFairness

---------------------------------------------------------------------------
(* Properties *)

\* The queue, the map and the owner's place in its operation have the shapes the
\* code gives them, and only a thread between two tasks sleeps.
PoolTypeOK ==
    /\ m_tasks \in [Task -> Nat]
    /\ waiting \subseteq {t \in Threads : pc[t] = "loop"}
    /\ pc \in [Threads -> ThreadState]
    /\ DOMAIN m_threads \subseteq Threads
    /\ m_threads \in [DOMAIN m_threads -> [ptr : BOOLEAN, done : BOOLEAN]]
    /\ lock \in Threads \cup {Owner, Nobody}
    /\ unvisited \subseteq DOMAIN m_threads
    /\ m_numThreadsShouldExist \in 0 .. MaxThreads
    /\ left \in -MaxThreads .. MaxThreads
    /\ newThread \in Threads \cup {Nobody}

QueueEntries == UNION {{task} \X (1 .. m_tasks[task]) : task \in Task}
QueueLength == Cardinality(QueueEntries)
Awake == {t \in Threads : pc[t] = "loop"} \ waiting

\* notify_one is not lost: as long as some thread sleeps, the threads that are
\* awake and on their way to the queue are at least as many as the tasks in it,
\* however wakeups, spurious ones too, race with threads that come back.
NoLostWakeup == waiting # {} => QueueLength <= Cardinality(Awake)

\* "Even if the threads haven't eaten the apples yet. (So another SetNum won't
\* add unnecessary apples.)" (thread_pool.cpp:53): between two operations the
\* threads left when all poison is eaten are those that should exist.
ThreadsAddUp ==
    (call = "none" /\ stopped # "destroyed") =>
        Cardinality(Alive \ Poisoned) - m_tasks[Poison] =
            IF Running THEN m_numThreadsShouldExist ELSE 0

\* "create them and insert to m_threads" (thread_pool.cpp:35): between two
\* operations the map knows every thread that has not been joined, with its
\* ThreadPtr: else nobody would join it, or join would use a null pointer.
EveryThreadIsKnown ==
    call = "none" =>
        /\ \A t \in Alive : t \in DOMAIN m_threads
        /\ \A t \in DOMAIN m_threads : m_threads[t].ptr /\ pc[t] # "none"
        /\ ~aborted

\* No thread runs any more when Stop has returned true, until there are new ones,
\* or after the destructor, whatever the tasks do.
StoppedMeansEnded ==
    /\ (stopped = "true" /\ call = "none" /\ ~Running) => Alive = {}
    /\ stopped = "destroyed" => Alive = {}

\* No operation waits for ever: not for the mutex, not for a thread it joins with
\* the mutex held, and not for tasks that do not end.
EveryCallReturns == call # "none" ~> call = "none"

\* "returns if threadpool successfully stopped before the duration passed"
\* (thread_pool.hpp:36): Stop does not return false when all threads had ended
\* by its deadline.
StopSeesTheEnd == stopped = "false" => ~endedInTime
===========================================================================
