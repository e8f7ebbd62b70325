------------------------------- MODULE Timer -------------------------------
(***************************************************************************)
(* Class Timer (framework/timer/timer.cpp) on the Reactor: a map from time *)
(* points to callbacks, and one timerfd set for the first of them.  Set    *)
(* and Cancel are called from the functions the reactor calls: the sockets' *)
(* and the timers' own callbacks.                                          *)
(*                                                                         *)
(* A unit of time is the clock's, a nanosecond.  The clock moves on its    *)
(* own; MaxTime stands for every later moment, at which whatever was set   *)
(* is due.                                                                 *)
(***************************************************************************)
EXTENDS Reactor, FiniteSets

CONSTANTS
    m_timerFd,    \* the timerfd, among the descriptors of the sockets
    Durations,    \* the durations callers ask for; the Master has one, TIMEOUT
    SameTick,     \* may a time point be computed that is in the map already?
    DueNow,       \* may the clock stand exactly at the next time point?
    MaxHandles,   \* bound on the handle counter
    LastSet,      \* bound on the time of the last Set
    MaxTime       \* bound on the clock

TimerPlace == <<READ, m_timerFd>>
Sockets == {p \in Places : p[1] = READ} \ {TimerPlace}

ASSUME TimerAssumption ==
    /\ TimerPlace \in Places
    /\ Durations \subseteq Nat \ {0}
    /\ SameTick \in BOOLEAN
    /\ DueNow \in BOOLEAN
    /\ MaxHandles \in Nat
    /\ LastSet \in Nat
    /\ MaxTime \in Nat
    /\ \A d \in Durations : LastSet + d < MaxTime

VARIABLES
    now,             \* boost::chrono::steady_clock::now()
    m_callBacks,     \* Timer::m_callBacks, from time point to handle
    m_handleCounter, \* Timer::m_handleCounter
    timerfd,         \* when the timerfd expires, or Disarmed
    curr,            \* the time point whose callback CallBackWrapper runs
    armed,           \* the callers' view: handles set, not cancelled, not run
    failed           \* an assert has failed, or end() was dereferenced

timerVars == <<m_callBacks, m_handleCounter, timerfd, armed, failed>>
vars == <<reactorVars, timerVars, now, curr>>

Disarmed == -1
NoTime == -1
Time == 0 .. MaxTime

\* The first key of the map, and the one after an iterator.
IsFirst(map, tp) == tp \in DOMAIN map /\ \A t \in DOMAIN map : tp <= t
IsNext(map, after, tp) ==
    /\ tp \in DOMAIN map
    /\ tp > after
    /\ \A t \in DOMAIN map : t > after => tp <= t

\* A timerfd stays readable until it is set again; nobody reads it.
Expired == timerfd # Disarmed /\ (timerfd <= now \/ now = MaxTime)

TimerInit ==
    /\ ReactorInit(Sockets)
    /\ now = 0
    /\ m_callBacks = EmptyMap
    /\ m_handleCounter = 0
    /\ timerfd = Disarmed
    /\ curr = NoTime
    /\ armed = {}
    /\ failed = FALSE

---------------------------------------------------------------------------
(* Pieces of the operations *)

\* A mutant: passes the time point where a duration is wanted.
SetTimerIMP_TimePoint(duration_) ==
    timerfd' = IF duration_ = 0 THEN Disarmed ELSE now + (now + duration_)

\* timerfd_settime with a relative time disarms when it is 0.
SetTimerIMP(duration_) == timerfd' = IF duration_ = 0 THEN Disarmed ELSE now + duration_

\* A mutant: a timer that is late already does not fire any more.
SetNextTimer_LateIsOff(tp) ==
    /\ DueNow \/ tp # now
    /\ SetTimerIMP(IF tp < now THEN 0 ELSE tp - now)

SetNextTimer(tp) ==
    /\ DueNow \/ tp # now
    /\ SetTimerIMP(IF tp < now THEN 1 ELSE tp - now)

\* A mutant: leaves the descriptor with the reactor.
EraseAndSetTimerIMP_KeepsFD(tp) ==
    LET left == Erase(m_callBacks, tp)
    IN  /\ m_callBacks' = left
        /\ IF DOMAIN left = {}
           THEN SetTimerIMP(0) /\ UNCHANGED <<m_fdFuncs, failed>>
           ELSE /\ \E next \in DOMAIN left : IsNext(left, tp, next) /\ SetNextTimer(next)
                /\ UNCHANGED <<m_fdFuncs, failed>>

\* EraseAndSetTimerIMP sets the timerfd for the element after the erased one; if
\* there is none although the map is not empty, it dereferences end().  RemFD
\* asserts that the reactor has the descriptor.
EraseAndSetTimerIMP(tp) ==
    LET left == Erase(m_callBacks, tp)
    IN  /\ m_callBacks' = left
        /\ IF DOMAIN left = {}
           THEN /\ SetTimerIMP(0)
                /\ \/ RemFD(TimerPlace) /\ UNCHANGED failed
                   \/ TimerPlace \notin DOMAIN m_fdFuncs /\ failed' = TRUE /\ UNCHANGED m_fdFuncs
           ELSE /\ \/ /\ \E next \in DOMAIN left : IsNext(left, tp, next) /\ SetNextTimer(next)
                      /\ UNCHANGED failed
                   \/ /\ \A t \in DOMAIN left : t < tp
                      /\ failed' = TRUE
                      /\ UNCHANGED timerfd
                /\ UNCHANGED m_fdFuncs

---------------------------------------------------------------------------
(* The operations, called from a function the reactor has called *)

\* Timer::Set
Set(duration_) ==
    LET real_time == now + duration_
    IN  /\ running # NoPlace /\ ~failed
        /\ m_handleCounter < MaxHandles /\ now <= LastSet
        /\ SameTick \/ real_time \notin DOMAIN m_callBacks
        /\ m_callBacks' = Put(m_callBacks, real_time, m_handleCounter)
        /\ m_handleCounter' = m_handleCounter + 1
        /\ armed' = armed \cup {m_handleCounter}
        /\ IF DOMAIN m_callBacks' = {real_time}
           THEN AddFD(TimerPlace) /\ SetTimerIMP(duration_)
           ELSE /\ IF IsFirst(m_callBacks', real_time)
                   THEN SetTimerIMP(duration_) ELSE UNCHANGED timerfd
                /\ UNCHANGED m_fdFuncs
        /\ UNCHANGED <<walkVars, running, ready, m_shouldStop, returned, now, curr, failed>>

\* A mutant: cancels the first timer instead of the one it has found.
CancelAt_First(tp) ==
    \E first \in DOMAIN m_callBacks :
        IsFirst(m_callBacks, first) /\ EraseAndSetTimerIMP(first)

\* A mutant: forgets that the timerfd was set for the timer it cancels.
CancelAt_OnlyErases(tp) ==
    /\ m_callBacks' = Erase(m_callBacks, tp)
    /\ UNCHANGED <<m_fdFuncs, timerfd, failed>>

\* Cancel once it has found the handle at tp
CancelAt(tp) ==
    IF IsFirst(m_callBacks, tp)
    THEN EraseAndSetTimerIMP(tp)
    ELSE /\ m_callBacks' = Erase(m_callBacks, tp)
         /\ UNCHANGED <<m_fdFuncs, timerfd, failed>>

\* Timer::Cancel, of a handle that Set has returned and that is neither
\* cancelled yet nor the one whose callback is running.
Cancel(handle_) ==
    /\ running # NoPlace /\ ~failed
    /\ handle_ \in armed
    /\ curr # NoTime => m_callBacks[curr] # handle_
    /\ armed' = armed \ {handle_}
    /\ \/ \E tp \in DOMAIN m_callBacks : m_callBacks[tp] = handle_ /\ CancelAt(tp)
       \/ /\ \A tp \in DOMAIN m_callBacks : m_callBacks[tp] # handle_
          /\ failed' = TRUE
          /\ UNCHANGED <<m_fdFuncs, m_callBacks, timerfd>>
    /\ UNCHANGED <<walkVars, running, ready, m_shouldStop, returned, now, curr, m_handleCounter>>

\* A mutant: runs the callback set last.
FirstTimePoint_Last(tp) == tp \in DOMAIN m_callBacks /\ \A t \in DOMAIN m_callBacks : tp >= t

\* m_callBacks.begin()
FirstTimePoint(tp) == IsFirst(m_callBacks, tp)

\* The walk comes to the timerfd; CallBackWrapper runs the first callback.  With
\* an empty map it would dereference end().
CallBackWrapper ==
    /\ ~failed
    /\ ActivateFuncIfFdRdyIMP(TimerPlace)
    /\ \/ running' = NoPlace /\ UNCHANGED <<curr, failed>>
       \/ /\ running' = TimerPlace
          /\ \E tp \in DOMAIN m_callBacks : FirstTimePoint(tp) /\ curr' = tp
          /\ UNCHANGED failed
       \/ /\ running' = TimerPlace
          /\ DOMAIN m_callBacks = {}
          /\ failed' = TRUE
          /\ UNCHANGED curr
    /\ UNCHANGED <<now, m_callBacks, m_handleCounter, timerfd, armed>>

\* ... and the callback has returned.
CallBackReturns ==
    /\ ~failed
    /\ running = TimerPlace
    /\ armed' = armed \ {m_callBacks[curr]}
    /\ EraseAndSetTimerIMP(curr)
    /\ curr' = NoTime
    /\ running' = NoPlace
    /\ UNCHANGED <<walkVars, ready, m_shouldStop, returned, now, m_handleCounter>>

---------------------------------------------------------------------------
(* The reactor and the sockets around it *)

Tick ==
    /\ now < MaxTime
    /\ now' = now + 1
    /\ UNCHANGED <<reactorVars, timerVars, curr>>

ReactorStep ==
    /\ ~failed
    /\ \/ Select(ready \cup (IF Expired THEN {TimerPlace} ELSE {}))
       \/ \E p \in Sockets : ActivateFuncIfFdRdyIMP(p)
       \/ EndPass
    /\ UNCHANGED <<timerVars, now, curr>>

SocketReturns ==
    /\ ~failed
    /\ running # TimerPlace
    /\ FunctionReturns
    /\ UNCHANGED <<timerVars, now, curr>>

SocketReady ==
    /\ ~failed
    /\ \E p \in Sockets : BecomesReady(p)
    /\ UNCHANGED <<timerVars, now, curr>>

Loops == ReactorStep \/ CallBackWrapper

TimerNext ==
    \/ Tick
    \/ Loops
    \/ SocketReady
    \/ SocketReturns
    \/ CallBackReturns
    \/ \E d \in Durations : Set(d)
    \/ \E h \in armed : Cancel(h)

TimerSpec == TimerInit /\ [][TimerNext]_vars

\* Time passes, the reactor's thread runs, and the functions it calls return.
FairTimerSpec ==
    /\ TimerSpec
    /\ WF_vars(Tick)
    /\ WF_vars(Loops)
    /\ WF_vars(SocketReturns)
    /\ WF_vars(CallBackReturns)

---------------------------------------------------------------------------
(* Properties *)

\* The shapes of the timer's variables.
TimerTypeOK ==
    /\ now \in Time
    /\ DOMAIN m_callBacks \subseteq Time
    /\ m_callBacks \in [DOMAIN m_callBacks -> 0 .. MaxHandles]
    /\ m_handleCounter \in 0 .. MaxHandles
    /\ timerfd \in 0 .. MaxTime + 1 \cup {Disarmed}
    /\ curr \in Time \cup {NoTime}
    /\ armed \subseteq 0 .. MaxHandles
    /\ failed \in BOOLEAN

\* The reactor has the timerfd's function exactly while there is a timer in the
\* map, in the middle of a pass too: CallBackWrapper never finds the map empty,
\* and no RemFD finds the descriptor gone.
RegisteredWhileArmed == TimerPlace \in Registered <=> DOMAIN m_callBacks # {}

\* The map has what the callers believe to have set: no timer disappears, and
\* Cancel finds every handle Set has returned.
MapIsWhatWasSet ==
    /\ armed = {m_callBacks[tp] : tp \in DOMAIN m_callBacks}
    /\ ~failed

\* "if we are already late to run the next callback - set timer to 1 nanosec"
\* (timer.cpp:109), "if empty - cancel timer" (timer.cpp:117), and so only then:
\* while there are timers the timerfd is set, for the first of them, or, when that
\* is past, for at once.
TimerfdIsSetForTheFirst ==
    \A tp \in DOMAIN m_callBacks :
        IsFirst(m_callBacks, tp) =>
            /\ timerfd # Disarmed
            /\ timerfd >= tp
            /\ timerfd = tp \/ timerfd <= now + 1

\* With one duration callbacks run in the order they were set, as module Master
\* has it: a callback that runs is that of the oldest timer, whatever was
\* cancelled, and however early a stale wakeup has called it.
OldestRunsFirst ==
    curr # NoTime => \A h \in armed : m_callBacks[curr] <= h

\* Every timer is cancelled or has its callback run.
EveryTimerEnds == \A h \in 0 .. MaxHandles : h \in armed ~> h \notin armed
===========================================================================
