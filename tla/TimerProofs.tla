---------------------------- MODULE TimerProofs ----------------------------
(***************************************************************************)
(* For every set of descriptors, durations and bounds, and whatever the    *)
(* clock does: the reactor has the timerfd's function exactly while there  *)
(* are timers, so that CallBackWrapper never dereferences the end of an    *)
(* empty map, and select watches what is registered.  When every timer has *)
(* the same duration, as Master's have, and the clock moves between two of *)
(* them: no timer is lost to another with its time point, the oldest runs  *)
(* first, and the timerfd is set for it.                                   *)
(***************************************************************************)
EXTENDS Timer, TLAPS

---------------------------------------------------------------------------
(* The map of functions *)

\* AddFD registers its place and touches no other.
LEMMA AddFDRegisters ==
    ASSUME NEW p, AddFD(p)
    PROVE  Registered' = Registered \cup {p}
BY DEF AddFD, Put, Registered

\* RemFD removes its place and touches no other.
LEMMA RemFDRemoves ==
    ASSUME NEW p, RemFD(p)
    PROVE  Registered' = Registered \ {p}
BY DEF RemFD, Put, Registered

\* The end of a pass drops only entries without a function.
LEMMA EndPassKeeps ==
    ASSUME EndPass
    PROVE  Registered' = Registered
BY DEF EndPass, CleanEmptyFunctions, Registered

\* No step of the walk changes what is registered.
LEMMA WalkKeeps ==
    ASSUME NEW p, ActivateFuncIfFdRdyIMP(p)
    PROVE  Registered' = Registered
BY DEF ActivateFuncIfFdRdyIMP, Registered

---------------------------------------------------------------------------
(* Types *)

\* Setting the timerfd for a time point of the map keeps it in range.
LEMMA SetNextType ==
    ASSUME TimerTypeOK, NEW tp \in Time, SetNextTimer(tp)
    PROVE  timerfd' \in 0 .. MaxTime + 1 \cup {Disarmed}
BY TimerAssumption DEF TimerTypeOK, SetNextTimer, SetTimerIMP, Time, Disarmed

\* What is left after an erasure is a map of the same kind.
LEMMA ErasedType ==
    ASSUME TimerTypeOK, NEW tp
    PROVE  /\ DOMAIN Erase(m_callBacks, tp) = DOMAIN m_callBacks \ {tp}
           /\ DOMAIN Erase(m_callBacks, tp) \subseteq Time
           /\ Erase(m_callBacks, tp) \in
                  [DOMAIN Erase(m_callBacks, tp) -> 0 .. MaxHandles]
BY DEF TimerTypeOK, Erase

\* EraseAndSetTimerIMP keeps the types.
LEMMA EraseAndSetType ==
    ASSUME TimerTypeOK, ~failed, NEW tp, EraseAndSetTimerIMP(tp)
    PROVE  /\ DOMAIN m_callBacks' \subseteq Time
           /\ m_callBacks' \in [DOMAIN m_callBacks' -> 0 .. MaxHandles]
           /\ timerfd' \in 0 .. MaxTime + 1 \cup {Disarmed}
           /\ failed' \in BOOLEAN
<1> DEFINE left == Erase(m_callBacks, tp)
<1>1. /\ DOMAIN left \subseteq Time
      /\ left \in [DOMAIN left -> 0 .. MaxHandles]
  BY ErasedType
<1>2. m_callBacks' = left
  BY DEF EraseAndSetTimerIMP
<1>3. timerfd' \in 0 .. MaxTime + 1 \cup {Disarmed}
  <2> HIDE DEF left
  <2>1. CASE SetTimerIMP(0)
    BY <2>1 DEF SetTimerIMP, Disarmed
  <2>2. CASE \E next \in DOMAIN left : SetNextTimer(next)
    BY <1>1, <2>2, SetNextType
  <2>3. CASE UNCHANGED timerfd
    BY <2>3 DEF TimerTypeOK
  <2> QED BY <2>1, <2>2, <2>3 DEF EraseAndSetTimerIMP, left
<1>4. failed' \in BOOLEAN
  BY DEF EraseAndSetTimerIMP, TimerTypeOK
<1> QED BY <1>1, <1>2, <1>3, <1>4

\* Set keeps the types: its time point is below MaxTime.
LEMMA SetType ==
    ASSUME TimerTypeOK, NEW d \in Durations, Set(d)
    PROVE  TimerTypeOK'
<1> DEFINE rt == now + d
<1>1. rt \in Time /\ now \in Time /\ d \in Nat \ {0} /\ MaxTime \in Nat
  BY TimerAssumption DEF Set, Time, TimerTypeOK
<1>2. m_handleCounter \in 0 .. MaxHandles /\ m_handleCounter + 1 \in 0 .. MaxHandles
  BY TimerAssumption DEF Set, TimerTypeOK
<1>3. m_callBacks' = Put(m_callBacks, rt, m_handleCounter)
  BY DEF Set
<1>4. /\ DOMAIN m_callBacks' \subseteq Time
      /\ m_callBacks' \in [DOMAIN m_callBacks' -> 0 .. MaxHandles]
  <2> HIDE DEF rt
  <2> QED BY <1>1, <1>2, <1>3 DEF Put, TimerTypeOK
<1>5. timerfd' \in 0 .. MaxTime + 1 \cup {Disarmed}
  <2>1. SetTimerIMP(d) \/ UNCHANGED timerfd
    BY DEF Set
  <2> QED BY <1>1, <2>1 DEF SetTimerIMP, TimerTypeOK, Time
<1>6. /\ m_handleCounter' \in 0 .. MaxHandles
      /\ armed' \subseteq 0 .. MaxHandles
      /\ UNCHANGED <<now, curr, failed>>
  BY <1>2 DEF Set, TimerTypeOK
<1> QED BY <1>4, <1>5, <1>6 DEF TimerTypeOK

\* Cancel keeps the types.
LEMMA CancelType ==
    ASSUME TimerTypeOK, NEW h, Cancel(h)
    PROVE  TimerTypeOK'
<1>1. /\ UNCHANGED <<now, curr, m_handleCounter>>
      /\ armed' \subseteq armed
      /\ ~failed
  BY DEF Cancel
<1>2. /\ DOMAIN m_callBacks' \subseteq Time
      /\ m_callBacks' \in [DOMAIN m_callBacks' -> 0 .. MaxHandles]
      /\ timerfd' \in 0 .. MaxTime + 1 \cup {Disarmed}
      /\ failed' \in BOOLEAN
  <2>1. CASE \E tp \in DOMAIN m_callBacks : CancelAt(tp)
    <3>1. PICK tp \in DOMAIN m_callBacks : CancelAt(tp)
      BY <2>1
    <3>2. CASE EraseAndSetTimerIMP(tp)
      BY <1>1, <3>2, EraseAndSetType
    <3>3. CASE m_callBacks' = Erase(m_callBacks, tp) /\ UNCHANGED <<timerfd, failed>>
      BY <3>3, ErasedType DEF TimerTypeOK
    <3> QED BY <3>1, <3>2, <3>3 DEF CancelAt
  <2>2. CASE failed' = TRUE /\ UNCHANGED <<m_callBacks, timerfd>>
    BY <2>2 DEF TimerTypeOK
  <2> QED BY <2>1, <2>2 DEF Cancel
<1> QED BY <1>1, <1>2 DEF TimerTypeOK

\* Every step keeps the types.
LEMMA NextTimerTypeOK == TimerTypeOK /\ [TimerNext]_vars => TimerTypeOK'
<1> SUFFICES ASSUME TimerTypeOK, [TimerNext]_vars PROVE TimerTypeOK'
  OBVIOUS
<1>1. CASE Tick
  BY <1>1, TimerAssumption DEF Tick, timerVars, TimerTypeOK, Time
<1>2. CASE UNCHANGED <<timerVars, now, curr>>
  BY <1>2 DEF timerVars, TimerTypeOK
<1>3. CASE CallBackWrapper
  <2>1. curr' \in Time \cup {NoTime}
    BY <1>3 DEF CallBackWrapper, TimerTypeOK
  <2>2. failed' \in BOOLEAN
    BY <1>3 DEF CallBackWrapper, TimerTypeOK
  <2>3. UNCHANGED <<now, m_callBacks, m_handleCounter, timerfd, armed>>
    BY <1>3 DEF CallBackWrapper
  <2> QED BY <2>1, <2>2, <2>3 DEF TimerTypeOK
<1>4. CASE CallBackReturns
  <2>1. ~failed /\ EraseAndSetTimerIMP(curr)
    BY <1>4 DEF CallBackReturns
  <2>2. /\ UNCHANGED <<now, m_handleCounter>>
        /\ curr' = NoTime
        /\ armed' \subseteq armed
    BY <1>4 DEF CallBackReturns
  <2> QED BY <2>1, <2>2, EraseAndSetType DEF TimerTypeOK
<1>5. CASE \E d \in Durations : Set(d)
  BY <1>5, SetType
<1>6. CASE \E h \in armed : Cancel(h)
  BY <1>6, CancelType
<1>7. CASE ReactorStep \/ SocketReady \/ SocketReturns
  BY <1>2, <1>7 DEF ReactorStep, SocketReady, SocketReturns
<1>8. CASE UNCHANGED vars
  BY <1>2, <1>8 DEF vars
<1> QED BY <1>1, <1>3, <1>4, <1>5, <1>6, <1>7, <1>8 DEF TimerNext, Loops

\* The initial state has the types.
LEMMA InitTimerTypeOK == TimerInit => TimerTypeOK
<1> SUFFICES ASSUME TimerInit PROVE TimerTypeOK
  OBVIOUS
<1>1. DOMAIN m_callBacks = {} /\ m_callBacks \in [DOMAIN m_callBacks -> 0 .. MaxHandles]
  BY DEF TimerInit, EmptyMap
<1>2. now \in Time /\ m_handleCounter \in 0 .. MaxHandles
  BY TimerAssumption DEF TimerInit, Time
<1>3. failed \in BOOLEAN
  BY DEF TimerInit
<1> QED BY <1>1, <1>2, <1>3 DEF TimerInit, TimerTypeOK

\* The timer's state always has its types; in particular a time point is never
\* beyond the clock's range, nor a handle beyond the counter's.
THEOREM TimerTypeCorrect == TimerSpec => []TimerTypeOK
BY InitTimerTypeOK, NextTimerTypeOK, PTL DEF TimerSpec

---------------------------------------------------------------------------
(* Registration *)

\* EraseAndSetTimerIMP removes the descriptor with the last timer, no earlier.
LEMMA EraseAndSetRegisters ==
    ASSUME RegisteredWhileArmed, NEW tp, EraseAndSetTimerIMP(tp)
    PROVE  RegisteredWhileArmed'
<1> DEFINE left == Erase(m_callBacks, tp)
<1>1. m_callBacks' = left
  BY DEF EraseAndSetTimerIMP
<1>2. CASE DOMAIN left = {}
  <2>1. RemFD(TimerPlace) \/ (TimerPlace \notin DOMAIN m_fdFuncs /\ UNCHANGED m_fdFuncs)
    BY <1>2 DEF EraseAndSetTimerIMP
  <2>2. TimerPlace \notin Registered'
    BY <2>1, RemFDRemoves DEF Registered, TimerPlace
  <2> QED BY <1>1, <1>2, <2>2 DEF RegisteredWhileArmed, TimerPlace
<1>3. CASE DOMAIN left # {}
  <2>1. UNCHANGED m_fdFuncs
    BY <1>3 DEF EraseAndSetTimerIMP
  <2>2. DOMAIN m_callBacks # {}
    BY <1>3 DEF Erase
  <2> QED BY <1>1, <1>3, <2>1, <2>2 DEF RegisteredWhileArmed, Registered, TimerPlace
<1> QED BY <1>2, <1>3

\* A timer that is not the first is not the last one left either.
LEMMA CancelRegisters ==
    ASSUME TimerTypeOK, RegisteredWhileArmed, NEW h, Cancel(h)
    PROVE  RegisteredWhileArmed'
<1>1. CASE \E tp \in DOMAIN m_callBacks : CancelAt(tp)
  <2>1. PICK tp \in DOMAIN m_callBacks : CancelAt(tp)
    BY <1>1
  <2>2. CASE IsFirst(m_callBacks, tp)
    BY <2>1, <2>2, EraseAndSetRegisters DEF CancelAt
  <2>3. CASE ~IsFirst(m_callBacks, tp)
    <3>1. m_callBacks' = Erase(m_callBacks, tp) /\ UNCHANGED m_fdFuncs
      BY <2>1, <2>3 DEF CancelAt
    <3>2. PICK t \in DOMAIN m_callBacks : ~(tp <= t)
      BY <2>3 DEF IsFirst
    <3>3. t # tp
      BY <3>2, TimerAssumption DEF TimerTypeOK, Time
    <3>4. t \in DOMAIN m_callBacks'
      BY <3>1, <3>3 DEF Erase
    <3> QED BY <3>1, <3>4 DEF RegisteredWhileArmed, Registered, TimerPlace
  <2> QED BY <2>2, <2>3
<1>2. CASE UNCHANGED <<m_fdFuncs, m_callBacks>>
  BY <1>2 DEF RegisteredWhileArmed, Registered, TimerPlace
<1> QED BY <1>1, <1>2 DEF Cancel

\* Set registers the descriptor with the first timer.
LEMMA SetRegisters ==
    ASSUME RegisteredWhileArmed, NEW d, Set(d)
    PROVE  RegisteredWhileArmed'
<1> DEFINE rt == now + d
<1>1. m_callBacks' = Put(m_callBacks, rt, m_handleCounter)
  BY DEF Set
<1>2. DOMAIN m_callBacks' = DOMAIN m_callBacks \cup {rt}
  <2> HIDE DEF rt
  <2> QED BY <1>1 DEF Put
<1>3. TimerPlace \in Registered'
  <2>1. CASE DOMAIN m_callBacks' = {rt}
    <3>1. AddFD(TimerPlace)
      BY <2>1 DEF Set
    <3> QED BY <3>1, AddFDRegisters
  <2>2. CASE DOMAIN m_callBacks' # {rt}
    <3>1. UNCHANGED m_fdFuncs
      BY <2>2 DEF Set
    <3>2. DOMAIN m_callBacks # {}
      <4> HIDE DEF rt
      <4> QED BY <1>2, <2>2
    <3> QED BY <3>1, <3>2 DEF RegisteredWhileArmed, Registered
  <2> QED BY <2>1, <2>2
<1> HIDE DEF rt
<1> QED BY <1>2, <1>3 DEF RegisteredWhileArmed, TimerPlace

\* The function is registered exactly while there are timers, in every state.
THEOREM RegistrationHolds == TimerSpec => []RegisteredWhileArmed
<1>1. TimerInit => RegisteredWhileArmed
  BY DEF TimerInit, ReactorInit, RegisteredWhileArmed, Registered, EmptyMap, Sockets
<1>2. TimerTypeOK /\ RegisteredWhileArmed /\ [TimerNext]_vars => RegisteredWhileArmed'
  <2> SUFFICES ASSUME TimerTypeOK, RegisteredWhileArmed, [TimerNext]_vars
               PROVE  RegisteredWhileArmed'
    OBVIOUS
  <2>1. CASE Registered' = Registered /\ UNCHANGED m_callBacks
    BY <2>1 DEF RegisteredWhileArmed, TimerPlace
  <2>2. CASE Tick
    BY <2>1, <2>2 DEF Tick, reactorVars, timerVars, Registered
  <2>3. CASE ReactorStep
    <3>1. UNCHANGED m_callBacks
      BY <2>3 DEF ReactorStep, timerVars
    <3>2. Registered' = Registered
      <4>1. CASE \E r : Select(r)
        BY <4>1 DEF Select, Registered
      <4>2. CASE \E p \in Sockets : ActivateFuncIfFdRdyIMP(p)
        BY <4>2, WalkKeeps
      <4>3. CASE EndPass
        BY <4>3, EndPassKeeps
      <4> QED BY <2>3, <4>1, <4>2, <4>3 DEF ReactorStep
    <3> QED BY <2>1, <3>1, <3>2
  <2>4. CASE CallBackWrapper
    BY <2>1, <2>4, WalkKeeps DEF CallBackWrapper
  <2>5. CASE SocketReady \/ SocketReturns
    BY <2>1, <2>5 DEF SocketReady, SocketReturns, BecomesReady, FunctionReturns,
                      timerVars, Registered
  <2>6. CASE CallBackReturns
    <3>1. EraseAndSetTimerIMP(curr)
      BY <2>6 DEF CallBackReturns
    <3> QED BY <3>1, EraseAndSetRegisters
  <2>7. CASE \E d \in Durations : Set(d)
    BY <2>7, SetRegisters
  <2>8. CASE \E h \in armed : Cancel(h)
    BY <2>8, CancelRegisters
  <2>9. CASE UNCHANGED vars
    BY <2>1, <2>9 DEF vars, reactorVars, timerVars, Registered
  <2> QED BY <2>2, <2>3, <2>4, <2>5, <2>6, <2>7, <2>8, <2>9 DEF TimerNext, Loops
<1> QED BY <1>1, <1>2, TimerTypeCorrect, PTL DEF TimerSpec

---------------------------------------------------------------------------
(* The map, with one duration and a clock that never gives a time point twice *)

\* Every timer of the Master has the same duration, TIMEOUT, and two Sets are at
\* least a nanosecond apart.
OneDuration == SameTick = FALSE /\ \A d, e \in Durations : d = e

\* A callback runs while curr says so, and then for the first timer of the map.
CurrIsFirst ==
    /\ running = TimerPlace <=> curr # NoTime
    /\ curr # NoTime => IsFirst(m_callBacks, curr)

\* No time point is further away than the duration, so a new one comes last.
WithinDuration == \A tp \in DOMAIN m_callBacks, d \in Durations : tp <= now + d

\* Handles grow with time points, and the next one is larger than all.
HandlesInOrder ==
    /\ \A s, t \in DOMAIN m_callBacks : s < t => m_callBacks[s] < m_callBacks[t]
    /\ \A t \in DOMAIN m_callBacks : m_callBacks[t] < m_handleCounter

MapInv == CurrIsFirst /\ WithinDuration /\ HandlesInOrder /\ MapIsWhatWasSet

\* No two timers have the same handle.
LEMMA HandlesDistinct ==
    ASSUME TimerTypeOK, HandlesInOrder
    PROVE  \A s, t \in DOMAIN m_callBacks : m_callBacks[s] = m_callBacks[t] => s = t
<1> SUFFICES ASSUME NEW s \in DOMAIN m_callBacks, NEW t \in DOMAIN m_callBacks,
                    m_callBacks[s] = m_callBacks[t], s # t
             PROVE  FALSE
  OBVIOUS
<1>1. s \in Nat /\ t \in Nat /\ m_callBacks[s] \in Nat /\ m_callBacks[t] \in Nat
  BY TimerAssumption DEF TimerTypeOK, Time
<1>2. s < t \/ t < s
  BY <1>1
<1> QED BY <1>1, <1>2 DEF HandlesInOrder

\* Erasing the first timer finds the descriptor registered, and the next timer if
\* there is one, which it sets the timerfd for.
LEMMA EraseFirst ==
    ASSUME TimerTypeOK, RegisteredWhileArmed, ~failed, NEW tp, IsFirst(m_callBacks, tp),
           EraseAndSetTimerIMP(tp)
    PROVE  /\ m_callBacks' = Erase(m_callBacks, tp) /\ ~failed'
           /\ \A t \in DOMAIN m_callBacks' : IsFirst(m_callBacks', t) => SetNextTimer(t)
<1> DEFINE left == Erase(m_callBacks, tp)
<1>1. /\ DOMAIN left = DOMAIN m_callBacks \ {tp} /\ DOMAIN left \subseteq Time
      /\ tp \in DOMAIN m_callBacks /\ tp \in Time
  BY ErasedType DEF IsFirst, TimerTypeOK
<1>2. Time \subseteq Nat
  BY TimerAssumption DEF Time
<1>3. \A t \in DOMAIN left : t > tp
  BY <1>1, <1>2 DEF IsFirst
<1>4. TimerPlace \in DOMAIN m_fdFuncs
  BY <1>1 DEF RegisteredWhileArmed, Registered
<1>5. m_callBacks' = left
  BY DEF EraseAndSetTimerIMP
<1>6. CASE DOMAIN left = {}
  BY <1>4, <1>5, <1>6 DEF EraseAndSetTimerIMP
<1>7. CASE DOMAIN left # {}
  <2>1. ~(\A t \in DOMAIN left : t < tp)
    <3>1. PICK t \in DOMAIN left : TRUE
      BY <1>7
    <3> QED BY <1>1, <1>2, <1>3, <3>1
  <2>2. \E next \in DOMAIN left : IsNext(left, tp, next) /\ SetNextTimer(next)
    BY <1>7, <2>1 DEF EraseAndSetTimerIMP
  <2>3. failed' = failed
    BY <1>7, <2>1 DEF EraseAndSetTimerIMP
  <2>4. PICK next \in DOMAIN left : IsNext(left, tp, next) /\ SetNextTimer(next)
    BY <2>2
  <2> HIDE DEF left
  <2>5. \A t \in DOMAIN left : next <= t
    BY <1>3, <2>4 DEF IsNext
  <2>6. ASSUME NEW t \in DOMAIN left, IsFirst(left, t) PROVE t = next
    BY <1>1, <1>2, <2>5, <2>6 DEF IsFirst
  <2> QED BY <1>5, <2>3, <2>4, <2>6 DEF left
<1> QED BY <1>6, <1>7

\* What is in order stays so when a timer is erased.
LEMMA ErasedInOrder ==
    ASSUME TimerTypeOK, WithinDuration, HandlesInOrder, MapIsWhatWasSet,
           NEW tp \in DOMAIN m_callBacks, m_callBacks' = Erase(m_callBacks, tp),
           armed' = armed \ {m_callBacks[tp]}, ~failed',
           UNCHANGED <<now, m_handleCounter>>
    PROVE  WithinDuration' /\ HandlesInOrder' /\ MapIsWhatWasSet'
<1>1. /\ DOMAIN m_callBacks' = DOMAIN m_callBacks \ {tp}
      /\ \A t \in DOMAIN m_callBacks' : m_callBacks'[t] = m_callBacks[t]
  BY DEF Erase
<1>2. WithinDuration' /\ HandlesInOrder'
  BY <1>1 DEF WithinDuration, HandlesInOrder
<1>3. armed' = {m_callBacks'[t] : t \in DOMAIN m_callBacks'}
  BY <1>1, HandlesDistinct DEF MapIsWhatWasSet
<1> QED BY <1>2, <1>3 DEF MapIsWhatWasSet

\* Set puts its timer behind all others.
LEMMA SetInOrder ==
    ASSUME OneDuration, TimerTypeOK, MapInv, NEW d \in Durations, Set(d)
    PROVE  /\ MapInv'
           /\ \A t \in DOMAIN m_callBacks : t < now + d
<1> DEFINE rt == now + d
<1>1. /\ m_callBacks' = Put(m_callBacks, rt, m_handleCounter)
      /\ rt \notin DOMAIN m_callBacks
      /\ m_handleCounter' = m_handleCounter + 1 /\ armed' = armed \cup {m_handleCounter}
      /\ UNCHANGED <<running, now, curr, failed>>
  BY DEF Set, OneDuration
<1>2. /\ now \in Nat /\ d \in Nat \ {0} /\ m_handleCounter \in Nat /\ DOMAIN m_callBacks \subseteq Nat
      /\ \A t \in DOMAIN m_callBacks : m_callBacks[t] \in Nat
  BY TimerAssumption DEF TimerTypeOK, Time
<1>3. \A t \in DOMAIN m_callBacks : t < rt
  BY <1>1, <1>2 DEF MapInv, WithinDuration
<1>4. rt \in Nat /\ \A e \in Durations : rt <= now + e
  BY <1>2 DEF OneDuration
<1> HIDE DEF rt
<1>5. /\ DOMAIN m_callBacks' = DOMAIN m_callBacks \cup {rt}
      /\ m_callBacks'[rt] = m_handleCounter
      /\ \A t \in DOMAIN m_callBacks : m_callBacks'[t] = m_callBacks[t]
  BY <1>1 DEF Put
<1>6. CurrIsFirst'
  <2>1. curr # NoTime => IsFirst(m_callBacks', curr)
    BY <1>2, <1>3, <1>4, <1>5 DEF MapInv, CurrIsFirst, IsFirst
  <2> QED BY <1>1, <2>1 DEF MapInv, CurrIsFirst, TimerPlace
<1>7. WithinDuration'
  BY <1>1, <1>4, <1>5 DEF MapInv, WithinDuration
<1>8. HandlesInOrder'
  BY <1>1, <1>2, <1>3, <1>4, <1>5 DEF MapInv, HandlesInOrder
<1>9. MapIsWhatWasSet'
  BY <1>1, <1>5 DEF MapInv, MapIsWhatWasSet
<1> QED BY <1>3, <1>6, <1>7, <1>8, <1>9 DEF MapInv, rt

\* Cancel finds its handle; while a callback runs it is not the first timer's.
LEMMA CancelInOrder ==
    ASSUME TimerTypeOK, RegisteredWhileArmed, MapInv, NEW h \in armed, Cancel(h)
    PROVE  MapInv'
<1>1. /\ ~failed /\ armed' = armed \ {h} /\ UNCHANGED <<running, now, curr, m_handleCounter>>
      /\ curr # NoTime => m_callBacks[curr] # h
  BY DEF Cancel
<1>2. \E tp \in DOMAIN m_callBacks : m_callBacks[tp] = h
  BY DEF MapInv, MapIsWhatWasSet
<1>3. PICK tp \in DOMAIN m_callBacks : m_callBacks[tp] = h /\ CancelAt(tp)
  BY <1>2 DEF Cancel
<1>4. m_callBacks' = Erase(m_callBacks, tp) /\ ~failed'
  <2>1. CASE IsFirst(m_callBacks, tp)
    BY <1>1, <1>3, <2>1, EraseFirst DEF CancelAt
  <2>2. CASE ~IsFirst(m_callBacks, tp)
    BY <1>1, <1>3, <2>2 DEF CancelAt
  <2> QED BY <2>1, <2>2
<1>5. WithinDuration' /\ HandlesInOrder' /\ MapIsWhatWasSet'
  BY <1>1, <1>3, <1>4, ErasedInOrder DEF MapInv
<1>6. CurrIsFirst'
  <2>1. curr # NoTime => IsFirst(m_callBacks', curr)
    BY <1>1, <1>3, <1>4 DEF MapInv, CurrIsFirst, IsFirst, Erase
  <2> QED BY <1>1, <2>1 DEF MapInv, CurrIsFirst, TimerPlace
<1> QED BY <1>5, <1>6 DEF MapInv

\* CallBackWrapper finds a first timer.
LEMMA CallBackInOrder ==
    ASSUME TimerTypeOK, RegisteredWhileArmed, MapInv, CallBackWrapper
    PROVE  MapInv'
<1>1. UNCHANGED <<now, m_callBacks, m_handleCounter, armed>> /\ running = NoPlace
  BY DEF CallBackWrapper, ActivateFuncIfFdRdyIMP
<1>2. TimerPlace # NoPlace
  BY DEF TimerPlace, NoPlace, READ
<1>3. curr = NoTime
  BY <1>1, <1>2 DEF MapInv, CurrIsFirst
<1>4. running' = TimerPlace => DOMAIN m_callBacks # {}
  <2>1. running' = TimerPlace => TimerPlace \in Registered
    BY <1>2 DEF CallBackWrapper, ActivateFuncIfFdRdyIMP, Registered
  <2> QED BY <2>1 DEF RegisteredWhileArmed
<1>5. \/ running' = NoPlace /\ curr' = NoTime
      \/ running' = TimerPlace /\ IsFirst(m_callBacks, curr') /\ curr' \in DOMAIN m_callBacks
  BY <1>3, <1>4 DEF CallBackWrapper, FirstTimePoint
<1>6. failed' = failed
  BY <1>4 DEF CallBackWrapper
<1>7. NoTime \notin DOMAIN m_callBacks
  BY TimerAssumption DEF TimerTypeOK, Time, NoTime
<1>8. CurrIsFirst'
  BY <1>1, <1>2, <1>5, <1>7 DEF CurrIsFirst, TimerPlace
<1>9. WithinDuration' /\ HandlesInOrder' /\ MapIsWhatWasSet'
  BY <1>1, <1>6 DEF MapInv, WithinDuration, HandlesInOrder, MapIsWhatWasSet
<1> QED BY <1>8, <1>9 DEF MapInv

\* The callback that returns was the first timer's all along.
LEMMA ReturnInOrder ==
    ASSUME TimerTypeOK, RegisteredWhileArmed, MapInv, CallBackReturns
    PROVE  /\ MapInv' /\ IsFirst(m_callBacks, curr)
<1>1. IsFirst(m_callBacks, curr) /\ curr \in DOMAIN m_callBacks
  BY DEF CallBackReturns, MapInv, CurrIsFirst, IsFirst
<1>2. m_callBacks' = Erase(m_callBacks, curr) /\ ~failed'
  BY <1>1, EraseFirst DEF CallBackReturns
<1>3. /\ armed' = armed \ {m_callBacks[curr]} /\ UNCHANGED <<now, m_handleCounter>>
      /\ curr' = NoTime /\ running' = NoPlace
  BY DEF CallBackReturns
<1>4. WithinDuration' /\ HandlesInOrder' /\ MapIsWhatWasSet'
  BY <1>1, <1>2, <1>3, ErasedInOrder DEF MapInv
<1>5. CurrIsFirst'
  BY <1>3 DEF CurrIsFirst, TimerPlace, NoPlace, READ
<1> QED BY <1>1, <1>4, <1>5 DEF MapInv

\* The rest of the reactor leaves the timers alone, and runs no callback.
LEMMA RestInOrder ==
    ASSUME MapInv, UNCHANGED <<timerVars, now, curr>>,
           running' = TimerPlace <=> running = TimerPlace
    PROVE  MapInv'
  BY DEF MapInv, timerVars, CurrIsFirst, WithinDuration, HandlesInOrder, MapIsWhatWasSet,
         TimerPlace

\* A step of the reactor that is not the timer's leaves its callback running or not.
LEMMA ReactorInOrder ==
    ASSUME MapInv, ReactorStep \/ SocketReady \/ SocketReturns
    PROVE  MapInv' /\ UNCHANGED <<timerVars, now, curr>>
<1>1. UNCHANGED <<timerVars, now, curr>>
  BY DEF ReactorStep, SocketReady, SocketReturns
<1>2. TimerPlace # NoPlace /\ TimerPlace \notin Sockets
  BY DEF TimerPlace, NoPlace, READ, Sockets
<1>3. running' = TimerPlace <=> running = TimerPlace
  <2>1. CASE running' = running
    BY <2>1
  <2>2. CASE \E p \in Sockets : ActivateFuncIfFdRdyIMP(p)
    BY <1>2, <2>2 DEF ActivateFuncIfFdRdyIMP
  <2>3. CASE SocketReturns
    BY <1>2, <2>3 DEF SocketReturns, FunctionReturns
  <2> QED BY <2>1, <2>2, <2>3 DEF ReactorStep, SocketReady, Select, EndPass, BecomesReady
<1> QED BY <1>1, <1>3, RestInOrder

\* Every step keeps the map in step with what was set.
LEMMA NextMapInv ==
    ASSUME OneDuration
    PROVE  TimerTypeOK /\ RegisteredWhileArmed /\ MapInv /\ [TimerNext]_vars => MapInv'
<1> SUFFICES ASSUME TimerTypeOK, RegisteredWhileArmed, MapInv, [TimerNext]_vars PROVE MapInv'
  OBVIOUS
<1>1. CASE Tick
  <2>1. /\ now \in Nat /\ DOMAIN m_callBacks \subseteq Nat /\ Durations \subseteq Nat
    BY TimerAssumption DEF TimerTypeOK, Time
  <2>2. now' = now + 1 /\ UNCHANGED <<timerVars, running, curr>>
    BY <1>1 DEF Tick, reactorVars
  <2>3. WithinDuration'
    BY <2>1, <2>2 DEF MapInv, WithinDuration, timerVars
  <2> QED BY <2>2, <2>3 DEF MapInv, timerVars, CurrIsFirst, HandlesInOrder, MapIsWhatWasSet,
                            TimerPlace
<1>2. CASE ReactorStep \/ SocketReady \/ SocketReturns
  BY <1>2, ReactorInOrder
<1>3. CASE CallBackWrapper
  BY <1>3, CallBackInOrder
<1>4. CASE CallBackReturns
  BY <1>4, ReturnInOrder
<1>5. CASE \E d \in Durations : Set(d)
  BY <1>5, SetInOrder
<1>6. CASE \E h \in armed : Cancel(h)
  BY <1>6, CancelInOrder
<1>7. CASE UNCHANGED vars
  BY <1>7, RestInOrder DEF vars, reactorVars
<1> QED BY <1>1, <1>2, <1>3, <1>4, <1>5, <1>6, <1>7 DEF TimerNext, Loops

\* Nothing is set at first.
LEMMA InitMapInv == TimerInit => MapInv
<1> SUFFICES ASSUME TimerInit PROVE MapInv
  OBVIOUS
<1>1. DOMAIN m_callBacks = {} /\ armed = {} /\ ~failed /\ curr = NoTime /\ running = NoPlace
  BY DEF TimerInit, ReactorInit, EmptyMap
<1>2. TimerPlace # NoPlace
  BY DEF TimerPlace, NoPlace, READ
<1> QED BY <1>1, <1>2 DEF MapInv, CurrIsFirst, WithinDuration, HandlesInOrder, MapIsWhatWasSet

\* The map has what the callers believe to have set, Cancel finds every handle,
\* and neither a callback nor an erasure dereferences the end of the map: for every
\* set of descriptors, and stale wakeups too, as long as all durations are equal.
THEOREM NoTimerIsLost ==
    ASSUME OneDuration
    PROVE  TimerSpec => []MapIsWhatWasSet
<1>1. MapInv => MapIsWhatWasSet
  BY DEF MapInv
<1> QED
  BY <1>1, InitMapInv, NextMapInv, TimerTypeCorrect, RegistrationHolds, PTL DEF TimerSpec

\* A callback that runs is that of the oldest timer, although a stale wakeup may
\* call it before its time and it may cancel and set others: module Master takes
\* the handles' order for the order of expiry.
THEOREM CallbacksRunInOrder ==
    ASSUME OneDuration
    PROVE  TimerSpec => []OldestRunsFirst
<1>1. TimerTypeOK /\ MapInv => OldestRunsFirst
  <2> SUFFICES ASSUME TimerTypeOK, MapInv, curr # NoTime, NEW h \in armed
               PROVE  m_callBacks[curr] <= h
    BY DEF OldestRunsFirst
  <2>1. PICK t \in DOMAIN m_callBacks : h = m_callBacks[t]
    BY DEF MapInv, MapIsWhatWasSet
  <2>2. curr \in DOMAIN m_callBacks /\ curr <= t
    BY <2>1 DEF MapInv, CurrIsFirst, IsFirst
  <2>3. curr \in Nat /\ t \in Nat /\ m_callBacks[curr] \in Nat /\ m_callBacks[t] \in Nat
    BY <2>1, <2>2, TimerAssumption DEF TimerTypeOK, Time
  <2>4. curr = t \/ curr < t
    BY <2>2, <2>3
  <2> QED BY <2>1, <2>2, <2>3, <2>4 DEF MapInv, HandlesInOrder
<1> QED
  BY <1>1, InitMapInv, NextMapInv, TimerTypeCorrect, RegistrationHolds, PTL DEF TimerSpec

---------------------------------------------------------------------------
(* The timerfd *)

\* SetNextTimer sets the timerfd for its time point, or for at once.
LEMMA NextTimerIsSet ==
    ASSUME TimerTypeOK, DueNow = FALSE, NEW tp \in Time, SetNextTimer(tp)
    PROVE  timerfd' # Disarmed /\ timerfd' >= tp /\ (timerfd' = tp \/ timerfd' <= now + 1)
<1>1. now \in Nat /\ tp \in Nat /\ tp # now
  BY TimerAssumption DEF TimerTypeOK, Time, SetNextTimer
<1>2. CASE tp < now
  BY <1>1, <1>2 DEF SetNextTimer, SetTimerIMP, Disarmed
<1>3. CASE ~(tp < now)
  BY <1>1, <1>3 DEF SetNextTimer, SetTimerIMP, Disarmed
<1> QED BY <1>2, <1>3

\* The timerfd stays right while the first timer is the same and time goes on.
LEMMA TimerfdStays ==
    ASSUME TimerTypeOK, TimerfdIsSetForTheFirst, timerfd' = timerfd, now' \in Nat, now' >= now,
           \A t \in DOMAIN m_callBacks' : IsFirst(m_callBacks', t) => IsFirst(m_callBacks, t)
    PROVE  TimerfdIsSetForTheFirst'
<1> SUFFICES ASSUME NEW t \in DOMAIN m_callBacks', IsFirst(m_callBacks', t)
             PROVE  timerfd # Disarmed /\ timerfd >= t /\ (timerfd = t \/ timerfd <= now' + 1)
  BY DEF TimerfdIsSetForTheFirst
<1>1. IsFirst(m_callBacks, t) /\ t \in DOMAIN m_callBacks
  BY DEF IsFirst
<1>2. timerfd # Disarmed /\ timerfd >= t /\ (timerfd = t \/ timerfd <= now + 1)
  BY <1>1 DEF TimerfdIsSetForTheFirst
<1>3. timerfd \in Nat /\ now \in Nat
  BY <1>2, TimerAssumption DEF TimerTypeOK, Time
<1>4. \A a, b, c \in Nat : a <= b + 1 /\ c >= b => a <= c + 1
  OBVIOUS
<1>5. timerfd <= now + 1 => timerfd <= now' + 1
  BY <1>3, <1>4
<1> QED BY <1>2, <1>5

\* ... and is set for what becomes the first.
LEMMA TimerfdAfterErase ==
    ASSUME TimerTypeOK, TimerTypeOK', RegisteredWhileArmed, ~failed, DueNow = FALSE, now' = now,
           NEW tp, IsFirst(m_callBacks, tp), EraseAndSetTimerIMP(tp)
    PROVE  TimerfdIsSetForTheFirst'
<1>1. \A t \in DOMAIN m_callBacks' : IsFirst(m_callBacks', t) => SetNextTimer(t)
  BY EraseFirst
<1>2. \A t \in DOMAIN m_callBacks' : t \in Time
  BY DEF TimerTypeOK, Time
<1> QED BY <1>1, <1>2, NextTimerIsSet DEF TimerfdIsSetForTheFirst

\* Set leaves the timerfd alone unless its timer is the first.
LEMMA TimerfdAfterSet ==
    ASSUME OneDuration, TimerTypeOK, MapInv, TimerfdIsSetForTheFirst, NEW d \in Durations, Set(d)
    PROVE  TimerfdIsSetForTheFirst'
<1> DEFINE rt == now + d
<1>1. now \in Nat /\ d \in Nat \ {0} /\ DOMAIN m_callBacks \subseteq Nat
  BY TimerAssumption DEF TimerTypeOK, Time
<1>2. rt \in Nat /\ rt # Disarmed
  BY <1>1 DEF Disarmed
<1>3. \A t \in DOMAIN m_callBacks : t < rt
  BY SetInOrder
<1>4. m_callBacks' = Put(m_callBacks, rt, m_handleCounter) /\ now' = now
  BY DEF Set
<1>5. SetTimerIMP(d) => timerfd' = rt
  BY <1>1 DEF SetTimerIMP
<1>6. \/ timerfd' = rt /\ DOMAIN m_callBacks' = {rt}
      \/ timerfd' = rt /\ IsFirst(m_callBacks', rt)
      \/ timerfd' = timerfd /\ ~IsFirst(m_callBacks', rt)
  BY <1>5 DEF Set
<1> HIDE DEF rt
<1>7. DOMAIN m_callBacks' = DOMAIN m_callBacks \cup {rt}
  BY <1>4 DEF Put
<1>8. CASE timerfd' = rt /\ IsFirst(m_callBacks', rt)
  <2>1. \A t \in DOMAIN m_callBacks' : IsFirst(m_callBacks', t) => t = rt
    BY <1>1, <1>2, <1>7, <1>8 DEF IsFirst
  <2> QED BY <1>2, <1>8, <2>1 DEF TimerfdIsSetForTheFirst
<1>9. CASE timerfd' = timerfd /\ ~IsFirst(m_callBacks', rt)
  <2>1. \A t \in DOMAIN m_callBacks' : IsFirst(m_callBacks', t) => IsFirst(m_callBacks, t)
    BY <1>7, <1>9 DEF IsFirst
  <2> QED BY <1>1, <1>4, <1>9, <2>1, TimerfdStays
<1>10. CASE timerfd' = rt /\ DOMAIN m_callBacks' = {rt}
  <2>1. IsFirst(m_callBacks', rt)
    BY <1>2, <1>10 DEF IsFirst
  <2> QED BY <1>8, <1>10, <2>1
<1> QED BY <1>6, <1>8, <1>9, <1>10

\* While there are timers the timerfd is set, for the first of them or, when that
\* is past, for at once, so that no timer waits for another one's sake: as long as
\* no timer is due at the very nanosecond the timerfd is set, which would disarm it.
THEOREM TimerfdFollowsTheFirst ==
    ASSUME OneDuration, DueNow = FALSE
    PROVE  TimerSpec => []TimerfdIsSetForTheFirst
<1>1. TimerInit => TimerfdIsSetForTheFirst
  BY DEF TimerInit, EmptyMap, TimerfdIsSetForTheFirst
<1>2. /\ TimerTypeOK /\ TimerTypeOK' /\ RegisteredWhileArmed /\ MapInv
      /\ TimerfdIsSetForTheFirst /\ [TimerNext]_vars
      => TimerfdIsSetForTheFirst'
  <2> SUFFICES ASSUME TimerTypeOK, TimerTypeOK', RegisteredWhileArmed, MapInv,
                      TimerfdIsSetForTheFirst, [TimerNext]_vars
               PROVE  TimerfdIsSetForTheFirst'
    OBVIOUS
  <2>1. now \in Nat /\ now' \in Nat
    BY TimerAssumption DEF TimerTypeOK, Time
  <2>2. CASE UNCHANGED <<m_callBacks, timerfd>> /\ (now' = now \/ Tick)
    BY <2>1, <2>2, TimerfdStays DEF Tick
  <2>3. CASE Tick
    BY <2>2, <2>3 DEF Tick, timerVars
  <2>4. CASE ReactorStep \/ SocketReady \/ SocketReturns
    BY <2>2, <2>4, ReactorInOrder DEF timerVars
  <2>5. CASE CallBackWrapper
    BY <2>2, <2>5 DEF CallBackWrapper
  <2>6. CASE CallBackReturns
    <3>1. IsFirst(m_callBacks, curr)
      BY <2>6, ReturnInOrder
    <3>2. ~failed /\ now' = now /\ EraseAndSetTimerIMP(curr)
      BY <2>6 DEF CallBackReturns
    <3> QED BY <3>1, <3>2, TimerfdAfterErase
  <2>7. CASE \E d \in Durations : Set(d)
    BY <2>7, TimerfdAfterSet
  <2>8. CASE \E h \in armed : Cancel(h)
    <3>1. PICK h \in armed : Cancel(h)
      BY <2>8
    <3>2. now' = now /\ ~failed
      BY <3>1 DEF Cancel
    <3>3. \E tp \in DOMAIN m_callBacks : m_callBacks[tp] = h
      BY DEF MapInv, MapIsWhatWasSet
    <3>4. PICK tp \in DOMAIN m_callBacks : CancelAt(tp)
      BY <3>1, <3>3 DEF Cancel
    <3>5. CASE IsFirst(m_callBacks, tp)
      <4>1. EraseAndSetTimerIMP(tp)
        BY <3>4, <3>5 DEF CancelAt
      <4> QED BY <3>2, <3>5, <4>1, TimerfdAfterErase
    <3>6. CASE ~IsFirst(m_callBacks, tp)
      <4>1. m_callBacks' = Erase(m_callBacks, tp) /\ timerfd' = timerfd
        BY <3>4, <3>6 DEF CancelAt
      <4>2. DOMAIN m_callBacks' = DOMAIN m_callBacks \ {tp}
        BY <4>1 DEF Erase
      <4>3. DOMAIN m_callBacks \subseteq Nat
        BY TimerAssumption DEF TimerTypeOK, Time
      <4>4. PICK s \in DOMAIN m_callBacks : ~(tp <= s)
        BY <3>6 DEF IsFirst
      <4>5. \A t \in DOMAIN m_callBacks' : IsFirst(m_callBacks', t) => IsFirst(m_callBacks, t)
        <5>1. s \in DOMAIN m_callBacks' /\ s < tp
          BY <4>2, <4>3, <4>4
        <5>2. ASSUME NEW t \in DOMAIN m_callBacks', IsFirst(m_callBacks', t)
              PROVE  IsFirst(m_callBacks, t)
          <6>1. t <= s /\ t \in Nat /\ s \in Nat /\ tp \in Nat
            BY <4>2, <4>3, <5>1, <5>2 DEF IsFirst
          <6>2. t <= tp
            BY <5>1, <6>1
          <6> QED BY <4>2, <5>2, <6>2 DEF IsFirst
        <5> QED BY <5>2
      <4> QED BY <2>1, <3>2, <4>1, <4>5, TimerfdStays
    <3> QED BY <3>5, <3>6
  <2>9. CASE UNCHANGED vars
    BY <2>2, <2>9 DEF vars, timerVars
  <2> QED BY <2>3, <2>4, <2>5, <2>6, <2>7, <2>8, <2>9 DEF TimerNext, Loops
<1> QED
  BY <1>1, <1>2, InitMapInv, NextMapInv, TimerTypeCorrect, RegistrationHolds, PTL DEF TimerSpec

---------------------------------------------------------------------------
(* The reactor, with functions that do anything *)

\* A function runs inside a pass, so what it adds and removes is settled when the
\* next select begins.
WatchInv ==
    /\ running # NoPlace => inPass
    /\ \A p \in DOMAIN m_fdFuncs : m_fdFuncs[p] \in BOOLEAN
    /\ WatchesTheRegistered

\* Whatever the functions add, replace and remove during a pass, select watches
\* exactly the descriptors that have a function.
THEOREM SelectWatchesTheRegistered == Spec => []WatchesTheRegistered
<1>1. Init => WatchInv
  BY DEF Init, ReactorInit, WatchInv, WatchesTheRegistered, Registered
<1>2. WatchInv /\ [Next]_reactorVars => WatchInv'
  <2> SUFFICES ASSUME WatchInv, [Next]_reactorVars PROVE WatchInv'
    OBVIOUS
  <2> USE DEF WatchInv, WatchesTheRegistered
  <2>1. CASE Select(ready)
    BY <2>1 DEF Select
  <2>2. ASSUME NEW p \in Places, ActivateFuncIfFdRdyIMP(p) PROVE WatchInv'
    BY <2>2 DEF ActivateFuncIfFdRdyIMP
  <2>3. CASE EndPass
    BY <2>3 DEF EndPass, CleanEmptyFunctions, FillFdsetsIMP, Registered
  <2>4. CASE FunctionReturns
    BY <2>4 DEF FunctionReturns, walkVars, Registered
  <2>5. ASSUME NEW p \in Places, BecomesReady(p) PROVE WatchInv'
    BY <2>5 DEF BecomesReady, walkVars, Registered
  <2>6. ASSUME NEW p \in Places, FunctionCalls(p) PROVE WatchInv'
    BY <2>6 DEF FunctionCalls, AddFD, RemFD, Put, walkVars
  <2>7. CASE UNCHANGED reactorVars
    BY <2>7 DEF reactorVars, walkVars, Registered
  <2> QED BY <2>1, <2>2, <2>3, <2>4, <2>5, <2>6, <2>7 DEF Next, Loop
<1>3. WatchInv => WatchesTheRegistered
  BY DEF WatchInv
<1> QED BY <1>1, <1>2, <1>3, PTL DEF Spec
===========================================================================
