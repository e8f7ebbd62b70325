------------------------------ MODULE Reactor ------------------------------
(***************************************************************************)
(* The event loop both processes run in (class Reactor,                    *)
(* framework/communication/reactor.cpp).  Start waits in select and then   *)
(* walks through the registered functions in the order of the maps, calling *)
(* those whose descriptor select reported; a called function may register  *)
(* and remove descriptors, its own included, while the walk goes on.       *)
(*                                                                         *)
(* The descriptors stay open while they are registered, so select fails    *)
(* only when interrupted, and is then called again.                        *)
(***************************************************************************)
EXTENDS Integers, StdMap

READ == 0
WRITE == 1
EXPT == 2
Usage == {READ, WRITE, EXPT}

\* Where a function may be registered: a use and a descriptor, which is a number
\* because the maps are ordered by it.
CONSTANT Places

ASSUME ReactorAssumption == Places \subseteq Usage \X Nat

VARIABLES
    m_fdFuncs,    \* the three maps as one: <<use, fd>> to whether a function is there
    m_fdsets,     \* what to watch before select, what is ready after it
    inPass,       \* has select returned and the walk not ended?
    passed,       \* the places the walk is past
    running,      \* the place whose function is being called
    ready,        \* the places whose descriptor is ready now
    m_shouldStop, \* Reactor::m_shouldStop
    returned      \* has Start returned?

walkVars == <<m_fdsets, inPass, passed>>
reactorVars == <<m_fdFuncs, walkVars, running, ready, m_shouldStop, returned>>

NoPlace == <<-1, -1>>

\* EXPT's map is walked first, then READ's, then WRITE's.
Turn(use) == (use + 1) % 3
Before(p, q) ==
    \/ Turn(p[1]) < Turn(q[1])
    \/ p[1] = q[1] /\ p[2] < q[2]

Registered == {p \in DOMAIN m_fdFuncs : m_fdFuncs[p]}

\* Objects have registered their descriptors, and Start has filled the sets.
ReactorInit(initial) ==
    /\ m_fdFuncs = [p \in initial |-> TRUE]
    /\ m_fdsets = initial
    /\ inPass = FALSE
    /\ passed = {}
    /\ running = NoPlace
    /\ ready = {}
    /\ m_shouldStop = FALSE
    /\ returned = FALSE

---------------------------------------------------------------------------
(* The operations a called function may use *)

\* The third assert of AddFD holds whatever the map has: a function that is
\* already there is replaced.
AddFD(p) == m_fdFuncs' = Put(m_fdFuncs, p, TRUE)

\* RemFD leaves an entry without a function, until the pass ends.  Its assert
\* wants an entry: callers remove what they have added.
RemFD(p) == p \in DOMAIN m_fdFuncs /\ m_fdFuncs' = Put(m_fdFuncs, p, FALSE)

Stop == m_shouldStop' = TRUE

---------------------------------------------------------------------------
(* Reactor::Start *)

\* select blocks until something it watches is ready.
Select(isReady) ==
    /\ ~inPass
    /\ ~returned
    /\ m_fdsets \cap isReady # {}
    /\ m_fdsets' = m_fdsets \cap isReady
    /\ inPass' = TRUE
    /\ UNCHANGED <<m_fdFuncs, passed, running, ready, m_shouldStop, returned>>

\* A mutant: ends the walk at the first function it calls.
ActivateFuncIfFdRdyIMP_FirstOnly(p) ==
    /\ inPass
    /\ running = NoPlace
    /\ p \in DOMAIN m_fdFuncs \ passed
    /\ \A q \in DOMAIN m_fdFuncs \ passed : q = p \/ Before(p, q)
    /\ IF p \in m_fdsets /\ m_fdFuncs[p]
       THEN running' = p /\ passed' = Places
       ELSE running' = NoPlace /\ passed' = {q \in Places : ~Before(p, q)}
    /\ UNCHANGED <<m_fdFuncs, m_fdsets, inPass, ready, m_shouldStop, returned>>

\* ActivateFuncIfFdRdyIMP on the next place of the walk.  The pair is copied for
\* the call, so a function may remove its own descriptor.
ActivateFuncIfFdRdyIMP(p) ==
    /\ inPass
    /\ running = NoPlace
    /\ p \in DOMAIN m_fdFuncs \ passed
    /\ \A q \in DOMAIN m_fdFuncs \ passed : q = p \/ Before(p, q)
    /\ passed' = {q \in Places : ~Before(p, q)}
    /\ running' = IF p \in m_fdsets /\ m_fdFuncs[p] THEN p ELSE NoPlace
    /\ UNCHANGED <<m_fdFuncs, m_fdsets, inPass, ready, m_shouldStop, returned>>

CleanEmptyFunctions == m_fdFuncs' = [p \in Registered |-> TRUE]

\* FillFdsetsIMP, after CleanEmptyFunctions: every entry of the maps is watched.
FillFdsetsIMP == m_fdsets' = DOMAIN m_fdFuncs'

\* A mutant: fills the sets before the removed entries are gone.
EndPass_FillsFirst ==
    /\ inPass
    /\ running = NoPlace
    /\ DOMAIN m_fdFuncs \subseteq passed
    /\ CleanEmptyFunctions
    /\ m_fdsets' = DOMAIN m_fdFuncs
    /\ inPass' = FALSE
    /\ passed' = {}
    /\ returned' = m_shouldStop
    /\ UNCHANGED <<running, ready, m_shouldStop>>

\* CleanEmptyFunctions, FillFdsetsIMP and the loop's condition
EndPass ==
    /\ inPass
    /\ running = NoPlace
    /\ DOMAIN m_fdFuncs \subseteq passed
    /\ CleanEmptyFunctions
    /\ FillFdsetsIMP
    /\ inPass' = FALSE
    /\ passed' = {}
    /\ returned' = m_shouldStop
    /\ UNCHANGED <<running, ready, m_shouldStop>>

---------------------------------------------------------------------------
(* What is outside: the descriptors and the functions *)

BecomesReady(p) ==
    /\ p \notin ready
    /\ ready' = ready \cup {p}
    /\ UNCHANGED <<m_fdFuncs, walkVars, running, m_shouldStop, returned>>

\* The called function returns; it may have left something to read or to write.
FunctionReturns ==
    /\ running # NoPlace
    /\ running' = NoPlace
    /\ ready' \in {ready, ready \ {running}}
    /\ UNCHANGED <<m_fdFuncs, walkVars, m_shouldStop, returned>>

FunctionCalls(p) ==
    /\ running # NoPlace
    /\ \/ AddFD(p) /\ UNCHANGED m_shouldStop
       \/ RemFD(p) /\ UNCHANGED m_shouldStop
       \/ Stop /\ UNCHANGED m_fdFuncs
    /\ UNCHANGED <<walkVars, running, ready, returned>>

---------------------------------------------------------------------------
(* A reactor with functions that do anything *)

Init == \E initial \in SUBSET Places : ReactorInit(initial)

Loop ==
    \/ Select(ready)
    \/ \E p \in Places : ActivateFuncIfFdRdyIMP(p)
    \/ EndPass

Next ==
    \/ Loop
    \/ FunctionReturns
    \/ \E p \in Places : BecomesReady(p) \/ FunctionCalls(p)

Spec == Init /\ [][Next]_reactorVars

\* The reactor's thread runs, and a called function returns.
FairSpec == Spec /\ WF_reactorVars(Loop) /\ WF_reactorVars(FunctionReturns)

---------------------------------------------------------------------------
(* Properties *)

\* Whatever the functions of the last pass have added and removed, select
\* watches exactly the descriptors that have a function: one too few is never
\* served, one too many keeps select from blocking, with nothing to call.
WatchesTheRegistered ==
    (~inPass /\ ~returned) => m_fdsets = Registered /\ DOMAIN m_fdFuncs = Registered

\* A descriptor that is registered and ready is served, unless it is removed or
\* Start returns, however the other functions keep changing the maps.
ReadyIsServed ==
    \A p \in Places :
        (p \in ready /\ p \in Registered) ~>
            (running = p \/ p \notin Registered \/ returned)
===========================================================================
