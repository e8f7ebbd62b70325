---------------------------- MODULE Dispatcher ----------------------------
(***************************************************************************)
(* Class templates Dispatcher, CallbackBase and Callback                   *)
(* (framework/include/dispatcher.hpp): a subject keeps the callbacks that  *)
(* observe it and calls them all on Dispatch; a callback registers in its  *)
(* constructor, unregisters in its destructor, and is told when its        *)
(* subject goes away.  What an observer does when it is called is open: it *)
(* may construct callbacks, destroy any, its own included, and dispatch.   *)
(*                                                                         *)
(* A callback is its address, as in the map; a new one may get the address *)
(* of one that is gone.                                                    *)
(***************************************************************************)
EXTENDS Integers, Sequences, StdMap

CONSTANTS
    NumAddresses, \* callbacks live at the addresses 1 .. NumAddresses
    MaxDepth      \* how deep a called observer may dispatch again

ASSUME DispatcherAssumption == NumAddresses \in Nat /\ MaxDepth \in Nat

Callbacks == 1 .. NumAddresses
End == NumAddresses + 1     \* m_callbacks.end()
Nobody == 0

VARIABLES
    m_callbacks,   \* Dispatcher::m_callbacks
    alive,         \* the callbacks constructed and not destroyed
    m_shouldUnreg, \* CallbackBase::m_shouldUnreg of each that is alive
    walks,         \* the Dispatch calls under way, the innermost last
    dispatcher,    \* "alive", "dying" in its destructor, or "gone"
    next,          \* the destructor's iterator
    failed         \* an assert failed, or the memory of a dead object was used

vars == <<m_callbacks, alive, m_shouldUnreg, walks, dispatcher, next, failed>>

\* ++i: the next entry in the order of the map, or end()
After(c) ==
    LET later == {d \in DOMAIN m_callbacks : d > c}
    IN  IF later = {} THEN End ELSE CHOOSE d \in later : \A e \in later : d <= e

First == After(Nobody)

Connected == {c \in DOMAIN m_callbacks : m_callbacks[c]}

Top == walks[Len(walks)]
WithTop(walk) == [walks EXCEPT ![Len(walks)] = walk]

\* What the Dispatch calls under way have to call when a callback goes.
NoLongerDue(c) == [i \in DOMAIN walks |-> [walks[i] EXCEPT !.due = @ \ {c}]]

Init ==
    /\ m_callbacks = EmptyMap
    /\ alive = {}
    /\ m_shouldUnreg = [c \in Callbacks |-> FALSE]
    /\ walks = << >>
    /\ dispatcher = "alive"
    /\ next = End
    /\ failed = FALSE

\* The observers' code runs: outside, called by Dispatch, or by the destructor.
UserRuns ==
    /\ ~failed
    /\ walks # << >> => Top.running # Nobody

---------------------------------------------------------------------------
(* CallbackBase *)

\* Dispatcher::Register, over the entry of a callback that had the address before
Register(c) == m_callbacks' = Put(m_callbacks, c, TRUE)

\* CallbackBase::CallbackBase
Construct(c) ==
    /\ UserRuns
    /\ dispatcher = "alive"
    /\ c \notin alive
    /\ alive' = alive \cup {c}
    /\ m_shouldUnreg' = [m_shouldUnreg EXCEPT ![c] = TRUE]
    /\ Register(c)
    /\ UNCHANGED <<walks, dispatcher, next, failed>>

\* A mutant: the line that is commented out, and erases at once.
Unregister_Erases(c) ==
    /\ failed' = (dispatcher = "gone" \/ c \notin DOMAIN m_callbacks)
    /\ m_callbacks' = IF failed' THEN m_callbacks ELSE Erase(m_callbacks, c)

\* Dispatcher::Unregister only marks the entry; Dispatch erases it.
Unregister(c) ==
    /\ failed' = (dispatcher = "gone" \/ c \notin DOMAIN m_callbacks)
    /\ m_callbacks' = IF failed' THEN m_callbacks ELSE Put(m_callbacks, c, FALSE)

\* CallbackBase::~CallbackBase
Destroy(c) ==
    /\ UserRuns
    /\ c \in alive
    /\ alive' = alive \ {c}
    /\ IF m_shouldUnreg[c] THEN Unregister(c) ELSE UNCHANGED <<m_callbacks, failed>>
    /\ walks' = NoLongerDue(c)
    /\ UNCHANGED <<m_shouldUnreg, dispatcher, next>>

\* A mutant: the callback does not know that its subject is gone.
Disconnect_Forgets(c) ==
    /\ failed' = ~(c \in alive /\ m_shouldUnreg[c])
    /\ UNCHANGED m_shouldUnreg

\* CallbackBase::Disconnect, with its assert.  m_onDisconnect runs after it.
Disconnect(c) ==
    /\ failed' = ~(c \in alive /\ m_shouldUnreg[c])
    /\ m_shouldUnreg' = [m_shouldUnreg EXCEPT ![c] = FALSE]

---------------------------------------------------------------------------
(* Dispatcher *)

\* Dispatcher::Dispatch begins.
Dispatch ==
    /\ UserRuns
    /\ dispatcher = "alive"
    /\ Len(walks) < MaxDepth
    /\ walks' = Append(walks, [next |-> First, running |-> Nobody,
                               due |-> Connected, called |-> {}])
    /\ UNCHANGED <<m_callbacks, alive, m_shouldUnreg, dispatcher, next, failed>>

\* A mutant: erases a marked entry and goes past the one after it.
Step_SkipsOne(c) ==
    IF m_callbacks[c]
    THEN /\ walks' = WithTop([Top EXCEPT !.next = After(c), !.running = c, !.called = @ \cup {c}])
         /\ failed' = (c \notin alive)
         /\ UNCHANGED m_callbacks
    ELSE /\ m_callbacks' = Erase(m_callbacks, c)
         /\ walks' = WithTop([Top EXCEPT !.next = IF After(c) = End THEN End ELSE After(After(c))])
         /\ UNCHANGED failed

\* A mutant: begins again after every call, to see what has been registered.
Step_BeginsAgain(c) ==
    IF m_callbacks[c]
    THEN /\ walks' = WithTop([Top EXCEPT !.next = First, !.running = c, !.called = @ \cup {c}])
         /\ failed' = (c \notin alive)
         /\ UNCHANGED m_callbacks
    ELSE /\ m_callbacks' = Erase(m_callbacks, c)
         /\ walks' = WithTop([Top EXCEPT !.next = After(c)])
         /\ UNCHANGED failed

\* The loop's body: the iterator moves on before Do is called, and before a
\* marked entry is erased.
Step(c) ==
    IF m_callbacks[c]
    THEN /\ walks' = WithTop([Top EXCEPT !.next = After(c), !.running = c, !.called = @ \cup {c}])
         /\ failed' = (c \notin alive)
         /\ UNCHANGED m_callbacks
    ELSE /\ m_callbacks' = Erase(m_callbacks, c)
         /\ walks' = WithTop([Top EXCEPT !.next = After(c)])
         /\ UNCHANGED failed

Advance ==
    /\ ~failed
    /\ walks # << >>
    /\ Top.running = Nobody
    /\ IF Top.next = End
       THEN walks' = SubSeq(walks, 1, Len(walks) - 1) /\ UNCHANGED <<m_callbacks, failed>>
       ELSE IF Top.next \in DOMAIN m_callbacks THEN Step(Top.next)
       ELSE failed' = TRUE /\ UNCHANGED <<walks, m_callbacks>>
    /\ UNCHANGED <<alive, m_shouldUnreg, dispatcher, next>>

\* Do returns.
Returns ==
    /\ ~failed
    /\ walks # << >>
    /\ Top.running # Nobody
    /\ walks' = WithTop([Top EXCEPT !.running = Nobody])
    /\ UNCHANGED <<m_callbacks, alive, m_shouldUnreg, dispatcher, next, failed>>

\* Dispatcher::~Dispatcher begins: not while a Dispatch is under way.
BeginDestroy ==
    /\ UserRuns
    /\ walks = << >>
    /\ dispatcher = "alive"
    /\ dispatcher' = "dying"
    /\ next' = First
    /\ UNCHANGED <<m_callbacks, alive, m_shouldUnreg, walks, failed>>

\* for_each: SendDisconnectImp on the next entry, and what the observer then does
\* before the one after it.
SendDisconnectImp ==
    /\ ~failed
    /\ dispatcher = "dying"
    /\ IF next = End
       THEN dispatcher' = "gone" /\ UNCHANGED <<next, m_shouldUnreg, failed>>
       ELSE /\ IF m_callbacks[next] THEN Disconnect(next) ELSE UNCHANGED <<m_shouldUnreg, failed>>
            /\ next' = After(next)
            /\ UNCHANGED dispatcher
    /\ UNCHANGED <<m_callbacks, alive, walks>>

---------------------------------------------------------------------------

Next ==
    \/ \E c \in Callbacks : Construct(c) \/ Destroy(c)
    \/ Dispatch
    \/ Advance
    \/ Returns
    \/ BeginDestroy
    \/ SendDisconnectImp

Spec == Init /\ [][Next]_vars

\* Called observers return.
FairSpec == Spec /\ WF_vars(Advance) /\ WF_vars(Returns)

---------------------------------------------------------------------------
(* Properties *)

\* "Mark for removal. Dont remove while may be in Dispatch." (dispatcher.hpp:95):
\* whatever the called observers construct and destroy, the iterators that a
\* Dispatch or the destructor will use next are at entries that exist.
IteratorsAreValid ==
    /\ \A i \in DOMAIN walks : walks[i].next \in DOMAIN m_callbacks \cup {End}
    /\ dispatcher = "dying" => next \in DOMAIN m_callbacks \cup {End}

\* What the subject would call is alive, and a callback that would leave the
\* subject finds it, with its entry, so no dead object is used from either side.
BothSidesAgree ==
    /\ ~failed
    /\ dispatcher = "alive" => Connected \subseteq alive
    /\ dispatcher = "dying" => {c \in Connected : c >= next} \subseteq alive
    /\ \A c \in alive : m_shouldUnreg[c] => dispatcher # "gone" /\ c \in Connected

\* One Dispatch calls every callback that was there when it began and is still
\* there, once: what is past the iterator was called, what is ahead was not.
EachIsCalledOnce ==
    \A i \in DOMAIN walks :
        /\ \A c \in walks[i].due :
               (c \in Connected /\ c \notin walks[i].called) => c >= walks[i].next
        /\ \A c \in walks[i].called : c < walks[i].next

\* Dispatch comes to an end although called observers register ever new
\* callbacks, ahead of it too.
DispatchReturns == walks # << >> ~> (walks = << >> \/ failed)
===========================================================================
