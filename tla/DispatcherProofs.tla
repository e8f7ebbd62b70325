------------------------- MODULE DispatcherProofs -------------------------
(***************************************************************************)
(* Proofs about Dispatcher, for every number of callbacks and whatever the *)
(* called observers construct and destroy, as long as they do not dispatch *)
(* again: no iterator is left at an entry that is gone, no dead callback   *)
(* and no dead subject is used, and one Dispatch calls every callback once.*)
(***************************************************************************)
EXTENDS Dispatcher, WellFoundedInduction, TLAPS

---------------------------------------------------------------------------
(* The inductive invariant *)

Walk == [next : Callbacks \cup {End}, running : Callbacks \cup {Nobody},
         due : SUBSET Callbacks, called : SUBSET Callbacks]

\* A Dispatch goes on at an entry of the map.  What it has to call is alive, is
\* ahead of the iterator until it is called, and behind it afterwards.
WalkOK(w) ==
    /\ w.next \in DOMAIN m_callbacks \cup {End}
    /\ w.due \subseteq alive
    /\ \A c \in w.due : (c \in Connected /\ c \notin w.called) => c >= w.next
    /\ \A c \in w.called : c < w.next

\* At most one Dispatch is under way, and none while the subject is destroyed.
Walks ==
    walks # << >> =>
        /\ dispatcher = "alive"
        /\ \E w \in Walk : walks = <<w>> /\ WalkOK(w)

Types ==
    /\ DOMAIN m_callbacks \subseteq Callbacks
    /\ \A c \in DOMAIN m_callbacks : m_callbacks[c] \in BOOLEAN
    /\ alive \subseteq Callbacks
    /\ m_shouldUnreg \in [Callbacks -> BOOLEAN]
    /\ dispatcher \in {"alive", "dying", "gone"}
    /\ next \in DOMAIN m_callbacks \cup {End}
    /\ dispatcher # "dying" => next = End
    /\ failed = FALSE

\* A connected entry is that of a callback that is alive and knows its subject,
\* but for the entries the subject's destructor has been at ...
EntriesAreAlive ==
    \A c \in Connected :
        \/ c \in alive /\ m_shouldUnreg[c]
        \/ dispatcher = "dying" /\ c < next
        \/ dispatcher = "gone"

\* ... and a callback that knows its subject has its entry, where the destructor
\* has not been yet.
AliveHaveEntries ==
    \A c \in alive :
        m_shouldUnreg[c] =>
            /\ c \in Connected
            /\ dispatcher # "gone"
            /\ dispatcher = "dying" => c >= next

DInv ==
    /\ Types
    /\ EntriesAreAlive
    /\ AliveHaveEntries
    /\ Walks

---------------------------------------------------------------------------
(* Iterators *)

\* A set of numbers with something in it has a least one.
LEMMA LeastOf ==
    ASSUME NEW S, S \subseteq Nat, S # {}
    PROVE  \E d \in S : \A e \in S : d <= e
<1>1. PICK d \in S : \A e \in S : <<e, d>> \notin OpToRel(<, Nat)
  BY NatLessThanWellFounded, WFMin
<1>2. \A e \in S : ~(e < d)
  BY <1>1 DEF OpToRel
<1> QED BY <1>2

\* ++i leads to the first entry behind c, or to the end.
LEMMA AfterIsNext ==
    ASSUME DOMAIN m_callbacks \subseteq Callbacks, NEW c \in Callbacks \cup {Nobody}
    PROVE  /\ After(c) \in DOMAIN m_callbacks \cup {End}
           /\ After(c) \in Callbacks \cup {End}
           /\ After(c) > c
           /\ \A d \in DOMAIN m_callbacks : d > c => d >= After(c)
<1> DEFINE later == {d \in DOMAIN m_callbacks : d > c}
<1>0. later \subseteq Nat /\ c \in Nat /\ c < End /\ Callbacks \subseteq Nat /\ End \in Nat
  BY DispatcherAssumption DEF Callbacks, End, Nobody
<1>1. CASE later = {}
  BY <1>0, <1>1 DEF After
<1>2. CASE later # {}
  <2>1. After(c) = CHOOSE d \in later : \A e \in later : d <= e
    BY <1>2 DEF After
  <2>2. \E d \in later : \A e \in later : d <= e
    BY <1>0, <1>2, LeastOf
  <2>3. After(c) \in later /\ \A e \in later : After(c) <= e
    BY <2>1, <2>2
  <2> QED BY <1>0, <2>3
<1> QED BY <1>1, <1>2

\* The sequence of calls of Dispatch when there is at most one.
LEMMA OneWalk ==
    ASSUME NEW w, walks = <<w>>
    PROVE  /\ Len(walks) = 1 /\ Top = w /\ walks # << >>
           /\ \A x : WithTop(x) = <<x>>
           /\ SubSeq(walks, 1, Len(walks) - 1) = << >>
           /\ \A c : NoLongerDue(c) = <<[w EXCEPT !.due = @ \ {c}]>>
<1>1. Len(walks) = 1 /\ Top = w /\ walks # << >>
  BY DEF Top
<1>2. \A x : WithTop(x) = <<x>>
  BY <1>1 DEF WithTop
<1>3. SubSeq(walks, 1, Len(walks) - 1) = << >>
  BY <1>1
<1>4. \A c : NoLongerDue(c) = <<[w EXCEPT !.due = @ \ {c}]>>
  BY DEF NoLongerDue
<1> QED BY <1>1, <1>2, <1>3, <1>4

---------------------------------------------------------------------------
(* The steps *)

\* What Erase does to the map.
LEMMA EraseEntry ==
    ASSUME NEW c
    PROVE  /\ DOMAIN Erase(m_callbacks, c) = DOMAIN m_callbacks \ {c}
           /\ \A d \in DOMAIN m_callbacks : d # c => Erase(m_callbacks, c)[d] = m_callbacks[d]
  BY DEF Erase

\* Nothing is registered at first.
LEMMA InitDInv == Init => DInv
<1> SUFFICES ASSUME Init PROVE DInv
  OBVIOUS
<1>1. DOMAIN m_callbacks = {}
  BY DEF Init, EmptyMap
<1> QED
  BY <1>1, DispatcherAssumption
     DEF Init, DInv, Types, EntriesAreAlive, AliveHaveEntries, Walks, Connected

\* A new callback is connected; it is not due in the Dispatch under way, for it was
\* not alive when that began, whatever had its address then.
LEMMA ConstructDInv ==
    ASSUME DInv, NEW c \in Callbacks, Construct(c)
    PROVE  DInv'
<1> USE DEF DInv
<1>1. /\ DOMAIN m_callbacks' = DOMAIN m_callbacks \cup {c}
      /\ m_callbacks'[c] = TRUE
      /\ \A d \in DOMAIN m_callbacks : d # c => m_callbacks'[d] = m_callbacks[d]
  <2>1. m_callbacks' = Put(m_callbacks, c, TRUE)
    BY DEF Construct, Register
  <2> QED BY <2>1 DEF Put
<1>2. Connected' = Connected \cup {c}
  BY <1>1 DEF Connected
<1>3. Types'
  BY <1>1 DEF Types, Construct
<1>4. EntriesAreAlive'
  BY <1>2 DEF EntriesAreAlive, Construct, Types
<1>5. AliveHaveEntries'
  BY <1>2 DEF AliveHaveEntries, Construct, Types
<1>6. Walks'
  <2> SUFFICES ASSUME walks # << >> PROVE Walks'
    BY DEF Walks, Construct
  <2>1. PICK w \in Walk : walks = <<w>> /\ WalkOK(w)
    BY DEF Walks
  <2>2. WalkOK(w)'
    BY <1>1, <1>2, <2>1 DEF WalkOK, Construct
  <2> QED BY <2>1, <2>2 DEF Walks, Construct
<1> QED BY <1>3, <1>4, <1>5, <1>6

\* A callback that is destroyed leaves its entry where it is, marked.
LEMMA DestroyDInv ==
    ASSUME DInv, NEW c \in Callbacks, Destroy(c)
    PROVE  DInv'
<1> USE DEF DInv
<1>0. c \in alive /\ alive' = alive \ {c} /\ m_shouldUnreg' = m_shouldUnreg
      /\ dispatcher' = dispatcher /\ next' = next /\ walks' = NoLongerDue(c)
  BY DEF Destroy
<1>1. /\ DOMAIN m_callbacks' = DOMAIN m_callbacks
      /\ \A d \in DOMAIN m_callbacks : m_callbacks'[d] \in BOOLEAN
      /\ Connected' = Connected \ (IF m_shouldUnreg[c] THEN {c} ELSE {})
      /\ failed' = FALSE
  <2>1. CASE m_shouldUnreg[c]
    <3>1. c \in DOMAIN m_callbacks /\ dispatcher # "gone"
      BY <1>0, <2>1 DEF AliveHaveEntries, Connected
    <3>2. failed' = FALSE /\ m_callbacks' = Put(m_callbacks, c, FALSE)
      BY <2>1, <3>1 DEF Destroy, Unregister
    <3>3. /\ DOMAIN m_callbacks' = DOMAIN m_callbacks
          /\ m_callbacks'[c] = FALSE
          /\ \A d \in DOMAIN m_callbacks : d # c => m_callbacks'[d] = m_callbacks[d]
      BY <3>1, <3>2 DEF Put
    <3> QED BY <2>1, <3>2, <3>3 DEF Types, Connected
  <2>2. CASE ~m_shouldUnreg[c]
    BY <2>2 DEF Destroy, Types, Connected
  <2> QED BY <2>1, <2>2
<1>3. Types'
  BY <1>0, <1>1 DEF Types
<1>4. EntriesAreAlive'
  BY <1>0, <1>1 DEF EntriesAreAlive
<1>5. AliveHaveEntries'
  BY <1>0, <1>1 DEF AliveHaveEntries
<1>6. Walks'
  <2>1. CASE walks = << >>
    <3>1. walks' = << >>
      BY <1>0, <2>1 DEF NoLongerDue
    <3> QED BY <3>1 DEF Walks
  <2>2. CASE walks # << >>
    <3>1. PICK w \in Walk : walks = <<w>> /\ WalkOK(w)
      BY <2>2 DEF Walks
    <3> DEFINE x == [w EXCEPT !.due = @ \ {c}]
    <3>2. walks' = <<x>>
      BY <1>0, <3>1, OneWalk
    <3>3. x \in Walk /\ x.next = w.next /\ x.called = w.called /\ x.due = w.due \ {c}
      BY DEF Walk
    <3>4. WalkOK(x)'
      <4> HIDE DEF x
      <4> QED BY <1>0, <1>1, <3>1, <3>3 DEF WalkOK
    <3>5. dispatcher' = "alive"
      BY <1>0, <2>2 DEF Walks
    <3> QED BY <3>2, <3>3, <3>4, <3>5 DEF Walks
  <2> QED BY <2>1, <2>2
<1> QED BY <1>3, <1>4, <1>5, <1>6

\* A Dispatch begins at the first entry, with what is connected to call.
LEMMA DispatchDInv ==
    ASSUME DInv, MaxDepth = 1, Dispatch
    PROVE  DInv'
<1> USE DEF DInv
<1> PICK x : x = [next |-> First, running |-> Nobody, due |-> Connected, called |-> {}]
  OBVIOUS
<1>0. walks = << >>
  <2> SUFFICES ASSUME walks # << >> PROVE FALSE
    OBVIOUS
  <2>1. PICK w \in Walk : walks = <<w>>
    BY DEF Walks
  <2> QED BY <2>1 DEF Dispatch
<1>1. walks' = <<x>>
  BY <1>0 DEF Dispatch
<1>2. /\ First \in DOMAIN m_callbacks \cup {End}
      /\ First \in Callbacks \cup {End}
      /\ \A d \in DOMAIN m_callbacks : d >= First
  <2>1. \A d \in DOMAIN m_callbacks : d > Nobody
    BY DispatcherAssumption DEF Types, Callbacks, Nobody
  <2> QED BY <2>1, AfterIsNext DEF First, Types
<1>3. Connected \subseteq alive /\ Connected \subseteq Callbacks /\ Connected \subseteq DOMAIN m_callbacks
  BY DEF EntriesAreAlive, Types, Connected, Dispatch
<1>4. x \in Walk /\ x.next = First /\ x.due = Connected /\ x.called = {}
  BY <1>2, <1>3 DEF Walk
<1>5. WalkOK(x)'
  <2>1. m_callbacks' = m_callbacks /\ alive' = alive /\ Connected' = Connected
    BY DEF Dispatch, Connected
  <2> QED BY <1>2, <1>3, <1>4, <2>1 DEF WalkOK
<1>6. Walks'
  BY <1>1, <1>4, <1>5 DEF Walks, Dispatch
<1> QED BY <1>6 DEF Types, EntriesAreAlive, AliveHaveEntries, Connected, Dispatch

\* The iterator moves to an entry that stays; what it leaves behind was called, or
\* was marked.
LEMMA AdvanceDInv ==
    ASSUME DInv, Advance
    PROVE  DInv'
<1> USE DEF DInv
<1>0. /\ walks # << >> /\ dispatcher = "alive" /\ failed = FALSE
      /\ UNCHANGED <<alive, m_shouldUnreg, dispatcher, next>>
  BY DEF Advance, Walks, Types
<1>1. PICK w \in Walk : walks = <<w>> /\ WalkOK(w)
  BY <1>0 DEF Walks
<1>2. Top = w /\ (\A x : WithTop(x) = <<x>>) /\ SubSeq(walks, 1, Len(walks) - 1) = << >>
  BY <1>1, OneWalk
<1>3. CASE w.next = End
  <2>1. walks' = << >> /\ UNCHANGED <<m_callbacks, failed>>
    BY <1>2, <1>3 DEF Advance
  <2> QED BY <1>0, <2>1 DEF Types, EntriesAreAlive, AliveHaveEntries, Connected, Walks
<1>4. CASE w.next # End
  <2> PICK c \in DOMAIN m_callbacks : c = w.next
    BY <1>1, <1>4 DEF WalkOK
  <2>0. Step(c) /\ c \in Callbacks
    BY <1>2, <1>4 DEF Advance, Types
  <2> PICK n : n = After(c)
    OBVIOUS
  <2>1. /\ n \in DOMAIN m_callbacks \cup {End}
        /\ n \in Callbacks \cup {End}
        /\ n > c
        /\ \A d \in DOMAIN m_callbacks : d > c => d >= n
    BY <2>0, AfterIsNext DEF Types
  <2>2. \A d \in Callbacks \cup {End} : d \in Int
    BY DispatcherAssumption DEF Callbacks, End
  <2>3. CASE m_callbacks[c]
    <3> DEFINE x == [w EXCEPT !.next = n, !.running = c, !.called = @ \cup {c}]
    <3>1. c \in alive
      BY <1>0, <2>3 DEF EntriesAreAlive, Connected
    <3>2. walks' = <<x>> /\ failed' = FALSE /\ m_callbacks' = m_callbacks
      BY <1>2, <2>0, <2>3, <3>1 DEF Step
    <3>3. x \in Walk /\ x.next = n /\ x.due = w.due /\ x.called = w.called \cup {c}
      BY <2>0, <2>1 DEF Walk
    <3>4. WalkOK(x)'
      <4> HIDE DEF x
      <4>1. \A d \in w.due : (d \in Connected /\ d \notin w.called \cup {c}) => d >= n
        <5> SUFFICES ASSUME NEW d \in w.due, d \in Connected, d \notin w.called, d # c
                     PROVE  d >= n
          OBVIOUS
        <5>1. d >= c /\ d \in DOMAIN m_callbacks /\ d \in Callbacks
          BY <1>1 DEF WalkOK, Connected, Types
        <5> QED BY <2>0, <2>1, <2>2, <5>1
      <4>2. \A d \in w.called \cup {c} : d < n
        <5>1. \A d \in w.called : d < c /\ d \in Callbacks
          BY <1>1 DEF WalkOK, Walk
        <5> QED BY <2>0, <2>1, <2>2, <5>1
      <4> QED BY <1>0, <1>1, <2>1, <3>2, <3>3, <4>1, <4>2 DEF WalkOK, Connected
    <3>5. Walks'
      BY <1>0, <3>2, <3>3, <3>4 DEF Walks
    <3> QED BY <1>0, <3>2, <3>5 DEF Types, EntriesAreAlive, AliveHaveEntries, Connected
  <2>4. CASE ~m_callbacks[c]
    <3> DEFINE x == [w EXCEPT !.next = n]
    <3>1. walks' = <<x>> /\ failed' = FALSE /\ m_callbacks' = Erase(m_callbacks, c)
      BY <1>0, <1>2, <2>0, <2>4 DEF Step
    <3>2. /\ DOMAIN m_callbacks' = DOMAIN m_callbacks \ {c}
          /\ \A d \in DOMAIN m_callbacks : d # c => m_callbacks'[d] = m_callbacks[d]
      BY <3>1, EraseEntry
    <3>3. Connected' = Connected /\ c \notin Connected
      BY <2>4, <3>2 DEF Connected
    <3>4. x \in Walk /\ x.next = n /\ x.due = w.due /\ x.called = w.called
      BY <2>1 DEF Walk
    <3>5. WalkOK(x)'
      <4> HIDE DEF x
      <4>1. \A d \in w.due : (d \in Connected /\ d \notin w.called) => d >= n
        <5> SUFFICES ASSUME NEW d \in w.due, d \in Connected, d \notin w.called
                     PROVE  d >= n
          OBVIOUS
        <5>1. d >= c /\ d # c /\ d \in DOMAIN m_callbacks /\ d \in Callbacks
          BY <1>1, <3>3 DEF WalkOK, Connected, Types
        <5> QED BY <2>0, <2>1, <2>2, <5>1
      <4>2. \A d \in w.called : d < n
        <5>1. \A d \in w.called : d < c /\ d \in Callbacks
          BY <1>1 DEF WalkOK, Walk
        <5> QED BY <2>0, <2>1, <2>2, <5>1
      <4>3. n \in DOMAIN m_callbacks' \cup {End}
        BY <2>0, <2>1, <2>2, <3>2
      <4> QED BY <1>0, <1>1, <3>3, <3>4, <4>1, <4>2, <4>3 DEF WalkOK
    <3>6. Walks'
      BY <1>0, <3>1, <3>4, <3>5 DEF Walks
    <3>7. Types'
      BY <1>0, <3>1, <3>2 DEF Types
    <3> QED BY <1>0, <3>3, <3>6, <3>7 DEF EntriesAreAlive, AliveHaveEntries
  <2> QED BY <2>3, <2>4
<1> QED BY <1>3, <1>4

\* When an observer returns nothing else changes.
LEMMA ReturnsDInv ==
    ASSUME DInv, Returns
    PROVE  DInv'
<1> USE DEF DInv
<1>0. walks # << >>
  BY DEF Returns
<1>1. PICK w \in Walk : walks = <<w>> /\ WalkOK(w)
  BY <1>0 DEF Walks
<1> DEFINE x == [w EXCEPT !.running = Nobody]
<1>2. walks' = <<x>>
  BY <1>1, OneWalk DEF Returns
<1>3. x \in Walk /\ x.next = w.next /\ x.due = w.due /\ x.called = w.called
  BY DEF Walk
<1>4. WalkOK(x)'
  <2> HIDE DEF x
  <2> QED BY <1>1, <1>3 DEF WalkOK, Connected, Returns
<1>5. Walks'
  BY <1>0, <1>2, <1>3, <1>4 DEF Walks, Returns
<1> QED BY <1>5 DEF Returns, Types, EntriesAreAlive, AliveHaveEntries, Connected

\* The destructor begins at the first entry.
LEMMA BeginDestroyDInv ==
    ASSUME DInv, BeginDestroy
    PROVE  DInv'
<1> USE DEF DInv
<1>1. \A d \in DOMAIN m_callbacks : d > Nobody
  BY DispatcherAssumption DEF Types, Callbacks, Nobody
<1>2. next' \in DOMAIN m_callbacks \cup {End} /\ \A d \in DOMAIN m_callbacks : d >= next'
  BY <1>1, AfterIsNext DEF First, Types, BeginDestroy
<1>3. Types'
  BY <1>2 DEF Types, BeginDestroy
<1>4. EntriesAreAlive'
  BY DEF EntriesAreAlive, BeginDestroy, Connected
<1>5. AliveHaveEntries'
  BY <1>2 DEF AliveHaveEntries, BeginDestroy, Connected
<1> QED BY <1>3, <1>4, <1>5 DEF Walks, BeginDestroy

\* A callback the destructor comes to is alive and waits for it; one it has been at
\* does not look for its subject any more.
LEMMA SendDisconnectDInv ==
    ASSUME DInv, SendDisconnectImp
    PROVE  DInv'
<1> USE DEF DInv
<1>0. /\ dispatcher = "dying" /\ walks = << >> /\ failed = FALSE
      /\ UNCHANGED <<m_callbacks, alive, walks>>
      /\ Connected' = Connected
  BY DEF SendDisconnectImp, Types, Walks, Connected
<1>1. \A d \in Callbacks \cup {End} : d \in Int
  BY DispatcherAssumption DEF Callbacks, End
<1>2. CASE next = End
  <2>1. dispatcher' = "gone" /\ UNCHANGED <<next, m_shouldUnreg, failed>>
    BY <1>2 DEF SendDisconnectImp
  <2>2. \A c \in alive : ~m_shouldUnreg[c]
    BY <1>0, <1>2, DispatcherAssumption DEF AliveHaveEntries, Types, Callbacks, End
  <2> QED BY <1>0, <1>2, <2>1, <2>2 DEF Types, EntriesAreAlive, AliveHaveEntries, Walks
<1>3. CASE next # End
  <2>1. next \in DOMAIN m_callbacks /\ next \in Callbacks
    BY <1>3 DEF Types
  <2>2. /\ next' \in DOMAIN m_callbacks \cup {End}
        /\ next' \in Callbacks \cup {End}
        /\ next' > next
        /\ \A d \in DOMAIN m_callbacks : d > next => d >= next'
    BY <1>3, <2>1, AfterIsNext DEF Types, SendDisconnectImp
  <2>3. dispatcher' = "dying"
    BY <1>0, <1>3 DEF SendDisconnectImp
  <2>4. /\ failed' = FALSE
        /\ m_shouldUnreg' \in [Callbacks -> BOOLEAN]
        /\ \A c \in Callbacks : c # next => m_shouldUnreg'[c] = m_shouldUnreg[c]
        /\ next \in alive => ~m_shouldUnreg'[next]
    <3>1. CASE m_callbacks[next]
      <4>1. next \in alive /\ m_shouldUnreg[next]
        BY <1>0, <1>1, <2>1, <3>1 DEF EntriesAreAlive, Connected
      <4>2. /\ failed' = FALSE
            /\ m_shouldUnreg' = [m_shouldUnreg EXCEPT ![next] = FALSE]
        BY <1>3, <3>1, <4>1 DEF SendDisconnectImp, Disconnect
      <4> QED BY <2>1, <4>2 DEF Types
    <3>2. CASE ~m_callbacks[next]
      BY <1>0, <1>3, <3>2 DEF SendDisconnectImp, Types, AliveHaveEntries, Connected
    <3> QED BY <3>1, <3>2
  <2>5. Types'
    BY <1>0, <2>2, <2>3, <2>4 DEF Types
  <2>6. EntriesAreAlive'
    <3> SUFFICES ASSUME NEW c \in Connected
                 PROVE  (c \in alive /\ m_shouldUnreg'[c]) \/ c < next'
      BY <1>0, <2>3 DEF EntriesAreAlive
    <3>1. c \in Callbacks /\ c \in DOMAIN m_callbacks
      BY DEF Connected, Types
    <3>2. (c \in alive /\ m_shouldUnreg[c]) \/ c < next
      BY <1>0 DEF EntriesAreAlive
    <3>3. CASE c \in alive /\ m_shouldUnreg[c] /\ c # next
      BY <2>4, <3>1, <3>3
    <3>4. CASE c <= next
      BY <1>1, <2>1, <2>2, <3>1, <3>4
    <3> QED BY <1>1, <2>1, <3>1, <3>2, <3>3, <3>4
  <2>7. AliveHaveEntries'
    <3> SUFFICES ASSUME NEW c \in alive, m_shouldUnreg'[c]
                 PROVE  c \in Connected /\ c >= next'
      BY <1>0, <2>3 DEF AliveHaveEntries
    <3>1. c # next /\ c \in Callbacks
      BY <2>4 DEF Types
    <3>2. m_shouldUnreg[c]
      BY <2>4, <3>1
    <3>3. c \in Connected /\ c >= next /\ c \in DOMAIN m_callbacks
      BY <1>0, <3>2 DEF AliveHaveEntries, Connected
    <3> QED BY <1>1, <2>1, <2>2, <3>1, <3>3
  <2> QED BY <1>0, <2>5, <2>6, <2>7 DEF Walks
<1> QED BY <1>2, <1>3

\* Every step keeps the invariant while called observers do not dispatch.
LEMMA NextDInv == MaxDepth = 1 /\ DInv /\ [Next]_vars => DInv'
<1> SUFFICES ASSUME MaxDepth = 1, DInv, [Next]_vars PROVE DInv'
  OBVIOUS
<1>1. CASE Next
  BY <1>1, ConstructDInv, DestroyDInv, DispatchDInv, AdvanceDInv, ReturnsDInv,
     BeginDestroyDInv, SendDisconnectDInv DEF Next
<1>2. CASE UNCHANGED vars
  BY <1>2 DEF vars, DInv, Types, EntriesAreAlive, AliveHaveEntries, Walks, WalkOK, Connected
<1> QED BY <1>1, <1>2

---------------------------------------------------------------------------
(* The theorems *)

\* The invariant holds as long as a called observer does not dispatch.
LEMMA DInvHolds ==
    ASSUME MaxDepth = 1
    PROVE  Spec => []DInv
<1>1. DInv /\ [Next]_vars => DInv'
  BY NextDInv
<1> QED BY <1>1, InitDInv, PTL DEF Spec

\* The entry that Dispatch or the destructor will look at next is in the map,
\* although entries are marked, erased and reused while observers run: for every
\* number of callbacks, when no called observer dispatches.
THEOREM NoIteratorDangles ==
    ASSUME MaxDepth = 1
    PROVE  Spec => []IteratorsAreValid
<1>1. DInv => IteratorsAreValid
  BY DEF DInv, IteratorsAreValid, Types, Walks, WalkOK
<1> QED BY <1>1, DInvHolds, PTL

\* Nothing that is dead is used: Dispatch and SendDisconnectImp meet callbacks that
\* are alive, and ~CallbackBase a subject that is.
THEOREM NothingDeadIsUsed ==
    ASSUME MaxDepth = 1
    PROVE  Spec => []BothSidesAgree
<1>1. DInv => BothSidesAgree
  BY DispatcherAssumption
     DEF DInv, BothSidesAgree, Types, EntriesAreAlive, AliveHaveEntries, Connected,
         Callbacks, End
<1> QED BY <1>1, DInvHolds, PTL

\* One Dispatch calls each callback that was there when it began and is still there
\* once, and none twice, wherever new ones come into the map.
THEOREM EachCalledOnce ==
    ASSUME MaxDepth = 1
    PROVE  Spec => []EachIsCalledOnce
<1>1. DInv => EachIsCalledOnce
  BY DEF DInv, EachIsCalledOnce, Walks, WalkOK
<1> QED BY <1>1, DInvHolds, PTL
===========================================================================
