-------------------------- MODULE BlockTableCtor --------------------------
(***************************************************************************)
(* The two loops of class BlockTable, step by step: the constructor's      *)
(* nested loop that fills the multimap, and Translate's walk over the      *)
(* equal_range of a key.  BlockTable.tla states their results in closed    *)
(* form; this module checks the loops against it, and checks the layout    *)
(* they produce.                                                           *)
(***************************************************************************)
EXTENDS BlockTable, FiniteSets

CONSTANT MaxOffset       \* largest byte offset asked for; past the device too

ASSUME MaxOffsetAssumption == MaxOffset \in Nat

VARIABLES blkGroup,      \* outer loop counter of the constructor
          i,             \* inner loop counter
          table,         \* m_blkGroup2Location while it is being filled
          offset,        \* argument of the current Translate, -1 for none
          todo,          \* what is left of respMinions, the key's range
          ret            \* the vector Translate fills

vars == <<blkGroup, i, table, offset, todo, ret>>

Constructed == blkGroup = NumMinions

Init ==
    /\ blkGroup = 0
    /\ i = 0
    /\ table = [g \in 0 .. NumMinions - 1 |-> << >>]
    /\ offset = -1
    /\ todo = << >>
    /\ ret = << >>

\* A mutant: advances past the group after its first replica.
InsertGroupLocation_OneReplica ==
    /\ ~Constructed
    /\ table' = [table EXCEPT ![blkGroup] =
                    Append(@, BlockGroupLocation(blkGroup, i))]
    /\ i' = 0 /\ blkGroup' = blkGroup + 1
    /\ UNCHANGED <<offset, todo, ret>>

\* A mutant: forgets to start the second replica in the upper half.
InsertGroupLocation_SameHalf ==
    /\ ~Constructed
    /\ table' = [table EXCEPT ![blkGroup] =
                    Append(@, [BlockGroupLocation(blkGroup, i) EXCEPT !.m_begin = 0])]
    /\ IF i + 1 < GROUPS_PER_MINION
       THEN i' = i + 1 /\ UNCHANGED blkGroup
       ELSE i' = 0 /\ blkGroup' = blkGroup + 1
    /\ UNCHANGED <<offset, todo, ret>>

\* Body of the inner loop: insert one pair, advance the counters.
InsertGroupLocation ==
    /\ ~Constructed
    /\ table' = [table EXCEPT ![blkGroup] =
                    Append(@, BlockGroupLocation(blkGroup, i))]
    /\ IF i + 1 < GROUPS_PER_MINION
       THEN i' = i + 1 /\ UNCHANGED blkGroup
       ELSE i' = 0 /\ blkGroup' = blkGroup + 1
    /\ UNCHANGED <<offset, todo, ret>>

\* Translate up to the loop: split the block number, look the group up.
BeginTranslate(offset_) ==
    LET group == (offset_ \div BLOCK_SIZE) \div m_numBlocksPerGroup
    IN  /\ Constructed
        /\ todo = << >>
        /\ offset' = offset_
        /\ todo' = IF group \in DOMAIN table THEN table[group] ELSE << >>
        /\ ret' = << >>
        /\ UNCHANGED <<blkGroup, i, table>>

\* A mutant: takes the offset within the device for the offset within the group.
PushLocation_DeviceOffset ==
    /\ todo # << >>
    /\ ret' = Append(ret, LocationIn(Head(todo), offset \div BLOCK_SIZE))
    /\ todo' = Tail(todo)
    /\ UNCHANGED <<blkGroup, i, table, offset>>

\* One iteration of Translate's loop.
PushLocation ==
    /\ todo # << >>
    /\ ret' = Append(ret, LocationIn(Head(todo),
                        (offset \div BLOCK_SIZE) % m_numBlocksPerGroup))
    /\ todo' = Tail(todo)
    /\ UNCHANGED <<blkGroup, i, table, offset>>

Next ==
    \/ InsertGroupLocation
    \/ \E o \in 0 .. MaxOffset : BeginTranslate(o)
    \/ PushLocation

Spec == Init /\ [][Next]_vars

Returned == offset >= 0 /\ todo = << >>

---------------------------------------------------------------------------
(* Properties *)

\* The loops agree with the closed forms: a finished constructor has built
\* m_blkGroup2Location, and a finished Translate returns Translate(offset).
LoopsMatchClosedForm ==
    /\ Constructed => table = m_blkGroup2Location
    /\ Returned => ret = Translate(offset)

\* Every byte of the device has two homes, on two different minions as soon as
\* there are two, and no byte past the device has any (block_table_test.cpp
\* requires exactly two locations for a valid offset).
TwoReplicas ==
    Returned =>
        IF offset < NumBlocks * BLOCK_SIZE
        THEN /\ Len(ret) = 2
             /\ NumMinions > 1 => ret[1].minionID # ret[2].minionID
        ELSE ret = << >>

\* The layout never gives one slot of one minion to two blocks, nor to the two
\* replicas of one block, and stays within the slots a minion has to provide:
\* the addresses handed out so far, taken from the multimap as filled so far.
NoSlotSharedByTwoBlocks ==
    LET owners == {w \in (0 .. NumMinions - 1) \X (1 .. GROUPS_PER_MINION)
                                               \X (0 .. m_numBlocksPerGroup - 1) :
                    w[2] \in DOMAIN table[w[1]]}
        home(w) == LocationIn(table[w[1]][w[2]], w[3])
    IN  /\ \A w \in owners : home(w) \in BlockLocation
        /\ \A v, w \in owners : home(v) = home(w) => v = w

===========================================================================
