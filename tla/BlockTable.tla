---------------------------- MODULE BlockTable ----------------------------
(***************************************************************************)
(* The address translation of the virtual device (class BlockTable,        *)
(* vdr/block_table/block_table.cpp).  The device's blocks are cut into as  *)
(* many groups as there are minions; group g has a replica on minion g and *)
(* one on the next minion, each minion holding the first replica of its    *)
(* own group in the lower half of its memory and the second replica of its *)
(* neighbour's group in the upper half.                                    *)
(***************************************************************************)
EXTENDS Integers, Sequences

CONSTANTS NumMinions,   \* numMinions_: how many minions the configuration lists
          NumBlocks,    \* numBlks_: size of the device in blocks
          BLOCK_SIZE    \* blkSize_: bytes per block

\* block_table.cpp:14 asserts the divisibility; the configuration gives the rest.
ASSUME BlockTableAssumption ==
    /\ NumMinions \in Nat \ {0}
    /\ NumBlocks \in Nat \ {0}
    /\ BLOCK_SIZE \in Nat \ {0}
    /\ NumBlocks % NumMinions = 0

GROUPS_PER_MINION == 2

m_numBlocksPerGroup == NumBlocks \div NumMinions

Minions == 0 .. NumMinions - 1
Blocks == 0 .. NumBlocks - 1

\* The slots of its memory that the table ever addresses on one minion.
Slots == 0 .. GROUPS_PER_MINION * m_numBlocksPerGroup - 1

BlockLocation == [minionID : Minions, blockOffset : Slots]

\* The i-th value the constructor inserts under key blkGroup.
BlockGroupLocation(blkGroup, i) ==
    [m_minion |-> (blkGroup + i) % NumMinions,
     m_begin  |-> i * m_numBlocksPerGroup]

\* The multimap the constructor builds; a multimap keeps equal keys in
\* insertion order, so each key has the sequence of its values.
m_blkGroup2Location ==
    [blkGroup \in 0 .. NumMinions - 1 |->
        << BlockGroupLocation(blkGroup, 0), BlockGroupLocation(blkGroup, 1) >>]

\* A mutant: forgets where on the minion the group begins.
LocationIn_NoBegin(groupLocation, offsetInGroup) ==
    [minionID |-> groupLocation.m_minion, blockOffset |-> offsetInGroup]

\* One element of the returned vector for each element of the key's range.
LocationIn(groupLocation, offsetInGroup) ==
    [minionID    |-> groupLocation.m_minion,
     blockOffset |-> groupLocation.m_begin + offsetInGroup]

\* An offset past the device has an empty range and gets no location.
Translate(offset_) ==
    LET blk           == offset_ \div BLOCK_SIZE
        offsetInGroup == blk % m_numBlocksPerGroup
        blkGroup      == blk \div m_numBlocksPerGroup
    IN  IF blkGroup \in 0 .. NumMinions - 1
        THEN << LocationIn(m_blkGroup2Location[blkGroup][1], offsetInGroup),
                LocationIn(m_blkGroup2Location[blkGroup][2], offsetInGroup) >>
        ELSE << >>
===========================================================================
