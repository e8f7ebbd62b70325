------------------------- MODULE BlockTableProofs -------------------------
(***************************************************************************)
(* What BlockTable promises, for every number of minions, of blocks, and   *)
(* every block size: each block of the device gets two locations, within   *)
(* the slots a minion provides, on different minions when there are two,   *)
(* and no slot of any minion is given out twice.                           *)
(***************************************************************************)
EXTENDS BlockTable, TLAPS

---------------------------------------------------------------------------
(* Division *)

\* Quotient and remainder of the division of a natural number.
LEMMA DivMod ==
    ASSUME NEW n \in Nat, NEW d \in Nat \ {0}
    PROVE  /\ n \div d \in Nat
           /\ n % d \in 0 .. d - 1
           /\ n = d * (n \div d) + (n % d)
  BY Z3

\* A quotient is below q when the number is below d * q.
LEMMA DivBelow ==
    ASSUME NEW n \in Nat, NEW d \in Nat \ {0}, NEW q \in Nat, n < d * q
    PROVE  n \div d < q
<1> DEFINE k == n \div d
<1>1. k \in Nat /\ n >= d * k
  BY DivMod
<1>2. SUFFICES ASSUME k >= q PROVE FALSE
  BY <1>1
<1>3. d * k >= d * q
  BY <1>1, <1>2, Z3
<1> QED BY <1>1, <1>3

\* The device is NumMinions groups of m_numBlocksPerGroup blocks.
LEMMA GroupsFillDevice ==
    /\ m_numBlocksPerGroup \in Nat \ {0}
    /\ NumBlocks = NumMinions * m_numBlocksPerGroup
<1> DEFINE p == m_numBlocksPerGroup
<1>1. p \in Nat /\ NumBlocks = NumMinions * p
  BY DivMod, BlockTableAssumption DEF m_numBlocksPerGroup
<1>2. p # 0
  BY <1>1, BlockTableAssumption
<1> QED BY <1>1, <1>2

\* The remainder of a number below the divisor, and of the divisor itself.
LEMMA ModSmall ==
    ASSUME NEW d \in Nat \ {0}
    PROVE  /\ \A n \in 0 .. d - 1 : n % d = n
           /\ d % d = 0
  BY Z3

\* A block's byte offset gives back the block.
LEMMA BlockOfOffset ==
    ASSUME NEW blk \in Nat
    PROVE  (blk * BLOCK_SIZE) \div BLOCK_SIZE = blk
<1> DEFINE n == blk * BLOCK_SIZE
           k == n \div BLOCK_SIZE
           r == n % BLOCK_SIZE
<1>1. n \in Nat
  BY BlockTableAssumption
<1>2. k \in Nat /\ r \in 0 .. BLOCK_SIZE - 1 /\ n = BLOCK_SIZE * k + r
  BY <1>1, DivMod, BlockTableAssumption
<1> HIDE DEF k, r
<1>3. ~(k < blk)
  <2> SUFFICES ASSUME k + 1 <= blk PROVE FALSE
    BY <1>2
  <2>1. BLOCK_SIZE * (k + 1) <= BLOCK_SIZE * blk
    BY <1>2, BlockTableAssumption, Z3
  <2>2. BLOCK_SIZE * (k + 1) = BLOCK_SIZE * k + BLOCK_SIZE
    BY <1>2, BlockTableAssumption, Z3
  <2>3. BLOCK_SIZE * blk = n
    BY BlockTableAssumption, Z3
  <2> QED BY <1>1, <1>2, <2>1, <2>2, <2>3, BlockTableAssumption
<1>4. ~(blk < k)
  <2> SUFFICES ASSUME blk + 1 <= k PROVE FALSE
    BY <1>2
  <2>1. BLOCK_SIZE * (blk + 1) <= BLOCK_SIZE * k
    BY <1>2, BlockTableAssumption, Z3
  <2>2. BLOCK_SIZE * (blk + 1) = n + BLOCK_SIZE
    BY BlockTableAssumption, Z3
  <2> QED BY <1>1, <1>2, <2>1, <2>2, BlockTableAssumption
<1> QED BY <1>2, <1>3, <1>4 DEF k

\* A sequence of two elements.
LEMMA Pair ==
    ASSUME NEW S, NEW x \in S, NEW y \in S
    PROVE  /\ <<x, y>> \in Seq(S)
           /\ Len(<<x, y>>) = 2
           /\ <<x, y>>[1] = x
           /\ <<x, y>>[2] = y
  OBVIOUS

---------------------------------------------------------------------------
(* Translation *)

Group(blk) == blk \div m_numBlocksPerGroup
InGroup(blk) == blk % m_numBlocksPerGroup
NextMinion(m) == IF m + 1 = NumMinions THEN 0 ELSE m + 1

\* Group and offset within the group, and the block they stand for.
LEMMA SplitBlock ==
    ASSUME NEW blk \in Blocks
    PROVE  /\ Group(blk) \in Minions
           /\ InGroup(blk) \in 0 .. m_numBlocksPerGroup - 1
           /\ blk = m_numBlocksPerGroup * Group(blk) + InGroup(blk)
<1>1. blk \in Nat /\ blk < m_numBlocksPerGroup * NumMinions
  BY GroupsFillDevice, BlockTableAssumption DEF Blocks
<1>2. Group(blk) < NumMinions
  BY <1>1, DivBelow, GroupsFillDevice, BlockTableAssumption DEF Group
<1>3. Group(blk) \in Nat
  BY <1>1, DivMod, GroupsFillDevice DEF Group
<1>4. /\ InGroup(blk) \in 0 .. m_numBlocksPerGroup - 1
      /\ blk = m_numBlocksPerGroup * Group(blk) + InGroup(blk)
  BY <1>1, DivMod, GroupsFillDevice DEF Group, InGroup
<1> QED BY <1>2, <1>3, <1>4, BlockTableAssumption DEF Minions

\* Translate in one line: the group's own minion, lower half; the next minion,
\* upper half (BlockTable::Translate after the constructor's loop).
THEOREM TranslateShape ==
    ASSUME NEW blk \in Blocks
    PROVE  Translate(blk * BLOCK_SIZE) =
             << [minionID |-> Group(blk), blockOffset |-> InGroup(blk)],
                [minionID |-> NextMinion(Group(blk)),
                 blockOffset |-> m_numBlocksPerGroup + InGroup(blk)] >>
<1> DEFINE g == Group(blk)
           o == InGroup(blk)
<1>1. (blk * BLOCK_SIZE) \div BLOCK_SIZE = blk
  BY BlockOfOffset, BlockTableAssumption DEF Blocks
<1>2. g \in 0 .. NumMinions - 1 /\ o \in Nat
  BY SplitBlock, GroupsFillDevice DEF Minions
<1>3. (g + 0) % NumMinions = g /\ 0 * m_numBlocksPerGroup = 0
  BY <1>2, ModSmall, GroupsFillDevice, BlockTableAssumption
<1>4. (g + 1) % NumMinions = NextMinion(g) /\ 1 * m_numBlocksPerGroup = m_numBlocksPerGroup
  BY <1>2, ModSmall, GroupsFillDevice, BlockTableAssumption DEF NextMinion
<1>5. /\ m_blkGroup2Location[g][1] = [m_minion |-> g, m_begin |-> 0]
      /\ m_blkGroup2Location[g][2] = [m_minion |-> NextMinion(g),
                                      m_begin |-> m_numBlocksPerGroup]
  BY <1>2, <1>3, <1>4 DEF m_blkGroup2Location, BlockGroupLocation
<1>6. Translate(blk * BLOCK_SIZE) =
        << LocationIn(m_blkGroup2Location[g][1], o),
           LocationIn(m_blkGroup2Location[g][2], o) >>
  BY <1>1, <1>2 DEF Translate, Group, InGroup
<1>7. 0 + o = o
  BY <1>2
<1> QED BY <1>5, <1>6, <1>7 DEF LocationIn

\* The two replicas one by one, each of them a location that exists.
LEMMA TranslateAt ==
    ASSUME NEW blk \in Blocks
    PROVE  LET locations == Translate(blk * BLOCK_SIZE)
           IN  /\ locations \in Seq(BlockLocation)
               /\ Len(locations) = 2
               /\ locations[1] = [minionID |-> Group(blk), blockOffset |-> InGroup(blk)]
               /\ locations[2] = [minionID |-> NextMinion(Group(blk)),
                                  blockOffset |-> m_numBlocksPerGroup + InGroup(blk)]
<1> DEFINE g == Group(blk)
           o == InGroup(blk)
           x == [minionID |-> g, blockOffset |-> o]
           y == [minionID |-> NextMinion(g), blockOffset |-> m_numBlocksPerGroup + o]
<1>1. g \in Minions /\ NextMinion(g) \in Minions
  BY SplitBlock, BlockTableAssumption DEF Minions, NextMinion
<1>2. o \in Slots /\ m_numBlocksPerGroup + o \in Slots
  BY SplitBlock, GroupsFillDevice DEF Slots, GROUPS_PER_MINION
<1>3. x \in BlockLocation /\ y \in BlockLocation
  BY <1>1, <1>2 DEF BlockLocation
<1>4. Translate(blk * BLOCK_SIZE) = <<x, y>>
  BY TranslateShape
<1> HIDE DEF x, y
<1>5. /\ <<x, y>> \in Seq(BlockLocation)
      /\ Len(<<x, y>>) = 2
      /\ <<x, y>>[1] = x
      /\ <<x, y>>[2] = y
  BY ONLY <1>3, Pair
<1> QED BY <1>4, <1>5 DEF x, y

\* Every block of the device has two replicas, in slots the minions have, and
\* on two different minions as soon as there are two.
THEOREM TwoReplicasPerBlock ==
    ASSUME NEW blk \in Blocks
    PROVE  LET locations == Translate(blk * BLOCK_SIZE)
           IN  /\ locations \in Seq(BlockLocation)
               /\ Len(locations) = 2
               /\ NumMinions > 1 => locations[1].minionID # locations[2].minionID
<1> DEFINE g == Group(blk)
           o == InGroup(blk)
           locations == Translate(blk * BLOCK_SIZE)
<1>1. NumMinions > 1 => g # NextMinion(g)
  BY SplitBlock, BlockTableAssumption DEF NextMinion, Minions
<1>2. /\ locations \in Seq(BlockLocation)
      /\ Len(locations) = 2
      /\ locations[1] = [minionID |-> g, blockOffset |-> o]
      /\ locations[2] = [minionID |-> NextMinion(g),
                         blockOffset |-> m_numBlocksPerGroup + o]
  BY TranslateAt
<1> HIDE DEF g, o, locations
<1>3. locations[1].minionID = g /\ locations[2].minionID = NextMinion(g)
  BY <1>2
<1>4. NumMinions > 1 => locations[1].minionID # locations[2].minionID
  BY <1>1, <1>3
<1> QED BY <1>2, <1>4 DEF locations

\* Two equal locations belong to the same replica of the same block: a write of
\* one block never lands where another block, or its own twin, is kept.
THEOREM NoSlotGivenTwice ==
    ASSUME NEW a \in Blocks, NEW b \in Blocks, NEW i \in 1 .. 2, NEW j \in 1 .. 2,
           Translate(a * BLOCK_SIZE)[i] = Translate(b * BLOCK_SIZE)[j]
    PROVE  a = b /\ i = j
<1> DEFINE p == m_numBlocksPerGroup
           ta == Translate(a * BLOCK_SIZE)
           tb == Translate(b * BLOCK_SIZE)
           ga == Group(a)
           gb == Group(b)
           oa == InGroup(a)
           ob == InGroup(b)
<1>1. /\ p \in Nat \ {0}
      /\ ga \in Minions /\ gb \in Minions
      /\ oa \in 0 .. p - 1 /\ ob \in 0 .. p - 1
      /\ a = p * ga + oa /\ b = p * gb + ob
  BY SplitBlock, GroupsFillDevice
<1>2. /\ ta[1] = [minionID |-> ga, blockOffset |-> oa]
      /\ ta[2] = [minionID |-> NextMinion(ga), blockOffset |-> p + oa]
      /\ tb[1] = [minionID |-> gb, blockOffset |-> ob]
      /\ tb[2] = [minionID |-> NextMinion(gb), blockOffset |-> p + ob]
  BY TranslateAt
<1>3. ta[i] = tb[j]
  OBVIOUS
<1> HIDE DEF p, ta, tb, ga, gb, oa, ob
<1>4. /\ ta[i].minionID = IF i = 1 THEN ga ELSE NextMinion(ga)
      /\ ta[i].blockOffset = IF i = 1 THEN oa ELSE p + oa
      /\ tb[j].minionID = IF j = 1 THEN gb ELSE NextMinion(gb)
      /\ tb[j].blockOffset = IF j = 1 THEN ob ELSE p + ob
  BY <1>2
<1>5. i = j /\ oa = ob
  BY <1>1, <1>3, <1>4
<1>6. ga = gb
  BY <1>1, <1>3, <1>4, <1>5, BlockTableAssumption DEF NextMinion, Minions
<1> QED BY <1>1, <1>5, <1>6
===========================================================================
