----------------------- MODULE BlockTableCtorProofs -----------------------
(***************************************************************************)
(* The loops of class BlockTable compute the closed forms that the rest of *)
(* the project builds on, for every number of minions, of blocks, every    *)
(* block size and every offset, and the table has no slot for two blocks   *)
(* at any moment of its construction.                                      *)
(***************************************************************************)
EXTENDS BlockTableCtor, BlockTableProofs

\* The first n values of a key.
Row(g, n) ==
    CASE n = 0 -> << >>
      [] n = 1 -> << BlockGroupLocation(g, 0) >>
      [] n = 2 -> << BlockGroupLocation(g, 0), BlockGroupLocation(g, 1) >>

\* The constructor has filled the groups before blkGroup, and i values of that one.
Filled ==
    /\ blkGroup \in 0 .. NumMinions
    /\ i \in 0 .. 1
    /\ Constructed => i = 0
    /\ table = [g \in 0 .. NumMinions - 1 |->
                    Row(g, IF g < blkGroup THEN 2 ELSE IF g = blkGroup THEN i ELSE 0)]

GroupOf(offset_) == (offset_ \div BLOCK_SIZE) \div m_numBlocksPerGroup
OffsetInGroup(offset_) == (offset_ \div BLOCK_SIZE) % m_numBlocksPerGroup

\* The walk over the two values of a key has pushed none, one or both.
Walked(group, o) ==
    \/ todo = m_blkGroup2Location[group] /\ ret = << >>
    \/ /\ todo = << BlockGroupLocation(group, 1) >>
       /\ ret = << LocationIn(BlockGroupLocation(group, 0), o) >>
    \/ /\ todo = << >>
       /\ ret = << LocationIn(BlockGroupLocation(group, 0), o),
                   LocationIn(BlockGroupLocation(group, 1), o) >>

\* Translate is called of a finished table.
Translating ==
    \/ offset = -1 /\ todo = << >> /\ ret = << >>
    \/ /\ offset \in Nat /\ Constructed
       /\ IF GroupOf(offset) \in 0 .. NumMinions - 1
          THEN Walked(GroupOf(offset), OffsetInGroup(offset))
          ELSE todo = << >> /\ ret = << >>

LoopInv == Filled /\ Translating

\* Appending to a sequence of none or one.
LEMMA AppendShort ==
    ASSUME NEW x, NEW y
    PROVE  Append(<< >>, x) = <<x>> /\ Append(<<x>>, y) = <<x, y>>
<1> DEFINE s == Append(<<x>>, y)
<1>1. <<x>> \in Seq({x, y}) /\ Len(<<x>>) = 1 /\ <<x>>[1] = x
  OBVIOUS
<1>2. s \in Seq({x, y}) /\ Len(s) = 2 /\ s[1] = x /\ s[2] = y
  BY <1>1
<1>3. <<x, y>> \in Seq({x, y}) /\ Len(<<x, y>>) = 2
      /\ <<x, y>>[1] = x /\ <<x, y>>[2] = y
  OBVIOUS
<1> HIDE DEF s
<1>4. s = <<x, y>>
  BY <1>2, <1>3
<1> QED BY <1>4 DEF s

\* The loop's body adds a value to a row.
LEMMA RowGrows ==
    ASSUME NEW g
    PROVE  /\ Row(g, 0) = << >>
           /\ Row(g, 1) = << BlockGroupLocation(g, 0) >>
           /\ Row(g, 2) = << BlockGroupLocation(g, 0), BlockGroupLocation(g, 1) >>
           /\ Append(Row(g, 0), BlockGroupLocation(g, 0)) = Row(g, 1)
           /\ Append(Row(g, 1), BlockGroupLocation(g, 1)) = Row(g, 2)
<1>1. /\ Row(g, 0) = << >>
      /\ Row(g, 1) = << BlockGroupLocation(g, 0) >>
      /\ Row(g, 2) = << BlockGroupLocation(g, 0), BlockGroupLocation(g, 1) >>
  BY DEF Row
<1>2. Append(<< >>, BlockGroupLocation(g, 0)) = << BlockGroupLocation(g, 0) >>
  BY AppendShort
<1>3. Append(<< BlockGroupLocation(g, 0) >>, BlockGroupLocation(g, 1)) =
      << BlockGroupLocation(g, 0), BlockGroupLocation(g, 1) >>
  BY AppendShort
<1>4. Append(Row(g, 0), BlockGroupLocation(g, 0)) = Row(g, 1)
  BY <1>1, <1>2, Zenon
<1>5. Append(Row(g, 1), BlockGroupLocation(g, 1)) = Row(g, 2)
  BY <1>1, <1>3, Zenon
<1> QED BY <1>1, <1>4, <1>5

\* A finished table is the multimap of the closed form.
LEMMA FilledTable ==
    ASSUME Filled, Constructed
    PROVE  table = m_blkGroup2Location
<1>1. NumMinions \in Nat
  BY BlockTableAssumption
<1>2. \A g \in 0 .. NumMinions - 1 : g < blkGroup
  BY <1>1 DEF Constructed
<1>3. table = [g \in 0 .. NumMinions - 1 |-> Row(g, 2)]
  BY <1>2 DEF Filled
<1> QED BY <1>3, RowGrows DEF m_blkGroup2Location

\* The inner loop's body keeps the table as far as it goes.
LEMMA InsertFills ==
    ASSUME LoopInv, InsertGroupLocation
    PROVE  LoopInv'
<1>1. NumMinions \in Nat /\ blkGroup \in 0 .. NumMinions - 1 /\ i \in 0 .. 1
  BY BlockTableAssumption DEF LoopInv, Filled, InsertGroupLocation, Constructed
<1>2. Translating'
  <2>1. offset = -1 /\ todo = << >> /\ ret = << >>
    BY DEF LoopInv, Translating, InsertGroupLocation
  <2> QED BY <2>1 DEF InsertGroupLocation, Translating
<1>3. table[blkGroup] = Row(blkGroup, i)
  BY <1>1 DEF LoopInv, Filled
<1>4. table' = [table EXCEPT ![blkGroup] =
                   Append(table[blkGroup], BlockGroupLocation(blkGroup, i))]
  BY DEF InsertGroupLocation
<1>5. ASSUME i = 0 PROVE Filled'
  <2>1. i' = 1 /\ blkGroup' = blkGroup
    BY <1>5 DEF InsertGroupLocation, GROUPS_PER_MINION
  <2>2. Append(table[blkGroup], BlockGroupLocation(blkGroup, i)) = Row(blkGroup, 1)
    BY <1>3, <1>5, RowGrows, Zenon
  <2>3. table' = [table EXCEPT ![blkGroup] = Row(blkGroup, 1)]
    BY <1>4, <2>2, Zenon
  <2>4. table' = [g \in 0 .. NumMinions - 1 |->
                    Row(g, IF g < blkGroup THEN 2 ELSE IF g = blkGroup THEN 1 ELSE 0)]
    BY <1>1, <1>5, <2>3 DEF LoopInv, Filled
  <2>5. blkGroup' \in 0 .. NumMinions /\ i' \in 0 .. 1 /\ ~Constructed'
    BY <1>1, <2>1 DEF Constructed
  <2>6. table' = [g \in 0 .. NumMinions - 1 |->
                    Row(g, IF g < blkGroup' THEN 2 ELSE IF g = blkGroup' THEN i' ELSE 0)]
    BY <2>1, <2>4, Zenon
  <2> QED BY <2>5, <2>6 DEF Filled
<1>6. ASSUME i = 1 PROVE Filled'
  <2>1. i' = 0 /\ blkGroup' = blkGroup + 1
    BY <1>6 DEF InsertGroupLocation, GROUPS_PER_MINION
  <2>2. Append(table[blkGroup], BlockGroupLocation(blkGroup, i)) = Row(blkGroup, 2)
    BY <1>3, <1>6, RowGrows, Zenon
  <2>3. table' = [table EXCEPT ![blkGroup] = Row(blkGroup, 2)]
    BY <1>4, <2>2, Zenon
  <2>4. table' = [g \in 0 .. NumMinions - 1 |->
                    Row(g, IF g < blkGroup THEN 2 ELSE IF g = blkGroup THEN 2 ELSE 0)]
    BY <1>1, <1>6, <2>3 DEF LoopInv, Filled
  <2>5. \A g \in 0 .. NumMinions - 1 :
          (IF g < blkGroup THEN 2 ELSE IF g = blkGroup THEN 2 ELSE 0) =
          (IF g < blkGroup + 1 THEN 2 ELSE IF g = blkGroup + 1 THEN 0 ELSE 0)
    BY <1>1
  <2>6. blkGroup' \in 0 .. NumMinions /\ i' = 0
    BY <1>1, <2>1
  <2>7. table' = [g \in 0 .. NumMinions - 1 |->
                    Row(g, IF g < blkGroup + 1 THEN 2 ELSE IF g = blkGroup + 1 THEN 0 ELSE 0)]
    BY <2>4, <2>5
  <2>8. table' = [g \in 0 .. NumMinions - 1 |->
                    Row(g, IF g < blkGroup' THEN 2 ELSE IF g = blkGroup' THEN i' ELSE 0)]
    BY <2>1, <2>7, Zenon
  <2> QED BY <2>6, <2>8 DEF Filled
<1>7. Filled'
  BY <1>1, <1>5, <1>6
<1> QED BY <1>2, <1>7 DEF LoopInv

\* Looking a key up begins the walk over its values.
LEMMA BeginWalks ==
    ASSUME LoopInv, NEW o \in 0 .. MaxOffset, BeginTranslate(o)
    PROVE  LoopInv'
<1>1. table = m_blkGroup2Location /\ Constructed
  BY FilledTable DEF LoopInv, BeginTranslate
<1>2. DOMAIN table = 0 .. NumMinions - 1
  BY <1>1 DEF m_blkGroup2Location
<1>3. /\ offset' = o /\ ret' = << >> /\ UNCHANGED <<blkGroup, i, table>>
      /\ todo' = IF GroupOf(o) \in DOMAIN table THEN table[GroupOf(o)] ELSE << >>
  BY DEF BeginTranslate, GroupOf
<1>4. Filled'
  BY <1>3 DEF LoopInv, Filled, Constructed
<1>5. o \in Nat
  BY MaxOffsetAssumption
<1>6. Translating'
  BY <1>1, <1>2, <1>3, <1>5 DEF Translating, Walked, Constructed
<1> QED BY <1>4, <1>6 DEF LoopInv

\* An iteration of the walk pushes the next value's location.
LEMMA PushWalks ==
    ASSUME LoopInv, PushLocation
    PROVE  LoopInv'
<1> DEFINE g == GroupOf(offset)
           o == OffsetInGroup(offset)
           r == BlockGroupLocation(g, 0)
           s == BlockGroupLocation(g, 1)
<1>1. /\ todo # << >> /\ ret' = Append(ret, LocationIn(Head(todo), o)) /\ todo' = Tail(todo)
      /\ UNCHANGED <<blkGroup, i, table, offset>>
  BY DEF PushLocation, OffsetInGroup
<1>2. offset \in Nat /\ Constructed /\ g \in 0 .. NumMinions - 1 /\ Walked(g, o)
  BY <1>1 DEF LoopInv, Translating
<1>3. m_blkGroup2Location[g] = <<r, s>>
  BY <1>2 DEF m_blkGroup2Location
<1>4. \/ todo = <<r, s>> /\ ret = << >>
      \/ todo = <<s>> /\ ret = <<LocationIn(r, o)>>
  BY <1>1, <1>2, <1>3 DEF Walked
<1>5. Filled'
  BY <1>1 DEF LoopInv, Filled, Constructed
<1> HIDE DEF g, o, r, s
<1>6. \/ todo' = <<s>> /\ ret' = <<LocationIn(r, o)>>
      \/ todo' = << >> /\ ret' = <<LocationIn(r, o), LocationIn(s, o)>>
  <2>1. CASE todo = <<r, s>> /\ ret = << >>
    <3>1. Head(todo) = r /\ Tail(todo) = <<s>>
      BY <2>1
    <3> QED BY <1>1, <2>1, <3>1, AppendShort
  <2>2. CASE todo = <<s>> /\ ret = <<LocationIn(r, o)>>
    <3>1. Head(todo) = s /\ Tail(todo) = << >>
      BY <2>2
    <3> QED BY <1>1, <2>2, <3>1, AppendShort
  <2> QED BY <1>4, <2>1, <2>2
<1>7. Translating'
  BY <1>1, <1>2, <1>6 DEF Translating, Walked, Constructed, g, o, r, s
<1> QED BY <1>5, <1>7 DEF LoopInv

\* The loops of the constructor and of Translate always know where they are.
THEOREM LoopsInvariant == Spec => []LoopInv
<1>1. Init => LoopInv
  <2> SUFFICES ASSUME Init PROVE LoopInv
    OBVIOUS
  <2>1. Filled
    BY BlockTableAssumption, RowGrows DEF Init, Filled, Constructed
  <2>2. Translating
    BY DEF Init, Translating
  <2> QED BY <2>1, <2>2 DEF LoopInv
<1>2. LoopInv /\ [Next]_vars => LoopInv'
  <2> SUFFICES ASSUME LoopInv, [Next]_vars PROVE LoopInv'
    OBVIOUS
  <2>1. CASE UNCHANGED vars
    BY <2>1 DEF vars, LoopInv, Filled, Translating, Walked, Constructed
  <2> QED BY <2>1, InsertFills, BeginWalks, PushWalks DEF Next
<1> QED BY <1>1, <1>2, PTL DEF Spec

\* The loops agree with the closed forms the other modules use.
THEOREM LoopsAreTheClosedForm == Spec => []LoopsMatchClosedForm
<1>1. LoopInv => LoopsMatchClosedForm
  <2> SUFFICES ASSUME LoopInv PROVE LoopsMatchClosedForm
    OBVIOUS
  <2>1. Constructed => table = m_blkGroup2Location
    BY FilledTable DEF LoopInv
  <2>2. ASSUME Returned PROVE ret = Translate(offset)
    <3> DEFINE g == GroupOf(offset)
               o == OffsetInGroup(offset)
    <3>1. offset \in Nat /\ todo = << >>
      BY <2>2 DEF Returned, LoopInv, Translating
    <3>2. CASE g \in 0 .. NumMinions - 1
      <4>1. m_blkGroup2Location[g] = << BlockGroupLocation(g, 0), BlockGroupLocation(g, 1) >>
        BY <3>2 DEF m_blkGroup2Location
      <4>2. /\ m_blkGroup2Location[g] # << >>
            /\ m_blkGroup2Location[g][1] = BlockGroupLocation(g, 0)
            /\ m_blkGroup2Location[g][2] = BlockGroupLocation(g, 1)
        BY <4>1
      <4>3. ret = << LocationIn(BlockGroupLocation(g, 0), o),
                     LocationIn(BlockGroupLocation(g, 1), o) >>
        BY <3>1, <3>2, <4>2 DEF LoopInv, Translating, Walked
      <4>4. Translate(offset) = << LocationIn(m_blkGroup2Location[g][1], o),
                                   LocationIn(m_blkGroup2Location[g][2], o) >>
        BY <3>2 DEF Translate, GroupOf, OffsetInGroup
      <4> QED BY <4>2, <4>3, <4>4
    <3>3. CASE g \notin 0 .. NumMinions - 1
      <4>1. ret = << >>
        BY <3>1, <3>3 DEF LoopInv, Translating
      <4>2. Translate(offset) = << >>
        BY <3>3 DEF Translate, GroupOf
      <4> QED BY <4>1, <4>2
    <3> QED BY <3>2, <3>3
  <2> QED BY <2>1, <2>2 DEF LoopsMatchClosedForm
<1> QED BY <1>1, LoopsInvariant, PTL

---------------------------------------------------------------------------
(* What Translate returns *)

\* A quotient is at least q when the number is at least d * q.
LEMMA DivAtLeast ==
    ASSUME NEW n \in Nat, NEW d \in Nat \ {0}, NEW q \in Nat, n >= d * q
    PROVE  n \div d >= q
<1> DEFINE k == n \div d
           r == n % d
<1>1. k \in Nat /\ r \in 0 .. d - 1 /\ n = d * k + r
  BY DivMod
<1> HIDE DEF k, r
<1>2. SUFFICES ASSUME k + 1 <= q PROVE FALSE
  BY <1>1 DEF k
<1>3. d * (k + 1) <= d * q
  BY <1>1, <1>2, Z3
<1>4. d * (k + 1) = d * k + d
  BY <1>1, Z3
<1> QED BY <1>1, <1>3, <1>4

\* Every byte of a block is translated as the block is.
LEMMA TranslateByte ==
    ASSUME NEW o \in Nat
    PROVE  Translate(o) = Translate((o \div BLOCK_SIZE) * BLOCK_SIZE)
<1>1. o \div BLOCK_SIZE \in Nat
  BY DivMod, BlockTableAssumption
<1>2. ((o \div BLOCK_SIZE) * BLOCK_SIZE) \div BLOCK_SIZE = o \div BLOCK_SIZE
  BY <1>1, BlockOfOffset
<1> QED BY <1>2 DEF Translate

\* Every byte of the device has two homes, on two minions as soon as there are two,
\* and no byte past the device has any.
THEOREM EveryByteHasTwoReplicas == Spec => []TwoReplicas
<1>1. LoopInv /\ LoopsMatchClosedForm => TwoReplicas
  <2> SUFFICES ASSUME LoopInv, LoopsMatchClosedForm, Returned PROVE TwoReplicas
    BY DEF TwoReplicas
  <2> DEFINE blk == offset \div BLOCK_SIZE
  <2>1. offset \in Nat /\ ret = Translate(offset)
    BY DEF Returned, LoopInv, Translating, LoopsMatchClosedForm
  <2>2. blk \in Nat /\ NumBlocks \in Nat /\ BLOCK_SIZE \in Nat \ {0}
    BY <2>1, DivMod, BlockTableAssumption
  <2>3. NumBlocks * BLOCK_SIZE = BLOCK_SIZE * NumBlocks
    BY <2>2, Z3
  <2>4. CASE offset < NumBlocks * BLOCK_SIZE
    <3>1. blk < NumBlocks
      BY <2>1, <2>2, <2>3, <2>4, DivBelow
    <3>2. blk \in Blocks
      BY <2>2, <3>1 DEF Blocks
    <3> HIDE DEF blk
    <3>3. /\ Len(Translate(blk * BLOCK_SIZE)) = 2
          /\ NumMinions > 1 => Translate(blk * BLOCK_SIZE)[1].minionID
                                 # Translate(blk * BLOCK_SIZE)[2].minionID
      BY <3>2, TwoReplicasPerBlock
    <3>4. ret = Translate(blk * BLOCK_SIZE)
      BY <2>1, TranslateByte DEF blk
    <3> QED BY <2>4, <3>3, <3>4 DEF TwoReplicas
  <2>5. CASE ~(offset < NumBlocks * BLOCK_SIZE)
    <3>1. offset >= BLOCK_SIZE * NumBlocks
      BY <2>1, <2>2, <2>3, <2>5
    <3>2. blk >= NumBlocks
      BY <2>1, <2>2, <3>1, DivAtLeast
    <3>3. blk >= m_numBlocksPerGroup * NumMinions
      BY <3>2, GroupsFillDevice, BlockTableAssumption
    <3>4. blk \div m_numBlocksPerGroup >= NumMinions
      BY <2>2, <3>3, DivAtLeast, GroupsFillDevice, BlockTableAssumption
    <3>5. blk \div m_numBlocksPerGroup \notin 0 .. NumMinions - 1
      BY <3>4, BlockTableAssumption
    <3>6. ret = << >>
      BY <2>1, <3>5 DEF Translate
    <3> QED BY <2>5, <3>6 DEF TwoReplicas
  <2> QED BY <2>4, <2>5
<1> QED BY <1>1, LoopsInvariant, LoopsAreTheClosedForm, PTL

---------------------------------------------------------------------------
(* The layout, while it is being filled *)

\* The address of a block in a value of the multimap.
LEMMA HomeOf ==
    ASSUME NEW g \in 0 .. NumMinions - 1, NEW k \in 1 .. 2,
           NEW o \in 0 .. m_numBlocksPerGroup - 1
    PROVE  LET home == LocationIn(BlockGroupLocation(g, k - 1), o)
           IN  /\ home.minionID = IF k = 1 THEN g ELSE NextMinion(g)
               /\ home.blockOffset = IF k = 1 THEN o ELSE m_numBlocksPerGroup + o
               /\ home \in BlockLocation
<1> DEFINE p == m_numBlocksPerGroup
           home == LocationIn(BlockGroupLocation(g, k - 1), o)
<1>1. p \in Nat \ {0} /\ NumMinions \in Nat \ {0} /\ g \in Nat /\ o \in Nat
  BY GroupsFillDevice, BlockTableAssumption
<1>2. /\ home.minionID = (g + (k - 1)) % NumMinions
      /\ home.blockOffset = (k - 1) * p + o
      /\ home = [minionID |-> home.minionID, blockOffset |-> home.blockOffset]
  BY DEF LocationIn, BlockGroupLocation
<1> HIDE DEF p, home
<1>3. home.minionID = IF k = 1 THEN g ELSE NextMinion(g)
  <2>1. CASE k = 1
    <3>1. g + (k - 1) = g
      BY <1>1, <2>1
    <3> QED BY <1>1, <1>2, <2>1, <3>1, ModSmall
  <2>2. CASE k = 2
    <3>1. g + (k - 1) = g + 1
      BY <1>1, <2>2
    <3>2. (g + 1) % NumMinions = NextMinion(g)
      BY <1>1, ModSmall DEF NextMinion
    <3> QED BY <1>2, <2>2, <3>1, <3>2
  <2> QED BY <2>1, <2>2
<1>4. home.blockOffset = IF k = 1 THEN o ELSE p + o
  <2>1. CASE k = 1
    BY <1>1, <1>2, <2>1
  <2>2. CASE k = 2
    BY <1>1, <1>2, <2>2
  <2> QED BY <2>1, <2>2
<1>5. home.minionID \in Minions
  BY <1>1, <1>3 DEF NextMinion, Minions
<1>6. home.blockOffset \in Slots
  BY <1>1, <1>4 DEF Slots, GROUPS_PER_MINION, p
<1>7. home \in BlockLocation
  BY <1>2, <1>5, <1>6 DEF BlockLocation
<1> QED BY <1>3, <1>4, <1>7 DEF home, p

\* Two equal addresses are one.
LEMMA HomesDiffer ==
    ASSUME NEW g \in 0 .. NumMinions - 1, NEW k \in 1 .. 2,
           NEW o \in 0 .. m_numBlocksPerGroup - 1,
           NEW h \in 0 .. NumMinions - 1, NEW l \in 1 .. 2,
           NEW q \in 0 .. m_numBlocksPerGroup - 1,
           LocationIn(BlockGroupLocation(g, k - 1), o) = LocationIn(BlockGroupLocation(h, l - 1), q)
    PROVE  g = h /\ k = l /\ o = q
<1> DEFINE p == m_numBlocksPerGroup
<1>1. p \in Nat \ {0} /\ NumMinions \in Nat \ {0}
  BY GroupsFillDevice, BlockTableAssumption
<1>2. /\ (IF k = 1 THEN g ELSE NextMinion(g)) = (IF l = 1 THEN h ELSE NextMinion(h))
      /\ (IF k = 1 THEN o ELSE p + o) = (IF l = 1 THEN q ELSE p + q)
  BY HomeOf
<1> HIDE DEF p
<1>3. o \in 0 .. p - 1 /\ q \in 0 .. p - 1
  BY DEF p
<1>4. k = l /\ o = q
  BY <1>1, <1>2, <1>3
<1> QED BY <1>1, <1>2, <1>4 DEF NextMinion

\* No slot of a minion is given to two blocks, nor to two replicas of one, while
\* the table is filled and ever after, and every slot given is one a minion has.
THEOREM NoSlotIsShared == Spec => []NoSlotSharedByTwoBlocks
<1>1. LoopInv => NoSlotSharedByTwoBlocks
  <2> SUFFICES ASSUME LoopInv PROVE NoSlotSharedByTwoBlocks
    OBVIOUS
  <2> DEFINE owners == {w \in (0 .. NumMinions - 1) \X (1 .. GROUPS_PER_MINION)
                                                    \X (0 .. m_numBlocksPerGroup - 1) :
                         w[2] \in DOMAIN table[w[1]]}
             home(w) == LocationIn(table[w[1]][w[2]], w[3])
  <2>1. ASSUME NEW w \in owners
        PROVE  /\ w[1] \in 0 .. NumMinions - 1 /\ w[2] \in 1 .. 2
               /\ w[3] \in 0 .. m_numBlocksPerGroup - 1 /\ w = <<w[1], w[2], w[3]>>
               /\ w[2] \in DOMAIN table[w[1]]
    BY <2>1 DEF GROUPS_PER_MINION
  <2>2. ASSUME NEW g \in 0 .. NumMinions - 1, NEW k \in 1 .. 2, k \in DOMAIN table[g]
        PROVE  table[g][k] = BlockGroupLocation(g, k - 1)
    <3>1. \/ table[g] = << BlockGroupLocation(g, 0), BlockGroupLocation(g, 1) >>
          \/ table[g] = << BlockGroupLocation(g, 0) >>
          \/ table[g] = << >>
      BY RowGrows DEF LoopInv, Filled
    <3> QED BY <2>2, <3>1
  <2>3. ASSUME NEW w \in owners PROVE home(w) = LocationIn(BlockGroupLocation(w[1], w[2] - 1), w[3])
    BY <2>1, <2>2
  <2> HIDE DEF owners, home
  <2>4. \A w \in owners : home(w) \in BlockLocation
    BY <2>1, <2>3, HomeOf
  <2>5. \A v, w \in owners : home(v) = home(w) => v = w
    <3> SUFFICES ASSUME NEW v \in owners, NEW w \in owners, home(v) = home(w) PROVE v = w
      OBVIOUS
    <3>1. v[1] = w[1] /\ v[2] = w[2] /\ v[3] = w[3]
      BY <2>1, <2>3, HomesDiffer
    <3> QED BY <2>1, <3>1
  <2> QED BY <2>4, <2>5 DEF NoSlotSharedByTwoBlocks, owners, home
<1> QED BY <1>1, LoopsInvariant, PTL
===========================================================================
