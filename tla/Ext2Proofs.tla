----------------------------- MODULE Ext2Proofs -----------------------------
(***************************************************************************)
(* Proofs about Ext2, for every size of blocks, every place of the super   *)
(* block, every number of files that two groups can hold and of mounts:    *)
(* what is on the disk wherever the power is lost, and what the cache of   *)
(* names may be trusted for.                                               *)
(***************************************************************************)
EXTENDS Ext2, Integers, SequenceTheorems, WellFoundedInduction, TLAPS

USE DEF SECTOR_SIZE, FieldSize

-----------------------------------------------------------------------------
(* Blocks and cells.                                                       *)

\* The first cell of a block.
Start(block) == block * info.block_size

\* The size of a block is that of some sectors.
LEMMA Geometry ==
  ASSUME info \in Descriptors
  PROVE  /\ info.super_block_idx \in Nat /\ Cells \in Nat
         /\ MAX_FILES \in Nat /\ MAX_FILES >= 1 /\ MAX_FILES <= 8 /\ MaxMounts \in Nat
         /\ sectors_per_block \in Nat /\ sectors_per_block >= 1
         /\ info.block_size \in Nat /\ info.block_size = 4 * sectors_per_block
         /\ (info.super_block_idx + 18) * info.block_size <= Cells
<1>1. /\ info.block_size \in Nat /\ info.block_size > 0 /\ info.super_block_idx \in Nat
      /\ info.block_size % 4 = 0 /\ (info.super_block_idx + 18) * info.block_size <= Cells
  BY Ext2Assumption
<1>2. PICK b \in Nat : b = info.block_size
  BY <1>1
<1>3. b \div 4 \in Nat /\ b = 4 * (b \div 4) /\ b \div 4 >= 1
  BY <1>1, <1>2
<1> QED
  BY <1>1, <1>2, <1>3, Ext2Assumption DEF sectors_per_block

\* Blocks lie one behind the other.
LEMMA Starts ==
  ASSUME info \in Descriptors, NEW block \in Nat
  PROVE  /\ Start(block) \in Nat
         /\ Start(block + 1) = Start(block) + info.block_size
         /\ \A other \in Nat : block < other => Start(block) + info.block_size <= Start(other)
         /\ BLOCK_TO_SECTOR(block) \in Nat /\ BLOCK_TO_SECTOR(block) * 4 = Start(block)
<1>1. PICK b \in Nat, s \in Nat : b = info.block_size /\ s = sectors_per_block /\ b = 4 * s
  BY Geometry
<1>2. block * b \in Nat /\ (block + 1) * b = block * b + b
  OBVIOUS
<1>3. ASSUME NEW other \in Nat, block < other
      PROVE  block * b + b <= other * b
  <2>1. PICK e \in Nat : other = block + 1 + e
    <3>1. other - block - 1 \in Nat /\ other = block + 1 + (other - block - 1)
      BY <1>3
    <3> QED
      BY <3>1
  <2>2. e * b \in Nat /\ other * b = block * b + b + e * b
    BY <2>1
  <2> QED
    BY <2>2, <1>2
<1>4. block * s \in Nat /\ block * s * 4 = block * b
  BY <1>1
<1> QED
  BY <1>1, <1>2, <1>3, <1>4 DEF Start, BLOCK_TO_SECTOR

\* A cell has one block and one place in it.
LEMMA OnePlace ==
  ASSUME info \in Descriptors, NEW a \in Nat, NEW b \in Nat, NEW c \in InBlock, NEW e \in InBlock,
         Start(a) + c = Start(b) + e
  PROVE  a = b /\ c = e
<1>1. /\ info.block_size \in Nat /\ c \in Nat /\ c < info.block_size
      /\ e \in Nat /\ e < info.block_size /\ Start(a) \in Nat /\ Start(b) \in Nat
  <2>1. info.block_size \in Nat
    BY Geometry
  <2>2. Start(a) \in Nat /\ Start(b) \in Nat
    BY Starts
  <2> QED
    BY <2>1, <2>2 DEF InBlock
<1>2. CASE a < b
  <2>1. Start(a) + info.block_size <= Start(b)
    BY <1>2, Starts
  <2> QED
    BY <1>1, <2>1
<1>3. CASE b < a
  <2>1. Start(b) + info.block_size <= Start(a)
    BY <1>3, Starts
  <2> QED
    BY <1>1, <2>1
<1>4. CASE a = b
  BY <1>1, <1>4
<1> QED
  BY <1>2, <1>3, <1>4

\* The blocks up to the last that a descriptor leads to are on the disk.
LEMMA BlockOnDisk ==
  ASSUME info \in Descriptors, NEW block \in Nat, block <= info.super_block_idx + 17
  PROVE  /\ Start(block) + info.block_size <= Cells
         /\ \A c \in InBlock : c \in Nat /\ c < info.block_size /\ Start(block) + c \in 0 .. Cells - 1
<1>1. /\ info.super_block_idx \in Nat /\ info.block_size \in Nat /\ Cells \in Nat
      /\ Start(info.super_block_idx + 18) <= Cells
  BY Geometry DEF Start
<1>2. block < info.super_block_idx + 18 /\ info.super_block_idx + 18 \in Nat
  BY <1>1
<1>3. Start(block) + info.block_size <= Start(info.super_block_idx + 18) /\ Start(block) \in Nat
      /\ Start(info.super_block_idx + 18) \in Nat
  BY <1>2, Starts
<1>4. Start(block) + info.block_size <= Cells
  BY <1>1, <1>3
<1> QED
  BY <1>1, <1>3, <1>4 DEF InBlock

\* A block of the storage device, cell by cell.
LEMMA ReadCells ==
  ASSUME info \in Descriptors, NEW d, NEW block \in Nat
  PROVE  /\ \A c \in InBlock : read_storage(d, block)[c] = d[Start(block) + c]
         /\ read_storage(d, block) = [c \in InBlock |-> d[Start(block) + c]]
<1>1. BLOCK_TO_SECTOR(block) * 4 = Start(block)
  BY Starts
<1> QED
  BY <1>1 DEF read_storage

-----------------------------------------------------------------------------
(* What is written.                                                        *)

\* A sector that may be written.
Write == {w \in [lba : Nat, data : [0 .. SECTOR_SIZE - 1 -> Cell]] : (w.lba + 1) * SECTOR_SIZE <= Cells}

\* The sectors that carry a part of the buffer into the block.
Carrying(buffer, block) ==
  {w \in Write : \A k \in 0 .. 3 : \E c \in InBlock :
      w.lba * 4 + k = Start(block) + c /\ w.data[k] = buffer[c]}

\* The kinds of cells, and which of them are descriptors of groups.
LEMMA CellKinds ==
  /\ Zero \in Cell /\ One \in Cell /\ SuperBlock \in Cell
  /\ ~Found(Zero) /\ ~Found(One) /\ ~Found(SuperBlock)
  /\ \A i \in 1 .. MAX_FILES, n \in 1 .. MaxMounts : Inode(i, n) \in Cell /\ ~Found(Inode(i, n))
  /\ \A b \in Nat : BlockGroupDescriptor(b) \in Cell
  /\ \A cell \in Cell : Found(cell) => cell[2] \in 0 .. 15 /\ cell[3] \in 0 .. 15 /\ cell[4] \in 0 .. 15
<1>1. Zero \in Cell /\ One \in Cell /\ SuperBlock \in Cell
  BY DEF Cell
<1>2. ~Found(Zero) /\ ~Found(One) /\ ~Found(SuperBlock)
  BY DEF Found, Zero, One, SuperBlock
<1>3. ASSUME NEW i \in 1 .. MAX_FILES, NEW n \in 1 .. MaxMounts
      PROVE  Inode(i, n) \in Cell /\ ~Found(Inode(i, n))
  <2>1. Inode(i, n) \in Cell
    BY DEF Cell
  <2>2. Inode(i, n)[1] = "inode"
    BY DEF Inode
  <2> QED
    BY <2>1, <2>2 DEF Found
<1>4. ASSUME NEW b \in Nat
      PROVE  BlockGroupDescriptor(b) \in Cell
  <2>1. PICK a \in 0 .. 16 : a = b % 16
    OBVIOUS
  <2>2. (b + 1) % 16 = (a + 1) % 16 /\ (b + 2) % 16 = (a + 2) % 16 /\ (b + 3) % 16 = (a + 3) % 16
    BY <2>1
  <2>3. BlockGroupDescriptor(b) = BlockGroupDescriptor(a)
    BY <2>2 DEF BlockGroupDescriptor
  <2> QED
    BY <2>1, <2>3 DEF Cell
<1>5. ASSUME NEW cell \in Cell, Found(cell)
      PROVE  cell[2] \in 0 .. 15 /\ cell[3] \in 0 .. 15 /\ cell[4] \in 0 .. 15
  <2>1. PICK b \in 0 .. 16 : cell = BlockGroupDescriptor(b)
    BY <1>2, <1>3, <1>5 DEF Cell
  <2>2. cell[2] = (b + 1) % 16 /\ cell[3] = (b + 2) % 16 /\ cell[4] = (b + 3) % 16
    BY <2>1 DEF BlockGroupDescriptor
  <2> QED
    BY <2>2
<1> QED
  BY <1>1, <1>2, <1>3, <1>4, <1>5

\* A buffer goes to the sectors of its block, beginning with the first.
LEMMA WriteStorage ==
  ASSUME info \in Descriptors, NEW block \in Nat, block <= info.super_block_idx + 17,
         NEW buffer \in [InBlock -> Cell]
  PROVE  /\ write_storage(buffer, block) \in Seq(Carrying(buffer, block))
         /\ Len(write_storage(buffer, block)) = sectors_per_block
         /\ write_storage(buffer, block)[1].lba * 4 = Start(block)
<1> DEFINE data(i) == [c \in 0 .. 3 |-> buffer[(i - 1) * 4 + c]]
           w(i) == [lba |-> BLOCK_TO_SECTOR(block) + i - 1, data |-> data(i)]
<1>1. PICK s \in Nat, b \in Nat, l \in Nat, p \in Nat :
         /\ s = sectors_per_block /\ b = info.block_size /\ b = 4 * s /\ s >= 1
         /\ l = BLOCK_TO_SECTOR(block) /\ p = Start(block) /\ l * 4 = p
  <2>1. /\ sectors_per_block \in Nat /\ sectors_per_block >= 1
        /\ info.block_size \in Nat /\ info.block_size = 4 * sectors_per_block
    BY Geometry
  <2>2. BLOCK_TO_SECTOR(block) \in Nat /\ Start(block) \in Nat /\ BLOCK_TO_SECTOR(block) * 4 = Start(block)
    BY Starts
  <2> QED
    BY <2>1, <2>2
<1>2. Cells \in Nat /\ p + b <= Cells
  BY <1>1, BlockOnDisk, Geometry
<1>3. ASSUME NEW i \in 1 .. s PROVE w(i) \in Carrying(buffer, block)
  <2>1. \A c \in 0 .. 3 : (i - 1) * 4 + c \in InBlock
    BY <1>1 DEF InBlock
  <2>2. l + i - 1 \in Nat /\ (l + i - 1 + 1) * 4 <= Cells
    BY <1>1, <1>2
  <2>3. data(i) \in [0 .. 3 -> Cell]
    BY <2>1
  <2>4. w(i) \in Write
    BY <1>1, <2>2, <2>3 DEF Write
  <2>5. ASSUME NEW k \in 0 .. 3
        PROVE  w(i).lba * 4 + k = Start(block) + ((i - 1) * 4 + k) /\ w(i).data[k] = buffer[(i - 1) * 4 + k]
    BY <1>1
  <2> QED
    BY <2>1, <2>4, <2>5 DEF Carrying
<1>4. write_storage(buffer, block) = [i \in 1 .. s |-> w(i)]
  BY <1>1 DEF write_storage
<1>5. write_storage(buffer, block) \in [1 .. s -> Carrying(buffer, block)]
  BY <1>3, <1>4
<1>6. write_storage(buffer, block) \in Seq(Carrying(buffer, block)) /\ Len(write_storage(buffer, block)) = s
  BY <1>5
<1>7. write_storage(buffer, block)[1] = w(1)
  BY <1>1, <1>4
<1> QED
  BY <1>1, <1>6, <1>7

\* Every set of naturals has a least element.
LEMMA LeastExists ==
  ASSUME NEW T \in SUBSET Nat, T # {}
  PROVE  \E m \in T : \A n \in T : m <= n
<1>1. IsWellFoundedOn(OpToRel(<, Nat), Nat)
  BY NatLessThanWellFounded
<1>2. PICK m \in T : \A n \in T : ~(<<n, m>> \in OpToRel(<, Nat))
  BY <1>1, WFMin
<1>3. \A n \in T : ~(n < m)
  BY <1>2 DEF OpToRel
<1> QED
  BY <1>3

\* A set of positions has a last one.
LEMMA LastExists ==
  ASSUME NEW n \in Nat, NEW T \in SUBSET (1 .. n), T # {}
  PROVE  Max(T) \in T /\ \A i \in T : Max(T) >= i
<1> DEFINE R == {x \in Nat : n - x \in T}
<1>1. \A i \in T : i \in 1 .. n /\ n - i \in R
  OBVIOUS
<1>2. R \in SUBSET Nat /\ R # {}
  BY <1>1
<1>3. PICK m \in R : \A x \in R : m <= x
  BY <1>2, LeastExists
<1>4. n - m \in T /\ \A i \in T : n - m >= i
  BY <1>1, <1>3
<1> QED
  BY <1>4 DEF Max

\* What is on the disk after writes is what was there or the last that was written.
LEMMA AfterCell ==
  ASSUME NEW d, NEW writes \in Seq(Write), NEW c \in DOMAIN d, NEW q \in Nat, NEW k \in 0 .. 3,
         c \div 4 = q, c % 4 = k
  PROVE  \/ /\ \A i \in 1 .. Len(writes) : writes[i].lba # q
            /\ After(d, writes)[c] = d[c]
         \/ \E i \in 1 .. Len(writes) : writes[i].lba = q /\ After(d, writes)[c] = writes[i].data[k]
<1> DEFINE arriving == {i \in DOMAIN writes : writes[i].lba = c \div 4}
<1>1. c \div 4 = q /\ c % 4 = k
  OBVIOUS
<1>2. DOMAIN writes = 1 .. Len(writes) /\ Len(writes) \in Nat
  BY LenProperties
<1>3. After(d, writes)[c] = IF arriving = {} THEN d[c] ELSE writes[Max(arriving)].data[k]
  BY <1>1 DEF After
<1>4. CASE arriving = {}
  BY <1>1, <1>2, <1>3, <1>4
<1>5. CASE arriving # {}
  <2>1. Max(arriving) \in arriving
    BY <1>2, <1>5, LastExists
  <2> QED
    BY <1>1, <1>2, <1>3, <1>5, <2>1
<1> QED
  BY <1>4, <1>5

\* The disk keeps its cells.
LEMMA AfterDomain ==
  ASSUME NEW d, NEW writes
  PROVE  DOMAIN After(d, writes) = DOMAIN d
BY DEF After

\* A disk as the types want it.
Disk == [0 .. Cells - 1 -> Cell]

\* A cell of the disk is a cell of a sector.
LEMMA CellOfSector ==
  ASSUME NEW c \in Nat
  PROVE  \E q \in Nat, k \in 0 .. 3 : c = q * 4 + k /\ c \div 4 = q /\ c % 4 = k
<1>1. PICK q \in Nat : q = c \div 4
  OBVIOUS
<1>2. PICK k \in 0 .. 3 : k = c % 4
  OBVIOUS
<1>3. c = q * 4 + k
  BY <1>1, <1>2
<1> QED
  BY <1>1, <1>2, <1>3

\* After writes the disk has cells of the types as before.
LEMMA AfterType ==
  ASSUME NEW d \in Disk, NEW writes \in Seq(Write)
  PROVE  After(d, writes) \in Disk
<1>1. ASSUME NEW c \in DOMAIN d
      PROVE  After(d, writes)[c] \in Cell
  <2>1. c \in Nat /\ d[c] \in Cell
    BY Ext2Assumption DEF Disk
  <2>2. PICK q \in Nat, k \in 0 .. 3 : c \div 4 = q /\ c % 4 = k
    BY <2>1, CellOfSector
  <2>3. \A i \in 1 .. Len(writes) : writes[i].data[k] \in Cell
    <3>1. \A i \in 1 .. Len(writes) : writes[i] \in Write
      BY ElementOfSeq
    <3> QED
      BY <3>1 DEF Write
  <2> QED
    BY SMTT(30), <2>1, <2>2, <2>3, AfterCell
<1>2. DOMAIN After(d, writes) = 0 .. Cells - 1
  BY AfterDomain DEF Disk
<1>3. After(d, writes) = [c \in 0 .. Cells - 1 |-> After(d, writes)[c]]
  BY <1>2 DEF After
<1>4. DOMAIN d = 0 .. Cells - 1
  BY DEF Disk
<1> QED
  BY <1>1, <1>3, <1>4 DEF Disk

\* The numbers of a file: its group, its place in the bitmap and the blocks of the table.
LEMMA Places ==
  ASSUME info \in Descriptors, NEW idx \in 1 .. MAX_FILES
  PROVE  /\ INODE_IDX_TO_BLOCK_GROUP(idx) =
               IF idx <= info.block_size THEN info.super_block_idx + 1 ELSE info.super_block_idx + 2
         /\ idx > info.block_size => info.block_size = 4
         /\ INODE_IDX_IN_BLOCK_GROUP(idx) \in InBlock
         /\ idx <= info.block_size => INODE_IDX_IN_BLOCK_GROUP(idx) = idx - 1
         /\ INODE_IDX_CONTAINING_BLOCK(idx) \in 0 .. 2
         /\ idx % 4 \in InBlock
<1>1. PICK b \in Nat, s \in Nat : b = info.block_size /\ b = 4 * s /\ s >= 1
  BY Geometry
<1>2. idx \in 1 .. 8 /\ info.super_block_idx \in Nat
  BY Geometry
<1>3. CASE b = 4
  <2>1. idx - 1 \in 0 .. 7 /\ (idx - 1) \div 4 = (IF idx <= 4 THEN 0 ELSE 1) /\ (idx - 1) % 4 \in 0 .. 3
        /\ (idx <= 4 => (idx - 1) % 4 = idx - 1) /\ idx \div 4 \in 0 .. 2 /\ idx % 4 \in 0 .. 3
    BY <1>2
  <2> QED
    BY <1>1, <1>2, <1>3, <2>1
       DEF INODE_IDX_TO_BLOCK_GROUP, group_inode_size, INODE_IDX_IN_BLOCK_GROUP, INODE_IDX_CONTAINING_BLOCK, InBlock
<1>4. CASE b # 4
  <2>1. b >= 8
    BY <1>1, <1>4
  <2>2. (idx - 1) \div b = 0 /\ (idx - 1) % b = idx - 1
    BY <1>2, <2>1
  <2>3. idx \div b \in 0 .. 2
    <3>1. CASE idx = 8 /\ b = 8
      BY <3>1
    <3>2. CASE ~(idx = 8 /\ b = 8)
      <4>1. idx < b
        BY <1>2, <2>1, <3>2
      <4>2. idx \div b = 0
        BY <1>2, <4>1
      <4> QED
        BY <4>2
    <3> QED
      BY <3>1, <3>2
  <2>4. idx % 4 \in 0 .. b - 1 /\ idx - 1 \in 0 .. b - 1 /\ idx <= b
    BY <1>2, <2>1
  <2> QED
    BY <1>1, <1>2, <1>4, <2>1, <2>2, <2>3, <2>4
       DEF INODE_IDX_TO_BLOCK_GROUP, group_inode_size, INODE_IDX_IN_BLOCK_GROUP, INODE_IDX_CONTAINING_BLOCK, InBlock
<1> QED
  BY <1>3, <1>4

-----------------------------------------------------------------------------
(* Types.                                                                  *)

Buffer == [InBlock -> Cell]

\* A descriptor, read or new: its block numbers have four bits.
Descriptor == {g \in Cell : g[2] \in 0 .. 15 /\ g[3] \in 0 .. 15 /\ g[4] \in 0 .. 15}

Table == [group_descriptor : Descriptor, block_bitmap : Buffer, inode_bitmap : Buffer]

\* A new descriptor (BlockGroupDescriptor, ext2.cpp) is well typed: its block numbers have four bits.
LEMMA NewDescriptor ==
  ASSUME NEW b \in Nat
  PROVE  BlockGroupDescriptor(b) \in Descriptor
<1>1. (b + 1) % 16 \in 0 .. 15 /\ (b + 2) % 16 \in 0 .. 15 /\ (b + 3) % 16 \in 0 .. 15
  OBVIOUS
<1>2. BlockGroupDescriptor(b) \in Cell
  BY CellKinds
<1> QED
  BY <1>1, <1>2 DEF BlockGroupDescriptor, Descriptor

\* Reading a block of the disk's used part fills a buffer with cells.
LEMMA ReadType ==
  ASSUME info \in Descriptors, NEW d \in Disk, NEW block \in Nat, block <= info.super_block_idx + 17
  PROVE  read_storage(d, block) \in Buffer
<1>1. \A c \in InBlock : Start(block) + c \in 0 .. Cells - 1
  BY BlockOnDisk
<1>2. \A c \in InBlock : d[Start(block) + c] \in Cell
  BY <1>1 DEF Disk
<1>3. read_storage(d, block) = [c \in InBlock |-> d[Start(block) + c]]
  BY ReadCells
<1> QED
  BY <1>2, <1>3 DEF Buffer

\* Sequences of sectors that carry a buffer are sequences of sectors.
LEMMA CarryingIsWriting ==
  ASSUME NEW buffer, NEW block
  PROVE  Seq(Carrying(buffer, block)) \subseteq Seq(Write)
<1>1. Carrying(buffer, block) \subseteq Write
  BY DEF Carrying
<1> QED
  BY <1>1, SeqMonotonic

\* Writing a block, from a buffer or from one object, is a list of sector writes.
LEMMA WriteType ==
  ASSUME info \in Descriptors, NEW block \in Nat, block <= info.super_block_idx + 17
  PROVE  /\ \A buffer \in Buffer : write_storage(buffer, block) \in Seq(Write)
         /\ \A object \in Cell : write_object_to_block(object, block) \in Seq(Write)
<1>1. ASSUME NEW buffer \in Buffer PROVE write_storage(buffer, block) \in Seq(Write)
  BY WriteStorage, CarryingIsWriting DEF Buffer
<1>2. ASSUME NEW object \in Cell PROVE write_object_to_block(object, block) \in Seq(Write)
  <2>1. [c \in InBlock |-> IF c = 0 THEN object ELSE Zero] \in Buffer
    BY CellKinds DEF Buffer
  <2> QED
    BY <1>1, <2>1 DEF write_object_to_block
<1> QED
  BY <1>1, <1>2

\* The blocks of both groups are on the disk.
LEMMA GroupOnDisk ==
  ASSUME info \in Descriptors, NEW g \in Descriptor, NEW b \in {info.super_block_idx + 1, info.super_block_idx + 2}
  PROVE  /\ b \in Nat /\ b <= info.super_block_idx + 17
         /\ g[2] \in Nat /\ g[2] <= info.super_block_idx + 17
         /\ g[3] \in Nat /\ g[3] <= info.super_block_idx + 17
         /\ \A t \in 0 .. 2 : g[4] + t \in Nat /\ g[4] + t <= info.super_block_idx + 17
<1>1. PICK s \in Nat : s = info.super_block_idx
  BY Geometry
<1>2. PICK x \in 0 .. 15, y \in 0 .. 15, z \in 0 .. 15 : x = g[2] /\ y = g[3] /\ z = g[4]
  BY DEF Descriptor
<1> QED
  BY SMTT(30), <1>1, <1>2

\* What is written for a group that is not there yet is a list of sector writes.
LEMMA NewGroupType ==
  ASSUME info \in Descriptors, NEW b \in {info.super_block_idx + 1, info.super_block_idx + 2}
  PROVE  NewGroup(b) \in Seq(Write)
<1> DEFINE g == BlockGroupDescriptor(b)
<1>1. b \in Nat /\ b <= info.super_block_idx + 17
  <2>1. info.super_block_idx \in Nat
    BY Geometry
  <2> QED
    BY <2>1
<1>2. g \in Descriptor /\ g \in Cell /\ Zero \in Cell
  BY <1>1, NewDescriptor, CellKinds
<1>3. /\ g[2] \in Nat /\ g[2] <= info.super_block_idx + 17
      /\ g[3] \in Nat /\ g[3] <= info.super_block_idx + 17
      /\ g[4] + 0 \in Nat /\ g[4] + 0 <= info.super_block_idx + 17
  BY <1>2, GroupOnDisk
<1>4. g[4] \in Nat /\ g[4] <= info.super_block_idx + 17
  <2>1. PICK z \in 0 .. 15 : z = g[4]
    BY <1>2 DEF Descriptor
  <2> QED
    BY <1>3, <2>1
<1>5. write_object_to_block(g, b) \in Seq(Write)
  BY <1>1, <1>2, WriteType
<1>6. zero_block(g[2]) \in Seq(Write) /\ zero_block(g[3]) \in Seq(Write) /\ zero_block(g[4]) \in Seq(Write)
  BY <1>2, <1>3, <1>4, WriteType DEF zero_block
<1> HIDE DEF g
<1>7. write_object_to_block(g, b) \o zero_block(g[2]) \o zero_block(g[3]) \o zero_block(g[4]) \in Seq(Write)
  BY <1>5, <1>6, ConcatProperties
<1> QED
  BY <1>7 DEF NewGroup, g

\* get_block_group, whether it reads or makes the group: its writes, and the table it returns.
LEMMA GetGroupType ==
  ASSUME info \in Descriptors, NEW d \in Disk,
         NEW b \in {info.super_block_idx + 1, info.super_block_idx + 2}
  PROVE  get_block_group(d, b).writes \in Seq(Write) /\ get_block_group(d, b).bg \in Table
<1> DEFINE cell == read_storage(d, b)[0]
           writes == IF Found(cell) THEN <<>> ELSE NewGroup(b)
           g == IF Found(cell) THEN cell ELSE BlockGroupDescriptor(b)
<1>1. b \in Nat /\ b <= info.super_block_idx + 17
  <2>1. info.super_block_idx \in Nat
    BY Geometry
  <2> QED
    BY <2>1
<1>2. cell \in Cell
  <2>1. 0 \in InBlock
    BY Geometry DEF InBlock
  <2>2. read_storage(d, b) \in Buffer
    BY <1>1, ReadType
  <2> QED
    BY <2>1, <2>2 DEF Buffer
<1>3. g \in Descriptor
  <2>1. BlockGroupDescriptor(b) \in Descriptor
    BY <1>1, NewDescriptor
  <2>2. Found(cell) => cell \in Descriptor
    BY <1>2, CellKinds DEF Descriptor
  <2> QED
    BY <2>1, <2>2
<1>4. writes \in Seq(Write)
  BY NewGroupType
<1>5. After(d, writes) \in Disk
  BY <1>4, AfterType
<1>6. /\ g[2] \in Nat /\ g[2] <= info.super_block_idx + 17
      /\ g[3] \in Nat /\ g[3] <= info.super_block_idx + 17
  BY <1>3, GroupOnDisk
<1>7. read_storage(After(d, writes), g[2]) \in Buffer /\ read_storage(After(d, writes), g[3]) \in Buffer
  BY <1>5, <1>6, ReadType
<1>8. BlockGroupTable(After(d, writes), g) \in Table
  BY <1>3, <1>7 DEF BlockGroupTable, Table
<1>9. get_block_group(d, b) = [bg |-> BlockGroupTable(After(d, writes), g), writes |-> writes]
  BY DEF get_block_group
<1> QED
  BY <1>4, <1>8, <1>9

\* The two bitmaps and the descriptor, which write_block_group writes first.
LEMMA BitmapWritesType ==
  ASSUME info \in Descriptors, NEW bg \in Table,
         NEW b \in {info.super_block_idx + 1, info.super_block_idx + 2}
  PROVE  BitmapWrites(b, bg) \in Seq(Write)
<1> DEFINE g == bg.group_descriptor
<1>1. g \in Descriptor /\ g \in Cell /\ bg.block_bitmap \in Buffer /\ bg.inode_bitmap \in Buffer
  BY DEF Table, Descriptor
<1>2. /\ b \in Nat /\ b <= info.super_block_idx + 17
      /\ g[2] \in Nat /\ g[2] <= info.super_block_idx + 17
      /\ g[3] \in Nat /\ g[3] <= info.super_block_idx + 17
  BY <1>1, GroupOnDisk
<1>3. /\ write_object_to_block(g, b) \in Seq(Write) /\ write_storage(bg.block_bitmap, g[2]) \in Seq(Write)
      /\ write_storage(bg.inode_bitmap, g[3]) \in Seq(Write)
  BY <1>1, <1>2, WriteType
<1> QED
  BY <1>3, ConcatProperties DEF BitmapWrites

\* The block of the inode table, read, changed in one entry and written again.
LEMMA InodeWriteType ==
  ASSUME info \in Descriptors, NEW d \in Disk, NEW g \in Descriptor, NEW idx \in 1 .. MAX_FILES,
         mounts \in 1 .. MaxMounts
  PROVE  InodeWrite(d, g, idx) \in Seq(Write)
<1> DEFINE block == g[4] + INODE_IDX_CONTAINING_BLOCK(idx)
           buffer == [read_storage(d, block) EXCEPT ![idx % 4] = Inode(idx, mounts)]
<1>1. INODE_IDX_CONTAINING_BLOCK(idx) \in 0 .. 2
  BY Places
<1>2. block \in Nat /\ block <= info.super_block_idx + 17
  <2>1. PICK b : b = info.super_block_idx + 1
    OBVIOUS
  <2> QED
    BY <1>1, <2>1, GroupOnDisk
<1>3. read_storage(d, block) \in Buffer
  BY <1>2, ReadType
<1>4. Inode(idx, mounts) \in Cell
  BY CellKinds
<1>5. buffer \in Buffer
  BY <1>3, <1>4 DEF Buffer
<1>6. write_storage(buffer, block) \in Seq(Write)
  BY <1>2, <1>5, WriteType
<1> QED
  BY <1>6 DEF InodeWrite

\* All of write_block_group is a list of sector writes.
LEMMA WriteGroupType ==
  ASSUME info \in Descriptors, NEW d \in Disk, NEW bg \in Table, NEW idx \in 1 .. MAX_FILES,
         NEW b \in {info.super_block_idx + 1, info.super_block_idx + 2}, mounts \in 1 .. MaxMounts
  PROVE  write_block_group(d, b, bg, idx) \in Seq(Write)
<1>1. BitmapWrites(b, bg) \in Seq(Write)
  BY BitmapWritesType
<1>2. After(d, BitmapWrites(b, bg)) \in Disk
  BY <1>1, AfterType
<1>3. bg.group_descriptor \in Descriptor
  BY DEF Table
<1>4. InodeWrite(After(d, BitmapWrites(b, bg)), bg.group_descriptor, idx) \in Seq(Write)
  BY <1>2, <1>3, InodeWriteType
<1> QED
  BY <1>1, <1>4, ConcatProperties DEF write_block_group

\* The first free entry of the cache.
LEMMA FreeEntry ==
  ASSUME MAX_FILES \in Nat, Free # {}
  PROVE  /\ get_available_inode_idx \in 1 .. MAX_FILES
         /\ cache[get_available_inode_idx].inode_idx = 0
         /\ \A i \in 1 .. MAX_FILES : i < get_available_inode_idx => cache[i].inode_idx # 0
<1>1. \E i \in Free : \A j \in Free : i <= j
  <2>1. Free \in SUBSET Nat
    BY DEF Free
  <2> QED
    BY <2>1, LeastExists
<1>2. get_available_inode_idx \in Free /\ \A j \in Free : get_available_inode_idx <= j
  BY <1>1 DEF get_available_inode_idx
<1> QED
  BY <1>2 DEF Free

-----------------------------------------------------------------------------
(* The inductive invariant.                                                *)

Typed ==
  /\ info \in Descriptors /\ disk \in Disk /\ todo \in Seq(Write)
  /\ power \in {"off", "on", "panic"} /\ mounts \in 0 .. MaxMounts
  /\ power # "off" => mounts \in 1 .. MaxMounts
  /\ cache \in [1 .. MAX_FILES + 1 ->
                   [inode_idx : 0 .. Junk, name : Names \cup {"none", "root"}, damaged : BOOLEAN]]

\* The entries up to m are in use.
Entries(m) == \A i \in 1 .. MAX_FILES : cache[i].inode_idx = 0 <=> i > m

\* Only a long name destroys anything, and an entry that has one is in use.
CacheIntact ==
  /\ power = "on" => \E m \in 1 .. MAX_FILES : Entries(m)
  /\ \A i \in 1 .. MAX_FILES + 1 :
        /\ cache[i].inode_idx \notin {0, i} => cache[i].name = "long"
        /\ cache[i].damaged => i - 1 >= 1 /\ cache[i - 1].name = "long"
        /\ cache[i].name = "long" => cache[i].inode_idx # 0

\* The first groups' descriptors are at their places, and there is no other.
InGroups(d) ==
  \A c \in DOMAIN d : Found(d[c]) =>
     \E b \in {info.super_block_idx + 1, info.super_block_idx + 2} :
        c = Start(b) /\ d[c] = BlockGroupDescriptor(b)

(***************************************************************************)
(* A sector that takes the place of no descriptor and not of the super     *)
(* block.  If there is a second group, its descriptor is what the block    *)
(* bitmap of the first begins with.                                        *)
(***************************************************************************)
Keeps(w, second) ==
  /\ \A k \in 0 .. 3 : Found(w.data[k]) =>
        \E b \in {info.super_block_idx + 1, info.super_block_idx + 2} :
           w.lba * 4 + k = Start(b) /\ w.data[k] = BlockGroupDescriptor(b)
  /\ w.lba * 4 = Start(info.super_block_idx + 1) => w.data[0] = FirstGroup
  /\ w.lba * 4 = Start(info.super_block_idx + 2) =>
        IF second THEN w.data[0] = BlockGroupDescriptor(info.super_block_idx + 2) ELSE ~Found(w.data[0])
  /\ w.lba * 4 = Start(1) => w.data[0] = SuperBlock

Keeping(second) == {w \in Write : Keeps(w, second)}

\* An object is at the beginning of its block, or will be written there.
IsOrWillBe(object, block) ==
  disk[Start(block)] = object \/ \E i \in 1 .. Len(todo) : todo[i].lba * 4 = Start(block)

Groups ==
  /\ InGroups(disk)
  /\ \E second \in BOOLEAN :
        /\ todo \in Seq(Keeping(second))
        /\ second \/ ~Found(disk[Start(info.super_block_idx + 2)])
        /\ second => disk[Start(info.super_block_idx + 1)] = FirstGroup
  /\ power = "on" =>
        IsOrWillBe(FirstGroup, info.super_block_idx + 1) /\ IsOrWillBe(SuperBlock, 1)

-----------------------------------------------------------------------------
(* Types and the cache.                                                    *)

\* The unformatted disk before the first mount.
LEMMA TypedInit == Init => Typed /\ CacheIntact
<1> SUFFICES ASSUME Init PROVE Typed /\ CacheIntact
  OBVIOUS
<1>1. info \in Descriptors /\ power = "off" /\ mounts = 0 /\ MaxMounts \in Nat
  BY Ext2Assumption DEF Init
<1>2. disk \in Disk
  BY CellKinds DEF Init, Disk
<1>3. todo \in Seq(Write)
  BY DEF Init
<1>4. MAX_FILES \in Nat
  BY <1>1, Geometry
<1>5. \A i \in 1 .. MAX_FILES + 1 : cache[i] = Unused
  BY DEF Init, NoCache
<1>6. cache = [i \in 1 .. MAX_FILES + 1 |-> Unused]
  BY DEF Init, NoCache
<1>7. Unused \in [inode_idx : 0 .. Junk, name : Names \cup {"none", "root"}, damaged : BOOLEAN]
  BY <1>4 DEF Unused, Junk, Entry
<1>8. cache \in [1 .. MAX_FILES + 1 ->
                    [inode_idx : 0 .. Junk, name : Names \cup {"none", "root"}, damaged : BOOLEAN]]
  BY <1>6, <1>7
<1>9. CacheIntact
  BY <1>1, <1>5 DEF CacheIntact, Unused, Entry
<1> QED
  BY <1>1, <1>2, <1>3, <1>8, <1>9 DEF Typed

\* What a constructor leaves in the cache (ext2.cpp:81-82).
LEMMA MountKeepsTyped ==
  ASSUME Typed, CacheIntact, Mount
  PROVE  Typed' /\ CacheIntact'
<1>1. /\ info \in Descriptors /\ info' = info /\ disk' = disk /\ disk \in Disk /\ power' = "on"
      /\ mounts' = mounts + 1 /\ mounts < MaxMounts /\ mounts \in 0 .. MaxMounts /\ MaxMounts \in Nat
  BY Ext2Assumption DEF Mount, Typed
<1>2. info.super_block_idx \in Nat /\ MAX_FILES \in Nat /\ MAX_FILES >= 1
  BY <1>1, Geometry
<1>3. mounts' \in 1 .. MaxMounts
  BY <1>1
<1>4. get_super_block \in Seq(Write)
  <2>1. PICK i \in Nat : i = 1
    OBVIOUS
  <2>2. i <= info.super_block_idx + 17
    BY <1>2, <2>1
  <2>3. write_object_to_block(SuperBlock, i) \in Seq(Write)
    BY <1>1, <2>2, WriteType, CellKinds
  <2> QED
    BY <2>1, <2>3 DEF get_super_block
<1>5. get_block_group(After(disk, get_super_block), info.super_block_idx + 1).writes \in Seq(Write)
  BY <1>1, <1>4, AfterType, GetGroupType
<1>6. todo' \in Seq(Write)
  BY <1>4, <1>5, ConcatProperties DEF Mount
<1>7. cache' = [i \in 1 .. MAX_FILES + 1 |->
                   IF i = 1 THEN Entry(1, "root", FALSE) ELSE Unused]
  BY DEF Mount, NoCache
<1>8. cache' \in [1 .. MAX_FILES + 1 ->
                    [inode_idx : 0 .. Junk, name : Names \cup {"none", "root"}, damaged : BOOLEAN]]
  BY <1>2, <1>7 DEF Unused, Junk, Entry
<1>9. \A i \in 1 .. MAX_FILES : cache'[i].inode_idx = 0 <=> i > 1
  BY <1>2, <1>7 DEF Unused, Entry
<1>10. CacheIntact'
  <2>1. \E m \in 1 .. MAX_FILES : \A i \in 1 .. MAX_FILES : cache'[i].inode_idx = 0 <=> i > m
    BY <1>2, <1>9
  <2>2. \A i \in 1 .. MAX_FILES + 1 :
           cache'[i].inode_idx \in {0, i} /\ ~cache'[i].damaged /\ cache'[i].name # "long"
    BY <1>7 DEF Unused, Entry
  <2> QED
    BY <2>1, <2>2 DEF CacheIntact, Entries
<1> QED
  BY <1>1, <1>3, <1>6, <1>8, <1>10 DEF Typed

\* What the name of a new file does to the cache (ext2.cpp:103-104).
LEMMA CachedEntries ==
  ASSUME Typed, NEW idx \in 1 .. MAX_FILES, NEW name \in Names
  PROVE  /\ Cached(idx, name) \in [1 .. MAX_FILES + 1 ->
                   [inode_idx : 0 .. Junk, name : Names \cup {"none", "root"}, damaged : BOOLEAN]]
         /\ Cached(idx, name)[idx].inode_idx = (IF name = "long" THEN Junk ELSE idx)
         /\ Cached(idx, name)[idx].name = name
         /\ Cached(idx, name)[idx].damaged = cache[idx].damaged
         /\ \A i \in 1 .. MAX_FILES + 1 : i # idx =>
               /\ Cached(idx, name)[i].inode_idx = cache[i].inode_idx
               /\ Cached(idx, name)[i].name = cache[i].name
               /\ Cached(idx, name)[i].damaged <=> (cache[i].damaged \/ (name = "long" /\ i = idx + 1))
         /\ Junk \in Nat /\ Junk # 0
<1> DEFINE EntryType == [inode_idx : 0 .. Junk, name : Names \cup {"none", "root"}, damaged : BOOLEAN]
<1>1. cache \in [1 .. MAX_FILES + 1 -> EntryType] /\ MAX_FILES \in Nat
  BY Geometry DEF Typed
<1>2. Junk \in Nat /\ Junk # 0 /\ idx \in 0 .. Junk /\ Junk \in 0 .. Junk
      /\ idx \in 1 .. MAX_FILES + 1 /\ idx + 1 \in 1 .. MAX_FILES + 1 /\ idx + 1 # idx
  BY <1>1 DEF Junk
<1>3. \A i \in 1 .. MAX_FILES + 1 :
         /\ cache[i] \in EntryType
         /\ cache[i].inode_idx \in 0 .. Junk /\ cache[i].name \in Names \cup {"none", "root"}
         /\ cache[i].damaged \in BOOLEAN
  BY <1>1
<1>4. ASSUME NEW i \in 0 .. Junk, NEW n \in Names \cup {"none", "root"}, NEW x \in BOOLEAN
      PROVE  Entry(i, n, x) \in EntryType /\ Entry(i, n, x).inode_idx = i /\ Entry(i, n, x).name = n
             /\ Entry(i, n, x).damaged = x
  BY DEF Entry
<1>5. CASE name = "long"
  <2>1. Cached(idx, name) =
           [i \in 1 .. MAX_FILES + 1 |->
               IF i = idx + 1 THEN Entry(cache[i].inode_idx, cache[i].name, TRUE)
               ELSE IF i = idx THEN Entry(Junk, name, cache[i].damaged) ELSE cache[i]]
    BY <1>1, <1>2, <1>5 DEF Cached
  <2>2. \A i \in 1 .. MAX_FILES + 1 : Cached(idx, name)[i] =
               IF i = idx + 1 THEN Entry(cache[i].inode_idx, cache[i].name, TRUE)
               ELSE IF i = idx THEN Entry(Junk, name, cache[i].damaged) ELSE cache[i]
    BY <2>1
  <2>3. Entry(Junk, name, cache[idx].damaged) \in EntryType
    BY <1>2, <1>3, <1>4
  <2>4. \A i \in 1 .. MAX_FILES + 1 : Entry(cache[i].inode_idx, cache[i].name, TRUE) \in EntryType
    BY <1>3, <1>4
  <2>5. ASSUME NEW i \in 1 .. MAX_FILES + 1 PROVE Cached(idx, name)[i] \in EntryType
    <3>1. CASE i = idx + 1
      <4>1. Cached(idx, name)[i] = Entry(cache[i].inode_idx, cache[i].name, TRUE)
        BY <2>2, <3>1
      <4> QED
        BY <2>4, <4>1
    <3>2. CASE i = idx
      <4>1. Cached(idx, name)[i] = Entry(Junk, name, cache[idx].damaged)
        BY <1>2, <2>2, <3>2
      <4> QED
        BY <2>3, <4>1
    <3>3. CASE i # idx /\ i # idx + 1
      <4>1. Cached(idx, name)[i] = cache[i]
        BY <2>2, <3>3
      <4> QED
        BY <1>3, <4>1
    <3> QED
      BY <3>1, <3>2, <3>3
  <2>6. Cached(idx, name) \in [1 .. MAX_FILES + 1 -> EntryType]
    BY <2>1, <2>5
  <2>7. Cached(idx, name)[idx] = Entry(Junk, name, cache[idx].damaged)
    BY <1>2, <2>2
  <2>8. \A i \in 1 .. MAX_FILES + 1 : i # idx =>
           Cached(idx, name)[i] = IF i = idx + 1 THEN Entry(cache[i].inode_idx, cache[i].name, TRUE) ELSE cache[i]
    BY <2>2
  <2>9. ASSUME NEW i \in 1 .. MAX_FILES + 1, i # idx
        PROVE  /\ Cached(idx, name)[i].inode_idx = cache[i].inode_idx
               /\ Cached(idx, name)[i].name = cache[i].name
               /\ Cached(idx, name)[i].damaged <=> (cache[i].damaged \/ (name = "long" /\ i = idx + 1))
    <3>1. CASE i = idx + 1
      <4>1. Cached(idx, name)[i] = Entry(cache[i].inode_idx, cache[i].name, TRUE)
        BY <2>8, <2>9, <3>1
      <4>2. /\ Cached(idx, name)[i].inode_idx = cache[i].inode_idx
            /\ Cached(idx, name)[i].name = cache[i].name
        BY <4>1 DEF Entry
      <4>3. Cached(idx, name)[i].damaged
        BY <4>1 DEF Entry
      <4> QED
        BY <1>5, <3>1, <4>2, <4>3
    <3>2. CASE i # idx + 1
      <4>1. Cached(idx, name)[i] = cache[i]
        BY <2>8, <2>9, <3>2
      <4> QED
        BY <1>3, <3>2, <4>1
    <3> QED
      BY <3>1, <3>2
  <2> QED
    BY <1>2, <1>5, <2>6, <2>7, <2>9 DEF Entry
<1>6. CASE name # "long"
  <2>1. Cached(idx, name) =
           [i \in 1 .. MAX_FILES + 1 |-> IF i = idx THEN Entry(idx, name, cache[i].damaged) ELSE cache[i]]
    BY <1>1, <1>2, <1>6 DEF Cached
  <2>2. Entry(idx, name, cache[idx].damaged) \in EntryType
    BY <1>2, <1>3, <1>4
  <2>3. Cached(idx, name) \in [1 .. MAX_FILES + 1 -> EntryType]
    BY <1>3, <2>1, <2>2
  <2> QED
    BY <1>2, <1>3, <1>6, <2>1, <2>3 DEF Entry
<1> QED
  BY <1>5, <1>6

\* The parts of CreateFile.
CreateGot == get_block_group(disk, INODE_IDX_TO_BLOCK_GROUP(get_available_inode_idx))
CreateTable ==
  [CreateGot.bg EXCEPT !.inode_bitmap[INODE_IDX_IN_BLOCK_GROUP(get_available_inode_idx)] = One]

\* create_file in parts: what it writes is what get_block_group does for a new group,
\* then write_block_group on the disk as it is after that.
LEMMA CreateParts ==
  ASSUME NEW name, CreateFile(name)
  PROVE  /\ power = "on" /\ todo = <<>> /\ Free # {}
         /\ todo' = CreateGot.writes \o
               write_block_group(After(disk, CreateGot.writes),
                  INODE_IDX_TO_BLOCK_GROUP(get_available_inode_idx), CreateTable, get_available_inode_idx)
         /\ cache' = Cached(get_available_inode_idx, name)
         /\ UNCHANGED <<info, disk, power, mounts>>
BY DEF CreateFile, CreateGot, CreateTable

\* The index a file gets, and its group.
LEMMA CreateIndex ==
  ASSUME Typed, NEW name \in Names, CreateFile(name)
  PROVE  /\ get_available_inode_idx \in 1 .. MAX_FILES
         /\ INODE_IDX_TO_BLOCK_GROUP(get_available_inode_idx) \in
               {info.super_block_idx + 1, info.super_block_idx + 2}
         /\ mounts \in 1 .. MaxMounts
         /\ CreateGot.writes \in Seq(Write) /\ CreateTable \in Table
         /\ CreateTable.group_descriptor = CreateGot.bg.group_descriptor
         /\ CreateTable.block_bitmap = CreateGot.bg.block_bitmap
         /\ CreateTable.inode_bitmap =
               [CreateGot.bg.inode_bitmap EXCEPT ![INODE_IDX_IN_BLOCK_GROUP(get_available_inode_idx)] = One]
<1>1. info \in Descriptors /\ MAX_FILES \in Nat /\ disk \in Disk
  BY Geometry DEF Typed
<1>2. PICK idx : idx = get_available_inode_idx
  OBVIOUS
<1>3. idx \in 1 .. MAX_FILES
  BY <1>1, <1>2, CreateParts, FreeEntry
<1>4. PICK b : b = INODE_IDX_TO_BLOCK_GROUP(idx)
  OBVIOUS
<1>5. b \in {info.super_block_idx + 1, info.super_block_idx + 2} /\ INODE_IDX_IN_BLOCK_GROUP(idx) \in InBlock
  BY <1>1, <1>3, <1>4, Places
<1>6. CreateGot.writes \in Seq(Write) /\ CreateGot.bg \in Table
  BY <1>1, <1>2, <1>4, <1>5, GetGroupType DEF CreateGot
<1>7. mounts \in 1 .. MaxMounts
  BY CreateParts DEF Typed
<1>8. PICK bg \in Table, i \in InBlock : bg = CreateGot.bg /\ i = INODE_IDX_IN_BLOCK_GROUP(idx)
  BY <1>5, <1>6
<1>9. bg = [group_descriptor |-> bg.group_descriptor, block_bitmap |-> bg.block_bitmap,
            inode_bitmap |-> bg.inode_bitmap]
      /\ bg.group_descriptor \in Descriptor /\ bg.block_bitmap \in Buffer /\ bg.inode_bitmap \in Buffer
  BY DEF Table
<1>10. CreateTable = [group_descriptor |-> bg.group_descriptor, block_bitmap |-> bg.block_bitmap,
            inode_bitmap |-> [bg.inode_bitmap EXCEPT ![i] = One]]
  BY <1>2, <1>8, <1>9 DEF CreateTable
<1>11. [bg.inode_bitmap EXCEPT ![i] = One] \in Buffer
  BY <1>9, CellKinds DEF Buffer
<1>12. CreateTable \in Table
  BY <1>9, <1>10, <1>11 DEF Table
<1> QED
  BY <1>2, <1>3, <1>4, <1>5, <1>6, <1>7, <1>8, <1>10, <1>12

\* The entries are used one after the other.
LEMMA NextEntry ==
  ASSUME Typed, NEW name \in Names, CreateFile(name), NEW m \in 1 .. MAX_FILES, Entries(m)
  PROVE  m + 1 \in 1 .. MAX_FILES /\ get_available_inode_idx = m + 1 /\ Entries(m + 1)'
<1>1. PICK idx \in 1 .. MAX_FILES : idx = get_available_inode_idx
  BY CreateIndex
<1>2. cache' = Cached(idx, name) /\ Free # {} /\ MAX_FILES \in Nat
  BY <1>1, CreateParts, Geometry DEF Typed
<1>3. cache[idx].inode_idx = 0 /\ \A i \in 1 .. MAX_FILES : i < idx => cache[i].inode_idx # 0
  BY <1>1, <1>2, FreeEntry
<1>4. PICK new : new = Cached(idx, name)
  OBVIOUS
<1>5. /\ new[idx].inode_idx = (IF name = "long" THEN Junk ELSE idx)
      /\ \A i \in 1 .. MAX_FILES + 1 : i # idx => new[i].inode_idx = cache[i].inode_idx
      /\ Junk \in Nat /\ Junk # 0
  BY <1>4, CachedEntries
<1>6. idx > m /\ ~(m + 1 < idx)
  <2>1. idx > m
    BY <1>3 DEF Entries
  <2>2. ASSUME m + 1 < idx PROVE FALSE
    <3>1. m + 1 \in 1 .. MAX_FILES
      BY <1>2, <2>2
    <3> QED
      BY <1>2, <1>3, <2>2, <3>1 DEF Entries
  <2> QED
    BY <2>1, <2>2
<1>7. idx = m + 1
  BY <1>2, <1>6
<1>8. ASSUME NEW i \in 1 .. MAX_FILES PROVE new[i].inode_idx = 0 <=> i > idx
  <2>1. CASE i = idx
    BY <1>2, <1>5, <2>1
  <2>2. CASE i # idx
    <3>1. new[i].inode_idx = cache[i].inode_idx
      BY <1>2, <1>5, <2>2
    <3> QED
      BY <1>2, <1>7, <2>2, <3>1 DEF Entries
  <2> QED
    BY <2>1, <2>2
<1> QED
  BY <1>1, <1>2, <1>4, <1>7, <1>8 DEF Entries

\* CreateFile (ext2.cpp:86-114): only a free entry is given a name.
LEMMA CreateKeepsTyped ==
  ASSUME Typed, CacheIntact, NEW name \in Names, CreateFile(name)
  PROVE  Typed' /\ CacheIntact'
<1>1. PICK idx \in 1 .. MAX_FILES : idx = get_available_inode_idx
  BY CreateIndex
<1>2. /\ info' = info /\ disk' = disk /\ power' = "on" /\ power = "on" /\ mounts' = mounts
      /\ cache' = Cached(idx, name) /\ Free # {}
  BY <1>1, CreateParts
<1>3. MAX_FILES \in Nat
  BY Geometry DEF Typed
<1>4. cache[idx].inode_idx = 0 /\ \A i \in 1 .. MAX_FILES : i < idx => cache[i].inode_idx # 0
  BY <1>1, <1>2, <1>3, FreeEntry
<1>5. todo' \in Seq(Write)
  <2>1. After(disk, CreateGot.writes) \in Disk
    BY CreateIndex, AfterType DEF Typed
  <2>2. PICK b \in {info.super_block_idx + 1, info.super_block_idx + 2} : b = INODE_IDX_TO_BLOCK_GROUP(idx)
    BY <1>1, CreateIndex
  <2>3. write_block_group(After(disk, CreateGot.writes), b, CreateTable, idx) \in Seq(Write)
    BY <2>1, CreateIndex, WriteGroupType DEF Typed
  <2>4. CreateGot.writes \in Seq(Write)
    BY CreateIndex
  <2>5. todo' = CreateGot.writes \o write_block_group(After(disk, CreateGot.writes), b, CreateTable, idx)
    BY <1>1, <2>2, CreateParts
  <2> QED
    BY <2>3, <2>4, <2>5, ConcatProperties
<1>6. Typed'
  BY <1>2, <1>5, CachedEntries DEF Typed
<1>7. PICK new : new = Cached(idx, name)
  OBVIOUS
<1>8. /\ new[idx].inode_idx = (IF name = "long" THEN Junk ELSE idx)
      /\ new[idx].name = name
      /\ new[idx].damaged = cache[idx].damaged
      /\ \A i \in 1 .. MAX_FILES + 1 : i # idx =>
            /\ new[i].inode_idx = cache[i].inode_idx
            /\ new[i].name = cache[i].name
            /\ new[i].damaged <=> (cache[i].damaged \/ (name = "long" /\ i = idx + 1))
      /\ Junk \in Nat /\ Junk # 0
  BY <1>7, CachedEntries
<1>9. cache[idx].name # "long"
  <2>1. idx \in 1 .. MAX_FILES + 1
    BY <1>3
  <2> QED
    BY <1>4, <2>1 DEF CacheIntact
<1>10. \E m \in 1 .. MAX_FILES : \A i \in 1 .. MAX_FILES : new[i].inode_idx = 0 <=> i > m
  <2>1. PICK m \in 1 .. MAX_FILES : Entries(m)
    BY <1>2 DEF CacheIntact
  <2>2. m + 1 \in 1 .. MAX_FILES /\ Entries(m + 1)'
    BY <2>1, NextEntry
  <2> QED
    BY <1>2, <1>7, <2>2 DEF Entries
<1>11. ASSUME NEW i \in 1 .. MAX_FILES + 1
       PROVE  /\ new[i].inode_idx \notin {0, i} => new[i].name = "long"
              /\ new[i].damaged => i - 1 >= 1 /\ new[i - 1].name = "long"
              /\ new[i].name = "long" => new[i].inode_idx # 0
  <2>1. /\ cache[i].inode_idx \notin {0, i} => cache[i].name = "long"
        /\ cache[i].damaged => i - 1 >= 1 /\ cache[i - 1].name = "long"
        /\ cache[i].name = "long" => cache[i].inode_idx # 0
    BY DEF CacheIntact
  <2>2. cache[i].damaged => new[i - 1].name = "long"
    <3>1. ASSUME cache[i].damaged PROVE i - 1 \in 1 .. MAX_FILES + 1 /\ i - 1 # idx
      BY <1>3, <1>9, <2>1, <3>1
    <3> QED
      BY <1>8, <2>1, <3>1
  <2>3. CASE i = idx
    BY <1>8, <2>1, <2>2, <2>3
  <2>4. CASE i # idx
    BY <1>8, <2>1, <2>2, <2>4
  <2> QED
    BY <2>3, <2>4
<1>12. CacheIntact'
  BY <1>2, <1>7, <1>10, <1>11 DEF CacheIntact, Entries
<1> QED
  BY <1>6, <1>12

\* The types and the entries of the cache are kept by every step.
LEMMA TypedStep ==
  ASSUME Typed, CacheIntact, [Next]_vars
  PROVE  Typed' /\ CacheIntact'
<1>1. CASE Mount
  BY <1>1, MountKeepsTyped
<1>2. ASSUME NEW name \in Names, CreateFile(name) PROVE Typed' /\ CacheIntact'
  BY <1>2, CreateKeepsTyped
<1>3. ASSUME NEW tooLong \in BOOLEAN, FailedAssertion(tooLong) PROVE Typed' /\ CacheIntact'
  BY <1>3 DEF FailedAssertion, Typed, CacheIntact
<1>4. CASE WriteSector
  <2>1. Head(todo) \in Write /\ Tail(todo) \in Seq(Write)
    BY <1>4 DEF WriteSector, Typed
  <2>2. DOMAIN disk = 0 .. Cells - 1 /\ \A c \in 0 .. Cells - 1 : disk[c] \in Cell
    BY DEF Typed, Disk
  <2>3. \A c \in 0 .. Cells - 1 : Head(todo).data[c % 4] \in Cell
    <3>1. \A k \in 0 .. 3 : Head(todo).data[k] \in Cell
      BY <2>1 DEF Write
    <3>2. \A c \in 0 .. Cells - 1 : c % 4 \in 0 .. 3
      BY Ext2Assumption
    <3> QED
      BY <3>1, <3>2
  <2>4. disk' \in Disk
    BY <1>4, <2>2, <2>3 DEF WriteSector, Stored, Disk
  <2> QED
    BY <1>4, <2>1, <2>4 DEF WriteSector, Typed, CacheIntact, Entries
<1>5. CASE PowerOff
  <2>1. cache' = [i \in 1 .. MAX_FILES + 1 |-> Unused] /\ MAX_FILES \in Nat
    BY <1>5, Geometry DEF PowerOff, NoCache, Typed
  <2>2. Unused \in [inode_idx : 0 .. Junk, name : Names \cup {"none", "root"}, damaged : BOOLEAN]
    BY <2>1 DEF Unused, Entry, Junk
  <2>3. cache' \in [1 .. MAX_FILES + 1 ->
                    [inode_idx : 0 .. Junk, name : Names \cup {"none", "root"}, damaged : BOOLEAN]]
    BY <2>1, <2>2
  <2>4. todo' \in Seq(Write)
    BY <1>5 DEF PowerOff
  <2>5. Typed'
    BY <1>5, <2>3, <2>4 DEF PowerOff, Typed
  <2>6. \A i \in 1 .. MAX_FILES + 1 :
           cache'[i].inode_idx = 0 /\ ~cache'[i].damaged /\ cache'[i].name # "long"
    BY <2>1 DEF Unused, Entry
  <2> QED
    BY <1>5, <2>5, <2>6 DEF PowerOff, CacheIntact
<1>6. CASE UNCHANGED vars
  BY <1>6 DEF vars, Typed, CacheIntact, Entries
<1> QED
  BY <1>1, <1>2, <1>3, <1>4, <1>5, <1>6 DEF Next

\* What the types and the cache invariant say of the variables.
LEMMA TypedMeans == Typed /\ CacheIntact => EntriesIntact
<1> SUFFICES ASSUME Typed, CacheIntact PROVE EntriesIntact
  OBVIOUS
<1>1. TypeOK
  <2>1. \A i \in 1 .. Len(todo) : (todo[i].lba + 1) * 4 <= Cells
    <3>1. \A i \in 1 .. Len(todo) : todo[i] \in Write
      BY ElementOfSeq DEF Typed
    <3> QED
      BY <3>1 DEF Write
  <2>2. DOMAIN disk = 0 .. Cells - 1 /\ \A c \in DOMAIN disk : disk[c] \in Cell
    BY DEF Typed, Disk
  <2> QED
    BY <2>1, <2>2 DEF Typed, TypeOK
<1>2. ASSUME NEW i \in 1 .. MAX_FILES + 1
      PROVE  /\ cache[i].inode_idx \notin {0, i} => i >= 1 /\ cache[i].name = "long"
             /\ cache[i].damaged => i - 1 >= 1 /\ cache[i - 1].name = "long"
  <2>1. i >= 1
    BY Geometry DEF Typed
  <2> QED
    BY <2>1 DEF CacheIntact
<1> QED
  BY <1>1, <1>2 DEF EntriesIntact

\* Both hold in every reachable state.
LEMMA TypedHolds == Spec => [](Typed /\ CacheIntact)
<1>1. Typed /\ CacheIntact /\ [Next]_vars => Typed' /\ CacheIntact'
  BY TypedStep
<1> QED
  BY <1>1, TypedInit, PTL DEF Spec

(***************************************************************************)
(* An entry of the cache names its own inode and its own file unless a     *)
(* name longer than an entry was given to it or to the entry before        *)
(* (ext2.cpp:96, 103-104, ext2.h:324-328), and no write ends behind a disk *)
(* that holds the blocks of two groups.                                    *)
(***************************************************************************)
THEOREM EntriesAreIntact == Spec => []EntriesIntact
BY TypedHolds, TypedMeans, PTL

-----------------------------------------------------------------------------
(* Block groups and the super block.                                       *)

\* The numbers that fit into the descriptors of both groups.
LEMMA FitFacts ==
  ASSUME info \in Descriptors, Fits
  PROVE  /\ info.super_block_idx \in 1 .. 11
         /\ FirstGroup = BlockGroupDescriptor(info.super_block_idx + 1)
         /\ FirstGroup[2] = info.super_block_idx + 2 /\ FirstGroup[3] = info.super_block_idx + 3
         /\ FirstGroup[4] = info.super_block_idx + 4
         /\ BlockGroupDescriptor(info.super_block_idx + 2)[2] = info.super_block_idx + 3
         /\ BlockGroupDescriptor(info.super_block_idx + 2)[3] = info.super_block_idx + 4
         /\ BlockGroupDescriptor(info.super_block_idx + 2)[4] =
               IF info.super_block_idx = 11 THEN 0 ELSE info.super_block_idx + 5
         /\ Found(FirstGroup) /\ Found(BlockGroupDescriptor(info.super_block_idx + 2))
<1>1. PICK s \in Nat : s = info.super_block_idx
  BY Geometry
<1>2. s \in 1 .. 11
  BY <1>1 DEF Fits
<1>3. FirstGroup = BlockGroupDescriptor(s + 1) /\ BlockGroupDescriptor(s + 1) = <<"group", s + 2, s + 3, s + 4>>
  <2>1. (s + 1 + 1) % 16 = s + 2 /\ (s + 1 + 2) % 16 = s + 3 /\ (s + 1 + 3) % 16 = s + 4
    BY <1>2
  <2> QED
    BY <1>1, <2>1 DEF FirstGroup, BlockGroupDescriptor
<1>4. BlockGroupDescriptor(s + 2) = <<"group", s + 3, s + 4, IF s = 11 THEN 0 ELSE s + 5>>
  <2>1. (s + 2 + 1) % 16 = s + 3 /\ (s + 2 + 2) % 16 = s + 4
        /\ (s + 2 + 3) % 16 = IF s = 11 THEN 0 ELSE s + 5
    BY <1>2
  <2> QED
    BY <1>1, <2>1 DEF BlockGroupDescriptor
<1> QED
  BY <1>1, <1>2, <1>3, <1>4 DEF Found

\* Sectors of other blocks.
Avoiding(block) == {w \in Write : \A k \in 0 .. 3, c \in InBlock : w.lba * 4 + k # Start(block) + c}

\* The sectors of one block are no sectors of another.
LEMMA CarryingAvoids ==
  ASSUME info \in Descriptors, NEW a \in Nat, NEW b \in Nat, a # b, NEW buffer
  PROVE  Seq(Carrying(buffer, a)) \subseteq Seq(Avoiding(b))
<1>1. ASSUME NEW w \in Carrying(buffer, a), NEW k \in 0 .. 3, NEW c \in InBlock,
             w.lba * 4 + k = Start(b) + c
      PROVE  FALSE
  <2>1. PICK e \in InBlock : w.lba * 4 + k = Start(a) + e
    BY DEF Carrying
  <2>2. Start(a) + e = Start(b) + c
    BY <1>1, <2>1
  <2> QED
    BY <2>2, OnePlace
<1>2. Carrying(buffer, a) \subseteq Avoiding(b)
  BY <1>1 DEF Carrying, Avoiding
<1> QED
  BY <1>2, SeqMonotonic

\* Writing other blocks leaves a block as it was.
LEMMA AfterAvoiding ==
  ASSUME info \in Descriptors, NEW d \in Disk, NEW block \in Nat, block <= info.super_block_idx + 17,
         NEW writes \in Seq(Avoiding(block))
  PROVE  /\ \A c \in InBlock : After(d, writes)[Start(block) + c] = d[Start(block) + c]
         /\ read_storage(After(d, writes), block) = read_storage(d, block)
<1>1. writes \in Seq(Write)
  <2>1. Avoiding(block) \subseteq Write
    BY DEF Avoiding
  <2> QED
    BY <2>1, SeqMonotonic
<1>2. ASSUME NEW e \in InBlock
      PROVE  After(d, writes)[Start(block) + e] = d[Start(block) + e]
  <2>1. PICK c \in DOMAIN d : c = Start(block) + e /\ c \in Nat
    <3>1. Start(block) + e \in 0 .. Cells - 1
      BY BlockOnDisk
    <3> QED
      BY <3>1, Ext2Assumption DEF Disk
  <2>2. PICK q \in Nat, k \in 0 .. 3 : c \div 4 = q /\ c % 4 = k
    BY <2>1, CellOfSector
  <2>3. c = q * 4 + k
    BY <2>1, <2>2, CellOfSector
  <2>4. \A i \in 1 .. Len(writes) : writes[i].lba # q
    <3>1. ASSUME NEW i \in 1 .. Len(writes) PROVE writes[i].lba # q
      <4>1. writes[i] \in Avoiding(block)
        BY ElementOfSeq
      <4> QED
        BY <2>1, <2>3, <4>1 DEF Avoiding
    <3> QED
      BY <3>1
  <2>5. After(d, writes)[c] = d[c]
    <3>1. \/ /\ \A i \in 1 .. Len(writes) : writes[i].lba # q
             /\ After(d, writes)[c] = d[c]
          \/ \E i \in 1 .. Len(writes) : writes[i].lba = q /\ After(d, writes)[c] = writes[i].data[k]
      BY <1>1, <2>2, AfterCell
    <3> QED
      BY <2>4, <3>1
  <2> QED
    BY <2>1, <2>5
<1> QED
  BY <1>2, ReadCells

\* A buffer that takes the place of no descriptor and not of the super block.
GoodBuffer(buffer, block, second) ==
  /\ \A c \in InBlock : Found(buffer[c]) =>
        \E b \in {info.super_block_idx + 1, info.super_block_idx + 2} :
           Start(block) + c = Start(b) /\ buffer[c] = BlockGroupDescriptor(b)
  /\ block = info.super_block_idx + 1 => buffer[0] = FirstGroup
  /\ block = info.super_block_idx + 2 =>
        IF second THEN buffer[0] = BlockGroupDescriptor(info.super_block_idx + 2) ELSE ~Found(buffer[0])
  /\ block = 1 => buffer[0] = SuperBlock

\* At the start of a block a sector carries the beginning of the buffer.
LEMMA CarriedStart ==
  ASSUME info \in Descriptors, NEW block \in Nat, NEW buffer, NEW x \in Nat,
         NEW w \in Carrying(buffer, block), w.lba * 4 = Start(x)
  PROVE  x = block /\ w.data[0] = buffer[0]
<1>1. PICK c \in InBlock : w.lba * 4 + 0 = Start(block) + c /\ w.data[0] = buffer[c]
  BY DEF Carrying
<1>2. w.lba \in Nat /\ Start(x) \in Nat /\ Start(block) \in Nat /\ 0 \in InBlock
  <2>1. 0 \in InBlock
    BY Geometry DEF InBlock
  <2>2. Start(x) \in Nat /\ Start(block) \in Nat
    BY Starts
  <2> QED
    BY <2>1, <2>2 DEF Carrying, Write
<1>3. PICK z \in InBlock : z = 0
  BY <1>2
<1>4. Start(x) + z = Start(block) + c
  BY <1>1, <1>2, <1>3
<1>5. x = block /\ z = c
  BY <1>4, OnePlace
<1> QED
  BY <1>1, <1>3, <1>5

\* A buffer that is right for its block is written by sectors that keep the groups.
LEMMA GoodBufferKeeps ==
  ASSUME info \in Descriptors, NEW block \in Nat, block <= info.super_block_idx + 17,
         NEW second \in BOOLEAN, NEW buffer \in Buffer, GoodBuffer(buffer, block, second)
  PROVE  write_storage(buffer, block) \in Seq(Keeping(second))
<1>1. ASSUME NEW w \in Carrying(buffer, block) PROVE w \in Keeping(second)
  <2>1. info.super_block_idx + 1 \in Nat /\ info.super_block_idx + 2 \in Nat /\ w \in Write
    BY Geometry DEF Carrying
  <2>2. \A k \in 0 .. 3 : Found(w.data[k]) =>
           \E b \in {info.super_block_idx + 1, info.super_block_idx + 2} :
              w.lba * 4 + k = Start(b) /\ w.data[k] = BlockGroupDescriptor(b)
    <3>1. ASSUME NEW k \in 0 .. 3, Found(w.data[k])
          PROVE  \E b \in {info.super_block_idx + 1, info.super_block_idx + 2} :
                    w.lba * 4 + k = Start(b) /\ w.data[k] = BlockGroupDescriptor(b)
      <4>1. PICK c \in InBlock : w.lba * 4 + k = Start(block) + c /\ w.data[k] = buffer[c]
        BY DEF Carrying
      <4> QED
        BY <3>1, <4>1 DEF GoodBuffer
    <3> QED
      BY <3>1
  <2>3. ASSUME NEW x \in Nat, w.lba * 4 = Start(x)
        PROVE  x = block /\ w.data[0] = buffer[0]
    BY <2>3, CarriedStart
  <2>4. w.lba * 4 = Start(info.super_block_idx + 1) => w.data[0] = FirstGroup
    BY <2>1, <2>3 DEF GoodBuffer
  <2>5. w.lba * 4 = Start(info.super_block_idx + 2) =>
           IF second THEN w.data[0] = BlockGroupDescriptor(info.super_block_idx + 2) ELSE ~Found(w.data[0])
    BY <2>1, <2>3 DEF GoodBuffer
  <2>6. w.lba * 4 = Start(1) => w.data[0] = SuperBlock
    BY <2>3 DEF GoodBuffer
  <2> QED
    BY <2>1, <2>2, <2>4, <2>5, <2>6 DEF Keeping, Keeps
<1>2. Carrying(buffer, block) \subseteq Keeping(second)
  BY <1>1
<1>3. write_storage(buffer, block) \in Seq(Carrying(buffer, block))
  BY WriteStorage DEF Buffer
<1> QED
  BY <1>2, <1>3, SeqMonotonic

\* The same for a block that holds one object: a descriptor or the super block.
LEMMA ObjectKeeps ==
  ASSUME info \in Descriptors, Fits, NEW block \in Nat, block <= info.super_block_idx + 17,
         NEW second \in BOOLEAN, NEW object \in Cell,
         Found(object) => /\ block \in {info.super_block_idx + 1, info.super_block_idx + 2}
                          /\ object = BlockGroupDescriptor(block),
         block = info.super_block_idx + 1 => object = FirstGroup,
         block = info.super_block_idx + 2 =>
            IF second THEN object = BlockGroupDescriptor(block) ELSE ~Found(object),
         block = 1 => object = SuperBlock
  PROVE  write_object_to_block(object, block) \in Seq(Keeping(second))
<1> DEFINE buffer == [c \in InBlock |-> IF c = 0 THEN object ELSE Zero]
<1>1. buffer \in Buffer
  BY CellKinds DEF Buffer
<1>2. 0 \in InBlock /\ buffer[0] = object /\ \A c \in InBlock : c # 0 => buffer[c] = Zero
  BY Geometry DEF InBlock
<1>3. Start(block) + 0 = Start(block)
  BY Starts
<1>4. ASSUME NEW c \in InBlock, Found(buffer[c])
      PROVE  \E b \in {info.super_block_idx + 1, info.super_block_idx + 2} :
                Start(block) + c = Start(b) /\ buffer[c] = BlockGroupDescriptor(b)
  <2>1. c = 0
    BY <1>2, <1>4, CellKinds
  <2> QED
    BY <1>2, <1>3, <1>4, <2>1
<1> HIDE DEF buffer
<1>5. GoodBuffer(buffer, block, second)
  BY <1>2, <1>4 DEF GoodBuffer
<1>6. write_storage(buffer, block) \in Seq(Keeping(second))
  BY <1>1, <1>5, GoodBufferKeeps
<1> QED
  BY <1>6 DEF write_object_to_block, buffer

\* What a disk has at the start of its blocks.
LEMMA StartCells ==
  ASSUME info \in Descriptors, NEW d \in Disk, InGroups(d), NEW block \in Nat,
         block <= info.super_block_idx + 17
  PROVE  /\ Start(block) \in Nat /\ Start(block) \in DOMAIN d /\ 0 \in InBlock
         /\ Found(d[Start(block)]) => /\ block \in {info.super_block_idx + 1, info.super_block_idx + 2}
                                      /\ d[Start(block)] = BlockGroupDescriptor(block)
         /\ read_storage(d, block)[0] = d[Start(block)]
<1>1. 0 \in InBlock /\ Start(block) \in Nat
  <2>1. 0 \in InBlock
    BY Geometry DEF InBlock
  <2>2. Start(block) \in Nat
    BY Starts
  <2> QED
    BY <2>1, <2>2
<1>2. Start(block) + 0 = Start(block)
  BY <1>1
<1>3. Start(block) \in DOMAIN d
  <2>1. Start(block) + 0 \in 0 .. Cells - 1
    BY <1>1, BlockOnDisk
  <2> QED
    BY <1>2, <2>1 DEF Disk
<1>4. ASSUME Found(d[Start(block)])
      PROVE  /\ block \in {info.super_block_idx + 1, info.super_block_idx + 2}
             /\ d[Start(block)] = BlockGroupDescriptor(block)
  <2>1. PICK b \in {info.super_block_idx + 1, info.super_block_idx + 2} :
           Start(block) = Start(b) /\ d[Start(block)] = BlockGroupDescriptor(b)
    BY <1>3, <1>4 DEF InGroups
  <2>2. b \in Nat
    BY Geometry
  <2>3. PICK z \in InBlock : z = 0
    BY <1>1
  <2>4. Start(block) + z = Start(b) + z
    BY <2>1
  <2>5. block = b
    BY <2>2, <2>4, OnePlace
  <2> QED
    BY <2>1, <2>5
<1>5. read_storage(d, block)[0] = d[Start(block)]
  <2>1. read_storage(d, block)[0] = d[Start(block) + 0]
    BY <1>1, ReadCells
  <2> QED
    BY <1>2, <2>1
<1> QED
  BY <1>1, <1>3, <1>4, <1>5

\* A block that is read has the descriptors that are there, and no other.
LEMMA ReadInGroups ==
  ASSUME info \in Descriptors, NEW d \in Disk, InGroups(d), NEW block \in Nat,
         block <= info.super_block_idx + 17, NEW c \in InBlock, Found(read_storage(d, block)[c])
  PROVE  \E b \in {info.super_block_idx + 1, info.super_block_idx + 2} :
            Start(block) + c = Start(b) /\ read_storage(d, block)[c] = BlockGroupDescriptor(b)
<1>1. read_storage(d, block)[c] = d[Start(block) + c]
  BY ReadCells
<1>2. Start(block) + c \in DOMAIN d
  <2>1. Start(block) + c \in 0 .. Cells - 1
    BY BlockOnDisk
  <2> QED
    BY <2>1 DEF Disk
<1> QED
  BY <1>1, <1>2 DEF InGroups

\* Writes that keep the groups are writes.
LEMMA KeepingIsWriting ==
  ASSUME NEW second
  PROVE  Seq(Keeping(second)) \subseteq Seq(Write)
<1>1. Keeping(second) \subseteq Write
  BY DEF Keeping
<1> QED
  BY <1>1, SeqMonotonic

\* What such sectors leave of the groups and of the super block.
LEMMA AfterKeeping ==
  ASSUME info \in Descriptors, NEW d \in Disk, InGroups(d), NEW second \in BOOLEAN,
         NEW writes \in Seq(Keeping(second))
  PROVE  /\ After(d, writes) \in Disk /\ InGroups(After(d, writes))
         /\ d[Start(1)] = SuperBlock => After(d, writes)[Start(1)] = SuperBlock
<1>1. writes \in Seq(Write) /\ After(d, writes) \in Disk
  BY KeepingIsWriting, AfterType
<1>2. \A i \in 1 .. Len(writes) : Keeps(writes[i], second) /\ writes[i] \in Write
  <2>1. \A i \in 1 .. Len(writes) : writes[i] \in Keeping(second)
    BY ElementOfSeq
  <2> QED
    BY <2>1 DEF Keeping
<1>3. DOMAIN After(d, writes) = DOMAIN d /\ DOMAIN d = 0 .. Cells - 1 /\ Cells \in Nat
  BY AfterDomain, Ext2Assumption DEF Disk
<1>4. InGroups(After(d, writes))
  <2>1. SUFFICES ASSUME NEW c \in DOMAIN d, Found(After(d, writes)[c])
                 PROVE  \E b \in {info.super_block_idx + 1, info.super_block_idx + 2} :
                           c = Start(b) /\ After(d, writes)[c] = BlockGroupDescriptor(b)
    BY <1>3 DEF InGroups
  <2>2. c \in Nat
    BY <1>3
  <2>3. PICK q \in Nat, k \in 0 .. 3 : c \div 4 = q /\ c % 4 = k
    BY <2>2, CellOfSector
  <2>4. c = q * 4 + k
    BY <2>2, <2>3, CellOfSector
  <2>5. \/ /\ \A i \in 1 .. Len(writes) : writes[i].lba # q
           /\ After(d, writes)[c] = d[c]
        \/ \E i \in 1 .. Len(writes) : writes[i].lba = q /\ After(d, writes)[c] = writes[i].data[k]
    BY SMTT(30), <1>1, <2>3, AfterCell
  <2>6. CASE After(d, writes)[c] = d[c]
    BY <2>1, <2>6 DEF InGroups
  <2>7. ASSUME NEW i \in 1 .. Len(writes), writes[i].lba = q, After(d, writes)[c] = writes[i].data[k]
        PROVE  \E b \in {info.super_block_idx + 1, info.super_block_idx + 2} :
                  c = Start(b) /\ After(d, writes)[c] = BlockGroupDescriptor(b)
    BY <1>2, <2>1, <2>4, <2>7 DEF Keeps
  <2> QED
    BY <2>5, <2>6, <2>7
<1>5. ASSUME d[Start(1)] = SuperBlock PROVE After(d, writes)[Start(1)] = SuperBlock
  <2>1. PICK one \in Nat : one = 1
    OBVIOUS
  <2>2. one <= info.super_block_idx + 17
    BY <2>1, Geometry
  <2>3. PICK c \in DOMAIN d : c = Start(one) /\ c \in Nat
    BY <2>2, StartCells
  <2>4. PICK q \in Nat : q = BLOCK_TO_SECTOR(one) /\ q * 4 = c
    BY <2>3, Starts
  <2>5. PICK k \in 0 .. 3 : k = 0 /\ c \div 4 = q /\ c % 4 = k
    BY <2>4
  <2>6. \/ /\ \A i \in 1 .. Len(writes) : writes[i].lba # q
           /\ After(d, writes)[c] = d[c]
        \/ \E i \in 1 .. Len(writes) : writes[i].lba = q /\ After(d, writes)[c] = writes[i].data[k]
    BY <1>1, <2>5, AfterCell
  <2>7. \A i \in 1 .. Len(writes) : writes[i].lba = q => writes[i].data[k] = SuperBlock
    BY <1>2, <2>1, <2>3, <2>4, <2>5 DEF Keeps
  <2> QED
    BY <1>5, <2>1, <2>3, <2>6, <2>7
<1> QED
  BY <1>1, <1>4, <1>5

\* The blocks of the two groups lie behind their descriptors; the last number may
\* not fit into the second one's.
LEMMA GroupBlocks ==
  ASSUME info \in Descriptors, Fits, NEW b \in {info.super_block_idx + 1, info.super_block_idx + 2},
         NEW s \in Nat, s = info.super_block_idx
  PROVE  /\ s \in 1 .. 11
         /\ BlockGroupDescriptor(b)[2] \in Nat /\ BlockGroupDescriptor(b)[3] \in Nat
         /\ BlockGroupDescriptor(b)[4] \in Nat
         /\ b = s + 1 => /\ BlockGroupDescriptor(b)[2] = s + 2 /\ BlockGroupDescriptor(b)[3] = s + 3
                         /\ BlockGroupDescriptor(b)[4] = s + 4
         /\ b = s + 2 => /\ BlockGroupDescriptor(b)[2] = s + 3 /\ BlockGroupDescriptor(b)[3] = s + 4
                         /\ BlockGroupDescriptor(b)[4] = IF s = 11 THEN 0 ELSE s + 5
<1>1. s \in 1 .. 11 /\ (b = s + 1 \/ b = s + 2)
  BY FitFacts
<1>2. CASE b = s + 1
  <2>1. /\ BlockGroupDescriptor(b)[2] = s + 2 /\ BlockGroupDescriptor(b)[3] = s + 3
        /\ BlockGroupDescriptor(b)[4] = s + 4
    BY <1>2, FitFacts
  <2> QED
    BY <1>1, <1>2, <2>1
<1>3. CASE b = s + 2
  <2>1. /\ BlockGroupDescriptor(b)[2] = s + 3 /\ BlockGroupDescriptor(b)[3] = s + 4
        /\ BlockGroupDescriptor(b)[4] = IF s = 11 THEN 0 ELSE s + 5
    BY <1>3, FitFacts
  <2> QED
    BY <1>1, <1>3, <2>1
<1> QED
  BY <1>1, <1>2, <1>3

\* A new group, the second only if there is to be one.
LEMMA NewGroupKeeps ==
  ASSUME info \in Descriptors, Fits, NEW second \in BOOLEAN,
         NEW b \in {info.super_block_idx + 1, info.super_block_idx + 2},
         second <=> b = info.super_block_idx + 2
  PROVE  NewGroup(b) \in Seq(Keeping(second))
<1> DEFINE g == BlockGroupDescriptor(b)
<1>1. PICK s \in 1 .. 11 : s = info.super_block_idx
  BY FitFacts
<1>2. /\ Found(g) /\ g \in Cell /\ Zero \in Cell /\ ~Found(Zero)
      /\ b = s + 1 => g = FirstGroup
  BY <1>1, FitFacts, CellKinds
<1>3. PICK x \in Nat, y \in Nat, z \in Nat :
         /\ x = g[2] /\ y = g[3] /\ z = g[4]
         /\ b = s + 1 => x = s + 2 /\ y = s + 3 /\ z = s + 4
         /\ b = s + 2 => x = s + 3 /\ y = s + 4 /\ (z = 0 \/ z = s + 5)
  <2>1. /\ g[2] \in Nat /\ g[3] \in Nat /\ g[4] \in Nat
        /\ b = s + 1 => g[2] = s + 2 /\ g[3] = s + 3 /\ g[4] = s + 4
        /\ b = s + 2 => g[2] = s + 3 /\ g[3] = s + 4 /\ (g[4] = 0 \/ g[4] = s + 5)
    BY <1>1, GroupBlocks
  <2> HIDE DEF g
  <2> QED
    BY <2>1
<1> HIDE DEF g
<1>4. b \in Nat /\ b <= s + 17 /\ b # 1 /\ (b = s + 1 \/ b = s + 2)
  BY <1>1
<1>5. write_object_to_block(g, b) \in Seq(Keeping(second))
  BY <1>1, <1>2, <1>4, ObjectKeeps DEF g
<1>6. ASSUME NEW block \in Nat, block <= s + 17, block # s + 1, block # 1, second => block # s + 2
      PROVE  zero_block(block) \in Seq(Keeping(second))
  BY <1>1, <1>2, <1>6, ObjectKeeps DEF zero_block
<1>7. second <=> b = s + 2
  BY <1>1
<1>8. /\ x <= s + 17 /\ x # s + 1 /\ x # 1 /\ (second => x # s + 2)
      /\ y <= s + 17 /\ y # s + 1 /\ y # 1 /\ (second => y # s + 2)
      /\ z <= s + 17 /\ z # s + 1 /\ z # 1 /\ (second => z # s + 2)
  BY <1>3, <1>4, <1>7
<1>9. /\ zero_block(x) \in Seq(Keeping(second)) /\ zero_block(y) \in Seq(Keeping(second))
      /\ zero_block(z) \in Seq(Keeping(second))
  BY <1>6, <1>8
<1>10. write_object_to_block(g, b) \o zero_block(x) \o zero_block(y) \o zero_block(z) \in Seq(Keeping(second))
  BY <1>5, <1>9, ConcatProperties
<1> QED
  BY <1>3, <1>10 DEF NewGroup, g

\* A group that is read or created (ext2.cpp:262-330).
LEMMA GetGroupKeeps ==
  ASSUME info \in Descriptors, Fits, NEW d \in Disk, InGroups(d), NEW second \in BOOLEAN,
         NEW b \in {info.super_block_idx + 1, info.super_block_idx + 2},
         Found(d[Start(b)]) \/ (second <=> b = info.super_block_idx + 2)
  PROVE  /\ get_block_group(d, b).writes \in Seq(Keeping(second))
         /\ get_block_group(d, b).writes = IF Found(d[Start(b)]) THEN <<>> ELSE NewGroup(b)
         /\ get_block_group(d, b).bg.group_descriptor = BlockGroupDescriptor(b)
         /\ get_block_group(d, b).bg.block_bitmap =
               read_storage(After(d, get_block_group(d, b).writes), BlockGroupDescriptor(b)[2])
         /\ get_block_group(d, b).bg.inode_bitmap =
               read_storage(After(d, get_block_group(d, b).writes), BlockGroupDescriptor(b)[3])
<1> DEFINE cell == read_storage(d, b)[0]
           writes == IF Found(cell) THEN <<>> ELSE NewGroup(b)
           g == IF Found(cell) THEN cell ELSE BlockGroupDescriptor(b)
<1>1. b \in Nat /\ b <= info.super_block_idx + 17
  <2>1. info.super_block_idx \in Nat
    BY Geometry
  <2> QED
    BY <2>1
<1>2. cell = d[Start(b)] /\ (Found(cell) => cell = BlockGroupDescriptor(b))
  BY <1>1, StartCells
<1>3. g = BlockGroupDescriptor(b)
  BY <1>2
<1>4. writes = IF Found(d[Start(b)]) THEN <<>> ELSE NewGroup(b)
  BY <1>2
<1>5. writes \in Seq(Keeping(second))
  <2>1. CASE Found(d[Start(b)])
    <3>1. writes = <<>>
      BY <1>4, <2>1
    <3>2. <<>> \in Seq(Keeping(second))
      OBVIOUS
    <3> QED
      BY <3>1, <3>2
  <2>2. CASE ~Found(d[Start(b)])
    <3>1. NewGroup(b) \in Seq(Keeping(second))
      BY <2>2, NewGroupKeeps
    <3> QED
      BY <1>4, <2>2, <3>1
  <2> QED
    BY <2>1, <2>2
<1>6. get_block_group(d, b) = [bg |-> BlockGroupTable(After(d, writes), g), writes |-> writes]
  BY DEF get_block_group
<1> HIDE DEF writes, g
<1>7. get_block_group(d, b).writes = writes /\ get_block_group(d, b).bg = BlockGroupTable(After(d, writes), g)
  BY <1>6
<1> QED
  BY <1>3, <1>4, <1>5, <1>7 DEF BlockGroupTable

\* Nothing written, nothing changed.
LEMMA AfterNothing ==
  ASSUME NEW d \in Disk
  PROVE  After(d, <<>>) = d
<1>1. \A c \in DOMAIN d : {i \in DOMAIN <<>> : <<>>[i].lba = c \div 4} = {}
  OBVIOUS
<1>2. After(d, <<>>) = [c \in DOMAIN d |-> d[c]]
  BY <1>1 DEF After
<1>3. d = [c \in DOMAIN d |-> d[c]]
  BY DEF Disk
<1> QED
  BY <1>2, <1>3

\* While nothing is left to be written, the first group and the super block are there.
LEMMA GroupsWhenIdle ==
  ASSUME Groups, power = "on", todo = <<>>
  PROVE  disk[Start(info.super_block_idx + 1)] = FirstGroup /\ disk[Start(1)] = SuperBlock
BY DEF Groups, IsOrWillBe

\* Bitmaps are written back with the descriptors they have (ext2.cpp:120-124).
LEMMA BitmapWritesKeep ==
  ASSUME info \in Descriptors, Fits, NEW d \in Disk, InGroups(d), NEW bg \in Table, NEW second \in BOOLEAN,
         NEW b \in {info.super_block_idx + 1, info.super_block_idx + 2}, NEW i \in InBlock,
         bg.group_descriptor = BlockGroupDescriptor(b),
         bg.block_bitmap = read_storage(d, BlockGroupDescriptor(b)[2]),
         bg.inode_bitmap = [read_storage(d, BlockGroupDescriptor(b)[3]) EXCEPT ![i] = One],
         b = info.super_block_idx + 2 => second,
         b = info.super_block_idx + 1 => (second <=> Found(d[Start(info.super_block_idx + 2)]))
  PROVE  BitmapWrites(b, bg) \in Seq(Keeping(second))
<1> DEFINE g == BlockGroupDescriptor(b)
<1>0. PICK s \in 1 .. 11 : s = info.super_block_idx
  BY FitFacts
<1>1. PICK x \in Nat, y \in Nat, z \in Nat :
         /\ s = info.super_block_idx /\ x = g[2] /\ y = g[3] /\ z = g[4]
         /\ b = s + 1 => x = s + 2 /\ y = s + 3 /\ z = s + 4
         /\ b = s + 2 => x = s + 3 /\ y = s + 4 /\ z = IF s = 11 THEN 0 ELSE s + 5
  <2>1. /\ g[2] \in Nat /\ g[3] \in Nat /\ g[4] \in Nat
        /\ b = s + 1 => g[2] = s + 2 /\ g[3] = s + 3 /\ g[4] = s + 4
        /\ b = s + 2 => g[2] = s + 3 /\ g[3] = s + 4 /\ g[4] = IF s = 11 THEN 0 ELSE s + 5
    BY <1>0, GroupBlocks
  <2> HIDE DEF g
  <2> QED
    BY <1>0, <2>1
<1>2. b \in Nat /\ b <= s + 17 /\ b # 1 /\ (b = s + 1 \/ b = s + 2)
  BY <1>1
<1>3. /\ x <= s + 17 /\ x # s + 1 /\ x # 1 /\ (x = s + 2 => b = s + 1)
      /\ y <= s + 17 /\ y # s + 1 /\ y # 1 /\ y # s + 2
  BY <1>1, <1>2
<1>4. g \in Cell /\ Found(g) /\ (b = s + 1 => g = FirstGroup)
  BY <1>1, <1>2, FitFacts, CellKinds
<1>5. /\ b = s + 2 => second
      /\ b = s + 1 => (second <=> Found(d[Start(s + 2)]))
  BY <1>1
<1>6. write_object_to_block(g, b) \in Seq(Keeping(second))
  <2>1. b = s + 2 => IF second THEN g = BlockGroupDescriptor(b) ELSE ~Found(g)
    BY <1>5
  <2> HIDE DEF g
  <2> QED
    BY <1>1, <1>2, <1>4, <2>1, ObjectKeeps DEF g
<1>7. bg.block_bitmap \in Buffer /\ bg.inode_bitmap \in Buffer
  BY DEF Table
<1>8. write_storage(bg.block_bitmap, x) \in Seq(Keeping(second))
  <2>1. bg.block_bitmap = read_storage(d, x)
    BY <1>1
  <2>2. \A c \in InBlock : Found(bg.block_bitmap[c]) =>
           \E a \in {s + 1, s + 2} : Start(x) + c = Start(a) /\ bg.block_bitmap[c] = BlockGroupDescriptor(a)
    BY <1>1, <1>3, <2>1, ReadInGroups
  <2>3. x = s + 2 => IF second THEN bg.block_bitmap[0] = BlockGroupDescriptor(s + 2) ELSE ~Found(bg.block_bitmap[0])
    <3>1. bg.block_bitmap[0] = d[Start(x)]
      BY <1>1, <1>3, <2>1, StartCells
    <3>2. Found(d[Start(x)]) => d[Start(x)] = BlockGroupDescriptor(x)
      BY <1>1, <1>3, StartCells
    <3> QED
      BY <1>3, <1>5, <3>1, <3>2
  <2>4. GoodBuffer(bg.block_bitmap, x, second)
    BY <1>1, <1>3, <2>2, <2>3 DEF GoodBuffer
  <2> QED
    BY <1>1, <1>3, <1>7, <2>4, GoodBufferKeeps
<1>9. write_storage(bg.inode_bitmap, y) \in Seq(Keeping(second))
  <2>1. read_storage(d, y) \in Buffer
    BY <1>1, <1>3, ReadType
  <2>2. \A c \in InBlock : bg.inode_bitmap[c] = IF c = i THEN One ELSE read_storage(d, y)[c]
    BY <1>1, <2>1 DEF Buffer
  <2>3. \A c \in InBlock : Found(bg.inode_bitmap[c]) =>
           \E a \in {s + 1, s + 2} : Start(y) + c = Start(a) /\ bg.inode_bitmap[c] = BlockGroupDescriptor(a)
    <3>1. ASSUME NEW c \in InBlock, Found(bg.inode_bitmap[c])
          PROVE  \E a \in {s + 1, s + 2} : Start(y) + c = Start(a) /\ bg.inode_bitmap[c] = BlockGroupDescriptor(a)
      <4>1. bg.inode_bitmap[c] = read_storage(d, y)[c]
        BY <2>2, <3>1, CellKinds
      <4> QED
        BY <1>1, <1>3, <3>1, <4>1, ReadInGroups
    <3> QED
      BY <3>1
  <2>4. GoodBuffer(bg.inode_bitmap, y, second)
    BY <1>1, <1>3, <2>3 DEF GoodBuffer
  <2> QED
    BY <1>1, <1>3, <1>7, <2>4, GoodBufferKeeps
<1>10. BitmapWrites(b, bg) =
          write_object_to_block(g, b) \o write_storage(bg.block_bitmap, x) \o write_storage(bg.inode_bitmap, y)
  BY <1>1 DEF BitmapWrites
<1> QED
  BY <1>6, <1>8, <1>9, <1>10, ConcatProperties


\* The inode's sectors bring back what was read, with the inode in it; block 1,
\* to which a number that did not fit leads, keeps its first cell.
LEMMA InodeWriteKeeps ==
  ASSUME info \in Descriptors, Fits, NEW d \in Disk, InGroups(d), d[Start(1)] = SuperBlock,
         NEW second \in BOOLEAN, NEW idx \in 1 .. MAX_FILES, mounts \in 1 .. MaxMounts,
         NEW b \in {info.super_block_idx + 1, info.super_block_idx + 2}, b = INODE_IDX_TO_BLOCK_GROUP(idx)
  PROVE  InodeWrite(d, BlockGroupDescriptor(b), idx) \in Seq(Keeping(second))
<1>1. PICK s \in 1 .. 11 : s = info.super_block_idx
  BY FitFacts
<1>2. PICK t \in 0 .. 2 : t = INODE_IDX_CONTAINING_BLOCK(idx)
  BY Places
<1>3. PICK z \in Nat : /\ z = BlockGroupDescriptor(b)[4]
                       /\ b = s + 1 => z = s + 4
                       /\ b = s + 2 => z = IF s = 11 THEN 0 ELSE s + 5
  BY <1>1, GroupBlocks
<1>4. b = s + 2 => idx >= 5 /\ info.block_size = 4 /\ idx <= 8
  <2>1. PICK n \in Nat : n = info.block_size /\ n >= 4
    BY Geometry
  <2>2. /\ b = IF idx <= n THEN s + 1 ELSE s + 2
        /\ idx > n => n = 4
    BY <1>1, <2>1, Places
  <2>3. idx \in Nat /\ idx <= 8
    BY Geometry
  <2> QED
    BY <2>1, <2>2, <2>3
<1>5. b = s + 2 => t = idx \div 4
  BY <1>2, <1>4 DEF INODE_IDX_CONTAINING_BLOCK
<1>6. PICK block \in Nat : block = z + t
  OBVIOUS
<1>7. b = s + 2 => t >= 1
  BY <1>4, <1>5
<1>8. block <= s + 17 /\ block # s + 1 /\ block # s + 2
  BY <1>1, <1>3, <1>6, <1>7
<1>9. block = 1 => idx % 4 # 0
  <2>1. block = 1 => b = s + 2 /\ t = 1
    BY <1>1, <1>3, <1>6, <1>7
  <2> QED
    BY <1>4, <1>5, <2>1
<1> DEFINE old == read_storage(d, block)
           buffer == [old EXCEPT ![idx % 4] = Inode(idx, mounts)]
<1>10. old \in Buffer /\ idx % 4 \in InBlock /\ Inode(idx, mounts) \in Cell /\ ~Found(Inode(idx, mounts))
  BY <1>1, <1>8, ReadType, Places, CellKinds
<1>11. /\ buffer \in Buffer
       /\ \A c \in InBlock : buffer[c] = IF c = idx % 4 THEN Inode(idx, mounts) ELSE old[c]
  BY <1>10 DEF Buffer
<1>12. \A c \in InBlock : Found(buffer[c]) =>
          \E a \in {s + 1, s + 2} : Start(block) + c = Start(a) /\ buffer[c] = BlockGroupDescriptor(a)
  <2>1. ASSUME NEW c \in InBlock, Found(buffer[c])
        PROVE  \E a \in {s + 1, s + 2} : Start(block) + c = Start(a) /\ buffer[c] = BlockGroupDescriptor(a)
    <3>1. buffer[c] = old[c]
      BY <1>10, <1>11, <2>1
    <3> QED
      BY <1>1, <1>8, <2>1, <3>1, ReadInGroups
  <2> QED
    BY <2>1
<1>13. block = 1 => buffer[0] = SuperBlock
  <2>1. ASSUME block = 1 PROVE buffer[0] = SuperBlock
    <3>1. 0 \in InBlock /\ old[0] = d[Start(block)]
      BY <1>1, <1>8, StartCells
    <3> QED
      BY <1>9, <1>11, <2>1, <3>1
  <2> QED
    BY <2>1
<1> HIDE DEF buffer
<1>14. GoodBuffer(buffer, block, second)
  BY <1>1, <1>8, <1>12, <1>13 DEF GoodBuffer
<1>15. write_storage(buffer, block) \in Seq(Keeping(second))
  BY <1>1, <1>8, <1>11, <1>14, GoodBufferKeeps
<1> QED
  BY <1>2, <1>3, <1>6, <1>15 DEF InodeWrite, buffer


\* CreateFile (ext2.cpp:86-139): what it is going to write keeps the groups, the
\* second of which begins with the first file that is in it.
LEMMA CreateKeeps ==
  ASSUME Typed, Fits, Groups, NEW name \in Names, CreateFile(name)
  PROVE  Groups'
<1>1. /\ info \in Descriptors /\ disk \in Disk /\ InGroups(disk)
      /\ power = "on" /\ todo = <<>> /\ info' = info /\ disk' = disk
  BY CreateParts DEF Typed, Groups
<1>2. disk[Start(info.super_block_idx + 1)] = FirstGroup /\ disk[Start(1)] = SuperBlock
  BY <1>1, GroupsWhenIdle
<1>3. PICK s \in 1 .. 11 : s = info.super_block_idx
  BY <1>1, FitFacts
<1>4. PICK idx \in 1 .. MAX_FILES : idx = get_available_inode_idx
  BY CreateIndex
<1>5. PICK b \in {s + 1, s + 2} : b = INODE_IDX_TO_BLOCK_GROUP(idx)
  BY <1>3, <1>4, CreateIndex
<1>6. PICK second \in BOOLEAN : second <=> (b = s + 2 \/ Found(disk[Start(s + 2)]))
  OBVIOUS
<1>7. PICK got : got = get_block_group(disk, b)
  OBVIOUS
<1>8. Found(disk[Start(b)]) \/ (second <=> b = s + 2)
  BY <1>1, <1>2, <1>3, <1>6, FitFacts
<1>9. /\ got.writes \in Seq(Keeping(second))
      /\ got.writes = IF Found(disk[Start(b)]) THEN <<>> ELSE NewGroup(b)
      /\ got.bg.group_descriptor = BlockGroupDescriptor(b)
      /\ got.bg.block_bitmap = read_storage(After(disk, got.writes), BlockGroupDescriptor(b)[2])
      /\ got.bg.inode_bitmap = read_storage(After(disk, got.writes), BlockGroupDescriptor(b)[3])
  BY <1>1, <1>3, <1>7, <1>8, GetGroupKeeps
<1>10. PICK d \in Disk : d = After(disk, got.writes) /\ InGroups(d) /\ d[Start(1)] = SuperBlock
  BY <1>1, <1>2, <1>9, AfterKeeping
<1>11. b = s + 1 => d = disk
  <2>1. b = s + 1 => got.writes = <<>>
    BY <1>1, <1>2, <1>3, <1>9, FitFacts
  <2> QED
    BY <1>1, <1>10, <2>1, AfterNothing
<1>12. PICK i \in InBlock : i = INODE_IDX_IN_BLOCK_GROUP(idx)
  BY <1>1, Places
<1>13. PICK bg \in Table : bg = CreateTable
  BY CreateIndex
<1>14. got = CreateGot
  BY <1>4, <1>5, <1>7 DEF CreateGot
<1>15. /\ bg.group_descriptor = BlockGroupDescriptor(b)
       /\ bg.block_bitmap = read_storage(d, BlockGroupDescriptor(b)[2])
       /\ bg.inode_bitmap = [read_storage(d, BlockGroupDescriptor(b)[3]) EXCEPT ![i] = One]
  BY <1>4, <1>9, <1>10, <1>12, <1>13, <1>14, CreateIndex
<1>16. PICK bitmaps : bitmaps = BitmapWrites(b, bg)
  OBVIOUS
<1>17. bitmaps \in Seq(Keeping(second))
  <2>1. (b = s + 2 => second) /\ (b = s + 1 => (second <=> Found(d[Start(s + 2)])))
    BY <1>6, <1>11
  <2> QED
    BY <1>1, <1>3, <1>10, <1>15, <1>16, <2>1, BitmapWritesKeep
<1>18. PICK e \in Disk : e = After(d, bitmaps) /\ InGroups(e) /\ e[Start(1)] = SuperBlock
  BY <1>1, <1>10, <1>17, AfterKeeping
<1>19. mounts \in 1 .. MaxMounts
  BY CreateIndex
<1>20. InodeWrite(e, BlockGroupDescriptor(b), idx) \in Seq(Keeping(second))
  BY <1>1, <1>3, <1>5, <1>18, <1>19, InodeWriteKeeps
<1>21. write_block_group(d, b, bg, idx) \in Seq(Keeping(second))
  BY <1>15, <1>16, <1>17, <1>18, <1>20, ConcatProperties DEF write_block_group
<1>22. todo' = got.writes \o write_block_group(d, b, bg, idx)
  BY <1>4, <1>5, <1>10, <1>13, <1>14, CreateParts
<1>23. todo' \in Seq(Keeping(second))
  BY <1>9, <1>21, <1>22, ConcatProperties
<1>24. second \/ ~Found(disk[Start(s + 2)])
  BY <1>6
<1>25. power' = "on" /\ Keeping(second)' = Keeping(second) /\ FirstGroup' = FirstGroup
       /\ \A block : Start(block)' = Start(block)
  <2>1. power' = "on" /\ info' = info
    BY <1>1, CreateParts
  <2> QED
    BY <2>1 DEF Keeping, Keeps, FirstGroup, Start, Write
<1>26. InGroups(disk)'
  BY <1>1 DEF InGroups, Start
<1> QED
  BY <1>1, <1>2, <1>3, <1>23, <1>24, <1>25, <1>26 DEF Groups, IsOrWillBe


\* The first sector of a block.
LEMMA FirstSector ==
  ASSUME info \in Descriptors, NEW block \in Nat, block <= info.super_block_idx + 17, NEW object \in Cell
  PROVE  /\ Len(write_object_to_block(object, block)) >= 1
         /\ Len(write_object_to_block(object, block)) \in Nat
         /\ write_object_to_block(object, block)[1].lba * 4 = Start(block)
         /\ write_object_to_block(object, block)[1].data[0] = object
<1>1. PICK buffer \in [InBlock -> Cell] : buffer = [c \in InBlock |-> IF c = 0 THEN object ELSE Zero]
  BY CellKinds
<1>2. sectors_per_block \in Nat /\ sectors_per_block >= 1 /\ buffer[0] = object
  BY <1>1, Geometry DEF InBlock
<1>3. PICK s \in Seq(Carrying(buffer, block)) :
         s = write_storage(buffer, block) /\ Len(s) = sectors_per_block /\ s[1].lba * 4 = Start(block)
  BY WriteStorage
<1>4. s[1] \in Carrying(buffer, block)
  BY <1>2, <1>3, ElementOfSeq
<1>5. s[1].data[0] = object
  BY <1>2, <1>3, <1>4, CarriedStart
<1> QED
  BY <1>1, <1>2, <1>3, <1>5 DEF write_object_to_block

\* The first of several pieces stays in front.
LEMMA FrontStays ==
  ASSUME NEW h \in Seq(Write), Len(h) >= 1, NEW p \in Seq(Write)
  PROVE  h \o p \in Seq(Write) /\ Len(h \o p) \in Nat /\ Len(h \o p) >= 1 /\ (h \o p)[1] = h[1]
<1>1. h \o p \in Seq(Write) /\ Len(h \o p) = Len(h) + Len(p) /\ Len(h) \in Nat /\ Len(p) \in Nat
  BY ConcatProperties
<1>2. (h \o p)[1] = h[1]
  BY <1>1, ConcatProperties
<1> QED
  BY <1>1, <1>2

\* A new group begins with its descriptor.
LEMMA NewGroupFirst ==
  ASSUME info \in Descriptors, Fits, NEW b \in {info.super_block_idx + 1, info.super_block_idx + 2}
  PROVE  /\ NewGroup(b) \in Seq(Write) /\ Len(NewGroup(b)) \in Nat /\ Len(NewGroup(b)) >= 1
         /\ NewGroup(b)[1].lba * 4 = Start(b) /\ NewGroup(b)[1].data[0] = BlockGroupDescriptor(b)
<1> DEFINE g == BlockGroupDescriptor(b)
<1>1. PICK s \in 1 .. 11 : s = info.super_block_idx
  BY FitFacts
<1>2. PICK x \in Nat, y \in Nat, z \in Nat :
         x = g[2] /\ y = g[3] /\ z = g[4] /\ x <= s + 17 /\ y <= s + 17 /\ z <= s + 17
  <2>1. /\ g[2] \in Nat /\ g[3] \in Nat /\ g[4] \in Nat
        /\ g[2] <= s + 17 /\ g[3] <= s + 17 /\ g[4] <= s + 17
    BY <1>1, GroupBlocks
  <2> HIDE DEF g
  <2> QED
    BY <2>1
<1>3. b \in Nat /\ b <= s + 17 /\ g \in Cell /\ Zero \in Cell
  BY <1>1, NewDescriptor, CellKinds DEF Descriptor
<1>4. PICK h \in Seq(Write) : /\ h = write_object_to_block(g, b)
                              /\ Len(h) >= 1 /\ h[1].lba * 4 = Start(b) /\ h[1].data[0] = g
  BY <1>1, <1>3, WriteType, FirstSector
<1>5. /\ zero_block(x) \in Seq(Write) /\ zero_block(y) \in Seq(Write)
      /\ zero_block(z) \in Seq(Write)
  <2>1. /\ write_object_to_block(Zero, x) \in Seq(Write) /\ write_object_to_block(Zero, y) \in Seq(Write)
        /\ write_object_to_block(Zero, z) \in Seq(Write)
    BY <1>1, <1>2, <1>3, WriteType
  <2> QED
    BY <2>1 DEF zero_block
<1> HIDE DEF g
<1>6. PICK hp \in Seq(Write) : hp = h \o zero_block(x) /\ Len(hp) >= 1 /\ hp[1] = h[1]
  <2>1. Len(h) >= 1
    BY <1>4
  <2> QED
    BY <1>5, <2>1, FrontStays
<1>7. PICK hpq \in Seq(Write) : hpq = hp \o zero_block(y) /\ Len(hpq) >= 1 /\ hpq[1] = h[1]
  <2>1. Len(hp) >= 1 /\ hp[1] = h[1]
    BY <1>6
  <2> QED
    BY <1>5, <2>1, FrontStays
<1>8. NewGroup(b) = hpq \o zero_block(z)
  BY <1>2, <1>4, <1>6, <1>7 DEF NewGroup, g
<1>9. /\ hpq \o zero_block(z) \in Seq(Write) /\ Len(hpq \o zero_block(z)) \in Nat
      /\ Len(hpq \o zero_block(z)) >= 1 /\ (hpq \o zero_block(z))[1] = hpq[1]
  BY <1>5, <1>7, FrontStays
<1> QED
  BY <1>4, <1>7, <1>8, <1>9 DEF g

\* A constructor (ext2.cpp:65-82, 248-330): block 1 is written, then the first
\* group if it is not there.
LEMMA MountKeeps ==
  ASSUME Typed, Fits, Groups, Mount
  PROVE  /\ Groups'
         /\ todo' = get_super_block \o
               IF Found(disk[Start(info.super_block_idx + 1)]) THEN <<>> ELSE NewGroup(info.super_block_idx + 1)
<1>1. /\ info \in Descriptors /\ disk \in Disk /\ InGroups(disk) /\ info' = info /\ disk' = disk
  BY DEF Typed, Groups, Mount
<1>2. PICK s \in 1 .. 11 : s = info.super_block_idx
  BY <1>1, FitFacts
<1>3. PICK second \in BOOLEAN : second <=> Found(disk[Start(s + 2)])
  OBVIOUS
<1>4. second => disk[Start(s + 1)] = FirstGroup
  BY <1>2, <1>3 DEF Groups
<1>5. PICK one \in Nat, b \in {s + 1, s + 2} : one = 1 /\ b = s + 1
  OBVIOUS
<1>6. PICK super : super = write_object_to_block(SuperBlock, one)
  OBVIOUS
<1>7. get_super_block = super
  BY <1>5, <1>6 DEF get_super_block
<1>8. super \in Seq(Keeping(second))
  <2>1. one <= s + 17 /\ one # s + 1 /\ one # s + 2
    BY <1>5
  <2>2. SuperBlock \in Cell /\ ~Found(SuperBlock)
    BY CellKinds
  <2> QED
    BY <1>1, <1>2, <1>6, <2>1, <2>2, ObjectKeeps
<1>9. PICK d \in Disk : d = After(disk, super) /\ InGroups(d)
  BY <1>1, <1>8, AfterKeeping
<1>10. d[Start(b)] = disk[Start(b)]
  <2>1. super \in Seq(Avoiding(b))
    <3>1. b \in Nat /\ one # b
      BY <1>5
    <3>2. [c \in InBlock |-> IF c = 0 THEN SuperBlock ELSE Zero] \in Buffer
      BY CellKinds DEF Buffer
    <3>3. super \in Seq(Carrying([c \in InBlock |-> IF c = 0 THEN SuperBlock ELSE Zero], one))
      <4>1. one <= info.super_block_idx + 17
        BY <1>2, <1>5
      <4> QED
        BY <1>1, <1>6, <3>2, <4>1, WriteStorage DEF write_object_to_block, Buffer
    <3> QED
      BY <1>1, <3>1, <3>3, CarryingAvoids
  <2>2. b \in Nat /\ b <= info.super_block_idx + 17
    BY <1>2
  <2>3. PICK z \in InBlock : z = 0
    BY <1>1, <2>2, StartCells
  <2>4. After(disk, super)[Start(b) + z] = disk[Start(b) + z]
    BY <1>1, <2>1, <2>2, AfterAvoiding
  <2>5. Start(b) + z = Start(b)
    BY <1>1, <2>2, <2>3, StartCells
  <2> QED
    BY <1>9, <2>4, <2>5
<1>11. PICK got : got = get_block_group(d, b)
  OBVIOUS
<1>12. /\ got.writes \in Seq(Keeping(second))
       /\ got.writes = IF Found(d[Start(b)]) THEN <<>> ELSE NewGroup(b)
  <2>1. Found(d[Start(b)]) \/ (second <=> b = s + 2)
    BY <1>1, <1>4, <1>5, <1>10, FitFacts
  <2> QED
    BY <1>1, <1>2, <1>9, <1>11, <2>1, GetGroupKeeps
<1>13. todo' = super \o got.writes /\ power' = "on"
  BY <1>2, <1>5, <1>7, <1>9, <1>11 DEF Mount
<1>14. todo' \in Seq(Keeping(second))
  BY <1>8, <1>12, <1>13, ConcatProperties
<1>15. Len(super) \in Nat /\ Len(super) >= 1 /\ super[1].lba * 4 = Start(one)
  <2>1. one <= s + 17 /\ SuperBlock \in Cell
    BY <1>5, CellKinds
  <2> QED
    BY <1>1, <1>2, <1>6, <2>1, FirstSector
<1>16. super \in Seq(Write) /\ got.writes \in Seq(Write)
  BY <1>8, <1>12, KeepingIsWriting
<1>17. \E i \in 1 .. Len(todo') : todo'[i].lba * 4 = Start(one)
  <2>1. 1 \in 1 .. Len(todo') /\ todo'[1] = super[1]
    BY <1>13, <1>15, <1>16, ConcatProperties
  <2> QED
    BY <1>15, <2>1
<1>18. \/ disk[Start(b)] = FirstGroup
       \/ \E i \in 1 .. Len(todo') : todo'[i].lba * 4 = Start(b)
  <2>1. CASE Found(d[Start(b)])
    <3>1. d[Start(b)] = BlockGroupDescriptor(b)
      BY <1>1, <1>2, <1>9, <2>1, StartCells
    <3>2. BlockGroupDescriptor(b) = FirstGroup
      BY <1>1, <1>2, <1>5, FitFacts
    <3> QED
      BY <1>10, <3>1, <3>2
  <2>2. CASE ~Found(d[Start(b)])
    <3>1. got.writes = NewGroup(b)
      BY <1>12, <2>2
    <3>2. Len(got.writes) \in Nat /\ Len(got.writes) >= 1 /\ got.writes[1].lba * 4 = Start(b)
      BY <1>1, <1>2, <3>1, NewGroupFirst
    <3>3. PICK n \in Nat : n = Len(super) + 1
      BY <1>15
    <3>4. n \in 1 .. Len(todo') /\ todo'[n] = got.writes[1]
      BY <1>13, <1>15, <1>16, <3>2, <3>3, ConcatProperties
    <3> QED
      BY <3>2, <3>4
  <2> QED
    BY <2>1, <2>2
<1>19. second \/ ~Found(disk[Start(s + 2)])
  BY <1>3
<1>20. Keeping(second)' = Keeping(second) /\ FirstGroup' = FirstGroup
       /\ \A block : Start(block)' = Start(block)
  BY <1>1 DEF Keeping, Keeps, FirstGroup, Start, Write
<1>21. InGroups(disk)'
  BY <1>1 DEF InGroups, Start
<1>22. Groups'
  BY <1>1, <1>2, <1>4, <1>5, <1>14, <1>17, <1>18, <1>19, <1>20, <1>21 DEF Groups, IsOrWillBe
<1> QED
  BY <1>2, <1>5, <1>7, <1>10, <1>12, <1>13, <1>22


\* A sector that arrives, at the start of a block and everywhere.
LEMMA StoredCells ==
  ASSUME info \in Descriptors, NEW d \in Disk, NEW w \in Write
  PROVE  /\ DOMAIN Stored(d, w) = DOMAIN d
         /\ \A c \in DOMAIN d : \/ Stored(d, w)[c] = d[c]
                                \/ \E k \in 0 .. 3 : w.lba * 4 + k = c /\ Stored(d, w)[c] = w.data[k]
         /\ \A block \in Nat : block <= info.super_block_idx + 17 =>
               /\ Start(block) \in DOMAIN d
               /\ Stored(d, w)[Start(block)] = IF w.lba * 4 = Start(block) THEN w.data[0] ELSE d[Start(block)]
<1>1. DOMAIN Stored(d, w) = DOMAIN d /\ w.lba \in Nat /\ DOMAIN d = 0 .. Cells - 1 /\ Cells \in Nat
  BY Ext2Assumption DEF Stored, Write, Disk
<1>2. ASSUME NEW c \in DOMAIN d
      PROVE  \/ Stored(d, w)[c] = d[c]
             \/ \E k \in 0 .. 3 : w.lba * 4 + k = c /\ Stored(d, w)[c] = w.data[k]
  <2>1. c \in Nat
    BY <1>1
  <2>2. PICK q \in Nat, k \in 0 .. 3 : c \div 4 = q /\ c % 4 = k
    BY <2>1, CellOfSector
  <2>3. c = q * 4 + k
    BY <2>1, <2>2, CellOfSector
  <2>4. Stored(d, w)[c] = IF q = w.lba THEN w.data[k] ELSE d[c]
    BY <2>2 DEF Stored
  <2> QED
    BY <2>3, <2>4
<1>3. ASSUME NEW block \in Nat, block <= info.super_block_idx + 17
      PROVE  /\ Start(block) \in DOMAIN d
             /\ Stored(d, w)[Start(block)] = IF w.lba * 4 = Start(block) THEN w.data[0] ELSE d[Start(block)]
  <2>1. PICK c \in Nat, q \in Nat : c = Start(block) /\ q = BLOCK_TO_SECTOR(block) /\ q * 4 = c
    BY Starts
  <2>2. c \in DOMAIN d
    <3>1. 0 \in InBlock
      BY Geometry DEF InBlock
    <3>2. Start(block) + 0 \in 0 .. Cells - 1
      BY <1>3, <3>1, BlockOnDisk
    <3> QED
      BY <1>1, <2>1, <3>2
  <2>3. c \div 4 = q /\ c % 4 = 0
    BY <2>1
  <2>4. Stored(d, w)[c] = IF q = w.lba THEN w.data[0] ELSE d[c]
    BY <2>2, <2>3 DEF Stored
  <2>5. q = w.lba <=> w.lba * 4 = c
    BY <1>1, <2>1
  <2> QED
    BY <2>1, <2>2, <2>4, <2>5
<1> QED
  BY <1>1, <1>2, <1>3

\* One sector less is to be written: what will be written is, or still will be.
LEMMA WriteBringsAbout ==
  ASSUME Typed, WriteSector, NEW block \in Nat, block <= info.super_block_idx + 17, NEW object,
         IsOrWillBe(object, block), Head(todo).lba * 4 = Start(block) => Head(todo).data[0] = object
  PROVE  \/ disk'[Start(block)] = object
         \/ \E i \in 1 .. Len(todo') : todo'[i].lba * 4 = Start(block)
<1>1. /\ info \in Descriptors /\ disk \in Disk /\ todo \in Seq(Write) /\ todo # <<>>
      /\ disk' = Stored(disk, Head(todo)) /\ todo' = Tail(todo) /\ Head(todo) \in Write
  BY DEF Typed, WriteSector
<1>2. disk'[Start(block)] =
         IF Head(todo).lba * 4 = Start(block) THEN Head(todo).data[0] ELSE disk[Start(block)]
  BY <1>1, StoredCells
<1>3. CASE disk[Start(block)] = object
  BY <1>2, <1>3
<1>4. ASSUME NEW i \in 1 .. Len(todo), todo[i].lba * 4 = Start(block)
      PROVE  \/ disk'[Start(block)] = object
             \/ \E j \in 1 .. Len(todo') : todo'[j].lba * 4 = Start(block)
  <2>1. CASE i = 1
    <3>1. Head(todo).lba * 4 = Start(block)
      BY <1>1, <1>4, <2>1
    <3> QED
      BY <1>2, <3>1
  <2>2. CASE i # 1
    <3>1. i - 1 \in 1 .. Len(todo') /\ todo'[i - 1] = todo[i]
      BY <1>1, <2>2
    <3> QED
      BY <1>4, <3>1
  <2> QED
    BY <2>1, <2>2
<1> QED
  BY <1>3, <1>4 DEF IsOrWillBe

\* What the sector at the head of todo may be.
LEMMA HeadKeeps ==
  ASSUME Typed, Groups, WriteSector
  PROVE  \E second \in BOOLEAN :
            /\ Keeps(Head(todo), second) /\ Tail(todo) \in Seq(Keeping(second))
            /\ second \/ ~Found(disk[Start(info.super_block_idx + 2)])
            /\ second => disk[Start(info.super_block_idx + 1)] = FirstGroup
<1>1. PICK second \in BOOLEAN :
        /\ todo \in Seq(Keeping(second))
        /\ second \/ ~Found(disk[Start(info.super_block_idx + 2)])
        /\ second => disk[Start(info.super_block_idx + 1)] = FirstGroup
  BY DEF Groups
<1>2. todo # <<>>
  BY DEF WriteSector
<1>3. Head(todo) \in Keeping(second) /\ Tail(todo) \in Seq(Keeping(second))
  BY <1>1, <1>2
<1> QED
  BY <1>1, <1>3 DEF Keeping

\* A sector arrives (WriteSectors of the device).
LEMMA WriteKeeps ==
  ASSUME Typed, Fits, Groups, WriteSector
  PROVE  /\ Groups'
         /\ \A c \in DOMAIN disk : Found(disk[c]) => disk'[c] = disk[c]
<1>1. /\ info \in Descriptors /\ disk \in Disk /\ InGroups(disk) /\ info' = info /\ power' = power
      /\ disk' = Stored(disk, Head(todo)) /\ todo' = Tail(todo) /\ Head(todo) \in Write
  BY DEF Typed, Groups, WriteSector
<1>2. PICK s \in 1 .. 11 : s = info.super_block_idx
  BY <1>1, FitFacts
<1>3. PICK second \in BOOLEAN :
         /\ Keeps(Head(todo), second) /\ Tail(todo) \in Seq(Keeping(second))
         /\ second \/ ~Found(disk[Start(s + 2)])
         /\ second => disk[Start(s + 1)] = FirstGroup
  BY <1>2, HeadKeeps
<1>4. PICK w \in Write : w = Head(todo)
  BY <1>1
<1>5. PICK one \in Nat, b1 \in Nat, b2 \in Nat : one = 1 /\ b1 = s + 1 /\ b2 = s + 2
  OBVIOUS
<1>6. /\ DOMAIN disk' = DOMAIN disk
      /\ Start(b1) \in DOMAIN disk /\ Start(b2) \in DOMAIN disk
      /\ disk'[Start(b1)] = IF w.lba * 4 = Start(b1) THEN w.data[0] ELSE disk[Start(b1)]
      /\ disk'[Start(b2)] = IF w.lba * 4 = Start(b2) THEN w.data[0] ELSE disk[Start(b2)]
  <2>1. \A block \in Nat : block <= info.super_block_idx + 17 =>
           /\ Start(block) \in DOMAIN disk
           /\ disk'[Start(block)] = IF w.lba * 4 = Start(block) THEN w.data[0] ELSE disk[Start(block)]
    BY <1>1, <1>4, StoredCells
  <2>2. b1 <= info.super_block_idx + 17 /\ b2 <= info.super_block_idx + 17
    BY <1>2, <1>5
  <2>3. DOMAIN disk' = DOMAIN disk
    BY <1>1, <1>4, StoredCells
  <2> QED
    BY <2>1, <2>2, <2>3
<1>7. /\ w.lba * 4 = Start(b1) => w.data[0] = FirstGroup
      /\ w.lba * 4 = Start(b2) => IF second THEN w.data[0] = BlockGroupDescriptor(b2) ELSE ~Found(w.data[0])
      /\ w.lba * 4 = Start(one) => w.data[0] = SuperBlock
      /\ \A k \in 0 .. 3 : Found(w.data[k]) =>
            \E b \in {s + 1, s + 2} : w.lba * 4 + k = Start(b) /\ w.data[k] = BlockGroupDescriptor(b)
  BY <1>2, <1>3, <1>4, <1>5 DEF Keeps
<1>8. InGroups(disk')
  <2>1. ASSUME NEW c \in DOMAIN disk', Found(disk'[c])
        PROVE  \E b \in {s + 1, s + 2} : c = Start(b) /\ disk'[c] = BlockGroupDescriptor(b)
    <3>1. \/ disk'[c] = disk[c]
          \/ \E k \in 0 .. 3 : w.lba * 4 + k = c /\ disk'[c] = w.data[k]
      BY <1>1, <1>4, <1>6, StoredCells
    <3>2. CASE disk'[c] = disk[c]
      BY <1>1, <1>2, <1>6, <2>1, <3>2 DEF InGroups
    <3>3. ASSUME NEW k \in 0 .. 3, w.lba * 4 + k = c, disk'[c] = w.data[k]
          PROVE  \E b \in {s + 1, s + 2} : c = Start(b) /\ disk'[c] = BlockGroupDescriptor(b)
      BY <1>7, <2>1, <3>3
    <3> QED
      BY <3>1, <3>2, <3>3
  <2> QED
    BY <1>2, <2>1 DEF InGroups
<1>9. second \/ ~Found(disk'[Start(b2)])
  BY <1>3, <1>5, <1>6, <1>7
<1>10. second => disk'[Start(b1)] = FirstGroup
  BY <1>3, <1>5, <1>6, <1>7
<1>11. ASSUME power = "on"
       PROVE  /\ \/ disk'[Start(b1)] = FirstGroup
                 \/ \E i \in 1 .. Len(todo') : todo'[i].lba * 4 = Start(b1)
              /\ \/ disk'[Start(one)] = SuperBlock
                 \/ \E i \in 1 .. Len(todo') : todo'[i].lba * 4 = Start(one)
  <2>1. IsOrWillBe(FirstGroup, b1) /\ IsOrWillBe(SuperBlock, one)
    BY <1>2, <1>5, <1>11 DEF Groups
  <2>2. b1 <= info.super_block_idx + 17 /\ one <= info.super_block_idx + 17
    BY <1>2, <1>5
  <2> QED
    BY <1>4, <1>7, <2>1, <2>2, WriteBringsAbout
<1>12. Keeping(second)' = Keeping(second) /\ FirstGroup' = FirstGroup
       /\ \A block : Start(block)' = Start(block)
  BY <1>1 DEF Keeping, Keeps, FirstGroup, Start, Write
<1>13. InGroups(disk)'
  BY <1>1, <1>8 DEF InGroups, Start
<1>14. Groups'
  BY <1>1, <1>2, <1>3, <1>5, <1>9, <1>10, <1>11, <1>12, <1>13 DEF Groups, IsOrWillBe
<1>15. ASSUME NEW c \in DOMAIN disk, Found(disk[c]) PROVE disk'[c] = disk[c]
  <2>1. PICK b \in {s + 1, s + 2} : c = Start(b) /\ disk[c] = BlockGroupDescriptor(b)
    BY <1>1, <1>2, <1>15 DEF InGroups
  <2>2. CASE b = s + 1
    <3>1. BlockGroupDescriptor(b) = FirstGroup
      BY <1>1, <1>2, <2>2, FitFacts
    <3> QED
      BY <1>5, <1>6, <1>7, <2>1, <2>2, <3>1
  <2>3. CASE b = s + 2
    <3>1. second
      BY <1>3, <1>15, <2>1, <2>3
    <3> QED
      BY <1>5, <1>6, <1>7, <2>1, <2>3, <3>1
  <2> QED
    BY <2>2, <2>3
<1> QED
  BY <1>14, <1>15


\* An empty disk has no group, and nothing is to be written.
LEMMA GroupsInit == Init => Groups
<1> SUFFICES ASSUME Init PROVE Groups
  OBVIOUS
<1>1. \A c \in DOMAIN disk : ~Found(disk[c])
  BY CellKinds DEF Init
<1>2. ~Found(disk[Start(info.super_block_idx + 2)])
  <2>1. PICK b \in Nat : b = info.super_block_idx + 2 /\ b <= info.super_block_idx + 17
    <3>1. info \in Descriptors
      BY DEF Init
    <3>2. info.super_block_idx \in Nat
      BY <3>1, Geometry
    <3> QED
      BY <3>2
  <2>2. Start(b) \in DOMAIN disk
    <3>1. disk \in Disk /\ info \in Descriptors
      BY TypedInit DEF Init, Typed
    <3>2. InGroups(disk)
      BY <1>1 DEF InGroups
    <3> QED
      BY <2>1, <3>1, <3>2, StartCells
  <2> QED
    BY <1>1, <2>1, <2>2
<1>3. todo = <<>> /\ power = "off"
  BY DEF Init
<1>4. todo \in Seq(Keeping(FALSE))
  BY <1>3
<1> QED
  BY <1>1, <1>2, <1>3, <1>4 DEF Groups, InGroups

\* Every step keeps the groups, and no step changes a descriptor on the disk.
LEMMA GroupsStep ==
  ASSUME Typed, Fits => Groups, [Next]_vars
  PROVE  /\ (Fits => Groups)'
         /\ Fits => \A c \in DOMAIN disk : Found(disk[c]) => disk'[c] = disk[c]
<1>1. Fits' => Fits
  BY DEF Next, vars, Mount, WriteSector, PowerOff, CreateFile, FailedAssertion, Fits
<1>2. SUFFICES ASSUME Fits, Groups
               PROVE  Groups' /\ \A c \in DOMAIN disk : Found(disk[c]) => disk'[c] = disk[c]
  BY <1>1
<1>3. CASE Mount
  BY <1>2, <1>3, MountKeeps DEF Mount
<1>4. ASSUME NEW name \in Names, CreateFile(name)
      PROVE  Groups' /\ disk' = disk
  BY <1>2, <1>4, CreateKeeps DEF CreateFile
<1>5. ASSUME UNCHANGED <<info, disk>>,
             \/ UNCHANGED todo
             \/ todo' = <<>>,
             power' = "on" => power = "on" /\ UNCHANGED todo
      PROVE  Groups'
  <2>1. PICK second \in BOOLEAN :
           /\ todo \in Seq(Keeping(second))
           /\ second \/ ~Found(disk[Start(info.super_block_idx + 2)])
           /\ second => disk[Start(info.super_block_idx + 1)] = FirstGroup
    BY <1>2 DEF Groups
  <2>2. todo' \in Seq(Keeping(second))
    <3>1. CASE UNCHANGED todo
      BY <2>1, <3>1
    <3>2. CASE todo' = <<>>
      <4>1. <<>> \in Seq(Keeping(second))
        OBVIOUS
      <4> QED
        BY <3>2, <4>1
    <3> QED
      BY <1>5, <3>1, <3>2
  <2>3. Keeping(second)' = Keeping(second) /\ FirstGroup' = FirstGroup
        /\ (\A block : Start(block)' = Start(block)) /\ InGroups(disk)' = InGroups(disk)
    BY <1>5 DEF Keeping, Keeps, FirstGroup, Start, Write, InGroups
  <2> QED
    BY <1>2, <1>5, <2>1, <2>2, <2>3 DEF Groups, IsOrWillBe
<1>6. ASSUME NEW tooLong \in BOOLEAN, FailedAssertion(tooLong)
      PROVE  Groups' /\ disk' = disk
  BY <1>5, <1>6 DEF FailedAssertion
<1>7. CASE WriteSector
  BY <1>2, <1>7, WriteKeeps
<1>8. CASE PowerOff
  BY <1>5, <1>8 DEF PowerOff
<1>9. CASE UNCHANGED vars
  BY <1>5, <1>9 DEF vars
<1> QED
  BY <1>3, <1>4, <1>6, <1>7, <1>8, <1>9 DEF Next

\* The groups hold with the types in every reachable state.
LEMMA GroupsHold == Spec => [](Typed /\ CacheIntact /\ (Fits => Groups))
<1>1. Init => Typed /\ CacheIntact /\ (Fits => Groups)
  BY TypedInit, GroupsInit
<1>2. Typed /\ CacheIntact /\ (Fits => Groups) /\ [Next]_vars =>
         Typed' /\ CacheIntact' /\ (Fits => Groups)'
  BY TypedStep, GroupsStep
<1> QED
  BY <1>1, <1>2, PTL DEF Spec

(***************************************************************************)
(* A group that is on the disk stays there: neither a new mount, which     *)
(* writes block 1 and perhaps a group again, nor a second group, nor a     *)
(* bitmap or an inode takes the place of its descriptor (ext2.cpp:73-76,   *)
(* 110-139, 203, 262-330), wherever between two sectors the power is lost. *)
(***************************************************************************)
THEOREM DescriptorsStay == Spec => GroupsStay
<1>1. Typed /\ CacheIntact /\ (Fits => Groups) /\ [Next]_vars =>
         [Fits => \A c \in DOMAIN disk : Found(disk[c]) => disk'[c] = disk[c]]_vars
  BY GroupsStep
<1> QED
  BY <1>1, GroupsHold, PTL DEF Spec, GroupsStay


-----------------------------------------------------------------------------
(* Files: blocks of one sector, until there is a second group.             *)

\* The blocks of the first group.
Bitmap == info.super_block_idx + 3
Inodes == info.super_block_idx + 4

\* The marks are those of the files up to n, the inodes those up to k.
Marks(n) == \A i \in 1 .. 4 : disk[Bitmap * 4 + i - 1] = One <=> (2 <= i /\ i <= n)
IsInode(cell, i) == cell[1] = "inode" /\ cell[2] = i
InTable(k) == \A i \in 1 .. MAX_FILES : IsInode(disk[Inodes * 4 + i], i) <=> (2 <= i /\ i <= k)

\* A mark comes before its inode; there is none before its group is there.
OnDisk(n, k) ==
  /\ n \in 1 .. 4 /\ n <= MAX_FILES /\ k \in 1 .. n /\ k >= n - 1
  /\ Marks(n) /\ InTable(k)
  /\ n > 1 => Found(disk[Start(info.super_block_idx + 1)])

\* What is written of file m: its mark and its inode, the rest as it was.
MarkOf(m) ==
  [lba |-> Bitmap, data |-> [c \in 0 .. 3 |-> IF c = m - 1 THEN One ELSE disk[Bitmap * 4 + c]]]
InodeOf(m) ==
  [lba |-> Inodes + (m \div 4),
   data |-> [c \in 0 .. 3 |->
      IF c = m % 4 THEN Inode(m, mounts) ELSE disk[(Inodes + (m \div 4)) * 4 + c]]]

\* A constructor writes to the bitmap and the table only while no file is there.
MountSector(n) ==
  {w \in Write : \/ w.lba \in {1, info.super_block_idx + 1, info.super_block_idx + 2}
                 \/ n = 1 /\ w.lba \in {Bitmap, Inodes} /\ \A c \in 0 .. 3 : w.data[c] = Zero}
Mounting(n, m) == m = 1 /\ todo \in Seq(MountSector(n))

\* CreateFile writes four sectors: descriptor, block bitmap, mark and inode.
Creating(n, m) ==
  /\ m \in 2 .. 4
  /\ Found(disk[Start(info.super_block_idx + 1)])
  /\ \A i \in 2 .. m - 1 : disk[Inodes * 4 + i] = Inode(i, mounts)
  /\ Len(todo) <= 4
  /\ Len(todo) >= 1 => todo[Len(todo)] = InodeOf(m)
  /\ Len(todo) >= 2 => todo[Len(todo) - 1] = MarkOf(m)
  /\ Len(todo) >= 3 => todo[Len(todo) - 2].lba = info.super_block_idx + 2
  /\ Len(todo) = 4 => todo[1].lba = info.super_block_idx + 1
  /\ Len(todo) <= 1 => m <= n
  /\ Len(todo) = 0 => disk[Inodes * 4 + m] = Inode(m, mounts)

\* The fifth file takes the second group into use.
SecondGroup(m) ==
  m = 5 /\ todo # <<>> /\ todo[1].lba * 4 = Start(info.super_block_idx + 2) /\ Found(todo[1].data[0])

InProgress(n) ==
  \E m \in 1 .. MAX_FILES : Entries(m) /\ (Mounting(n, m) \/ Creating(n, m) \/ SecondGroup(m))

Small == Fits /\ info.block_size = 4 /\ ~Found(disk[Start(info.super_block_idx + 2)])

Files ==
  Small =>
     /\ power # "on" => todo = <<>>
     /\ \E n \in 1 .. 4, k \in 1 .. 4 : OnDisk(n, k) /\ (power = "on" => InProgress(n))

\* The block size of one sector.
LEMMA SmallBlock ==
  ASSUME info \in Descriptors, info.block_size = 4
  PROVE  /\ sectors_per_block = 1 /\ InBlock = 0 .. 3
         /\ \A block \in Nat : BLOCK_TO_SECTOR(block) = block /\ Start(block) = block * 4
<1>1. sectors_per_block = 1
  BY DEF sectors_per_block
<1> QED
  BY <1>1 DEF InBlock, BLOCK_TO_SECTOR, Start

\* Then a buffer is one sector.
LEMMA SmallWrite ==
  ASSUME info \in Descriptors, info.block_size = 4, NEW block \in Nat, NEW buffer
  PROVE  /\ write_storage(buffer, block) = <<[lba |-> block, data |-> [c \in 0 .. 3 |-> buffer[c]]]>>
         /\ Len(write_storage(buffer, block)) = 1
         /\ write_storage(buffer, block)[1].lba = block
         /\ \A c \in 0 .. 3 : write_storage(buffer, block)[1].data[c] = buffer[c]
<1> DEFINE w(i) == [lba |-> block + i - 1, data |-> [c \in 0 .. 3 |-> buffer[(i - 1) * 4 + c]]]
<1>1. write_storage(buffer, block) = [i \in 1 .. 1 |-> w(i)]
  <2>1. sectors_per_block = 1 /\ BLOCK_TO_SECTOR(block) = block
    BY SmallBlock
  <2>2. write_storage(buffer, block) =
          [i \in 1 .. sectors_per_block |->
             [lba |-> BLOCK_TO_SECTOR(block) + i - 1,
              data |-> [c \in 0 .. 3 |-> buffer[(i - 1) * 4 + c]]]]
    BY DEF write_storage
  <2> QED
    BY <2>1, <2>2
<1>2. w(1) = [lba |-> block, data |-> [c \in 0 .. 3 |-> buffer[c]]]
  <2>1. PICK one \in Nat : one = 1
    OBVIOUS
  <2>2. \A c \in 0 .. 3 : (one - 1) * 4 + c = c
    BY <2>1
  <2>3. block + one - 1 = block
    BY <2>1
  <2>4. w(one) = [lba |-> block, data |-> [c \in 0 .. 3 |-> buffer[c]]]
    BY <2>2, <2>3
  <2> QED
    BY <2>1, <2>4
<1> HIDE DEF w
<1>3. [i \in 1 .. 1 |-> w(i)] = <<w(1)>>
  OBVIOUS
<1> QED
  BY <1>1, <1>2, <1>3

\* A sector of a small block that arrives.
LEMMA SmallStored ==
  ASSUME info \in Descriptors, info.block_size = 4, NEW d \in Disk, NEW w \in Write,
         NEW block \in Nat, block <= info.super_block_idx + 17, NEW c \in 0 .. 3
  PROVE  /\ block * 4 + c \in DOMAIN d
         /\ Stored(d, w)[block * 4 + c] = IF w.lba = block THEN w.data[c] ELSE d[block * 4 + c]
<1>1. PICK e \in Nat : e = block * 4 + c
  OBVIOUS
<1>2. e \div 4 = block /\ e % 4 = c
  BY <1>1
<1>3. e \in DOMAIN d
  <2>1. InBlock = 0 .. 3 /\ Start(block) = block * 4
    BY SmallBlock
  <2>2. e \in 0 .. Cells - 1
    BY <1>1, <2>1, BlockOnDisk
  <2> QED
    BY <2>2 DEF Disk
<1>4. w.lba \in Nat
  BY DEF Write
<1> QED
  BY <1>1, <1>2, <1>3, <1>4 DEF Stored


\* What a sector changes on a disk of small blocks.
LEMMA SmallArrives ==
  ASSUME Typed, Small, WriteSector
  PROVE  /\ info.super_block_idx \in 1 .. 11 /\ Head(todo) \in Write
         /\ \A block \in Nat : block <= info.super_block_idx + 17 =>
               \A c \in 0 .. 3 : disk'[block * 4 + c] =
                  IF Head(todo).lba = block THEN Head(todo).data[c] ELSE disk[block * 4 + c]
         /\ \A i \in 1 .. 4 : disk'[Bitmap * 4 + i - 1] =
               IF Head(todo).lba = Bitmap THEN Head(todo).data[i - 1] ELSE disk[Bitmap * 4 + i - 1]
         /\ \A i \in 1 .. MAX_FILES : disk'[Inodes * 4 + i] =
               IF Head(todo).lba = Inodes + (i \div 4) THEN Head(todo).data[i % 4] ELSE disk[Inodes * 4 + i]
<1>1. /\ info \in Descriptors /\ info.block_size = 4 /\ disk \in Disk /\ todo \in Seq(Write) /\ todo # <<>>
      /\ disk' = Stored(disk, Head(todo))
  BY DEF Typed, Small, WriteSector
<1>2. PICK w \in Write : w = Head(todo)
  BY <1>1
<1>3. PICK s \in 1 .. 11 : s = info.super_block_idx
  BY <1>1, FitFacts DEF Small
<1>4. ASSUME NEW block \in Nat, block <= s + 17, NEW c \in 0 .. 3
      PROVE  disk'[block * 4 + c] = IF w.lba = block THEN w.data[c] ELSE disk[block * 4 + c]
  <2>1. disk' = Stored(disk, w)
    BY <1>1, <1>2
  <2>2. block <= info.super_block_idx + 17
    BY <1>3, <1>4
  <2>3. info \in Descriptors /\ info.block_size = 4 /\ disk \in Disk
    BY <1>1
  <2>4. Stored(disk, w)[block * 4 + c] = IF w.lba = block THEN w.data[c] ELSE disk[block * 4 + c]
    BY <2>2, <2>3, SmallStored
  <2> QED
    BY <2>1, <2>4
<1>5. PICK b \in Nat, t \in Nat : b = Bitmap /\ t = Inodes /\ b = s + 3 /\ t = s + 4
  BY <1>3 DEF Bitmap, Inodes
<1>6. ASSUME NEW i \in 1 .. 4
      PROVE  disk'[b * 4 + i - 1] = IF w.lba = b THEN w.data[i - 1] ELSE disk[b * 4 + i - 1]
  <2>1. PICK c \in 0 .. 3 : c = i - 1 /\ b * 4 + i - 1 = b * 4 + c
    BY <1>5
  <2> QED
    BY <1>4, <1>5, <2>1
<1>7. ASSUME NEW i \in 1 .. MAX_FILES
      PROVE  disk'[t * 4 + i] = IF w.lba = t + (i \div 4) THEN w.data[i % 4] ELSE disk[t * 4 + i]
  <2>1. i \in Nat /\ i <= 8
    BY <1>1, Geometry
  <2>2. PICK q \in Nat, c \in 0 .. 3 : q = i \div 4 /\ c = i % 4 /\ i = q * 4 + c /\ q <= 2
    BY <2>1
  <2>3. PICK block \in Nat : block = t + q /\ block <= s + 17 /\ t * 4 + i = block * 4 + c
    BY <1>5, <2>2
  <2> QED
    BY <1>4, <2>2, <2>3
<1> QED
  BY <1>2, <1>3, <1>4, <1>5, <1>6, <1>7

\* Sectors elsewhere leave the files as they are.
LEMMA OnDiskStays ==
  ASSUME info' = info, NEW n, NEW k, OnDisk(n, k),
         \A i \in 1 .. 4 : disk'[Bitmap * 4 + i - 1] = disk[Bitmap * 4 + i - 1],
         \A i \in 1 .. MAX_FILES : disk'[Inodes * 4 + i] = disk[Inodes * 4 + i],
         Found(disk[Start(info.super_block_idx + 1)]) => Found(disk'[Start(info.super_block_idx + 1)])
  PROVE  OnDisk(n, k)'
<1>1. Bitmap' = Bitmap /\ Inodes' = Inodes /\ Start(info.super_block_idx + 1)' = Start(info.super_block_idx + 1)
  BY DEF Bitmap, Inodes, Start
<1>2. Marks(n)' /\ InTable(k)'
  BY <1>1 DEF OnDisk, Marks, InTable, IsInode
<1> QED
  BY <1>1, <1>2 DEF OnDisk

\* A sector of a constructor arrives.
LEMMA MountingWrites ==
  ASSUME Typed, Groups, Small, WriteSector, NEW n \in 1 .. 4, NEW k \in 1 .. 4, OnDisk(n, k),
         NEW m, Mounting(n, m)
  PROVE  OnDisk(n, k)' /\ Mounting(n, m)'
<1>1. /\ info' = info /\ info \in Descriptors /\ disk \in Disk /\ todo # <<>> /\ todo' = Tail(todo)
      /\ MAX_FILES \in Nat
  BY Geometry DEF Typed, WriteSector
<1>2. PICK s \in 1 .. 11 : s = info.super_block_idx
  BY SmallArrives
<1>3. PICK w \in MountSector(n) : w = Head(todo) /\ Tail(todo) \in Seq(MountSector(n))
  BY <1>1 DEF Mounting
<1>4. MountSector(n)' = MountSector(n)
  BY <1>1 DEF MountSector, Bitmap, Inodes
<1>5. Mounting(n, m)'
  BY <1>1, <1>3, <1>4 DEF Mounting
<1>6. PICK b \in Nat, t \in Nat : b = Bitmap /\ t = Inodes /\ b = s + 3 /\ t = s + 4
  BY <1>2 DEF Bitmap, Inodes
<1>7. \A i \in 1 .. 4 : disk'[b * 4 + i - 1] = IF w.lba = b THEN w.data[i - 1] ELSE disk[b * 4 + i - 1]
  BY <1>3, <1>6, SmallArrives
<1>8. \A i \in 1 .. MAX_FILES :
         disk'[t * 4 + i] = IF w.lba = t + (i \div 4) THEN w.data[i % 4] ELSE disk[t * 4 + i]
  BY <1>3, <1>6, SmallArrives
<1>9. \A i \in 1 .. MAX_FILES : i \div 4 \in 0 .. 2 /\ i % 4 \in 0 .. 3
  <2>1. MAX_FILES <= 8
    BY <1>1, Geometry
  <2> QED
    BY <1>1, <2>1
<1>10. Found(disk[Start(s + 1)]) => Found(disk'[Start(s + 1)])
  <2>1. PICK d \in Nat : d = s + 1 /\ d <= info.super_block_idx + 17
    BY <1>2
  <2>2. Start(d) \in DOMAIN disk
    BY <1>1, <2>1, StartCells DEF Groups
  <2>3. Fits
    BY DEF Small
  <2> QED
    BY <2>1, <2>2, <2>3, WriteKeeps
<1>11. CASE w.lba \in {1, s + 1, s + 2}
  <2>1. w.lba # b /\ \A j \in 0 .. 2 : w.lba # t + j
    BY <1>6, <1>11
  <2> QED
    BY <1>1, <1>2, <1>5, <1>6, <1>7, <1>8, <1>9, <1>10, <2>1, OnDiskStays
<1>12. CASE n = 1 /\ w.lba \in {b, t} /\ \A c \in 0 .. 3 : w.data[c] = Zero
  <2>1. Zero # One /\ \A i : ~IsInode(Zero, i)
    BY DEF Zero, One, IsInode
  <2>2. \A i \in 1 .. 4 : disk[b * 4 + i - 1] # One
    BY <1>6, <1>12 DEF OnDisk, Marks
  <2>3. k = 1
    BY <1>12 DEF OnDisk
  <2>4. \A i \in 1 .. MAX_FILES : ~IsInode(disk[t * 4 + i], i)
    BY <1>6, <2>3 DEF OnDisk, InTable
  <2>5. \A i \in 1 .. 4 : disk'[b * 4 + i - 1] # One
    BY <1>7, <1>12, <2>1, <2>2
  <2>6. \A i \in 1 .. MAX_FILES : ~IsInode(disk'[t * 4 + i], i)
    BY <1>8, <1>9, <1>12, <2>1, <2>4
  <2>7. Bitmap' = b /\ Inodes' = t
    BY <1>1, <1>6 DEF Bitmap, Inodes
  <2>8. Marks(n)'
    BY <1>12, <2>5, <2>7 DEF Marks
  <2>9. InTable(k)'
    BY <2>3, <2>6, <2>7 DEF InTable, IsInode
  <2> QED
    BY <1>5, <1>12, <2>3, <2>8, <2>9 DEF OnDisk
<1>13. \/ w.lba \in {1, s + 1, s + 2}
       \/ n = 1 /\ w.lba \in {b, t} /\ \A c \in 0 .. 3 : w.data[c] = Zero
  BY <1>2, <1>3, <1>6 DEF MountSector
<1> QED
  BY <1>11, <1>12, <1>13


\* Descriptor and block bitmap arrive, the mark and the inode are still to come.
LEMMA BitmapArrives ==
  ASSUME Typed, Groups, Small, WriteSector, NEW n \in 1 .. 4, NEW k \in 1 .. 4, OnDisk(n, k),
         NEW m \in 2 .. 4, m <= MAX_FILES, Creating(n, m), Len(todo) >= 3
  PROVE  OnDisk(n, k)' /\ Creating(n, m)'
<1>1. /\ info' = info /\ mounts' = mounts /\ todo' = Tail(todo) /\ todo \in Seq(Write) /\ todo # <<>>
  BY DEF Typed, WriteSector
<1>2. PICK s \in 1 .. 11 : s = info.super_block_idx
  BY SmallArrives
<1>3. PICK b \in Nat, t \in Nat : b = Bitmap /\ t = Inodes /\ b = s + 3 /\ t = s + 4
  <2>1. Bitmap = s + 3 /\ Inodes = s + 4
    BY <1>2 DEF Bitmap, Inodes
  <2>2. s + 3 \in Nat /\ s + 4 \in Nat
    OBVIOUS
  <2> QED
    BY <2>1, <2>2
<1>4. PICK w \in Write : w = Head(todo) /\ w.lba \in {s + 1, s + 2}
  <2>1. Head(todo) = todo[1] /\ Head(todo) \in Write
    BY <1>1
  <2>2. Len(todo) = 4 \/ Len(todo) = 3
    <3>1. Len(todo) \in Nat
      BY <1>1
    <3>2. PICK l \in Nat : l = Len(todo)
      BY <3>1
    <3>3. l <= 4 /\ l >= 3
      BY <3>2 DEF Creating
    <3>4. l = 4 \/ l = 3
      BY <3>3
    <3> QED
      BY <3>2, <3>4
  <2>3. CASE Len(todo) = 4
    <3>1. todo[1].lba = s + 1
      BY <1>2, <2>3 DEF Creating
    <3> QED
      BY <2>1, <3>1
  <2>4. CASE Len(todo) = 3
    <3>1. todo[3 - 2].lba = s + 2
      BY <1>2, <2>4 DEF Creating
    <3> QED
      BY <2>1, <3>1
  <2> QED
    BY <2>2, <2>3, <2>4
<1>5. \A block \in Nat : block <= s + 17 /\ block # s + 1 /\ block # s + 2 =>
         \A c \in 0 .. 3 : disk'[block * 4 + c] = disk[block * 4 + c]
  BY <1>2, <1>4, SmallArrives
<1>6. \A i \in 1 .. 4 : disk'[b * 4 + i - 1] = disk[b * 4 + i - 1]
  <2>1. w.lba # b
    BY <1>3, <1>4
  <2> QED
    BY <1>3, <1>4, <2>1, SmallArrives
<1>7. \A i \in 1 .. MAX_FILES : disk'[t * 4 + i] = disk[t * 4 + i]
  <2>1. ASSUME NEW i \in 1 .. MAX_FILES PROVE disk'[t * 4 + i] = disk[t * 4 + i]
    <3>1. MAX_FILES \in Nat
      BY Geometry DEF Typed
    <3>2. w.lba # t + (i \div 4)
      BY <1>3, <1>4, <3>1
    <3> QED
      BY <1>3, <1>4, <3>2, SmallArrives
  <2> QED
    BY <2>1
<1>8. Found(disk[Start(s + 1)]) => Found(disk'[Start(s + 1)])
  <2>1. PICK d \in Nat : d = s + 1 /\ d <= info.super_block_idx + 17
    <3>1. s + 1 \in Nat /\ s + 1 <= s + 17
      OBVIOUS
    <3> QED
      BY <1>2, <3>1
  <2>2. Start(d) \in DOMAIN disk
    BY <1>1, <2>1, StartCells DEF Groups, Typed
  <2>3. Fits
    BY DEF Small
  <2> QED
    BY <2>1, <2>2, <2>3, WriteKeeps
<1>9. OnDisk(n, k)'
  BY <1>1, <1>2, <1>3, <1>6, <1>7, <1>8, OnDiskStays
<1>10. MarkOf(m)' = MarkOf(m)
  <2>1. \A c \in 0 .. 3 : disk'[b * 4 + c] = disk[b * 4 + c]
    <3>1. b <= s + 17 /\ b # s + 1 /\ b # s + 2
      BY <1>3
    <3> QED
      BY <1>5, <3>1
  <2>2. Bitmap' = Bitmap
    BY <1>1 DEF Bitmap
  <2> QED
    BY <1>3, <2>1, <2>2 DEF MarkOf
<1>11. InodeOf(m)' = InodeOf(m)
  <2>1. PICK x \in Nat : x = t + (m \div 4) /\ x <= s + 17 /\ x # s + 1 /\ x # s + 2
    BY <1>3
  <2>2. \A c \in 0 .. 3 : disk'[x * 4 + c] = disk[x * 4 + c]
    BY <1>5, <2>1
  <2>3. Inodes' = Inodes
    BY <1>1 DEF Inodes
  <2> QED
    BY <1>1, <1>3, <2>1, <2>2, <2>3 DEF InodeOf
<1>12. \A i \in 2 .. m - 1 : disk'[t * 4 + i] = Inode(i, mounts)
  <2>1. \A i \in 2 .. m - 1 : i \in 1 .. MAX_FILES
    BY Geometry DEF Typed
  <2> QED
    BY <1>3, <1>7, <2>1 DEF Creating
<1>13. PICK l \in 2 .. 3 : /\ l = Len(todo) - 1 /\ l = Len(todo')
                           /\ \A i \in 1 .. l : todo'[i] = todo[i + 1]
  <2>1. Len(todo) \in Nat /\ Len(todo) <= 4 /\ Len(todo') = Len(todo) - 1
        /\ \A i \in 1 .. Len(todo) - 1 : todo'[i] = todo[i + 1]
    BY <1>1 DEF Creating
  <2> QED
    BY <2>1
<1>14. /\ todo'[l] = InodeOf(m) /\ todo'[l - 1] = MarkOf(m)
       /\ l = 3 => todo'[1].lba = s + 2
  <2>1. todo[l + 1] = InodeOf(m) /\ todo[l] = MarkOf(m) /\ todo[l - 1].lba = s + 2
    BY <1>2, <1>13 DEF Creating
  <2>2. l - 1 + 1 = l /\ (l = 3 => l - 2 = 1 /\ 1 + 1 = l - 1) /\ l \in 1 .. l /\ l - 1 \in 1 .. l /\ 1 \in 1 .. l
    BY <1>13
  <2>3. todo'[l] = todo[l + 1] /\ todo'[l - 1] = todo[l] /\ (l = 3 => todo'[1] = todo[l - 1])
    BY <1>13, <2>2
  <2> QED
    BY <2>1, <2>3
<1>15. Creating(n, m)'
  <2>1. Inodes' = t /\ Start(info.super_block_idx + 1)' = Start(s + 1) /\ info'.super_block_idx = s
    BY <1>1, <1>2, <1>3 DEF Inodes, Start
  <2>2. Found(disk'[Start(s + 1)])
    BY <1>2, <1>8 DEF Creating
  <2> QED
    <3>1. /\ Len(todo') = l /\ todo'[Len(todo')] = InodeOf(m)' /\ todo'[Len(todo') - 1] = MarkOf(m)'
          /\ Len(todo') >= 3 => todo'[Len(todo') - 2].lba = info'.super_block_idx + 2
      <4>1. Len(todo') = l
        BY <1>13
      <4>2. todo'[l] = InodeOf(m)' /\ todo'[l - 1] = MarkOf(m)'
        BY <1>10, <1>11, <1>14
      <4>3. l >= 3 => l - 2 = 1 /\ todo'[1].lba = s + 2
        BY <1>14
      <4> QED
        BY <2>1, <4>1, <4>2, <4>3
    <3>2. \A i \in 2 .. m - 1 : disk'[Inodes' * 4 + i] = Inode(i, mounts)'
      BY <1>1, <1>12, <2>1 DEF Inode
    <3>3. Len(todo') <= 4 /\ ~(Len(todo') = 4) /\ ~(Len(todo') <= 1) /\ ~(Len(todo') = 0)
      BY <1>13
    <3>4. Found(disk'[Start(info.super_block_idx + 1)'])
      BY <2>1, <2>2
    <3> QED
      BY <3>1, <3>2, <3>3, <3>4 DEF Creating
<1> QED
  BY <1>9, <1>15


\* The mark arrives: that of the next file, if it is not there from earlier mounts.
LEMMA MarkArrives ==
  ASSUME Typed, Groups, Small, WriteSector, NEW n \in 1 .. 4, NEW k \in 1 .. 4, OnDisk(n, k),
         NEW m \in 2 .. 4, m <= MAX_FILES, Creating(n, m), Len(todo) = 2
  PROVE  \E x \in 1 .. 4 : OnDisk(x, k)' /\ Creating(x, m)'
<1>1. /\ info' = info /\ mounts' = mounts /\ todo' = Tail(todo) /\ todo \in Seq(Write) /\ todo # <<>>
      /\ MAX_FILES \in Nat
  BY Geometry DEF Typed, WriteSector
<1>2. PICK s \in 1 .. 11 : s = info.super_block_idx
  BY SmallArrives
<1>3. PICK b \in Nat, t \in Nat : b = Bitmap /\ t = Inodes /\ b = s + 3 /\ t = s + 4
  BY <1>2 DEF Bitmap, Inodes
<1>4. Head(todo) = MarkOf(m) /\ todo[2] = InodeOf(m)
  <2>1. todo[Len(todo) - 1] = MarkOf(m) /\ todo[Len(todo)] = InodeOf(m)
    BY DEF Creating
  <2>2. Head(todo) = todo[1]
    BY <1>1
  <2> QED
    BY <2>1, <2>2
<1>5. PICK w \in Write : /\ w = Head(todo) /\ w.lba = b
                         /\ \A c \in 0 .. 3 : w.data[c] = IF c = m - 1 THEN One ELSE disk[b * 4 + c]
  <2>1. Head(todo) \in Write
    BY <1>1
  <2> QED
    BY <1>3, <1>4, <2>1 DEF MarkOf
<1>6. ASSUME NEW i \in 1 .. 4
      PROVE  disk'[b * 4 + i - 1] = IF i = m THEN One ELSE disk[b * 4 + i - 1]
  <2>1. disk'[b * 4 + i - 1] = w.data[i - 1]
    BY <1>3, <1>5, SmallArrives
  <2>2. w.data[i - 1] = IF i - 1 = m - 1 THEN One ELSE disk[b * 4 + (i - 1)]
    BY <1>5
  <2>3. b * 4 + (i - 1) = b * 4 + i - 1 /\ (i - 1 = m - 1 <=> i = m)
    BY <1>3
  <2> QED
    BY <2>1, <2>2, <2>3
<1>7. ASSUME NEW i \in 1 .. MAX_FILES PROVE disk'[t * 4 + i] = disk[t * 4 + i]
  <2>1. w.lba # t + (i \div 4)
    BY <1>1, <1>3, <1>5
  <2> QED
    BY <1>3, <1>5, <2>1, SmallArrives
<1>8. Found(disk[Start(s + 1)]) /\ Found(disk'[Start(s + 1)])
  <2>1. PICK d \in Nat : d = s + 1 /\ d <= info.super_block_idx + 17
    BY <1>2
  <2>2. Start(d) \in DOMAIN disk
    BY <1>1, <2>1, StartCells DEF Groups, Typed
  <2>3. Fits
    BY DEF Small
  <2>4. Found(disk[Start(s + 1)])
    BY <1>2 DEF Creating
  <2> QED
    BY <2>1, <2>2, <2>3, <2>4, WriteKeeps
<1>9. m - 1 <= k /\ k <= n /\ k >= n - 1 /\ n <= MAX_FILES
  <2>1. k <= n /\ k >= n - 1 /\ n <= MAX_FILES
    BY DEF OnDisk
  <2>2. CASE m = 2
    BY <2>1, <2>2
  <2>3. CASE m # 2
    <3>1. PICK i \in 1 .. MAX_FILES : i = m - 1 /\ i \in 2 .. m - 1
      BY <1>1, <2>3
    <3>2. IsInode(disk[t * 4 + i], i)
      BY <1>3, <3>1 DEF Creating, IsInode, Inode
    <3>3. i <= k
      BY <1>3, <3>1, <3>2 DEF OnDisk, InTable
    <3> QED
      BY <2>1, <3>1, <3>3
  <2> QED
    BY <2>2, <2>3
<1>10. PICK x \in 1 .. 4 : /\ x = IF m <= n THEN n ELSE m
                           /\ x <= MAX_FILES /\ k \in 1 .. x /\ k >= x - 1 /\ m <= x
                           /\ \A i \in 1 .. 4 : (2 <= i /\ i <= x) <=> (i = m \/ (2 <= i /\ i <= n))
  BY <1>9
<1>11. Bitmap' = b /\ Inodes' = t /\ Start(info.super_block_idx + 1)' = Start(s + 1)
  BY <1>1, <1>2, <1>3 DEF Bitmap, Inodes, Start
<1>12. Marks(x)'
  <2>1. \A i \in 1 .. 4 : disk[b * 4 + i - 1] = One <=> (2 <= i /\ i <= n)
    BY <1>3 DEF OnDisk, Marks
  <2>2. \A i \in 1 .. 4 : disk'[b * 4 + i - 1] = One <=> (2 <= i /\ i <= x)
    BY <1>6, <1>10, <2>1
  <2> QED
    BY <1>11, <2>2 DEF Marks
<1>13. InTable(k)'
  <2>1. \A i \in 1 .. MAX_FILES : IsInode(disk[t * 4 + i], i) <=> (2 <= i /\ i <= k)
    BY <1>3 DEF OnDisk, InTable
  <2> QED
    BY <1>7, <1>11, <2>1 DEF InTable, IsInode
<1>14. OnDisk(x, k)'
  BY <1>8, <1>10, <1>11, <1>12, <1>13 DEF OnDisk
<1>15. InodeOf(m)' = InodeOf(m)
  <2>1. PICK y \in Nat : y = t + (m \div 4) /\ y <= info.super_block_idx + 17 /\ y # b
    BY <1>2, <1>3
  <2>2. \A c \in 0 .. 3 : disk'[y * 4 + c] = disk[y * 4 + c]
    BY <1>5, <2>1, SmallArrives
  <2> QED
    BY <1>1, <1>3, <1>11, <2>1, <2>2 DEF InodeOf
<1>16. Len(todo') = 1 /\ todo'[1] = InodeOf(m)
  BY SMTT(30), <1>1, <1>4
<1>17. \A i \in 2 .. m - 1 : disk'[t * 4 + i] = Inode(i, mounts)
  <2>1. \A i \in 2 .. m - 1 : i \in 1 .. MAX_FILES
    BY <1>1
  <2> QED
    BY <1>3, <1>7, <2>1 DEF Creating
<1>18. Creating(x, m)'
  <2>1. todo'[Len(todo')] = InodeOf(m)' /\ ~(Len(todo') >= 2) /\ ~(Len(todo') >= 3) /\ Len(todo') <= 4
        /\ Len(todo') # 4 /\ Len(todo') # 0
    BY <1>15, <1>16
  <2>2. \A i \in 2 .. m - 1 : disk'[Inodes' * 4 + i] = Inode(i, mounts)'
    BY <1>1, <1>11, <1>17 DEF Inode
  <2> QED
    BY <1>8, <1>10, <1>11, <2>1, <2>2 DEF Creating
<1> QED
  BY <1>14, <1>18


\* The inode arrives behind its mark.
LEMMA InodeArrives ==
  ASSUME Typed, Groups, Small, WriteSector, NEW n \in 1 .. 4, NEW k \in 1 .. 4, OnDisk(n, k),
         NEW m \in 2 .. 4, m <= MAX_FILES, Creating(n, m), Len(todo) = 1
  PROVE  \E x \in 1 .. 4 : OnDisk(n, x)' /\ Creating(n, m)'
<1>1. /\ info' = info /\ mounts' = mounts /\ todo' = Tail(todo) /\ todo \in Seq(Write) /\ todo # <<>>
      /\ MAX_FILES \in Nat
  BY Geometry DEF Typed, WriteSector
<1>2. PICK s \in 1 .. 11 : s = info.super_block_idx
  BY SmallArrives
<1>3. PICK b \in Nat, t \in Nat : b = Bitmap /\ t = Inodes /\ b = s + 3 /\ t = s + 4
  BY <1>2 DEF Bitmap, Inodes
<1>4. Head(todo) = InodeOf(m)
  <2>1. todo[Len(todo)] = InodeOf(m)
    BY DEF Creating
  <2>2. Head(todo) = todo[1]
    BY <1>1
  <2> QED
    BY <2>1, <2>2
<1>5. PICK w \in Write :
         /\ w = Head(todo) /\ w.lba = t + (m \div 4)
         /\ \A c \in 0 .. 3 :
               w.data[c] = IF c = m % 4 THEN Inode(m, mounts) ELSE disk[(t + (m \div 4)) * 4 + c]
  <2>1. Head(todo) \in Write
    BY <1>1
  <2> QED
    BY <1>3, <1>4, <2>1 DEF InodeOf
<1>6. ASSUME NEW i \in 1 .. 4 PROVE disk'[b * 4 + i - 1] = disk[b * 4 + i - 1]
  <2>1. w.lba # b
    BY <1>3, <1>5
  <2> QED
    BY <1>3, <1>5, <2>1, SmallArrives
<1>7. ASSUME NEW i \in 1 .. MAX_FILES
      PROVE  disk'[t * 4 + i] = IF i = m THEN Inode(m, mounts) ELSE disk[t * 4 + i]
  <2>1. disk'[t * 4 + i] = IF w.lba = t + (i \div 4) THEN w.data[i % 4] ELSE disk[t * 4 + i]
    BY <1>3, <1>5, SmallArrives
  <2>2. PICK q \in Nat, c \in 0 .. 3 : q = i \div 4 /\ c = i % 4 /\ i = q * 4 + c
    <3>1. i \in Nat
      BY <1>1
    <3> QED
      BY <3>1, CellOfSector
  <2>3. PICK p \in Nat, e \in 0 .. 3 : p = m \div 4 /\ e = m % 4 /\ m = p * 4 + e
    OBVIOUS
  <2>4. CASE p # q
    <3>1. i # m /\ t + p # t + q
      BY <1>3, <2>2, <2>3, <2>4
    <3> QED
      BY <1>5, <2>1, <2>2, <2>3, <3>1
  <2>5. CASE p = q
    <3>1. disk'[t * 4 + i] = IF c = e THEN Inode(m, mounts) ELSE disk[(t + p) * 4 + c]
      BY <1>5, <2>1, <2>2, <2>3, <2>5
    <3>2. (t + p) * 4 + c = t * 4 + i /\ (c = e <=> i = m)
      BY <1>3, <2>2, <2>3, <2>5
    <3> QED
      BY <3>1, <3>2
  <2> QED
    BY <2>4, <2>5
<1>8. Found(disk[Start(s + 1)]) /\ Found(disk'[Start(s + 1)])
  <2>1. PICK d \in Nat : d = s + 1 /\ d <= info.super_block_idx + 17
    BY <1>2
  <2>2. Start(d) \in DOMAIN disk
    BY <1>1, <2>1, StartCells DEF Groups, Typed
  <2>3. Fits
    BY DEF Small
  <2>4. Found(disk[Start(s + 1)])
    BY <1>2 DEF Creating
  <2> QED
    BY <2>1, <2>2, <2>3, <2>4, WriteKeeps
<1>9. m <= n /\ k <= n /\ k >= n - 1 /\ n <= MAX_FILES
  <2>1. k <= n /\ k >= n - 1 /\ n <= MAX_FILES
    BY DEF OnDisk
  <2>2. m <= n
    BY DEF Creating
  <2> QED
    BY <2>1, <2>2
<1>10. PICK x \in 1 .. 4 : /\ x = IF m <= k THEN k ELSE m
                           /\ x \in 1 .. n /\ x >= n - 1
                           /\ \A i \in 1 .. MAX_FILES : (2 <= i /\ i <= x) <=> (i = m \/ (2 <= i /\ i <= k))
  BY <1>1, <1>9
<1>11. Bitmap' = b /\ Inodes' = t /\ Start(info.super_block_idx + 1)' = Start(s + 1)
  BY <1>1, <1>2, <1>3 DEF Bitmap, Inodes, Start
<1>12. Marks(n)'
  BY <1>3, <1>6, <1>11 DEF OnDisk, Marks
<1>13. InTable(x)'
  <2>1. \A i \in 1 .. MAX_FILES : IsInode(disk[t * 4 + i], i) <=> (2 <= i /\ i <= k)
    BY <1>3 DEF OnDisk, InTable
  <2>2. IsInode(Inode(m, mounts), m)
    BY DEF Inode, IsInode
  <2>3. \A i \in 1 .. MAX_FILES : IsInode(disk'[t * 4 + i], i) <=> (2 <= i /\ i <= x)
    BY <1>7, <1>10, <2>1, <2>2
  <2> QED
    BY <1>11, <2>3 DEF InTable, IsInode
<1>14. OnDisk(n, x)'
  BY <1>8, <1>9, <1>10, <1>11, <1>12, <1>13 DEF OnDisk
<1>15. Len(todo') = 0
  BY <1>1
<1>16. \A i \in 2 .. m : disk'[t * 4 + i] = Inode(i, mounts)
  <2>1. ASSUME NEW i \in 2 .. m PROVE disk'[t * 4 + i] = Inode(i, mounts)
    <3>1. i \in 1 .. MAX_FILES
      BY <1>1
    <3>2. CASE i = m
      BY <1>7, <3>1, <3>2
    <3>3. CASE i # m
      <4>1. i \in 2 .. m - 1
        BY <3>3
      <4> QED
        BY <1>3, <1>7, <3>1, <3>3, <4>1 DEF Creating
    <3> QED
      BY <3>2, <3>3
  <2> QED
    BY <2>1
<1>17. Creating(n, m)'
  <2>1. ~(Len(todo') >= 1) /\ ~(Len(todo') >= 2) /\ ~(Len(todo') >= 3) /\ Len(todo') <= 4 /\ Len(todo') # 4
    BY <1>15
  <2>2. /\ \A i \in 2 .. m - 1 : disk'[Inodes' * 4 + i] = Inode(i, mounts)'
        /\ disk'[Inodes' * 4 + m] = Inode(m, mounts)'
    <3>1. \A i \in 2 .. m - 1 : i \in 2 .. m
      OBVIOUS
    <3>2. m \in 2 .. m
      OBVIOUS
    <3> QED
      BY <1>1, <1>11, <1>16, <3>1, <3>2 DEF Inode
  <2> QED
    BY <1>8, <1>9, <1>11, <2>1, <2>2 DEF Creating
<1> QED
  BY <1>14, <1>17

\* The second group's descriptor arrives.
LEMMA SecondArrives ==
  ASSUME Typed, Small, WriteSector, NEW m, SecondGroup(m)
  PROVE  ~Small'
<1>1. PICK b \in Nat : b = info.super_block_idx + 2 /\ b <= info.super_block_idx + 17
  <2>1. info.super_block_idx \in Nat
    BY SmallArrives
  <2> QED
    BY <2>1
<1>2. /\ info \in Descriptors /\ info' = info /\ disk \in Disk /\ Head(todo) \in Write
      /\ disk' = Stored(disk, Head(todo)) /\ Head(todo) = todo[1]
  BY DEF Typed, WriteSector
<1>3. disk'[Start(b)] = todo[1].data[0]
  BY <1>1, <1>2, StoredCells DEF SecondGroup
<1>4. Found(disk'[Start(b)])
  BY <1>3 DEF SecondGroup
<1> QED
  BY <1>1, <1>2, <1>4 DEF Small, Start


\* What a constructor may write to a block while n is the last file.
LEMMA MountingBlock ==
  ASSUME info \in Descriptors, info.block_size = 4, NEW n, NEW object \in Cell,
         NEW block \in Nat, block <= info.super_block_idx + 17,
         \/ block \in {1, info.super_block_idx + 1, info.super_block_idx + 2}
         \/ n = 1 /\ block \in {Bitmap, Inodes} /\ object = Zero
  PROVE  write_object_to_block(object, block) \in Seq(MountSector(n))
<1>0. PICK buffer : buffer = [c \in InBlock |-> IF c = 0 THEN object ELSE Zero]
  OBVIOUS
<1>1. /\ buffer = [c \in InBlock |-> IF c = 0 THEN object ELSE Zero]
      /\ \A c \in 0 .. 3 : buffer[c] = IF c = 0 THEN object ELSE Zero
  <2>1. InBlock = 0 .. 3
    BY SmallBlock
  <2> QED
    BY <1>0, <2>1
<1>2. PICK s \in Seq(Write) : s = write_object_to_block(object, block)
  BY WriteType
<1>3. Len(s) = 1 /\ s[1].lba = block /\ \A c \in 0 .. 3 : s[1].data[c] = buffer[c]
  BY <1>1, <1>2, SmallWrite DEF write_object_to_block
<1>4. s[1] \in Write
  <2>1. 1 \in 1 .. Len(s)
    BY <1>3
  <2> QED
    BY <2>1, ElementOfSeq
<1>5. s[1] \in MountSector(n)
  BY <1>1, <1>3, <1>4 DEF MountSector
<1>6. \A i \in 1 .. Len(s) : s[i] \in MountSector(n)
  BY <1>3, <1>5
<1>7. s \in Seq(MountSector(n))
  BY <1>2, <1>6
<1> QED
  BY <1>2, <1>7

\* A constructor comes after the files that are there.
LEMMA MountFiles ==
  ASSUME Typed, Groups, Small, NEW n \in 1 .. 4, NEW k \in 1 .. 4, OnDisk(n, k), Mount
  PROVE  OnDisk(n, k)' /\ InProgress(n)'
<1>1. /\ info \in Descriptors /\ info' = info /\ disk' = disk /\ info.block_size = 4 /\ Fits
      /\ MAX_FILES \in Nat /\ MAX_FILES >= 1
  BY Geometry DEF Typed, Small, Mount
<1>2. PICK s \in 1 .. 11 : s = info.super_block_idx
  BY <1>1, FitFacts
<1>3. OnDisk(n, k)'
  BY <1>1, OnDiskStays
<1>4. todo' = get_super_block \o IF Found(disk[Start(s + 1)]) THEN <<>> ELSE NewGroup(s + 1)
  BY <1>1, <1>2, MountKeeps
<1>5. get_super_block \in Seq(MountSector(n))
  <2>1. PICK one \in Nat : one = 1 /\ one <= s + 17
    OBVIOUS
  <2>2. SuperBlock \in Cell
    BY CellKinds
  <2>3. write_object_to_block(SuperBlock, one) \in Seq(MountSector(n))
    BY <1>1, <1>2, <2>1, <2>2, MountingBlock
  <2> QED
    BY <2>1, <2>3 DEF get_super_block
<1>6. ~Found(disk[Start(s + 1)]) => NewGroup(s + 1) \in Seq(MountSector(n))
  <2>1. SUFFICES ASSUME ~Found(disk[Start(s + 1)]) PROVE NewGroup(s + 1) \in Seq(MountSector(n))
    OBVIOUS
  <2>2. n = 1
    BY <1>2, <2>1 DEF OnDisk
  <2>3. PICK b \in Nat, x \in Nat, y \in Nat, z \in Nat : b = s + 1 /\ x = s + 2 /\ y = s + 3 /\ z = s + 4
    OBVIOUS
  <2>4. PICK g \in Cell : /\ g = BlockGroupDescriptor(b) /\ g[2] = x /\ g[3] = y /\ g[4] = z
    <3>1. b \in {info.super_block_idx + 1, info.super_block_idx + 2}
      BY <1>2, <2>3
    <3>2. BlockGroupDescriptor(b)[2] = x /\ BlockGroupDescriptor(b)[3] = y /\ BlockGroupDescriptor(b)[4] = z
      BY <1>1, <1>2, <2>3, <3>1, GroupBlocks
    <3> QED
      BY <2>3, <3>2, CellKinds
  <2>5. y = Bitmap /\ z = Inodes /\ Zero \in Cell /\ b <= s + 17 /\ x <= s + 17 /\ y <= s + 17 /\ z <= s + 17
    BY <1>2, <2>3, CellKinds DEF Bitmap, Inodes
  <2>6. write_object_to_block(g, b) \in Seq(MountSector(n))
    BY <1>1, <1>2, <2>3, <2>4, <2>5, MountingBlock
  <2>7. zero_block(x) \in Seq(MountSector(n))
    BY <1>1, <1>2, <2>3, <2>5, MountingBlock DEF zero_block
  <2>8. zero_block(y) \in Seq(MountSector(n))
    BY <1>1, <1>2, <2>2, <2>3, <2>5, MountingBlock DEF zero_block
  <2>9. zero_block(z) \in Seq(MountSector(n))
    BY <1>1, <1>2, <2>2, <2>3, <2>5, MountingBlock DEF zero_block
  <2>10. write_object_to_block(g, b) \o zero_block(x) \o zero_block(y) \o zero_block(z) \in Seq(MountSector(n))
    BY <2>6, <2>7, <2>8, <2>9, ConcatProperties
  <2>11. NewGroup(b) \in Seq(MountSector(n))
    BY <2>4, <2>10 DEF NewGroup
  <2> QED
    BY <2>3, <2>11
<1>7. todo' \in Seq(MountSector(n))
  <2>1. <<>> \in Seq(MountSector(n))
    OBVIOUS
  <2> QED
    BY <1>4, <1>5, <1>6, <2>1, ConcatProperties
<1>8. MountSector(n)' = MountSector(n)
  BY <1>1 DEF MountSector, Bitmap, Inodes
<1>9. \A i \in 1 .. MAX_FILES : cache'[i].inode_idx = 0 <=> i > 1
  <2>1. cache' = [i \in 1 .. MAX_FILES + 1 |-> IF i = 1 THEN Entry(1, "root", FALSE) ELSE Unused]
    BY DEF Mount, NoCache
  <2> QED
    BY <1>1, <2>1 DEF Unused, Entry
<1>10. PICK m \in 1 .. MAX_FILES : m = 1
  BY <1>1
<1>11. Entries(m)' /\ Mounting(n, m)'
  BY <1>7, <1>8, <1>9, <1>10 DEF Entries, Mounting
<1> QED
  BY <1>3, <1>10, <1>11 DEF InProgress


\* One element more.
LEMMA OneMore ==
  ASSUME NEW S, NEW u \in Seq(S), NEW e \in S, NEW n \in Nat, n = Len(u)
  PROVE  /\ u \o <<e>> \in Seq(S) /\ Len(u \o <<e>>) = n + 1
         /\ \A i \in 1 .. n : (u \o <<e>>)[i] = u[i]
         /\ (u \o <<e>>)[n + 1] = e
<1>1. <<e>> \in Seq(S) /\ Len(<<e>>) = 1 /\ <<e>>[1] = e
  OBVIOUS
<1>2. u \o <<e>> \in Seq(S) /\ Len(u \o <<e>>) = n + 1
  BY <1>1, ConcatProperties
<1>3. \A i \in 1 .. n : (u \o <<e>>)[i] = u[i]
  BY <1>1, ConcatProperties
<1>4. (u \o <<e>>)[n + 1] = <<e>>[n + 1 - n]
  BY <1>1, <1>2, ConcatProperties
<1>5. n + 1 - n = 1
  OBVIOUS
<1> QED
  BY <1>1, <1>2, <1>3, <1>4, <1>5

\* Four sectors, one after the other.
LEMMA FourSectors ==
  ASSUME NEW p, NEW q, NEW r, NEW t
  PROVE  /\ Len(<<p>> \o <<q>> \o <<r>> \o <<t>>) = 4
         /\ (<<p>> \o <<q>> \o <<r>> \o <<t>>)[1] = p /\ (<<p>> \o <<q>> \o <<r>> \o <<t>>)[2] = q
         /\ (<<p>> \o <<q>> \o <<r>> \o <<t>>)[3] = r /\ (<<p>> \o <<q>> \o <<r>> \o <<t>>)[4] = t
<1>0. PICK S : S = {p, q, r, t}
  OBVIOUS
<1>1. p \in S /\ q \in S /\ r \in S /\ t \in S
  BY <1>0
<1>2. <<p>> \in Seq(S) /\ Len(<<p>>) = 1 /\ <<p>>[1] = p
  BY <1>1
<1>3. PICK a : a = <<p>> \o <<q>>
  OBVIOUS
<1>4. a \in Seq(S) /\ Len(a) = 2 /\ a[1] = p /\ a[2] = q
  BY <1>1, <1>2, <1>3, OneMore
<1>5. PICK b : b = a \o <<r>>
  OBVIOUS
<1>6. b \in Seq(S) /\ Len(b) = 3 /\ b[1] = p /\ b[2] = q /\ b[3] = r
  BY <1>1, <1>4, <1>5, OneMore
<1>7. /\ Len(b \o <<t>>) = 4 /\ (b \o <<t>>)[1] = p /\ (b \o <<t>>)[2] = q
      /\ (b \o <<t>>)[3] = r /\ (b \o <<t>>)[4] = t
  <2>1. PICK n \in Nat : n = Len(b)
    BY <1>6
  <2>2. /\ Len(b \o <<t>>) = n + 1 /\ (b \o <<t>>)[n + 1] = t
        /\ \A i \in 1 .. n : (b \o <<t>>)[i] = b[i]
    <3>1. t \in S /\ b \in Seq(S)
      BY <1>1, <1>6
    <3> QED
      BY <2>1, <3>1, OneMore
  <2> QED
    BY <1>6, <2>1, <2>2
<1> QED
  BY <1>3, <1>5, <1>7

\* What CreateFile is going to write for a file of the first group.
LEMMA CreateFirst ==
  ASSUME Typed, Groups, Small, NEW name \in Names, CreateFile(name),
         NEW m \in 2 .. 4, m <= MAX_FILES, get_available_inode_idx = m
  PROVE  /\ Len(todo') = 4 /\ todo'[4] = InodeOf(m)' /\ todo'[3] = MarkOf(m)'
         /\ todo'[2].lba = info.super_block_idx + 2 /\ todo'[1].lba = info.super_block_idx + 1
         /\ Found(disk[Start(info.super_block_idx + 1)])
<1>1. /\ info \in Descriptors /\ disk \in Disk /\ InGroups(disk) /\ power = "on" /\ todo = <<>>
      /\ info' = info /\ disk' = disk /\ mounts' = mounts /\ info.block_size = 4 /\ Fits
      /\ MAX_FILES \in Nat
  BY CreateParts, Geometry DEF Typed, Groups, Small
<1>2. PICK s \in 1 .. 11 : s = info.super_block_idx
  BY <1>1, FitFacts
<1>3. PICK b \in Nat, x \in Nat, y \in Nat, z \in Nat :
         b = s + 1 /\ x = s + 2 /\ y = s + 3 /\ z = s + 4
  OBVIOUS
<1>4. PICK g \in Cell : /\ g = BlockGroupDescriptor(b) /\ g[2] = x /\ g[3] = y /\ g[4] = z
                        /\ b \in {info.super_block_idx + 1, info.super_block_idx + 2}
  <2>1. b \in {info.super_block_idx + 1, info.super_block_idx + 2}
    BY <1>2, <1>3
  <2>2. BlockGroupDescriptor(b)[2] = x /\ BlockGroupDescriptor(b)[3] = y /\ BlockGroupDescriptor(b)[4] = z
    <3>1. info \in Descriptors /\ Fits
      BY <1>1
    <3>2. PICK a \in Nat : a = info.super_block_idx /\ b = a + 1 /\ x = a + 2 /\ y = a + 3 /\ z = a + 4
      BY <1>2, <1>3
    <3> QED
      BY <2>1, <3>1, <3>2, GroupBlocks
  <2> QED
    BY <1>3, <2>1, <2>2, CellKinds
<1>5. Found(disk[Start(b)])
  BY <1>1, <1>2, <1>3, GroupsWhenIdle, FitFacts
<1>6. PICK idx \in 1 .. MAX_FILES : idx = m
  BY <1>1
<1>7. INODE_IDX_TO_BLOCK_GROUP(idx) = b /\ INODE_IDX_IN_BLOCK_GROUP(idx) = m - 1
  <2>1. info \in Descriptors /\ idx <= info.block_size
    BY <1>1, <1>6
  <2>2. /\ INODE_IDX_TO_BLOCK_GROUP(idx) = info.super_block_idx + 1
        /\ INODE_IDX_IN_BLOCK_GROUP(idx) = idx - 1
    BY <2>1, Places
  <2> QED
    BY <1>2, <1>3, <1>6, <2>2
<1>8. PICK got : got = get_block_group(disk, b) /\ got = CreateGot
  BY <1>6, <1>7 DEF CreateGot
<1>9. /\ got.writes = <<>> /\ got.bg.group_descriptor = g
      /\ got.bg.block_bitmap = read_storage(disk, x) /\ got.bg.inode_bitmap = read_storage(disk, y)
  <2>1. /\ got.writes = <<>>
        /\ got.bg.group_descriptor = g
        /\ got.bg.block_bitmap = read_storage(After(disk, got.writes), x)
        /\ got.bg.inode_bitmap = read_storage(After(disk, got.writes), y)
    <3>1. PICK second \in BOOLEAN : second = FALSE
      OBVIOUS
    <3> QED
      BY <1>1, <1>4, <1>5, <1>8, GetGroupKeeps
  <2> QED
    BY <1>1, <2>1, AfterNothing
<1>10. PICK bg \in Table : /\ bg = CreateTable /\ bg.group_descriptor = g
                           /\ bg.block_bitmap = read_storage(disk, x)
                           /\ bg.inode_bitmap = [read_storage(disk, y) EXCEPT ![m - 1] = One]
  BY <1>6, <1>7, <1>8, <1>9, CreateIndex
<1>11. /\ x <= s + 17 /\ y <= s + 17 /\ b <= s + 17
       /\ read_storage(disk, y) \in Buffer /\ bg.inode_bitmap \in Buffer /\ bg.block_bitmap \in Buffer
  <2>1. x <= s + 17 /\ y <= s + 17 /\ b <= s + 17
    BY <1>3
  <2>2. read_storage(disk, y) \in Buffer
    BY <1>1, <1>2, <2>1, ReadType
  <2> QED
    BY <2>1, <2>2 DEF Table
<1>12. PICK w1 : write_object_to_block(g, b) = <<w1>> /\ w1.lba = b
  <2>1. PICK f : f = [c \in 0 .. 3 |-> [e \in InBlock |-> IF e = 0 THEN g ELSE Zero][c]]
    OBVIOUS
  <2>2. PICK w : w = [lba |-> b, data |-> f]
    OBVIOUS
  <2>3. w.lba = b
    BY <2>2
  <2> QED
    BY <1>1, <2>1, <2>2, <2>3, SmallWrite DEF write_object_to_block
<1>13. PICK w2 : write_storage(bg.block_bitmap, x) = <<w2>> /\ w2.lba = x
  <2>1. PICK f : f = [c \in 0 .. 3 |-> bg.block_bitmap[c]]
    OBVIOUS
  <2>2. PICK w : w = [lba |-> x, data |-> f]
    OBVIOUS
  <2>3. w.lba = x
    BY <2>2
  <2> QED
    BY <1>1, <2>1, <2>2, <2>3, SmallWrite
<1>14. write_storage(bg.inode_bitmap, y) = <<MarkOf(m)>>
  <2>1. write_storage(bg.inode_bitmap, y) = <<[lba |-> y, data |-> [c \in 0 .. 3 |-> bg.inode_bitmap[c]]]>>
    BY <1>1, SmallWrite
  <2>2. ASSUME NEW c \in 0 .. 3
        PROVE  bg.inode_bitmap[c] = IF c = m - 1 THEN One ELSE disk[y * 4 + c]
    <3>1. InBlock = 0 .. 3 /\ Start(y) = y * 4
      BY <1>1, SmallBlock
    <3>2. read_storage(disk, y)[c] = disk[y * 4 + c]
      <4>1. info \in Descriptors /\ c \in InBlock
        BY <1>1, <3>1
      <4>2. read_storage(disk, y)[c] = disk[Start(y) + c]
        BY <4>1, ReadCells
      <4> QED
        BY <3>1, <4>2
    <3> QED
      BY <1>10, <1>11, <3>1, <3>2 DEF Buffer
  <2>3. MarkOf(m) = [lba |-> y, data |-> [c \in 0 .. 3 |-> IF c = m - 1 THEN One ELSE disk[y * 4 + c]]]
    BY <1>2, <1>3 DEF MarkOf, Bitmap
  <2> QED
    BY <2>1, <2>2, <2>3
<1>15. BitmapWrites(b, bg) = <<w1>> \o <<w2>> \o <<MarkOf(m)>>
  BY <1>4, <1>10, <1>12, <1>13, <1>14 DEF BitmapWrites
<1>16. PICK block \in Nat : block = z + INODE_IDX_CONTAINING_BLOCK(m) /\ block = z + (m \div 4)
                            /\ block <= s + 17 /\ block \notin {b, x, y}
  <2>1. INODE_IDX_CONTAINING_BLOCK(m) = m \div 4
    BY <1>1 DEF INODE_IDX_CONTAINING_BLOCK
  <2>2. PICK q \in 0 .. 1 : q = m \div 4
    OBVIOUS
  <2> QED
    BY <1>3, <2>1, <2>2
<1>17. PICK d : d = After(disk, BitmapWrites(b, bg)) /\ read_storage(d, block) = read_storage(disk, block)
  <2>1. write_object_to_block(g, b) \in Seq(Avoiding(block))
    <3>1. [c \in InBlock |-> IF c = 0 THEN g ELSE Zero] \in Buffer
      BY CellKinds DEF Buffer
    <3>2. write_object_to_block(g, b) \in Seq(Carrying([c \in InBlock |-> IF c = 0 THEN g ELSE Zero], b))
      BY <1>1, <1>2, <1>11, <3>1, WriteStorage DEF write_object_to_block, Buffer
    <3> QED
      BY <1>1, <1>16, <3>2, CarryingAvoids
  <2>2. write_storage(bg.block_bitmap, x) \in Seq(Avoiding(block))
    <3>1. write_storage(bg.block_bitmap, x) \in Seq(Carrying(bg.block_bitmap, x))
      BY <1>1, <1>2, <1>11, WriteStorage DEF Buffer
    <3> QED
      BY <1>1, <1>16, <3>1, CarryingAvoids
  <2>3. write_storage(bg.inode_bitmap, y) \in Seq(Avoiding(block))
    <3>1. write_storage(bg.inode_bitmap, y) \in Seq(Carrying(bg.inode_bitmap, y))
      BY <1>1, <1>2, <1>11, WriteStorage DEF Buffer
    <3> QED
      BY <1>1, <1>16, <3>1, CarryingAvoids
  <2>4. BitmapWrites(b, bg) \in Seq(Avoiding(block))
    BY <1>4, <1>10, <2>1, <2>2, <2>3, ConcatProperties DEF BitmapWrites
  <2> QED
    BY <1>1, <1>2, <1>16, <2>4, AfterAvoiding
<1>18. InodeWrite(d, g, m) = <<InodeOf(m)>>
  <2>1. PICK buffer : buffer = [read_storage(disk, block) EXCEPT ![m % 4] = Inode(m, mounts)]
    OBVIOUS
  <2>2. InodeWrite(d, g, m) = <<[lba |-> block, data |-> [c \in 0 .. 3 |-> buffer[c]]]>>
    <3>1. InodeWrite(d, g, m) = write_storage(buffer, block)
      BY <1>4, <1>16, <1>17, <2>1 DEF InodeWrite
    <3> QED
      BY <1>1, <3>1, SmallWrite
  <2>3. ASSUME NEW c \in 0 .. 3
        PROVE  buffer[c] = IF c = m % 4 THEN Inode(m, mounts) ELSE disk[block * 4 + c]
    <3>1. InBlock = 0 .. 3 /\ Start(block) = block * 4
      BY <1>1, SmallBlock
    <3>2. read_storage(disk, block)[c] = disk[block * 4 + c]
      <4>1. info \in Descriptors /\ c \in InBlock
        BY <1>1, <3>1
      <4>2. read_storage(disk, block)[c] = disk[Start(block) + c]
        BY <4>1, ReadCells
      <4> QED
        BY <3>1, <4>2
    <3>3. read_storage(disk, block) \in Buffer
      BY <1>1, <1>2, <1>16, ReadType
    <3> QED
      BY <2>1, <3>1, <3>2, <3>3 DEF Buffer
  <2>4. InodeOf(m) = [lba |-> block,
           data |-> [c \in 0 .. 3 |-> IF c = m % 4 THEN Inode(m, mounts) ELSE disk[block * 4 + c]]]
    BY <1>2, <1>3, <1>16 DEF InodeOf, Inodes
  <2> QED
    BY <2>2, <2>3, <2>4
<1>19. todo' = <<>> \o (<<w1>> \o <<w2>> \o <<MarkOf(m)>> \o <<InodeOf(m)>>)
  <2>1. todo' = got.writes \o write_block_group(After(disk, got.writes), b, bg, m)
    BY <1>6, <1>7, <1>8, <1>10, CreateParts
  <2>2. After(disk, got.writes) = disk
    BY <1>1, <1>9, AfterNothing
  <2>3. write_block_group(disk, b, bg, m) = <<w1>> \o <<w2>> \o <<MarkOf(m)>> \o <<InodeOf(m)>>
    BY <1>10, <1>15, <1>17, <1>18 DEF write_block_group
  <2> QED
    BY <1>9, <2>1, <2>2, <2>3
<1>20. PICK all : all = <<w1>> \o <<w2>> \o <<MarkOf(m)>> \o <<InodeOf(m)>> /\ all \in Seq({w1, w2, MarkOf(m), InodeOf(m)})
  <2>1. /\ <<w1>> \in Seq({w1, w2, MarkOf(m), InodeOf(m)}) /\ <<w2>> \in Seq({w1, w2, MarkOf(m), InodeOf(m)})
        /\ <<MarkOf(m)>> \in Seq({w1, w2, MarkOf(m), InodeOf(m)})
        /\ <<InodeOf(m)>> \in Seq({w1, w2, MarkOf(m), InodeOf(m)})
    OBVIOUS
  <2> QED
    BY <2>1, ConcatProperties
<1>21. todo' = all
  BY <1>19, <1>20, ConcatSimplifications
<1>22. Len(all) = 4 /\ all[1] = w1 /\ all[2] = w2 /\ all[3] = MarkOf(m) /\ all[4] = InodeOf(m)
  BY <1>20, FourSectors
<1>23. MarkOf(m)' = MarkOf(m) /\ InodeOf(m)' = InodeOf(m)
  BY <1>1 DEF MarkOf, InodeOf, Bitmap, Inodes
<1> QED
  BY <1>2, <1>3, <1>5, <1>12, <1>13, <1>21, <1>22, <1>23


\* CreateFile for a file of the first group.
LEMMA CreateFiles ==
  ASSUME Typed, Groups, Small, NEW n \in 1 .. 4, NEW k \in 1 .. 4, OnDisk(n, k),
         NEW name \in Names, CreateFile(name),
         NEW l \in 1 .. MAX_FILES, Entries(l), Mounting(n, l) \/ Creating(n, l), l <= 3
  PROVE  OnDisk(n, k)' /\ InProgress(n)'
<1>1. info' = info /\ disk' = disk /\ mounts' = mounts /\ todo = <<>> /\ MAX_FILES \in Nat
  BY CreateParts, Geometry DEF Typed
<1>2. OnDisk(n, k)'
  BY <1>1, OnDiskStays
<1>3. PICK m \in 1 .. MAX_FILES : m = l + 1 /\ m \in 2 .. 4 /\ get_available_inode_idx = m /\ Entries(m)'
  BY <1>1, NextEntry
<1>4. /\ Len(todo') = 4 /\ todo'[4] = InodeOf(m)' /\ todo'[3] = MarkOf(m)'
      /\ todo'[2].lba = info.super_block_idx + 2 /\ todo'[1].lba = info.super_block_idx + 1
      /\ Found(disk[Start(info.super_block_idx + 1)])
  BY <1>1, <1>3, CreateFirst
<1>5. \A i \in 2 .. m - 1 : disk[Inodes * 4 + i] = Inode(i, mounts)
  <2>1. CASE Mounting(n, l)
    <3>1. m = 2
      BY <1>3, <2>1 DEF Mounting
    <3> QED
      BY <3>1
  <2>2. CASE Creating(n, l)
    <3>1. Len(todo) = 0
      BY <1>1
    <3>2. \A i \in 2 .. l - 1 : disk[Inodes * 4 + i] = Inode(i, mounts)
      BY <2>2 DEF Creating
    <3>3. disk[Inodes * 4 + l] = Inode(l, mounts)
      BY <2>2, <3>1 DEF Creating
    <3>4. \A i \in 2 .. m - 1 : i \in 2 .. l - 1 \/ i = l
      BY <1>1, <1>3
    <3> QED
      BY <3>2, <3>3, <3>4
  <2> QED
    BY <2>1, <2>2
<1>6. Creating(n, m)'
  <2>1. /\ Inodes' = Inodes /\ Start(info.super_block_idx + 1)' = Start(info.super_block_idx + 1)
        /\ \A i : Inode(i, mounts)' = Inode(i, mounts)
    BY <1>1 DEF Inodes, Start, Inode
  <2>2. \A i \in 2 .. m - 1 : disk'[Inodes' * 4 + i] = Inode(i, mounts)'
    BY <1>1, <1>5, <2>1
  <2>3. Found(disk'[Start(info.super_block_idx + 1)'])
    BY <1>1, <1>4, <2>1
  <2>4. /\ Len(todo') <= 4 /\ ~(Len(todo') <= 1) /\ Len(todo') # 0
        /\ todo'[Len(todo')] = InodeOf(m)' /\ todo'[Len(todo') - 1] = MarkOf(m)'
        /\ todo'[Len(todo') - 2].lba = info'.super_block_idx + 2 /\ todo'[1].lba = info'.super_block_idx + 1
    BY <1>1, <1>4
  <2> QED
    BY <1>3, <2>2, <2>3, <2>4 DEF Creating
<1> QED
  BY <1>2, <1>3, <1>6 DEF InProgress

\* CreateFile for the fifth file.
LEMMA CreateSecond ==
  ASSUME Typed, Groups, Small, NEW n \in 1 .. 4, NEW k \in 1 .. 4, OnDisk(n, k),
         NEW name \in Names, CreateFile(name),
         NEW l \in 1 .. MAX_FILES, Entries(l), l = 4
  PROVE  OnDisk(n, k)' /\ InProgress(n)'
<1>1. /\ info \in Descriptors /\ disk \in Disk /\ InGroups(disk) /\ info.block_size = 4 /\ Fits
      /\ info' = info /\ disk' = disk /\ todo = <<>> /\ MAX_FILES \in Nat
      /\ ~Found(disk[Start(info.super_block_idx + 2)])
  BY CreateParts, Geometry DEF Typed, Groups, Small
<1>2. OnDisk(n, k)'
  BY <1>1, OnDiskStays
<1>3. PICK m \in 1 .. MAX_FILES : m = l + 1 /\ get_available_inode_idx = m /\ Entries(m)'
  BY NextEntry
<1>4. PICK b \in {info.super_block_idx + 1, info.super_block_idx + 2} :
         b = info.super_block_idx + 2 /\ b = INODE_IDX_TO_BLOCK_GROUP(m)
  <2>1. m > info.block_size /\ ~(m <= info.block_size)
    BY <1>1, <1>3
  <2> QED
    BY <1>1, <2>1, Places
<1>5. PICK got : got = get_block_group(disk, b) /\ got = CreateGot
  BY <1>3, <1>4 DEF CreateGot
<1>6. got.writes = NewGroup(b)
  <2>1. PICK second \in BOOLEAN : second = TRUE
    OBVIOUS
  <2>2. Found(disk[Start(b)]) \/ (second <=> b = info.super_block_idx + 2)
    BY <1>4, <2>1
  <2>3. got.writes = IF Found(disk[Start(b)]) THEN <<>> ELSE NewGroup(b)
    BY <1>1, <1>5, <2>2, GetGroupKeeps
  <2> QED
    BY <1>1, <1>4, <2>3
<1>7. PICK h \in Seq(Write) : /\ h = NewGroup(b) /\ Len(h) >= 1
                              /\ h[1].lba * 4 = Start(b) /\ h[1].data[0] = BlockGroupDescriptor(b)
  BY <1>1, NewGroupFirst
<1>8. PICK r \in Seq(Write) : todo' = h \o r
  <2>1. todo' = got.writes \o write_block_group(After(disk, got.writes), b, CreateTable, m)
    BY <1>3, <1>4, <1>5, CreateParts
  <2>2. After(disk, got.writes) \in Disk
    BY <1>1, <1>6, <1>7, AfterType
  <2>3. CreateTable \in Table /\ mounts \in 1 .. MaxMounts
    BY CreateIndex
  <2>4. write_block_group(After(disk, got.writes), b, CreateTable, m) \in Seq(Write)
    BY <1>1, <2>2, <2>3, WriteGroupType
  <2> QED
    BY <1>6, <1>7, <2>1, <2>4
<1>9. Len(todo') \in Nat /\ Len(todo') >= 1 /\ todo'[1] = h[1]
  BY <1>7, <1>8, FrontStays
<1>10. Found(BlockGroupDescriptor(b))
  BY <1>1, <1>4, FitFacts
<1>11. SecondGroup(m)'
  <2>1. todo' # <<>>
    BY <1>9
  <2>2. Start(info.super_block_idx + 2)' = Start(b)
    BY <1>1, <1>4 DEF Start
  <2> QED
    BY <1>3, <1>7, <1>9, <1>10, <2>1, <2>2 DEF SecondGroup
<1> QED
  BY <1>2, <1>3, <1>11 DEF InProgress


\* No file is on an empty disk.
LEMMA FilesInit == Init => Files
<1> SUFFICES ASSUME Init, Small PROVE Files
  BY DEF Files
<1>1. info \in Descriptors /\ power = "off" /\ todo = <<>> /\ disk = [c \in 0 .. Cells - 1 |-> Zero]
  BY DEF Init
<1>2. PICK s \in 1 .. 11 : s = info.super_block_idx
  BY <1>1, FitFacts DEF Small
<1>3. disk \in Disk /\ MAX_FILES \in Nat /\ MAX_FILES <= 8 /\ MAX_FILES >= 1 /\ info.block_size = 4
  BY <1>1, Geometry, CellKinds DEF Disk, Small
<1>4. PICK b \in Nat, t \in Nat : b = Bitmap /\ t = Inodes /\ b = s + 3 /\ t = s + 4
  BY <1>2 DEF Bitmap, Inodes
<1>5. \A block \in Nat : block <= s + 17 => \A c \in 0 .. 3 : disk[block * 4 + c] = Zero
  <2>1. ASSUME NEW block \in Nat, block <= s + 17, NEW c \in 0 .. 3 PROVE disk[block * 4 + c] = Zero
    <3>1. InBlock = 0 .. 3 /\ Start(block) = block * 4
      BY <1>1, <1>3, SmallBlock
    <3>2. block * 4 + c \in 0 .. Cells - 1
      BY <1>1, <1>2, <2>1, <3>1, BlockOnDisk
    <3> QED
      BY <1>1, <3>2
  <2> QED
    BY <2>1
<1>6. Zero # One /\ \A i : ~IsInode(Zero, i)
  BY DEF Zero, One, IsInode
<1>7. \A i \in 1 .. 4 : disk[b * 4 + i - 1] # One
  <2>1. ASSUME NEW i \in 1 .. 4 PROVE disk[b * 4 + i - 1] # One
    <3>1. PICK c \in 0 .. 3 : c = i - 1 /\ b * 4 + i - 1 = b * 4 + c /\ b <= s + 17
      BY <1>4
    <3> QED
      BY <1>5, <1>6, <3>1
  <2> QED
    BY <2>1
<1>8. \A i \in 1 .. MAX_FILES : ~IsInode(disk[t * 4 + i], i)
  <2>1. ASSUME NEW i \in 1 .. MAX_FILES PROVE ~IsInode(disk[t * 4 + i], i)
    <3>1. i \in Nat /\ i <= 8
      BY <1>3
    <3>2. PICK q \in Nat, c \in 0 .. 3 : i = q * 4 + c
      BY <3>1, CellOfSector
    <3>3. PICK block \in Nat : block = t + q /\ block <= s + 17 /\ t * 4 + i = block * 4 + c
      BY <1>4, <3>1, <3>2
    <3> QED
      BY <1>5, <1>6, <3>3
  <2> QED
    BY <2>1
<1>9. PICK one \in 1 .. 4 : one = 1
  OBVIOUS
<1>10. Marks(one) /\ InTable(one)
  BY <1>4, <1>7, <1>8, <1>9 DEF Marks, InTable
<1>11. OnDisk(one, one)
  BY <1>3, <1>9, <1>10 DEF OnDisk
<1> QED
  BY <1>1, <1>11 DEF Files

\* A sector arrives, whoever writes it.
LEMMA WriteFiles ==
  ASSUME Typed, Groups, Small, Small', NEW n \in 1 .. 4, NEW k \in 1 .. 4, OnDisk(n, k), InProgress(n),
         WriteSector
  PROVE  \E x \in 1 .. 4, y \in 1 .. 4 : OnDisk(x, y)' /\ InProgress(x)'
<1>1. PICK m \in 1 .. MAX_FILES : Entries(m) /\ (Mounting(n, m) \/ Creating(n, m) \/ SecondGroup(m))
  BY DEF InProgress
<1>2. Entries(m)' /\ MAX_FILES \in Nat /\ todo \in Seq(Write) /\ todo # <<>>
  BY <1>1, Geometry DEF WriteSector, Entries, Typed
<1>3. CASE Mounting(n, m)
  <2>1. OnDisk(n, k)' /\ Mounting(n, m)'
    BY <1>3, MountingWrites
  <2> QED
    BY <1>2, <2>1 DEF InProgress
<1>4. CASE Creating(n, m)
  <2>1. m \in 2 .. 4 /\ m <= MAX_FILES
    BY <1>2, <1>4 DEF Creating
  <2>2. PICK len \in Nat : len = Len(todo) /\ len >= 1
    BY <1>2
  <2>3. CASE len >= 3
    <3>1. OnDisk(n, k)' /\ Creating(n, m)'
      BY <1>4, <2>1, <2>2, <2>3, BitmapArrives
    <3> QED
      BY <1>2, <3>1 DEF InProgress
  <2>4. CASE len = 2
    <3>1. PICK x \in 1 .. 4 : OnDisk(x, k)' /\ Creating(x, m)'
      BY <1>4, <2>1, <2>2, <2>4, MarkArrives
    <3> QED
      BY <1>2, <3>1 DEF InProgress
  <2>5. CASE len = 1
    <3>1. PICK y \in 1 .. 4 : OnDisk(n, y)' /\ Creating(n, m)'
      BY <1>4, <2>1, <2>2, <2>5, InodeArrives
    <3> QED
      BY <1>2, <3>1 DEF InProgress
  <2> QED
    BY <2>2, <2>3, <2>4, <2>5
<1>5. CASE SecondGroup(m)
  BY <1>5, SecondArrives
<1> QED
  BY <1>1, <1>3, <1>4, <1>5

\* Every step keeps the files.
LEMMA FilesStep ==
  ASSUME Typed, Fits => Groups, Files, [Next]_vars
  PROVE  Files'
<1>1. SUFFICES ASSUME Small' PROVE Files'
  BY DEF Files
<1>2. info' = info
  BY DEF Next, vars, Mount, WriteSector, PowerOff, CreateFile, FailedAssertion
<1>3. Small /\ Groups /\ info \in Descriptors /\ MAX_FILES \in Nat /\ disk \in Disk /\ InGroups(disk)
  <2>1. Fits /\ info.block_size = 4 /\ ~Found(disk'[Start(info.super_block_idx + 2)])
    BY <1>1, <1>2 DEF Small, Fits, Start
  <2>2. info \in Descriptors /\ disk \in Disk /\ Groups /\ InGroups(disk)
    BY <2>1 DEF Typed, Groups
  <2>3. PICK b \in Nat : b = info.super_block_idx + 2 /\ b <= info.super_block_idx + 17
    <3>1. info.super_block_idx \in Nat
      BY <2>2, Geometry
    <3> QED
      BY <3>1
  <2>4. Start(b) \in DOMAIN disk
    BY <2>2, <2>3, StartCells
  <2>5. ~Found(disk[Start(b)])
    BY <2>1, <2>3, <2>4, GroupsStep
  <2>6. MAX_FILES \in Nat
    BY <2>2, Geometry
  <2> QED
    BY <2>1, <2>2, <2>3, <2>5, <2>6 DEF Small
<1>4. PICK n \in 1 .. 4, k \in 1 .. 4 : OnDisk(n, k) /\ (power = "on" => InProgress(n))
  BY <1>3 DEF Files
<1>5. power # "on" => todo = <<>>
  BY <1>3 DEF Files
<1>6. CASE Mount
  <2>1. OnDisk(n, k)' /\ InProgress(n)' /\ power' = "on"
    BY <1>3, <1>4, <1>6, MountFiles DEF Mount
  <2> QED
    BY <2>1 DEF Files
<1>7. ASSUME NEW name \in Names, CreateFile(name) PROVE Files'
  <2>1. power = "on" /\ power' = "on" /\ todo = <<>>
    BY <1>7, CreateParts
  <2>2. PICK l \in 1 .. MAX_FILES : Entries(l) /\ (Mounting(n, l) \/ Creating(n, l) \/ SecondGroup(l))
    BY <1>4, <2>1 DEF InProgress
  <2>3. (Mounting(n, l) \/ Creating(n, l)) /\ l \in 1 .. 4
    BY <2>1, <2>2 DEF SecondGroup, Mounting, Creating
  <2>4. CASE l <= 3
    <3>1. OnDisk(n, k)' /\ InProgress(n)'
      BY <1>3, <1>4, <1>7, <2>2, <2>3, <2>4, CreateFiles
    <3> QED
      BY <2>1, <3>1 DEF Files
  <2>5. CASE l = 4
    <3>1. OnDisk(n, k)' /\ InProgress(n)'
      BY <1>3, <1>4, <1>7, <2>2, <2>5, CreateSecond
    <3> QED
      BY <2>1, <3>1 DEF Files
  <2> QED
    BY <2>3, <2>4, <2>5
<1>8. ASSUME UNCHANGED <<info, disk>>, power' # "on", todo' = <<>> PROVE Files'
  <2>1. OnDisk(n, k)'
    BY <1>4, <1>8, OnDiskStays
  <2> QED
    BY <1>8, <2>1 DEF Files
<1>9. ASSUME NEW tooLong \in BOOLEAN, FailedAssertion(tooLong) PROVE Files'
  BY <1>8, <1>9 DEF FailedAssertion
<1>10. CASE WriteSector
  <2>1. power = "on" /\ power' = "on"
    BY <1>5, <1>10 DEF WriteSector
  <2>2. PICK x \in 1 .. 4, y \in 1 .. 4 : OnDisk(x, y)' /\ InProgress(x)'
    BY <1>1, <1>3, <1>4, <1>10, <2>1, WriteFiles
  <2> QED
    BY <2>1, <2>2 DEF Files
<1>11. CASE PowerOff
  BY <1>8, <1>11 DEF PowerOff
<1>12. CASE UNCHANGED vars
  <2>1. OnDisk(n, k)'
    BY <1>4, <1>12, OnDiskStays DEF vars
  <2>2. ASSUME power = "on" PROVE InProgress(n)'
    <3>1. PICK m \in 1 .. MAX_FILES : Entries(m) /\ (Mounting(n, m) \/ Creating(n, m) \/ SecondGroup(m))
      BY <1>4, <2>2 DEF InProgress
    <3>2. Entries(m)'
      BY <1>12, <3>1 DEF vars, Entries
    <3>3. Mounting(n, m) => Mounting(n, m)'
      BY <1>12 DEF vars, Mounting, MountSector, Bitmap, Inodes
    <3>4. Creating(n, m) => Creating(n, m)'
      <4>1. MarkOf(m)' = MarkOf(m) /\ InodeOf(m)' = InodeOf(m) /\ Inodes' = Inodes
            /\ Start(info.super_block_idx + 1)' = Start(info.super_block_idx + 1)
            /\ \A i : Inode(i, mounts)' = Inode(i, mounts)
        BY <1>12 DEF vars, MarkOf, InodeOf, Bitmap, Inodes, Start, Inode
      <4> QED
        BY <1>12, <4>1 DEF vars, Creating
    <3>5. SecondGroup(m) => SecondGroup(m)'
      BY <1>12 DEF vars, SecondGroup, Start
    <3> QED
      BY <3>1, <3>2, <3>3, <3>4, <3>5 DEF InProgress
  <2> QED
    BY <1>5, <1>12, <2>1, <2>2 DEF Files, vars
<1> QED
  BY <1>6, <1>7, <1>9, <1>10, <1>11, <1>12 DEF Next

\* The whole invariant holds in every reachable state.
LEMMA FilesHold == Spec => [](Typed /\ CacheIntact /\ (Fits => Groups) /\ Files)
<1>1. Init => Typed /\ CacheIntact /\ (Fits => Groups) /\ Files
  BY TypedInit, GroupsInit, FilesInit
<1>2. Typed /\ CacheIntact /\ (Fits => Groups) /\ Files /\ [Next]_vars =>
         Typed' /\ CacheIntact' /\ (Fits => Groups)' /\ Files'
  BY TypedStep, GroupsStep, FilesStep
<1> QED
  BY <1>1, <1>2, PTL DEF Spec


\* What the property calls the marks and the inodes.
LEMMA SmallMeans ==
  ASSUME Typed, Fits, OneGroup, info.block_size = SECTOR_SIZE
  PROVE  /\ Small /\ info \in Descriptors /\ MAX_FILES \in Nat
         /\ \A n : Marks(n) => Marked = {i \in 1 .. 4 : 2 <= i /\ i <= n}
         /\ \A i \in 1 .. MAX_FILES : InodeCell(FirstGroup, i) = disk[Inodes * 4 + i]
         /\ \A k : InTable(k) => Written = {i \in 1 .. MAX_FILES : 2 <= i /\ i <= k}
<1>1. info \in Descriptors /\ MAX_FILES \in Nat /\ info.block_size = 4 /\ Fits
  BY Geometry DEF Typed
<1>2. Small
  BY <1>1 DEF Small, OneGroup, Start
<1>3. PICK s \in 1 .. 11 : s = info.super_block_idx
  BY <1>1, FitFacts
<1>4. FirstGroup[3] = Bitmap /\ FirstGroup[4] = Inodes /\ Inodes \in Nat /\ Bitmap \in Nat
  BY <1>1, <1>3, FitFacts DEF Bitmap, Inodes
<1>5. Marked = {i \in 1 .. 4 : disk[Bitmap * 4 + i - 1] = One}
  BY <1>1, <1>4 DEF Marked, group_inode_size
<1>6. ASSUME NEW i \in 1 .. MAX_FILES PROVE InodeCell(FirstGroup, i) = disk[Inodes * 4 + i]
  <2>1. i \in Nat
    BY <1>1
  <2>2. PICK q \in Nat, c \in 0 .. 3 : q = i \div 4 /\ c = i % 4 /\ i = q * 4 + c
    BY <2>1, CellOfSector
  <2>3. PICK t \in Nat : t = Inodes /\ (t + q) * 4 + c = t * 4 + i
    BY <1>4, <2>2
  <2>4. InodeCell(FirstGroup, i) = disk[(t + (i \div 4)) * 4 + (i % 4)]
    BY <1>1, <1>4, <2>3 DEF InodeCell
  <2> QED
    BY <2>2, <2>3, <2>4
<1>7. ASSUME NEW k, InTable(k) PROVE Written = {i \in 1 .. MAX_FILES : 2 <= i /\ i <= k}
  BY <1>6, <1>7 DEF Written, InTable, IsInode
<1>8. ASSUME NEW n, Marks(n) PROVE Marked = {i \in 1 .. 4 : 2 <= i /\ i <= n}
  BY <1>5, <1>8 DEF Marks
<1> QED
  BY <1>1, <1>2, <1>6, <1>7, <1>8

\* The marks, as the property sees them.
LEMMA MarksMean ==
  Typed /\ CacheIntact /\ (Fits => Groups) /\ Files => MarksLeadInodes
<1> SUFFICES ASSUME Typed, Fits => Groups, Files, Fits, OneGroup, info.block_size = SECTOR_SIZE
             PROVE  \E n \in 1 .. MAX_FILES : Marked = 2 .. n /\ Written \in {2 .. n, 2 .. n - 1}
  BY DEF MarksLeadInodes
<1>1. Small /\ MAX_FILES \in Nat
  BY SmallMeans
<1>2. PICK n \in 1 .. 4, k \in 1 .. 4 : OnDisk(n, k)
  BY <1>1 DEF Files
<1>3. n \in 1 .. MAX_FILES /\ (k = n \/ k = n - 1) /\ Marks(n) /\ InTable(k)
  BY <1>1, <1>2 DEF OnDisk
<1>4. Marked = {i \in 1 .. 4 : 2 <= i /\ i <= n}
  BY <1>3, SmallMeans
<1>5. Written = {i \in 1 .. MAX_FILES : 2 <= i /\ i <= k}
  BY <1>3, SmallMeans
<1>6. Marked = 2 .. n /\ Written = 2 .. k
  BY <1>1, <1>3, <1>4, <1>5
<1> QED
  BY <1>3, <1>6

(***************************************************************************)
(* Wherever the power is lost, the marks in the inode bitmap are those of  *)
(* the files up to some index, and the inodes of all of them are in the    *)
(* table but perhaps that of the last (ext2.cpp:110-139), in blocks of one *)
(* sector; over any number of mounts that count the entries from one       *)
(* again, until a second group is created over the block bitmap.           *)
(***************************************************************************)
THEOREM MarksComeFirst == Spec => []MarksLeadInodes
BY FilesHold, MarksMean, PTL

-----------------------------------------------------------------------------
(* What is on the disk when all has been written.                          *)

\* The last of some numbers is none of the others.
LEMMA LastIs ==
  ASSUME NEW T \in SUBSET Nat, NEW m \in T, \A i \in T : m >= i
  PROVE  Max(T) = m
<1>1. PICK x : x = Max(T)
  OBVIOUS
<1>2. x \in T /\ \A i \in T : x >= i
  BY <1>1 DEF Max
<1>3. x \in Nat /\ m \in Nat /\ x >= m /\ m >= x
  BY <1>2
<1> QED
  BY <1>1, <1>3

\* Two lists, one behind the other.
LEMMA AfterBoth ==
  ASSUME NEW d \in Disk, NEW u \in Seq(Write), NEW v \in Seq(Write)
  PROVE  After(d, u \o v) = After(After(d, u), v)
<1> DEFINE at(w, c) == {i \in DOMAIN w : w[i].lba = c \div 4}
<1>1. PICK m \in Nat, n \in Nat : m = Len(u) /\ n = Len(v)
  BY LenProperties
<1>2. DOMAIN u = 1 .. m /\ DOMAIN v = 1 .. n
  BY <1>1, LenProperties
<1>3. PICK w : w = u \o v
  OBVIOUS
<1>4. /\ w \in Seq(Write) /\ DOMAIN w = 1 .. m + n
      /\ \A i \in 1 .. m : w[i] = u[i]
      /\ \A i \in 1 .. n : w[m + i] = v[i]
  BY <1>1, <1>3
<1>5. ASSUME NEW c \in DOMAIN d
      PROVE  After(d, w)[c] = After(After(d, u), v)[c]
  <2>1. /\ After(d, w)[c] = IF at(w, c) = {} THEN d[c] ELSE w[Max(at(w, c))].data[c % 4]
        /\ After(d, u)[c] = IF at(u, c) = {} THEN d[c] ELSE u[Max(at(u, c))].data[c % 4]
        /\ After(After(d, u), v)[c] =
              IF at(v, c) = {} THEN After(d, u)[c] ELSE v[Max(at(v, c))].data[c % 4]
    BY DEF After
  <2>2. CASE at(v, c) = {}
    <3>1. at(w, c) = at(u, c)
      <4>1. ASSUME NEW i \in at(w, c) PROVE i \in at(u, c)
        <5>1. i \in 1 .. m + n /\ w[i].lba = c \div 4
          BY <1>4
        <5>2. CASE i > m
          <6>1. PICK j \in 1 .. n : i = m + j
            <7>1. i - m \in 1 .. n /\ i = m + (i - m)
              BY <5>1, <5>2
            <7> QED
              BY <7>1
          <6>2. j \in at(v, c)
            BY <1>2, <1>4, <5>1, <6>1
          <6> QED
            BY <2>2, <6>2
        <5>3. CASE ~(i > m)
          <6>1. i \in 1 .. m
            BY <5>1, <5>3
          <6> QED
            BY <1>2, <1>4, <5>1, <6>1
        <5> QED
          BY <5>2, <5>3
      <4>2. ASSUME NEW i \in at(u, c) PROVE i \in at(w, c)
        <5>1. i \in 1 .. m /\ i \in 1 .. m + n /\ u[i].lba = c \div 4
          BY <1>2
        <5> QED
          BY <1>4, <5>1
      <4> QED
        BY <4>1, <4>2
    <3>2. at(u, c) # {} => w[Max(at(u, c))] = u[Max(at(u, c))]
      <4>1. SUFFICES ASSUME at(u, c) # {} PROVE w[Max(at(u, c))] = u[Max(at(u, c))]
        OBVIOUS
      <4>2. at(u, c) \in SUBSET (1 .. m)
        BY <1>2
      <4>3. Max(at(u, c)) \in 1 .. m
        BY <4>1, <4>2, LastExists
      <4> QED
        BY <1>4, <4>3
    <3> QED
      BY <2>1, <2>2, <3>1, <3>2
  <2>3. CASE at(v, c) # {}
    <3>1. at(v, c) \in SUBSET (1 .. n)
      BY <1>2
    <3>2. PICK j \in at(v, c) : j = Max(at(v, c)) /\ \A i \in at(v, c) : j >= i
      BY <2>3, <3>1, LastExists
    <3>3. j \in 1 .. n /\ m + j \in at(w, c)
      BY <1>2, <1>4
    <3>4. ASSUME NEW i \in at(w, c) PROVE m + j >= i
      <4>1. i \in 1 .. m + n /\ w[i].lba = c \div 4
        BY <1>4
      <4>2. CASE i > m
        <5>1. PICK k \in 1 .. n : i = m + k
          <6>1. i - m \in 1 .. n /\ i = m + (i - m)
            BY <4>1, <4>2
          <6> QED
            BY <6>1
        <5>2. k \in at(v, c)
          BY <1>2, <1>4, <4>1, <5>1
        <5>3. j >= k
          BY <3>2, <5>2
        <5> QED
          BY <3>3, <5>1, <5>3
      <4> QED
        BY <3>3, <4>1, <4>2
    <3>5. at(w, c) \in SUBSET Nat
      BY <1>4
    <3>6. Max(at(w, c)) = m + j
      BY <3>3, <3>4, <3>5, LastIs
    <3> QED
      BY <1>4, <2>1, <2>3, <3>2, <3>3, <3>6
  <2> QED
    BY <2>2, <2>3
<1>6. DOMAIN After(d, w) = DOMAIN d /\ DOMAIN After(After(d, u), v) = DOMAIN d
  BY AfterDomain
<1>7. After(d, w) = [c \in DOMAIN d |-> After(d, w)[c]]
      /\ After(After(d, u), v) = [c \in DOMAIN d |-> After(After(d, u), v)[c]]
  BY <1>6 DEF After
<1> QED
  BY <1>3, <1>5, <1>7

\* One sector is a list of one.
LEMMA AfterHead ==
  ASSUME NEW d \in Disk, NEW w \in Seq(Write), w # <<>>
  PROVE  After(Stored(d, Head(w)), Tail(w)) = After(d, w)
<1>1. Head(w) \in Write /\ Tail(w) \in Seq(Write) /\ <<Head(w)>> \in Seq(Write) /\ w = <<Head(w)>> \o Tail(w)
  BY HeadTailProperties
<1>2. PICK h : h = <<Head(w)>>
  OBVIOUS
<1>3. DOMAIN h = {1} /\ h[1] = Head(w)
  BY <1>2
<1>4. ASSUME NEW c \in DOMAIN d
      PROVE  After(d, h)[c] = Stored(d, Head(w))[c]
  <2> DEFINE at == {i \in DOMAIN h : h[i].lba = c \div 4}
  <2>1. After(d, h)[c] = IF at = {} THEN d[c] ELSE h[Max(at)].data[c % 4]
    BY DEF After
  <2>2. Stored(d, Head(w))[c] = IF c \div 4 = Head(w).lba THEN Head(w).data[c % 4] ELSE d[c]
    BY DEF Stored
  <2>3. CASE c \div 4 = Head(w).lba
    <3>1. at = {1}
      BY <1>3, <2>3
    <3>2. Max(at) = 1
      BY <3>1, LastIs
    <3> QED
      BY <1>3, <2>1, <2>2, <2>3, <3>1, <3>2
  <2>4. CASE c \div 4 # Head(w).lba
    <3>1. at = {}
      BY <1>3, <2>4
    <3> QED
      BY <2>1, <2>2, <2>4, <3>1
  <2> QED
    BY <2>3, <2>4
<1>5. After(d, h) = Stored(d, Head(w))
  <2>1. After(d, h) = [c \in DOMAIN d |-> After(d, h)[c]]
    BY AfterDomain DEF After
  <2>2. Stored(d, Head(w)) = [c \in DOMAIN d |-> Stored(d, Head(w))[c]]
    BY DEF Stored
  <2> QED
    BY <1>4, <2>1, <2>2
<1>6. h \in Seq(Write) /\ Tail(w) \in Seq(Write) /\ w = h \o Tail(w)
  BY <1>1, <1>2
<1>7. After(d, h \o Tail(w)) = After(After(d, h), Tail(w))
  BY <1>6, AfterBoth
<1> QED
  BY <1>5, <1>6, <1>7

\* A block holds the buffer that was written to it.
LEMMA AfterStorage ==
  ASSUME info \in Descriptors, NEW d \in Disk, NEW block \in Nat, block <= info.super_block_idx + 17,
         NEW buffer \in Buffer
  PROVE  \A c \in InBlock : After(d, write_storage(buffer, block))[Start(block) + c] = buffer[c]
<1> SUFFICES ASSUME NEW e \in InBlock
             PROVE  After(d, write_storage(buffer, block))[Start(block) + e] = buffer[e]
  OBVIOUS
<1>1. PICK writes : writes = write_storage(buffer, block)
  OBVIOUS
<1>2. writes \in Seq(Carrying(buffer, block)) /\ writes \in Seq(Write) /\ Len(writes) = sectors_per_block
  BY <1>1, WriteStorage, WriteType DEF Buffer
<1>3. PICK s \in Nat, l \in Nat : /\ s = sectors_per_block /\ l = BLOCK_TO_SECTOR(block)
                                  /\ info.block_size = 4 * s /\ Start(block) = l * 4
  <2>1. sectors_per_block \in Nat /\ info.block_size = 4 * sectors_per_block
    BY Geometry
  <2>2. BLOCK_TO_SECTOR(block) \in Nat /\ BLOCK_TO_SECTOR(block) * 4 = Start(block)
    BY Starts
  <2> QED
    BY <2>1, <2>2
<1>4. e \in Nat /\ e < 4 * s
  BY <1>3 DEF InBlock
<1>5. PICK p \in Nat, k \in 0 .. 3 : e = p * 4 + k
  BY <1>4, CellOfSector
<1>6. p < s
  BY <1>4, <1>5
<1>7. PICK c \in DOMAIN d : c = Start(block) + e /\ c \in Nat
  <2>1. Start(block) + e \in 0 .. Cells - 1
    BY BlockOnDisk
  <2> QED
    BY <2>1, Ext2Assumption DEF Disk
<1>8. PICK q \in Nat : q = l + p
  OBVIOUS
<1>9. c = q * 4 + k
  BY <1>3, <1>5, <1>7, <1>8
<1>10. c \div 4 = q /\ c % 4 = k
  BY <1>7, <1>8, <1>9
<1>11. p + 1 \in 1 .. Len(writes) /\ writes[p + 1].lba = q
  <2>1. p + 1 \in 1 .. s /\ l + (p + 1) - 1 = q
    BY <1>6, <1>8
  <2>2. writes[p + 1].lba = l + (p + 1) - 1
    BY <1>1, <1>3, <2>1 DEF write_storage
  <2> QED
    BY <1>2, <1>3, <2>1, <2>2
<1>12. PICK i \in 1 .. Len(writes) : writes[i].lba = q /\ After(d, writes)[c] = writes[i].data[k]
  <2>1. \/ /\ \A i \in 1 .. Len(writes) : writes[i].lba # q
           /\ After(d, writes)[c] = d[c]
        \/ \E i \in 1 .. Len(writes) : writes[i].lba = q /\ After(d, writes)[c] = writes[i].data[k]
    <3>1. writes \in Seq(Write)
      BY <1>2
    <3> QED
      BY SMTT(30), <1>10, <3>1, AfterCell
  <2> QED
    BY <1>11, <2>1
<1>13. writes[i] \in Carrying(buffer, block)
  BY <1>2, ElementOfSeq
<1>14. PICK f \in InBlock : q * 4 + k = Start(block) + f /\ writes[i].data[k] = buffer[f]
  BY <1>12, <1>13 DEF Carrying
<1>15. Start(block) + f = Start(block) + e
  BY <1>7, <1>9, <1>14
<1>16. f = e
  BY <1>15, OnePlace
<1> QED
  BY <1>1, <1>7, <1>12, <1>14, <1>16

\* And an object is in its first cell.
LEMMA AfterObject ==
  ASSUME info \in Descriptors, NEW d \in Disk, NEW block \in Nat, block <= info.super_block_idx + 17,
         NEW object \in Cell
  PROVE  After(d, write_object_to_block(object, block))[Start(block)] = object
<1>1. [c \in InBlock |-> IF c = 0 THEN object ELSE Zero] \in Buffer
  BY CellKinds DEF Buffer
<1>2. 0 \in InBlock /\ Start(block) + 0 = Start(block)
  <2>1. PICK z \in Nat : z = info.block_size /\ z >= 1
    BY Geometry
  <2>2. Start(block) \in Nat
    BY Starts
  <2> QED
    BY <2>1, <2>2 DEF InBlock
<1> QED
  BY <1>1, <1>2, AfterStorage DEF write_object_to_block

\* Another block has what it had.
LEMMA AfterOther ==
  ASSUME info \in Descriptors, NEW d \in Disk, NEW block \in Nat, block <= info.super_block_idx + 17,
         NEW other \in Nat, other <= info.super_block_idx + 17, other # block
  PROVE  /\ \A buffer \in Buffer, c \in InBlock :
               After(d, write_storage(buffer, block))[Start(other) + c] = d[Start(other) + c]
         /\ \A object \in Cell, c \in InBlock :
               After(d, write_object_to_block(object, block))[Start(other) + c] = d[Start(other) + c]
<1>1. ASSUME NEW buffer \in Buffer, NEW c \in InBlock
      PROVE  After(d, write_storage(buffer, block))[Start(other) + c] = d[Start(other) + c]
  <2>1. write_storage(buffer, block) \in Seq(Carrying(buffer, block))
    BY WriteStorage DEF Buffer
  <2>2. write_storage(buffer, block) \in Seq(Avoiding(other))
    BY <2>1, CarryingAvoids
  <2> QED
    BY <2>2, AfterAvoiding
<1>2. ASSUME NEW object \in Cell, NEW c \in InBlock
      PROVE  After(d, write_object_to_block(object, block))[Start(other) + c] = d[Start(other) + c]
  <2>1. [k \in InBlock |-> IF k = 0 THEN object ELSE Zero] \in Buffer
    BY CellKinds DEF Buffer
  <2> QED
    BY <1>1, <2>1 DEF write_object_to_block
<1> QED
  BY <1>1, <1>2

-----------------------------------------------------------------------------
(* The files of a mount.                                                   *)

\* The two groups of a mount's files, counted from 0, and their blocks.
LEMMA GroupNumbers ==
  ASSUME info \in Descriptors, Fits, NEW i \in 1 .. MAX_FILES
  PROVE  /\ Group(i) \in {0, 1}
         /\ INODE_IDX_TO_BLOCK_GROUP(i) = info.super_block_idx + 1 + Group(i)
         /\ GroupOf(i) = BlockGroupDescriptor(INODE_IDX_TO_BLOCK_GROUP(i))
         /\ INODE_IDX_TO_BLOCK_GROUP(i) \in {info.super_block_idx + 1, info.super_block_idx + 2}
<1>1. info.super_block_idx \in Nat /\ MAX_FILES \in Nat /\ i \in Nat /\ info.block_size \in Nat
      /\ info.block_size >= 1
  BY Geometry
<1>2. INODE_IDX_TO_BLOCK_GROUP(i) \in {info.super_block_idx + 1, info.super_block_idx + 2}
  BY Places
<1>3. PICK g \in Int : g = (i - 1) \div info.block_size
  BY <1>1
<1>4. INODE_IDX_TO_BLOCK_GROUP(i) = g + info.super_block_idx + 1
  BY <1>3 DEF INODE_IDX_TO_BLOCK_GROUP, group_inode_size
<1>5. g \in {0, 1} /\ g + info.super_block_idx + 1 = info.super_block_idx + 1 + g
  BY <1>1, <1>2, <1>4
<1> QED
  BY <1>2, <1>3, <1>4, <1>5 DEF Group, GroupOf, group_inode_size

\* The files of the last group are on the disk d.
FilesOn(d) ==
  \A i \in Created : (\A j \in Created : Group(j) <= Group(i)) =>
     /\ Found(d[Start(INODE_IDX_TO_BLOCK_GROUP(i))])
     /\ d[Start(GroupOf(i)[3]) + INODE_IDX_IN_BLOCK_GROUP(i)] = One
     /\ \E j \in Created :
           /\ j >= i /\ SameCell(i, j)
           /\ d[Start(GroupOf(i)[4] + INODE_IDX_CONTAINING_BLOCK(i)) + (i % 4)] = Inode(j, mounts)

\* They are there or will be when all has been written.
FilesInv == Fits /\ power = "on" => FilesOn(After(disk, todo))

\* The steps of CreateFile for the file m: its descriptor, mark and inode are
\* written; if its group is there, nothing else of it is changed.
LEMMA CreateWrites ==
  ASSUME Typed, Fits, Groups, NEW name \in Names, CreateFile(name),
         NEW m \in 1 .. MAX_FILES, m = get_available_inode_idx,
         NEW b, b = INODE_IDX_TO_BLOCK_GROUP(m), NEW g, g = BlockGroupDescriptor(b),
         NEW D, D = After(disk, todo')
  PROVE  /\ D[Start(b)] = g
         /\ D[Start(g[3]) + INODE_IDX_IN_BLOCK_GROUP(m)] = One
         /\ D[Start(g[4] + INODE_IDX_CONTAINING_BLOCK(m)) + (m % 4)] = Inode(m, mounts)
         /\ Found(disk[Start(b)]) =>
               /\ \A c \in InBlock \ {INODE_IDX_IN_BLOCK_GROUP(m)} :
                     D[Start(g[3]) + c] = disk[Start(g[3]) + c]
               /\ \A t \in 0 .. 2, c \in InBlock :
                     t # INODE_IDX_CONTAINING_BLOCK(m) \/ c # m % 4 =>
                        D[Start(g[4] + t) + c] = disk[Start(g[4] + t) + c]
<1>1. /\ info \in Descriptors /\ disk \in Disk /\ InGroups(disk)
      /\ power = "on" /\ todo = <<>> /\ info' = info /\ disk' = disk
  BY CreateParts DEF Typed, Groups
<1>2. disk[Start(info.super_block_idx + 1)] = FirstGroup
  BY <1>1, GroupsWhenIdle
<1>3. PICK s \in 1 .. 11 : s = info.super_block_idx
  BY <1>1, FitFacts
<1>4. b \in {s + 1, s + 2} /\ mounts \in 1 .. MaxMounts
  BY <1>3, CreateIndex
<1>5. PICK second \in BOOLEAN : second <=> b = s + 2
  OBVIOUS
<1>6. PICK got : got = get_block_group(disk, b) /\ got = CreateGot
  BY DEF CreateGot
<1>7. /\ got.writes = IF Found(disk[Start(b)]) THEN <<>> ELSE NewGroup(b)
      /\ got.bg.group_descriptor = g
      /\ got.bg.block_bitmap = read_storage(After(disk, got.writes), g[2])
      /\ got.bg.inode_bitmap = read_storage(After(disk, got.writes), g[3])
  BY ZenonT(30), <1>1, <1>3, <1>4, <1>5, <1>6, GetGroupKeeps
<1>8. PICK k \in InBlock, t0 \in 0 .. 2, k0 \in InBlock :
        k = INODE_IDX_IN_BLOCK_GROUP(m) /\ t0 = INODE_IDX_CONTAINING_BLOCK(m) /\ k0 = m % 4
  BY <1>1, Places
<1>9. PICK bg \in Table : bg = CreateTable
  BY CreateIndex
<1>10. PICK d : d = After(disk, got.writes)
  OBVIOUS
<1>11. got.writes \in Seq(Write) /\ d \in Disk
  BY <1>1, <1>6, <1>10, CreateIndex, AfterType
<1>12. Found(disk[Start(b)]) => d = disk
  BY <1>1, <1>7, <1>10, AfterNothing
<1>13. /\ bg.group_descriptor = g /\ bg.block_bitmap \in Buffer /\ bg.inode_bitmap \in Buffer
       /\ bg.inode_bitmap = [read_storage(d, g[3]) EXCEPT ![k] = One]
  <2>1. bg.block_bitmap \in Buffer /\ bg.inode_bitmap \in Buffer
    BY DEF Table
  <2> QED
    BY <1>6, <1>7, <1>8, <1>9, <1>10, <2>1, CreateIndex
<1>14. g \in Descriptor /\ g \in Cell
  BY <1>9, <1>13 DEF Table, Descriptor
<1>15. PICK x \in Nat, y \in Nat, z \in Nat :
         /\ x = g[2] /\ y = g[3] /\ z = g[4]
         /\ b = s + 1 => x = s + 2 /\ y = s + 3 /\ z = s + 4
         /\ b = s + 2 => x = s + 3 /\ y = s + 4 /\ z = IF s = 11 THEN 0 ELSE s + 5
  <2>1. s \in Nat /\ s = info.super_block_idx /\ b \in {info.super_block_idx + 1, info.super_block_idx + 2}
    BY <1>3, <1>4
  <2>2. /\ BlockGroupDescriptor(b)[2] \in Nat /\ BlockGroupDescriptor(b)[3] \in Nat
        /\ BlockGroupDescriptor(b)[4] \in Nat
        /\ b = s + 1 => /\ BlockGroupDescriptor(b)[2] = s + 2 /\ BlockGroupDescriptor(b)[3] = s + 3
                        /\ BlockGroupDescriptor(b)[4] = s + 4
        /\ b = s + 2 => /\ BlockGroupDescriptor(b)[2] = s + 3 /\ BlockGroupDescriptor(b)[3] = s + 4
                        /\ BlockGroupDescriptor(b)[4] = IF s = 11 THEN 0 ELSE s + 5
    BY ZenonT(30), <1>1, <2>1, GroupBlocks
  <2> QED
    BY <2>2
<1>16. /\ b \in Nat /\ b <= s + 17 /\ x <= s + 17 /\ y <= s + 17
       /\ \A t \in 0 .. 2 : z + t \in Nat /\ z + t <= s + 17 /\ z + t # b /\ z + t # x /\ z + t # y
       /\ b # x /\ b # y /\ x # y
  BY <1>4, <1>15
<1>17. PICK wb, wx, wy : /\ wb = write_object_to_block(g, b) /\ wx = write_storage(bg.block_bitmap, x)
                         /\ wy = write_storage(bg.inode_bitmap, y)
  OBVIOUS
<1>18. wb \in Seq(Write) /\ wx \in Seq(Write) /\ wy \in Seq(Write) /\ wb \o wx \in Seq(Write)
  BY <1>1, <1>3, <1>13, <1>14, <1>16, <1>17, WriteType, ConcatProperties
<1>19. PICK d1 \in Disk, d2 \in Disk, d3 \in Disk :
         d1 = After(d, wb) /\ d2 = After(d1, wx) /\ d3 = After(d2, wy)
  <2>1. After(d, wb) \in Disk
    BY <1>11, <1>18, AfterType
  <2>2. After(After(d, wb), wx) \in Disk
    BY <1>18, <2>1, AfterType
  <2>3. After(After(After(d, wb), wx), wy) \in Disk
    BY <1>18, <2>2, AfterType
  <2> QED
    BY <2>1, <2>2, <2>3
<1>20. BitmapWrites(b, bg) \in Seq(Write) /\ After(d, BitmapWrites(b, bg)) = d3
  <2>1. BitmapWrites(b, bg) = (wb \o wx) \o wy
    BY <1>13, <1>15, <1>17 DEF BitmapWrites
  <2>2. After(d, wb \o wx) = d2
    BY <1>11, <1>18, <1>19, AfterBoth
  <2>3. After(d, (wb \o wx) \o wy) = d3
    <3>1. After(d, (wb \o wx) \o wy) = After(After(d, wb \o wx), wy)
      BY ZenonT(30), <1>11, <1>18, AfterBoth
    <3> QED
      BY <1>19, <2>2, <3>1
  <2> QED
    BY <1>18, <2>1, <2>3, ConcatProperties
<1>21. PICK buffer : buffer = [read_storage(d3, z + t0) EXCEPT ![k0] = Inode(m, mounts)]
  OBVIOUS
<1>22. buffer \in Buffer
  <2>1. read_storage(d3, z + t0) \in Buffer
    BY <1>1, <1>3, <1>16, ReadType
  <2>2. Inode(m, mounts) \in Cell
    BY <1>4, CellKinds
  <2> QED
    BY <1>21, <2>1, <2>2 DEF Buffer
<1>23. PICK wi : wi = write_storage(buffer, z + t0)
  OBVIOUS
<1>24. InodeWrite(d3, g, m) = wi /\ wi \in Seq(Write)
  <2>1. wi \in Seq(Write)
    BY <1>1, <1>3, <1>16, <1>22, <1>23, WriteType
  <2> QED
    BY <1>8, <1>15, <1>21, <1>23, <2>1 DEF InodeWrite
<1>25. D = After(d3, wi)
  <2>1. todo' = got.writes \o write_block_group(d, b, bg, m)
    BY <1>6, <1>9, <1>10, CreateParts
  <2>2. write_block_group(d, b, bg, m) = BitmapWrites(b, bg) \o wi
    BY <1>13, <1>20, <1>24 DEF write_block_group
  <2>3. BitmapWrites(b, bg) \o wi \in Seq(Write)
    BY <1>20, <1>24, ConcatProperties
  <2>4. After(disk, todo') = After(d, BitmapWrites(b, bg) \o wi)
    <3>1. PICK v \in Seq(Write) : v = BitmapWrites(b, bg) \o wi
      BY <2>3
    <3>2. After(disk, got.writes \o v) = After(After(disk, got.writes), v)
      BY <1>1, <1>11, AfterBoth
    <3> QED
      BY <1>10, <2>1, <2>2, <3>1, <3>2
  <2> QED
    BY <1>11, <1>20, <1>24, <2>4, AfterBoth
<1>26. \A c \in InBlock :
         /\ D[Start(b) + c] = d1[Start(b) + c]
         /\ D[Start(y) + c] = d3[Start(y) + c]
         /\ \A t \in 0 .. 2 : d3[Start(z + t) + c] = d[Start(z + t) + c]
         /\ \A t \in 0 .. 2 : t # t0 => D[Start(z + t) + c] = d3[Start(z + t) + c]
  <2> SUFFICES ASSUME NEW c \in InBlock
               PROVE  /\ D[Start(b) + c] = d1[Start(b) + c]
                      /\ D[Start(y) + c] = d3[Start(y) + c]
                      /\ \A t \in 0 .. 2 : d3[Start(z + t) + c] = d[Start(z + t) + c]
                      /\ \A t \in 0 .. 2 : t # t0 => D[Start(z + t) + c] = d3[Start(z + t) + c]
    OBVIOUS
  <2>1. ASSUME NEW o \in Nat, o <= s + 17, o # z + t0 PROVE D[Start(o) + c] = d3[Start(o) + c]
    <3>1. PICK p \in Nat : p = z + t0 /\ p <= s + 17
      BY <1>16
    <3>2. After(d3, write_storage(buffer, p))[Start(o) + c] = d3[Start(o) + c]
      BY <1>1, <1>3, <1>22, <2>1, <3>1, AfterOther
    <3> QED
      BY <1>23, <1>25, <3>1, <3>2
  <2>2. ASSUME NEW o \in Nat, o <= s + 17, o # y PROVE d3[Start(o) + c] = d2[Start(o) + c]
    BY SMTT(30), <1>1, <1>3, <1>13, <1>16, <1>17, <1>19, <2>2, AfterOther
  <2>3. ASSUME NEW o \in Nat, o <= s + 17, o # x PROVE d2[Start(o) + c] = d1[Start(o) + c]
    BY SMTT(30), <1>1, <1>3, <1>13, <1>16, <1>17, <1>19, <2>3, AfterOther
  <2>4. ASSUME NEW o \in Nat, o <= s + 17, o # b PROVE d1[Start(o) + c] = d[Start(o) + c]
    BY SMTT(30), <1>1, <1>3, <1>11, <1>14, <1>16, <1>17, <1>19, <2>4, AfterOther
  <2>5. D[Start(b) + c] = d1[Start(b) + c]
    BY <1>16, <2>1, <2>2, <2>3
  <2>6. D[Start(y) + c] = d3[Start(y) + c]
    BY <1>16, <2>1
  <2>7. ASSUME NEW t \in 0 .. 2 PROVE d3[Start(z + t) + c] = d[Start(z + t) + c]
    BY <1>16, <2>2, <2>3, <2>4
  <2>8. ASSUME NEW t \in 0 .. 2, t # t0 PROVE D[Start(z + t) + c] = d3[Start(z + t) + c]
    <3>1. z + t # z + t0
      BY <2>8
    <3> QED
      BY <1>16, <2>1, <3>1
  <2> QED
    BY <2>5, <2>6, <2>7, <2>8
<1>27. D[Start(b)] = g
  <2>1. d1[Start(b)] = g
    BY <1>1, <1>3, <1>11, <1>14, <1>16, <1>17, <1>19, AfterObject
  <2>2. 0 \in InBlock /\ Start(b) + 0 = Start(b)
    <3>1. PICK o \in Nat : o = info.block_size /\ o >= 1
      BY <1>1, Geometry
    <3>2. Start(b) \in Nat
      BY <1>1, <1>16, Starts
    <3> QED
      BY <3>1, <3>2 DEF InBlock
  <2> QED
    BY <1>26, <2>1, <2>2
<1>28. \A c \in InBlock : D[Start(y) + c] = IF c = k THEN One ELSE d[Start(y) + c]
  <2> SUFFICES ASSUME NEW c \in InBlock
               PROVE  D[Start(y) + c] = IF c = k THEN One ELSE d[Start(y) + c]
    OBVIOUS
  <2>1. d3[Start(y) + c] = bg.inode_bitmap[c]
    <3>1. y <= info.super_block_idx + 17
      BY <1>3, <1>16
    <3>2. PICK marks \in Buffer : marks = bg.inode_bitmap
      BY <1>13
    <3>3. info \in Descriptors
      BY <1>1
    <3>4. After(d2, write_storage(marks, y))[Start(y) + c] = marks[c]
      BY <3>1, <3>3, AfterStorage
    <3> QED
      BY <1>17, <1>19, <3>2, <3>4
  <2>2. read_storage(d, y)[c] = d[Start(y) + c] /\ read_storage(d, y) \in Buffer
    BY <1>1, <1>3, <1>11, <1>16, ReadCells, ReadType
  <2>3. bg.inode_bitmap[c] = IF c = k THEN One ELSE d[Start(y) + c]
    BY <1>13, <1>15, <2>2 DEF Buffer
  <2> QED
    BY <1>26, <2>1, <2>3
<1>29. \A c \in InBlock :
         D[Start(z + t0) + c] = IF c = k0 THEN Inode(m, mounts) ELSE d[Start(z + t0) + c]
  <2> SUFFICES ASSUME NEW c \in InBlock
               PROVE  D[Start(z + t0) + c] = IF c = k0 THEN Inode(m, mounts) ELSE d[Start(z + t0) + c]
    OBVIOUS
  <2>1. D[Start(z + t0) + c] = buffer[c]
    BY <1>1, <1>3, <1>16, <1>22, <1>23, <1>25, AfterStorage
  <2>2. read_storage(d3, z + t0)[c] = d3[Start(z + t0) + c] /\ read_storage(d3, z + t0) \in Buffer
    BY <1>1, <1>3, <1>16, ReadCells, ReadType
  <2>3. buffer[c] = IF c = k0 THEN Inode(m, mounts) ELSE d3[Start(z + t0) + c]
    BY <1>21, <2>2 DEF Buffer
  <2> QED
    BY <1>26, <2>1, <2>3
<1>30. ASSUME Found(disk[Start(b)]), NEW t \in 0 .. 2, NEW c \in InBlock, t # t0 \/ c # k0
       PROVE  D[Start(z + t) + c] = disk[Start(z + t) + c]
  <2>1. CASE t = t0
    BY <1>12, <1>29, <1>30, <2>1
  <2>2. CASE t # t0
    BY <1>12, <1>26, <1>30, <2>2
  <2> QED
    BY <2>1, <2>2
<1> QED
  BY <1>8, <1>12, <1>15, <1>27, <1>28, <1>29, <1>30

\* The files in the cache are those up to some index.
LEMMA CreatedAre ==
  ASSUME MAX_FILES \in Nat, NEW m \in 1 .. MAX_FILES, Entries(m)
  PROVE  Created = 2 .. m
<1>1. ASSUME NEW i \in Created PROVE i \in 2 .. m
  BY DEF Created, Entries
<1>2. ASSUME NEW i \in 2 .. m PROVE i \in Created
  <2>1. i \in 1 .. MAX_FILES /\ i \in 2 .. MAX_FILES /\ ~(i > m)
    OBVIOUS
  <2> QED
    BY <2>1 DEF Created, Entries
<1> QED
  BY <1>1, <1>2

\* What FilesOn says of a disk does not change without the cache.
LEMMA FilesOnStays ==
  ASSUME info' = info, mounts' = mounts, cache' = cache, NEW d, FilesOn(d)
  PROVE  FilesOn(d)'
<1>1. Created' = Created
  BY DEF Created
<1>2. ASSUME NEW i, NEW j
      PROVE  /\ Group(i)' = Group(i) /\ GroupOf(i)' = GroupOf(i)
             /\ INODE_IDX_TO_BLOCK_GROUP(i)' = INODE_IDX_TO_BLOCK_GROUP(i)
             /\ INODE_IDX_IN_BLOCK_GROUP(i)' = INODE_IDX_IN_BLOCK_GROUP(i)
             /\ INODE_IDX_CONTAINING_BLOCK(i)' = INODE_IDX_CONTAINING_BLOCK(i)
             /\ SameCell(i, j)' = SameCell(i, j) /\ Start(i)' = Start(i)
             /\ Inode(j, mounts)' = Inode(j, mounts)
  BY DEF Group, GroupOf, BlockGroupDescriptor, group_inode_size, INODE_IDX_TO_BLOCK_GROUP,
         INODE_IDX_IN_BLOCK_GROUP, INODE_IDX_CONTAINING_BLOCK, SameCell, Start, Inode
<1> SUFFICES ASSUME NEW i \in Created, (\A j \in Created : Group(j) <= Group(i))'
             PROVE  (/\ Found(d[Start(INODE_IDX_TO_BLOCK_GROUP(i))])
                     /\ d[Start(GroupOf(i)[3]) + INODE_IDX_IN_BLOCK_GROUP(i)] = One
                     /\ \E j \in Created :
                           /\ j >= i /\ SameCell(i, j)
                           /\ d[Start(GroupOf(i)[4] + INODE_IDX_CONTAINING_BLOCK(i)) + (i % 4)]
                                 = Inode(j, mounts))'
  BY <1>1 DEF FilesOn
<1>3. \A j \in Created : Group(j) <= Group(i)
  BY <1>1, <1>2
<1>4. /\ Found(d[Start(INODE_IDX_TO_BLOCK_GROUP(i))])
      /\ d[Start(GroupOf(i)[3]) + INODE_IDX_IN_BLOCK_GROUP(i)] = One
  BY <1>3 DEF FilesOn
<1>5. PICK j \in Created :
        /\ j >= i /\ SameCell(i, j)
        /\ d[Start(GroupOf(i)[4] + INODE_IDX_CONTAINING_BLOCK(i)) + (i % 4)] = Inode(j, mounts)
  BY <1>3 DEF FilesOn
<1>6. (/\ Found(d[Start(INODE_IDX_TO_BLOCK_GROUP(i))])
       /\ d[Start(GroupOf(i)[3]) + INODE_IDX_IN_BLOCK_GROUP(i)] = One)'
  BY <1>2, <1>4
<1>7. /\ j \in Created' /\ j >= i /\ SameCell(i, j)'
      /\ d[Start(GroupOf(i)[4] + INODE_IDX_CONTAINING_BLOCK(i))' + (i % 4)] = Inode(j, mounts)'
  <2>1. Start(GroupOf(i)[4] + INODE_IDX_CONTAINING_BLOCK(i))' = Start(GroupOf(i)[4] + INODE_IDX_CONTAINING_BLOCK(i))
    BY DEF GroupOf, BlockGroupDescriptor, INODE_IDX_CONTAINING_BLOCK, Group, group_inode_size, Start
  <2> QED
    BY <1>1, <1>2, <1>5, <2>1
<1> QED
  BY <1>6, <1>7

\* CreateFile writes the new file and keeps the others of its group.
LEMMA CreateFilesInv ==
  ASSUME Typed, CacheIntact, Fits, Groups, FilesInv, NEW name \in Names, CreateFile(name)
  PROVE  FilesInv'
<1>1. /\ info \in Descriptors /\ disk \in Disk /\ power = "on" /\ todo = <<>>
      /\ info' = info /\ disk' = disk /\ mounts' = mounts
      /\ MAX_FILES \in Nat
  BY CreateParts, Geometry DEF Typed, Groups
<1>2. FilesOn(disk)
  BY <1>1, AfterNothing DEF FilesInv
<1>3. PICK l \in 1 .. MAX_FILES : Entries(l)
  BY <1>1 DEF CacheIntact
<1>4. PICK m \in 1 .. MAX_FILES : m = l + 1 /\ m = get_available_inode_idx /\ Entries(m)'
  BY <1>3, NextEntry
<1>5. Created = 2 .. l
  BY <1>1, <1>3, CreatedAre
<1>6. Created' = 2 .. m
  <2>1. ASSUME NEW i \in 2 .. MAX_FILES PROVE cache'[i].inode_idx # 0 <=> i <= m
    <3>1. i \in 1 .. MAX_FILES /\ i \in Nat /\ m \in Nat
      BY <1>1
    <3> QED
      BY <1>4, <3>1 DEF Entries
  <2>2. Created' = {i \in 2 .. MAX_FILES : i <= m}
    BY <2>1 DEF Created
  <2> QED
    BY <1>1, <2>2
<1>7. PICK b : b = INODE_IDX_TO_BLOCK_GROUP(m)
  OBVIOUS
<1>8. PICK g : g = BlockGroupDescriptor(b)
  OBVIOUS
<1>9. PICK D : D = After(disk, todo')
  OBVIOUS
<1>10. PICK k \in InBlock, t \in 0 .. 2, c \in InBlock :
         k = INODE_IDX_IN_BLOCK_GROUP(m) /\ t = INODE_IDX_CONTAINING_BLOCK(m) /\ c = m % 4
  BY <1>1, Places
<1>11. /\ D[Start(b)] = g
       /\ D[Start(g[3]) + k] = One
       /\ D[Start(g[4] + t) + c] = Inode(m, mounts)
       /\ Found(disk[Start(b)]) =>
             /\ \A e \in InBlock \ {k} : D[Start(g[3]) + e] = disk[Start(g[3]) + e]
             /\ \A u \in 0 .. 2, e \in InBlock :
                   u # t \/ e # c => D[Start(g[4] + u) + e] = disk[Start(g[4] + u) + e]
  BY <1>4, <1>7, <1>8, <1>9, <1>10, CreateWrites
<1>12. Found(g)
  <2>1. b \in {info.super_block_idx + 1, info.super_block_idx + 2}
    BY <1>1, <1>7, GroupNumbers
  <2> QED
    BY <1>1, <1>8, <2>1, FitFacts
<1>13. ASSUME NEW i \in 2 .. m, \A j \in 2 .. m : Group(j) <= Group(i)
       PROVE  /\ Found(D[Start(INODE_IDX_TO_BLOCK_GROUP(i))])
              /\ D[Start(GroupOf(i)[3]) + INODE_IDX_IN_BLOCK_GROUP(i)] = One
              /\ \E j \in 2 .. m :
                    /\ j >= i /\ SameCell(i, j)
                    /\ D[Start(GroupOf(i)[4] + INODE_IDX_CONTAINING_BLOCK(i)) + (i % 4)] = Inode(j, mounts)
  <2>1. i \in 1 .. MAX_FILES /\ i \in Nat /\ m \in Nat /\ m \in 2 .. m /\ i <= m
    BY <1>1
  <2>2. INODE_IDX_TO_BLOCK_GROUP(i) = b /\ GroupOf(i) = g
    <3>1. PICK x \in {0, 1}, y \in {0, 1} : x = Group(i) /\ y = Group(m)
      BY <1>1, <2>1, GroupNumbers
    <3>2. y <= x
      BY <1>13, <2>1, <3>1
    <3>3. PICK s \in Nat, z \in Nat : s = info.super_block_idx /\ z = info.block_size
      BY <1>1, Geometry
    <3>4. /\ s + 1 + x = IF i <= z THEN s + 1 ELSE s + 2
          /\ s + 1 + y = IF m <= z THEN s + 1 ELSE s + 2
      BY <1>1, <2>1, <3>1, <3>3, Places, GroupNumbers
    <3>5. x = y
      BY <2>1, <3>2, <3>3, <3>4
    <3>6. INODE_IDX_TO_BLOCK_GROUP(i) = s + 1 + x /\ b = s + 1 + y
      BY <1>1, <1>7, <2>1, <3>1, <3>3, GroupNumbers
    <3>7. GroupOf(i) = BlockGroupDescriptor(INODE_IDX_TO_BLOCK_GROUP(i))
      BY <1>1, <2>1, GroupNumbers
    <3> QED
      BY <1>8, <3>5, <3>6, <3>7
  <2>3. CASE i = m
    <3>1. SameCell(m, m) /\ m >= m
      BY <2>1 DEF SameCell
    <3> QED
      BY <1>10, <1>11, <1>12, <2>1, <2>2, <2>3, <3>1
  <2>4. CASE i # m
    <3>1. i \in Created /\ \A j \in Created : j \in 2 .. m
      BY <1>1, <1>4, <1>5, <2>1, <2>4
    <3>2. \A j \in Created : Group(j) <= Group(i)
      BY <1>13, <3>1
    <3>3. /\ Found(disk[Start(b)])
          /\ disk[Start(g[3]) + INODE_IDX_IN_BLOCK_GROUP(i)] = One
          /\ \E j \in Created :
                /\ j >= i /\ SameCell(i, j)
                /\ disk[Start(g[4] + INODE_IDX_CONTAINING_BLOCK(i)) + (i % 4)] = Inode(j, mounts)
      BY <1>2, <2>2, <3>1, <3>2 DEF FilesOn
    <3>4. PICK k1 \in InBlock, t1 \in 0 .. 2, c1 \in InBlock :
            k1 = INODE_IDX_IN_BLOCK_GROUP(i) /\ t1 = INODE_IDX_CONTAINING_BLOCK(i) /\ c1 = i % 4
      BY <1>1, <2>1, Places
    <3>5. D[Start(g[3]) + k1] = One
      BY <1>11, <3>3, <3>4
    <3>6. \E j \in 2 .. m : j >= i /\ SameCell(i, j) /\ D[Start(g[4] + t1) + c1] = Inode(j, mounts)
      <4>1. CASE t1 = t /\ c1 = c
        <5>1. SameCell(i, m)
          BY <1>10, <3>4, <4>1 DEF SameCell, INODE_IDX_CONTAINING_BLOCK
        <5> QED
          BY <1>11, <2>1, <4>1, <5>1
      <4>2. CASE ~(t1 = t /\ c1 = c)
        <5>1. D[Start(g[4] + t1) + c1] = disk[Start(g[4] + t1) + c1]
          BY <1>11, <3>3, <4>2
        <5> QED
          BY <3>1, <3>3, <3>4, <5>1
      <4> QED
        BY <4>1, <4>2
    <3> QED
      BY <1>11, <1>12, <2>2, <3>4, <3>5, <3>6
  <2> QED
    BY <2>3, <2>4
<1>14. FilesOn(D)'
  <2>1. ASSUME NEW i, NEW j
        PROVE  /\ Group(i)' = Group(i) /\ GroupOf(i)' = GroupOf(i)
               /\ INODE_IDX_TO_BLOCK_GROUP(i)' = INODE_IDX_TO_BLOCK_GROUP(i)
               /\ INODE_IDX_IN_BLOCK_GROUP(i)' = INODE_IDX_IN_BLOCK_GROUP(i)
               /\ INODE_IDX_CONTAINING_BLOCK(i)' = INODE_IDX_CONTAINING_BLOCK(i)
               /\ SameCell(i, j)' = SameCell(i, j) /\ Start(i)' = Start(i)
               /\ Inode(j, mounts)' = Inode(j, mounts)
    BY <1>1 DEF Group, GroupOf, BlockGroupDescriptor, group_inode_size, INODE_IDX_TO_BLOCK_GROUP,
           INODE_IDX_IN_BLOCK_GROUP, INODE_IDX_CONTAINING_BLOCK, SameCell, Start, Inode
  <2> SUFFICES ASSUME NEW i \in 2 .. m, \A j \in 2 .. m : Group(j)' <= Group(i)'
               PROVE  /\ Found(D[Start(INODE_IDX_TO_BLOCK_GROUP(i))'])
                      /\ D[Start(GroupOf(i)[3])' + INODE_IDX_IN_BLOCK_GROUP(i)'] = One
                      /\ \E j \in 2 .. m :
                            /\ j >= i /\ SameCell(i, j)'
                            /\ D[Start(GroupOf(i)[4] + INODE_IDX_CONTAINING_BLOCK(i))' + (i % 4)]
                                  = Inode(j, mounts)'
    BY <1>6 DEF FilesOn
  <2>2. \A j \in 2 .. m : Group(j) <= Group(i)
    BY <2>1
  <2>3. /\ Found(D[Start(INODE_IDX_TO_BLOCK_GROUP(i))])
        /\ D[Start(GroupOf(i)[3]) + INODE_IDX_IN_BLOCK_GROUP(i)] = One
    BY <1>13, <2>2
  <2>4. PICK j \in 2 .. m :
          /\ j >= i /\ SameCell(i, j)
          /\ D[Start(GroupOf(i)[4] + INODE_IDX_CONTAINING_BLOCK(i)) + (i % 4)] = Inode(j, mounts)
    BY <1>13, <2>2
  <2>5. /\ Start(INODE_IDX_TO_BLOCK_GROUP(i))' = Start(INODE_IDX_TO_BLOCK_GROUP(i))
        /\ Start(GroupOf(i)[3])' = Start(GroupOf(i)[3])
        /\ Start(GroupOf(i)[4] + INODE_IDX_CONTAINING_BLOCK(i))' =
              Start(GroupOf(i)[4] + INODE_IDX_CONTAINING_BLOCK(i))
    BY <1>1 DEF Start, GroupOf, BlockGroupDescriptor, Group, group_inode_size, INODE_IDX_TO_BLOCK_GROUP,
                INODE_IDX_CONTAINING_BLOCK
  <2>6. SameCell(i, j)' /\ Inode(j, mounts)' = Inode(j, mounts)
        /\ INODE_IDX_IN_BLOCK_GROUP(i)' = INODE_IDX_IN_BLOCK_GROUP(i)
    BY <2>1, <2>4
  <2> QED
    BY <2>3, <2>4, <2>5, <2>6
<1> QED
  BY <1>1, <1>9, <1>14 DEF FilesInv

\* Every step keeps the files that were created.
LEMMA FilesInvStep ==
  ASSUME Typed, CacheIntact, Fits => Groups, FilesInv, [Next]_vars
  PROVE  FilesInv'
<1>1. info' = info /\ (Fits' <=> Fits)
  BY DEF Next, vars, Mount, WriteSector, PowerOff, CreateFile, FailedAssertion, Fits
<1>2. SUFFICES ASSUME Fits, power' = "on" PROVE FilesInv'
  BY <1>1 DEF FilesInv
<1>3. CASE Mount
  <2>1. Created' = {}
    <3>1. ASSUME NEW i \in 2 .. MAX_FILES PROVE cache'[i].inode_idx = 0
      <4>1. MAX_FILES \in Nat
        BY Geometry DEF Typed
      <4>2. i \in 1 .. MAX_FILES + 1 /\ i # 1
        BY <4>1
      <4> QED
        BY <1>3, <4>2 DEF Mount, NoCache, Unused, Entry
    <3> QED
      BY <3>1 DEF Created
  <2> QED
    BY <2>1 DEF FilesInv, FilesOn
<1>4. CASE WriteSector
  <2>1. /\ power = "on" /\ mounts' = mounts /\ cache' = cache
        /\ disk' = Stored(disk, Head(todo)) /\ todo' = Tail(todo) /\ todo # <<>>
    BY <1>2, <1>4 DEF WriteSector
  <2>2. PICK d : d = After(disk, todo)
    OBVIOUS
  <2>3. After(disk, todo)' = d
    BY <2>1, <2>2, AfterHead DEF Typed
  <2>4. FilesOn(d)'
    BY <1>1, <1>2, <2>1, <2>2, FilesOnStays DEF FilesInv
  <2> QED
    BY <2>3, <2>4 DEF FilesInv
<1>5. CASE PowerOff
  BY <1>2, <1>5 DEF PowerOff
<1>6. ASSUME NEW name \in Names, CreateFile(name) PROVE FilesInv'
  BY <1>2, <1>6, CreateFilesInv
<1>7. ASSUME NEW tooLong \in BOOLEAN, FailedAssertion(tooLong) PROVE FilesInv'
  BY <1>2, <1>7 DEF FailedAssertion
<1>8. CASE UNCHANGED vars
  <2>1. power = "on" /\ mounts' = mounts /\ cache' = cache /\ disk' = disk /\ todo' = todo
    BY <1>2, <1>8 DEF vars
  <2>2. PICK d : d = After(disk, todo)
    OBVIOUS
  <2>3. FilesOn(d)'
    BY <1>1, <1>2, <2>1, <2>2, FilesOnStays DEF FilesInv
  <2> QED
    BY <2>1, <2>2, <2>3 DEF FilesInv
<1> QED
  BY <1>3, <1>4, <1>5, <1>6, <1>7, <1>8 DEF Next

\* It holds in every reachable state.
LEMMA FilesInvHolds == Spec => [](Typed /\ CacheIntact /\ (Fits => Groups) /\ FilesInv)
<1>1. Init => Typed /\ CacheIntact /\ (Fits => Groups) /\ FilesInv
  <2>1. Init => FilesInv
    BY DEF Init, FilesInv
  <2> QED
    BY <2>1, TypedInit, GroupsInit
<1>2. Typed /\ CacheIntact /\ (Fits => Groups) /\ FilesInv /\ [Next]_vars =>
         Typed' /\ CacheIntact' /\ (Fits => Groups)' /\ FilesInv'
  BY TypedStep, GroupsStep, FilesInvStep
<1> QED
  BY <1>1, <1>2, PTL DEF Spec

\* The files, as the property sees them.
LEMMA FilesMean == Typed /\ (Fits => Groups) /\ FilesInv => FilesAreOnDisk
<1> SUFFICES ASSUME Typed, Groups, FilesInv, Fits, power = "on", todo = <<>>
             PROVE  /\ disk[info.block_size] = SuperBlock
                    /\ \A i \in Created : (\A j \in Created : Group(j) <= Group(i)) =>
                          /\ MarkCell(i) = One
                          /\ \E j \in Created :
                                j >= i /\ SameCell(i, j) /\ InodeCell(GroupOf(i), i) = Inode(j, mounts)
  BY DEF FilesAreOnDisk
<1>1. info \in Descriptors /\ disk \in Disk /\ info.block_size \in Nat /\ MAX_FILES \in Nat
  BY Geometry DEF Typed
<1>2. disk[info.block_size] = SuperBlock
  <2>1. disk[Start(1)] = SuperBlock
    BY GroupsWhenIdle
  <2> QED
    BY <1>1, <2>1 DEF Start
<1>3. FilesOn(disk)
  BY <1>1, AfterNothing DEF FilesInv
<1>4. ASSUME NEW i \in Created, \A j \in Created : Group(j) <= Group(i)
      PROVE  /\ MarkCell(i) = One
             /\ \E j \in Created :
                   j >= i /\ SameCell(i, j) /\ InodeCell(GroupOf(i), i) = Inode(j, mounts)
  <2>1. MarkCell(i) = disk[Start(GroupOf(i)[3]) + INODE_IDX_IN_BLOCK_GROUP(i)]
    BY DEF MarkCell, Start, INODE_IDX_IN_BLOCK_GROUP
  <2>2. InodeCell(GroupOf(i), i) = disk[Start(GroupOf(i)[4] + INODE_IDX_CONTAINING_BLOCK(i)) + (i % 4)]
    BY DEF InodeCell, Start, INODE_IDX_CONTAINING_BLOCK
  <2> QED
    BY <1>3, <1>4, <2>1, <2>2 DEF FilesOn
<1> QED
  BY <1>2, <1>4

(***************************************************************************)
(* For blocks of every size and in both groups: when CreateFile has        *)
(* returned, a file of this mount is lost only to a later file whose inode *)
(* goes to the same place (ext2.cpp:132) or to one of the second group,    *)
(* which is created over the first (ext2.cpp:35).  All others are marked   *)
(* and in the table (ext2.cpp:86-139), and the super block is still in     *)
(* block 1, even where a number that does not fit into four bits leads the *)
(* second group's table to the blocks from 0 on (ext2.cpp:203, 248-258).   *)
(***************************************************************************)
THEOREM CreatedFilesAreOnDisk == Spec => []FilesAreOnDisk
BY FilesInvHolds, FilesMean, PTL

=============================================================================
