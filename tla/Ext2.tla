-------------------------------- MODULE Ext2 --------------------------------
(***************************************************************************)
(* The ext2 file system (kernel/drivers/ext2.cpp) over a storage device    *)
(* that writes one sector at a time and may lose its power between any two *)
(* sectors.  The calls are sequential: what a function is going to write   *)
(* is known when it is called, todo is what is left of it.                 *)
(*                                                                         *)
(* The unit of the disk is a cell, the size of an inode (128 bytes): a     *)
(* sector has four.  A descriptor and a super block are in the first cell  *)
(* of their block; a byte of a bitmap is given a cell of its own, so that  *)
(* a group has as many inodes as its block has cells, where the code has   *)
(* as many as bytes.  With them the inode table shrinks: the code's has up *)
(* to 256 blocks, the model's three, so that what is said of the end of    *)
(* the disk holds of a table that is scaled down with the bitmap.  The     *)
(* build option K_NEW_STORAGE, which no makefile sets and with which every *)
(* mount formats anew, is left out.                                        *)
(*                                                                         *)
(* An inode carries its index and the mount that wrote it, by which the    *)
(* properties recognise it; the code writes only that it exists.           *)
(***************************************************************************)
EXTENDS Naturals, Sequences, FiniteSetsExt

CONSTANTS
    MAX_FILES,
    Descriptors,   \* FsDescriptors: [block_size, super_block_idx]
    Cells,         \* of the disk
    MaxMounts      \* bound: how often the file system is constructed

SECTOR_SIZE == 4
FieldSize == 16    \* a block number in a descriptor has four bits

\* MAX_FILES are two groups of the smallest blocks (1024 files, 512 bytes of a
\* bitmap).  The blocks that a descriptor leads to are on the disk, with as much
\* of the inode table as the scaled groups need.
ASSUME Ext2Assumption ==
    /\ MAX_FILES \in 1 .. 2 * SECTOR_SIZE /\ MaxMounts \in Nat /\ Cells \in Nat
    /\ Descriptors \subseteq [block_size : Nat \ {0}, super_block_idx : Nat]
    /\ \A d \in Descriptors :
          /\ d.block_size % SECTOR_SIZE = 0
          /\ (d.super_block_idx + FieldSize + 2) * d.block_size <= Cells

Zero == <<"zero">>
One == <<"one">>
SuperBlock == <<"super_block">>
Inode(idx, mount) == <<"inode", idx, mount>>

\* The block bitmap, the inode bitmap and the inode table, behind the descriptor.
BlockGroupDescriptor(b) == <<"group", (b + 1) % FieldSize, (b + 2) % FieldSize, (b + 3) % FieldSize>>

\* Both bitmap fields are nonzero.  The first byte of the other objects has
\* one that is zero.
Found(cell) == cell[1] = "group" /\ cell[2] # 0 /\ cell[3] # 0

VARIABLES
    info,    \* the FsDescriptor
    disk,    \* cell number -> cell
    power,   \* "off", "on" or "panic"
    mounts,  \* how often the constructor ran
    cache,   \* _file_inodes_cache and what lies behind it
    todo     \* sectors still to be written by the function

vars == <<info, disk, power, mounts, cache, todo>>

\* A damaged name has the tail of a name that was too long for the entry before.
Entry(inode_idx, name, damaged) == [inode_idx |-> inode_idx, name |-> name, damaged |-> damaged]
Unused == Entry(0, "none", FALSE)
Names == {"short", "long"}
Junk == MAX_FILES + 1   \* an inode_idx overwritten by characters, not 0

NoCache == [i \in 1 .. MAX_FILES + 1 |-> Unused]

Init ==
    /\ info \in Descriptors
    /\ disk = [c \in 0 .. Cells - 1 |-> Zero]
    /\ power = "off" /\ mounts = 0
    /\ cache = NoCache /\ todo = <<>>

-----------------------------------------------------------------------------
(* Blocks, as read from a disk d and as the sectors to be written.         *)

InBlock == 0 .. info.block_size - 1
sectors_per_block == info.block_size \div SECTOR_SIZE
BLOCK_TO_SECTOR(block) == block * sectors_per_block

read_storage(d, block) == [c \in InBlock |-> d[BLOCK_TO_SECTOR(block) * SECTOR_SIZE + c]]

write_storage(buffer, block) ==
    [i \in 1 .. sectors_per_block |->
        [lba |-> BLOCK_TO_SECTOR(block) + i - 1,
         data |-> [c \in 0 .. SECTOR_SIZE - 1 |-> buffer[(i - 1) * SECTOR_SIZE + c]]]]

write_object_to_block(object, block) ==
    write_storage([c \in InBlock |-> IF c = 0 THEN object ELSE Zero], block)

zero_block(block) == write_object_to_block(Zero, block)

\* One sector arrives at the disk.
Stored(d, w) ==
    [c \in DOMAIN d |-> IF c \div SECTOR_SIZE = w.lba THEN w.data[c % SECTOR_SIZE] ELSE d[c]]

\* All of them, in this order: the last one to a sector stays.
After(d, writes) ==
    LET arriving(c) == {i \in DOMAIN writes : writes[i].lba = c \div SECTOR_SIZE}
    IN  [c \in DOMAIN d |->
            IF arriving(c) = {} THEN d[c] ELSE writes[Max(arriving(c))].data[c % SECTOR_SIZE]]

-----------------------------------------------------------------------------
(* Block groups.                                                           *)

group_inode_size == info.block_size

\* Mutant of INODE_IDX_TO_BLOCK_GROUP: the groups begin with the super block.
GroupAtSuperBlock(idx) == (idx - 1) \div group_inode_size + info.super_block_idx

INODE_IDX_TO_BLOCK_GROUP(idx) == (idx - 1) \div group_inode_size + info.super_block_idx + 1

INODE_IDX_IN_BLOCK_GROUP(idx) == (idx - 1) % group_inode_size

\* Mutant of INODE_IDX_CONTAINING_BLOCK: the table is of one block.
FirstTableBlock(idx) == 0

INODE_IDX_CONTAINING_BLOCK(idx) == idx \div info.block_size

\* ForceCreate.
NewGroup(b) ==
    LET g == BlockGroupDescriptor(b)
    IN  write_object_to_block(g, b) \o zero_block(g[2]) \o zero_block(g[3]) \o zero_block(g[4])

\* The descriptor g and the bitmaps it points to on the disk d.
BlockGroupTable(d, g) ==
    [group_descriptor |-> g,
     block_bitmap |-> read_storage(d, g[2]), inode_bitmap |-> read_storage(d, g[3])]

\* CreateIfNotFound: the bitmaps of a new group are read back as well.
get_block_group(d, b) ==
    LET cell == read_storage(d, b)[0]
        writes == IF Found(cell) THEN <<>> ELSE NewGroup(b)
        g == IF Found(cell) THEN cell ELSE BlockGroupDescriptor(b)
    IN  [bg |-> BlockGroupTable(After(d, writes), g), writes |-> writes]

\* The table's block is read after the bitmaps were written.
InodeWrite(d, g, idx) ==
    LET block == g[4] + INODE_IDX_CONTAINING_BLOCK(idx)
    IN  write_storage([read_storage(d, block) EXCEPT ![idx % 4] = Inode(idx, mounts)], block)

BitmapWrites(b, bg) ==
    LET g == bg.group_descriptor
    IN  write_object_to_block(g, b) \o write_storage(bg.block_bitmap, g[2])
          \o write_storage(bg.inode_bitmap, g[3])

\* Mutant of write_block_group: the inode goes first.
InodeFirst(d, b, bg, idx) == InodeWrite(d, bg.group_descriptor, idx) \o BitmapWrites(b, bg)

write_block_group(d, b, bg, idx) ==
    BitmapWrites(b, bg) \o InodeWrite(After(d, BitmapWrites(b, bg)), bg.group_descriptor, idx)

-----------------------------------------------------------------------------

\* The super block is read, and written anew in block 1 in any case.
get_super_block == write_object_to_block(SuperBlock, 1)

\* Fs::Fs: the super block, then the first group is sought.
Mount ==
    /\ power = "off" /\ mounts < MaxMounts
    /\ power' = "on" /\ mounts' = mounts + 1
    /\ todo' = get_super_block
          \o get_block_group(After(disk, get_super_block), info.super_block_idx + 1).writes
    /\ cache' = [NoCache EXCEPT ![1] = Entry(1, "root", FALSE)]
    /\ UNCHANGED <<info, disk>>

Free == {i \in 1 .. MAX_FILES : cache[i].inode_idx = 0}

get_available_inode_idx == CHOOSE i \in Free : \A j \in Free : i <= j

\* Mutant of Cached: FILENAME_LENGTH bytes are copied, whatever the name.
CopiedWhole(idx, name) ==
    [cache EXCEPT ![idx] = Entry(Junk, name, @.damaged),
                  ![idx + 1] = Entry(@.inode_idx, @.name, TRUE)]

\* The entry of a new file.  A name may have up to 511 characters, an entry has
\* room for 256: the rest goes over inode_idx and the next entry's name.
Cached(idx, name) ==
    IF name = "long"
      THEN [cache EXCEPT ![idx] = Entry(Junk, name, @.damaged),
                         ![idx + 1] = Entry(@.inode_idx, @.name, TRUE)]
      ELSE [cache EXCEPT ![idx] = Entry(idx, name, @.damaged)]

CreateFile(name) ==
    /\ power = "on" /\ todo = <<>> /\ Free # {}
    /\ LET idx == get_available_inode_idx
           b == INODE_IDX_TO_BLOCK_GROUP(idx)
           got == get_block_group(disk, b)
           bg == [got.bg EXCEPT !.inode_bitmap[INODE_IDX_IN_BLOCK_GROUP(idx)] = One]
       IN  /\ todo' = got.writes \o write_block_group(After(disk, got.writes), b, bg, idx)
           /\ cache' = Cached(idx, name)
    /\ UNCHANGED <<info, disk, power, mounts>>

\* An assertion of CreateFile fails: there is no entry left, or the name has
\* 512 characters.
FailedAssertion(tooLong) ==
    /\ power = "on" /\ todo = <<>> /\ (Free = {} \/ tooLong)
    /\ power' = "panic"
    /\ UNCHANGED <<info, disk, mounts, cache, todo>>

\* WriteSectors of the storage device.
WriteSector ==
    /\ todo # <<>>
    /\ disk' = Stored(disk, Head(todo)) /\ todo' = Tail(todo)
    /\ UNCHANGED <<info, power, mounts, cache>>

\* The machine is switched off.
PowerOff ==
    /\ power # "off"
    /\ power' = "off" /\ cache' = NoCache /\ todo' = <<>>
    /\ UNCHANGED <<info, disk, mounts>>

Next ==
    \/ Mount \/ WriteSector \/ PowerOff
    \/ \E name \in Names : CreateFile(name)
    \/ \E tooLong \in BOOLEAN : FailedAssertion(tooLong)

Spec == Init /\ [][Next]_vars

-----------------------------------------------------------------------------
(* What is on the disk.                                                    *)

Cell == {Zero, One, SuperBlock}
            \cup {BlockGroupDescriptor(b) : b \in 0 .. FieldSize}
            \cup {Inode(i, n) : i \in 1 .. MAX_FILES, n \in 1 .. MaxMounts}

\* The variables have values of their types; no write ends behind the disk.
TypeOK ==
    /\ info \in Descriptors
    /\ DOMAIN disk = 0 .. Cells - 1 /\ \A c \in DOMAIN disk : disk[c] \in Cell
    /\ power \in {"off", "on", "panic"} /\ mounts \in 0 .. MaxMounts
    /\ cache \in [1 .. MAX_FILES + 1 ->
                     [inode_idx : 0 .. Junk, name : Names \cup {"none", "root"}, damaged : BOOLEAN]]
    /\ \A i \in 1 .. Len(todo) : (todo[i].lba + 1) * SECTOR_SIZE <= Cells

\* The numbers of the first group fit into its descriptor, and the super block
\* at block 1 is in front of it.
Fits == info.super_block_idx >= 1 /\ info.super_block_idx + 4 < FieldSize

\* The second group's descriptor would be in the block bitmap of the first.
OneGroup == ~Found(disk[(info.super_block_idx + 2) * info.block_size])

FirstGroup == BlockGroupDescriptor(info.super_block_idx + 1)

Marked == {i \in 1 .. group_inode_size : disk[FirstGroup[3] * info.block_size + i - 1] = One}

InodeCell(g, i) == disk[(g[4] + i \div info.block_size) * info.block_size + (i % 4)]

Written == {i \in 1 .. MAX_FILES :
               InodeCell(FirstGroup, i)[1] = "inode" /\ InodeCell(FirstGroup, i)[2] = i}

(***************************************************************************)
(* Wherever the power is lost, the marks in the inode bitmap are those of  *)
(* the files up to some index, and the inodes of all of them are in the    *)
(* table but perhaps that of the last: an inode is never there without its *)
(* mark, and no mark but the last without its inode.  Of blocks of one     *)
(* sector, until a second group is created (ext2.cpp:110-139).             *)
(***************************************************************************)
MarksLeadInodes ==
    Fits /\ OneGroup /\ info.block_size = SECTOR_SIZE =>
        \E n \in 1 .. MAX_FILES : Marked = 2 .. n /\ Written \in {2 .. n, 2 .. n - 1}

\* The files of this mount, and their groups counted from 0.
Created == {i \in 2 .. MAX_FILES : cache[i].inode_idx # 0}
Group(i) == (i - 1) \div group_inode_size
GroupOf(i) == BlockGroupDescriptor(info.super_block_idx + 1 + Group(i))
MarkCell(i) == disk[GroupOf(i)[3] * info.block_size + ((i - 1) % group_inode_size)]

\* The inode of j goes where that of i is: a block that is larger than a sector
\* has inodes in its first sector only (ext2.cpp:132).
SameCell(i, j) == i \div info.block_size = j \div info.block_size /\ i % 4 = j % 4

(***************************************************************************)
(* When CreateFile has returned, the files this mount has created are lost *)
(* in two ways only.  A file is marked in its bitmap, and its place in the *)
(* table holds the inode of this mount, its own or that of a later file    *)
(* that shares the place, unless there is a file of a later group, which   *)
(* lies over the bitmap and the table of the group before                  *)
(* (ext2.cpp:35, 86-139).  The super block the constructor wrote to block  *)
(* 1 is still there (ext2.cpp:203, 248-258).                               *)
(***************************************************************************)
FilesAreOnDisk ==
    Fits /\ power = "on" /\ todo = <<>> =>
        /\ disk[info.block_size] = SuperBlock
        /\ \A i \in Created : (\A j \in Created : Group(j) <= Group(i)) =>
              /\ MarkCell(i) = One
              /\ \E j \in Created :
                    j >= i /\ SameCell(i, j) /\ InodeCell(GroupOf(i), i) = Inode(j, mounts)

(***************************************************************************)
(* An entry of the cache names its own inode and its own file, unless a    *)
(* name longer than an entry was given to it or to the entry before        *)
(* (ext2.cpp:96, 103-104, ext2.h:324-328).  Besides, all variables have    *)
(* values of their types, and no write ends behind the disk.               *)
(***************************************************************************)
EntriesIntact ==
    TypeOK /\ \A i \in 1 .. MAX_FILES + 1 :
        LET long(j) == j >= 1 /\ cache[j].name = "long"
        IN  /\ cache[i].inode_idx \notin {0, i} => long(i)
            /\ cache[i].damaged => long(i - 1)

(***************************************************************************)
(* A group that is on the disk stays there and keeps its blocks: neither a *)
(* new mount, which writes the super block again, nor a second group takes *)
(* the place of its descriptor (ext2.cpp:73-76, 122, 273-279).             *)
(***************************************************************************)
GroupsStay ==
    [][Fits => \A c \in DOMAIN disk : Found(disk[c]) => disk'[c] = disk[c]]_vars
=============================================================================
