---------------------------- MODULE PagingProofs ----------------------------
(***************************************************************************)
(* Proofs about Paging, for every number of frames, size of tables and     *)
(* layout of the regions that the assumptions allow: that frames are not   *)
(* shared, that only their want stops a mapping, that processes are        *)
(* isolated, that the blocks of the primitive heap do not overlap, that    *)
(* every directory maps the kernel one to one and the regions it was made  *)
(* with, and that what is mapped stays mapped to the same frame.            *)
(***************************************************************************)
EXTENDS Paging, WellFoundedInduction, FiniteSetTheorems, TLAPS

(***************************************************************************)
(* The constants the leaves below use.                                     *)
(***************************************************************************)
LEMMA Sizes ==
  /\ NumFrames \in Nat /\ PageSize \in Nat /\ NumTables \in Nat /\ TableSize \in Nat
  /\ NumFrames > 0 /\ PageSize > 0 /\ EndOfKernel \in Nat /\ EndOfKernel > 0
  BY PagingAssumption

(***************************************************************************)
(* A set of naturals that is not empty has a least element, which is what  *)
(* FindFirst searches for.                                                 *)
(***************************************************************************)
LEMMA MinProperties ==
  ASSUME NEW S \in SUBSET Nat, S # {}
  PROVE  Min(S) \in S /\ \A y \in S : Min(S) <= y
<1>1. IsWellFoundedOn(OpToRel(<, Nat), Nat)
  BY NatLessThanWellFounded
<1>2. \E x \in S : \A y \in S : ~(<<y, x>> \in OpToRel(<, Nat))
  BY <1>1, WFMin
<1>3. \E x \in S : \A y \in S : x <= y
  <2>1. PICK x \in S : \A y \in S : ~(<<y, x>> \in OpToRel(<, Nat))
    BY <1>2
  <2>2. ASSUME NEW y \in S
        PROVE  x <= y
    <3>1. <<y, x>> \in Nat \X Nat /\ <<y, x>>[1] = y /\ <<y, x>>[2] = x
      OBVIOUS
    <3>2. ~(y < x)
      BY <2>1, <3>1, Zenon DEF OpToRel
    <3> QED
      BY <3>2
  <2> QED
    BY <2>2
<1> QED
  BY <1>3 DEF Min

(***************************************************************************)
(* FindFirst answers with a free frame, or with its error when none is.    *)
(***************************************************************************)
LEMMA FindFirstIsFree ==
  ASSUME NEW taken \in SUBSET Frame
  PROVE  /\ FindFirst(taken) # NoFrame => FindFirst(taken) \in Frame \ taken
         /\ FindFirst(taken) = NoFrame => taken = Frame
<1>1. CASE Frame \ taken = {}
  BY <1>1 DEF FindFirst
<1>2. CASE Frame \ taken # {}
  <2>1. Frame \ taken \in SUBSET Nat
    BY DEF Frame
  <2>2. Min(Frame \ taken) \in Frame \ taken
    BY <1>2, <2>1, MinProperties
  <2> QED
    BY <1>2, <2>2, Sizes DEF FindFirst, Frame, NoFrame
<1> QED
  BY <1>1, <1>2

(***************************************************************************)
(* The primitive heap only goes up.                                        *)
(***************************************************************************)
LEMMA AlignedIsAbove ==
  ASSUME NEW addr \in Nat
  PROVE  Aligned(addr) \in Nat /\ Aligned(addr) >= addr
<1> DEFINE q == addr \div PageSize
           r == addr % PageSize
<1>1. q \in Nat /\ r \in 0 .. PageSize - 1 /\ addr = q * PageSize + r
  BY Sizes
<1>2. q * PageSize \in Nat
  BY <1>1, Sizes
<1>3. Aligned(addr) = IF r = 0 THEN addr ELSE q * PageSize + PageSize
  BY DEF Aligned
<1> HIDE DEF q, r
<1> QED
  BY <1>1, <1>2, <1>3, Sizes
-----------------------------------------------------------------------------
(* Frames.                                                                 *)

(***************************************************************************)
(* FramesNotShared is almost inductive: what FindFirst answers is a frame  *)
(* no entry holds because the frames that entries hold are marked.  It     *)
(* also needs the type of the tables.                                      *)
(***************************************************************************)
FrameInv ==
  /\ frames \subseteq Frame
  /\ \A t \in DOMAIN enteries : enteries[t] \in [Index -> Frame \cup {NoFrame}]
  /\ FramesNotShared
  /\ PanicsForWantOfFrames

(***************************************************************************)
(* A frame taken for a page leaves every other entry as it was             *)
(* (_map_virt_to_phys, paging.cpp:58-85).                                  *)
(***************************************************************************)
LEMMA MapPageKeepsFrames ==
  ASSUME FrameInv, MapPage
  PROVE  FrameInv'
<1> DEFINE page == Head(job)
           table == directory[target][page \div TableSize]
           new == Aligned(heap)
           used == IF table = Null THEN new ELSE table
           i == EntryIndex(page, table, new)
           frame == FindFirst(frames)
           empty == [k \in Index |-> NoFrame]
           old == IF table = Null
                    THEN [t \in DOMAIN enteries \cup {new} |-> IF t = new THEN empty ELSE enteries[t]]
                    ELSE enteries
<1>1. /\ pc # "panic"
      /\ frame = NoFrame => pc' = "panic" /\ enteries' = old /\ frames' = frames
      /\ frame # NoFrame => /\ enteries' = [old EXCEPT ![used] = [@ EXCEPT ![i] = frame]]
                            /\ frames' = frames \cup {frame} /\ pc' = pc
  BY DEF MapPage, SetAtIndex
<1>2. /\ frame # NoFrame => frame \in Frame \ frames
      /\ frame = NoFrame => frames = Frame
  BY FindFirstIsFree DEF FrameInv
<1>3. \A t \in DOMAIN old :
         /\ old[t] \in [Index -> Frame \cup {NoFrame}]
         /\ \A k \in Index : old[t][k] # NoFrame =>
               t \in DOMAIN enteries /\ enteries[t][k] = old[t][k]
  BY DEF FrameInv
<1> HIDE DEF page, table, new, used, i, frame, empty, old
<1>4. /\ \A t \in DOMAIN old, k \in Index : old[t][k] # NoFrame => old[t][k] \in frames
      /\ \A t, u \in DOMAIN old, k, l \in Index :
            old[t][k] # NoFrame /\ old[t][k] = old[u][l] => t = u /\ k = l
  BY <1>3 DEF FrameInv, FramesNotShared
<1>6. CASE frame = NoFrame
  BY <1>1, <1>2, <1>3, <1>4, <1>6 DEF FrameInv, FramesNotShared, PanicsForWantOfFrames
<1>7. CASE frame # NoFrame
  <2>1. /\ DOMAIN enteries' = DOMAIN old
        /\ \A t \in DOMAIN old : \A k \in Index :
              enteries'[t][k] = IF t = used /\ k = i THEN frame ELSE old[t][k]
    BY <1>1, <1>3, <1>7
  <2>2. \A t \in DOMAIN old : enteries'[t] \in [Index -> Frame \cup {NoFrame}]
    BY <1>1, <1>2, <1>3, <1>7
  <2>3. frames' = frames \cup {frame} /\ frames' \subseteq Frame /\ frame \notin frames
    BY <1>1, <1>2, <1>7 DEF FrameInv
  <2>4. FramesNotShared'
    BY <1>4, <2>1, <2>3 DEF FramesNotShared
  <2> QED
    BY <1>1, <1>7, <2>1, <2>2, <2>3, <2>4 DEF FrameInv, PanicsForWantOfFrames
<1> QED
  BY SMTT(30), <1>6, <1>7

(***************************************************************************)
(* Every step keeps it: only MapPage touches frames and entries, the other *)
(* steps at most add tables that are empty (paging.cpp:109-219).           *)
(***************************************************************************)
LEMMA FrameInvStep ==
  ASSUME FrameInv, [Next]_vars
  PROVE  FrameInv'
<1> USE DEF FrameInv, FramesNotShared, PanicsForWantOfFrames
<1>1. CASE MapPage
  BY <1>1, MapPageKeepsFrames
<1>2. CASE Done \/ Panic
  BY <1>2 DEF Done, Panic, vars
<1>3. CASE Initialize
  BY <1>3 DEF Initialize
<1>4. CASE InitializeHeap
  BY <1>4 DEF InitializeHeap
<1>5. CASE InitializeEnd
  BY <1>5 DEF InitializeEnd
<1>6. CASE MapKernelStack
  BY <1>6 DEF MapKernelStack
<1>7. CASE create_directory
  BY <1>7 DEF create_directory
<1>8. ASSUME NEW page \in Page, NEW dir \in DOMAIN directory, page_fault_handler(page, dir)
      PROVE  FrameInv'
  BY <1>8 DEF page_fault_handler
<1>10. CASE UNCHANGED vars
  BY <1>10 DEF vars
<1> QED
  BY <1>1, <1>2, <1>3, <1>4, <1>5, <1>6, <1>7, <1>8, <1>10 DEF Next

(***************************************************************************)
(* At the reset no frame is taken and there is no table.                   *)
(***************************************************************************)
LEMMA FrameInvInit == Init => FrameInv
  BY DEF Init, FrameInv, FramesNotShared, PanicsForWantOfFrames

(***************************************************************************)
(* No two entries of any tables hold the same frame, whatever processes    *)
(* there are (paging.cpp:58-85, frame_table.cpp:5-30).                     *)
(***************************************************************************)
THEOREM FramesAreNotShared == Spec => []FramesNotShared
<1>1. FrameInv => FramesNotShared
  BY DEF FrameInv
<1> QED
  BY <1>1, FrameInvInit, FrameInvStep, PTL DEF Spec

(***************************************************************************)
(* A mapping ends in a panic only when every frame is taken                *)
(* (frame_table.cpp:5-20, paging.cpp:71-74).                               *)
(***************************************************************************)
THEOREM PanicsOnlyForWantOfFrames == Spec => []PanicsForWantOfFrames
<1>1. FrameInv => PanicsForWantOfFrames
  BY DEF FrameInv
<1> QED
  BY <1>1, FrameInvInit, FrameInvStep, PTL DEF Spec

-----------------------------------------------------------------------------
(* Isolation.                                                              *)

(***************************************************************************)
(* Isolated rests on the primitive heap, every table a directory has lies  *)
(* below its pointer, so that a new one is in no other directory; and on   *)
(* tables never changing their index when a directory is copied.           *)
(***************************************************************************)
DirectoryInv ==
  /\ heap \in Nat
  /\ \A d \in DOMAIN directory :
        /\ directory[d] \in [TableIdx -> Nat]
        /\ \A i \in TableIdx : directory[d][i] < heap \/ directory[d][i] = Null
  /\ created \subseteq DOMAIN directory
  /\ \A d, e \in DOMAIN directory : \A i, k \in TableIdx :
        directory[d][i] # Null /\ directory[d][i] = directory[e][k] => i = k
  /\ Isolated
  /\ pc \in {"reset", "kernel", "heap"} => created = {}
  /\ pc \in {"kernel", "heap"} => kernelDir \in DOMAIN directory
  /\ pc \in {"booted", "stack", "ready", "create"} => currentDir \in DOMAIN directory

(***************************************************************************)
(* A mapping adds a table nobody else has, or none (_get_page,             *)
(* paging.cpp:36-56).                                                      *)
(***************************************************************************)
LEMMA MapPageKeepsDirectories ==
  ASSUME DirectoryInv, MapPage
  PROVE  DirectoryInv'
<1> DEFINE idx == Head(job) \div TableSize
           table == directory[target][idx]
           new == Aligned(heap)
           used == IF table = Null THEN new ELSE table
<1>1. /\ heap' = IF table = Null THEN new + PageSize ELSE heap
      /\ directory' = [directory EXCEPT ![target] = [@ EXCEPT ![idx] = used]]
      /\ pc' \in {pc, "panic"}
      /\ UNCHANGED <<kernelDir, currentDir, baseTables, created>>
  BY DEF MapPage
<1>2. new \in Nat /\ new >= heap /\ heap \in Nat
  BY AlignedIsAbove DEF DirectoryInv
<1>3. \A d \in DOMAIN directory : directory[d] \in [TableIdx -> Nat]
  BY DEF DirectoryInv
<1>4. /\ DOMAIN directory' = DOMAIN directory
      /\ \A d \in DOMAIN directory :
            /\ directory'[d] \in [TableIdx -> Nat]
            /\ \A i \in TableIdx :
                  directory'[d][i] = IF d = target /\ i = idx /\ table = Null
                                       THEN new ELSE directory[d][i]
  BY <1>1, <1>2, <1>3
<1> HIDE DEF idx, table, new, used
<1>5. heap' \in Nat /\ heap' >= heap /\ (table = Null => new < heap')
  BY <1>1, <1>2, Sizes
<1>6. \A d \in DOMAIN directory, i \in TableIdx : directory[d][i] < heap \/ directory[d][i] = Null
  BY DEF DirectoryInv
<1>7. \A d \in DOMAIN directory, i \in TableIdx : directory'[d][i] < heap' \/ directory'[d][i] = Null
  BY <1>2, <1>3, <1>4, <1>5, <1>6
<1>8. ASSUME NEW d \in DOMAIN directory, NEW e \in DOMAIN directory,
             NEW i \in TableIdx, NEW k \in TableIdx,
             directory'[d][i] # Null, directory'[d][i] = directory'[e][k]
      PROVE  \/ directory[d][i] # Null /\ directory[d][i] = directory[e][k]
             \/ d = e /\ i = k
  BY <1>2, <1>3, <1>4, <1>6, <1>8 DEF Null
<1>9. \A d, e \in DOMAIN directory : \A i, k \in TableIdx :
         directory'[d][i] # Null /\ directory'[d][i] = directory'[e][k] => i = k
  BY <1>8 DEF DirectoryInv
<1>10. Isolated'
  BY <1>1, <1>4, <1>8 DEF DirectoryInv, Isolated
<1> QED
  BY SMTT(30), <1>1, <1>4, <1>5, <1>7, <1>9, <1>10 DEF DirectoryInv

(***************************************************************************)
(* A new directory has tables of the kernel only, each at the index it has *)
(* there (create_directory, paging.cpp:156-184).                           *)
(***************************************************************************)
LEMMA CreateKeepsDirectories ==
  ASSUME DirectoryInv, create_directory
  PROVE  DirectoryInv'
<1> DEFINE dir == Aligned(heap)
<1>1. /\ heap' = dir + DirectorySize
      /\ directory' = [d \in DOMAIN directory \cup {dir} |->
                          IF d = dir THEN SharedTables ELSE directory[d]]
      /\ created' = created \cup {dir} /\ pc = "ready" /\ pc' = "create"
      /\ UNCHANGED <<kernelDir, currentDir, baseTables>>
  BY DEF create_directory
<1>2. dir \in Nat /\ dir >= heap /\ heap \in Nat /\ heap' \in Nat /\ heap' >= heap
  BY <1>1, AlignedIsAbove, Sizes DEF DirectoryInv, DirectorySize
<1>3. \A d \in DOMAIN directory : directory[d] \in [TableIdx -> Nat]
  BY DEF DirectoryInv
<1>4. currentDir \in DOMAIN directory
  BY <1>1 DEF DirectoryInv
<1>5. SharedTables \in [TableIdx -> Nat]
  BY <1>3, <1>4 DEF SharedTables, Null
<1>6. \A i \in TableIdx : SharedTables[i] # Null => i < baseTables /\ SharedTables[i] = directory[currentDir][i]
  BY DEF SharedTables
<1> HIDE DEF dir
<1>7. /\ DOMAIN directory' = DOMAIN directory \cup {dir}
      /\ \A d \in DOMAIN directory' : directory'[d] = IF d = dir THEN SharedTables ELSE directory[d]
  BY <1>1
<1>8. \A d \in DOMAIN directory' : directory'[d] \in [TableIdx -> Nat]
  BY <1>3, <1>5, <1>7
<1>9. \A d \in DOMAIN directory', i \in TableIdx : directory'[d][i] # Null =>
         \E c \in DOMAIN directory : directory[c][i] = directory'[d][i]
  BY <1>4, <1>6, <1>7
<1>10. \A d \in DOMAIN directory', i \in TableIdx : directory'[d][i] < heap' \/ directory'[d][i] = Null
  BY <1>2, <1>3, <1>8, <1>9 DEF DirectoryInv
<1>11. \A d, e \in DOMAIN directory' : \A i, k \in TableIdx :
          directory'[d][i] # Null /\ directory'[d][i] = directory'[e][k] => i = k
  BY <1>9 DEF DirectoryInv
<1>12. Isolated'
  <2>0. baseTables' = baseTables
    BY <1>1
  <2>1. SUFFICES ASSUME NEW d \in created', NEW e \in DOMAIN directory',
                        NEW i \in TableIdx, NEW k \in TableIdx,
                        d # e, directory'[d][i] # Null, directory'[d][i] = directory'[e][k]
                 PROVE  i = k /\ i < baseTables
    BY <2>0 DEF Isolated
  <2>2. d \in DOMAIN directory'
    BY <1>1, <1>7 DEF DirectoryInv
  <2>3. i = k
    BY <1>11, <2>1, <2>2
  <2>4. CASE d = dir \/ e = dir
    BY <1>6, <1>7, <2>1, <2>2, <2>3, <2>4
  <2>5. CASE d # dir /\ e # dir
    BY <1>1, <1>7, <2>1, <2>2, <2>3, <2>5 DEF DirectoryInv, Isolated
  <2> QED
    BY <2>3, <2>4, <2>5
<1> QED
  BY <1>1, <1>2, <1>4, <1>7, <1>8, <1>10, <1>11, <1>12 DEF DirectoryInv

(***************************************************************************)
(* Every step keeps it: only MapPage, the boot and create_directory touch  *)
(* directories (paging.cpp:36-56, 109-184).                                *)
(***************************************************************************)
LEMMA DirectoryInvStep ==
  ASSUME DirectoryInv, [Next]_vars
  PROVE  DirectoryInv'
<1>1. CASE MapPage
  BY <1>1, MapPageKeepsDirectories
<1>2. CASE create_directory
  BY <1>2, CreateKeepsDirectories
<1>3. CASE Initialize
  <2> DEFINE dir == Aligned(heap)
             kdir == Aligned(dir + DirectorySize)
             ft == Aligned(kdir + DirectorySize)
  <2>1. /\ pc = "reset" /\ pc' = "kernel" /\ heap' = ft + NumFrames /\ kernelDir' = kdir
        /\ directory' = [d \in {kdir} |-> NoTables] /\ created' = created
    BY <1>3 DEF Initialize, FrameTableSize
  <2>2. dir \in Nat
    <3>1. heap \in Nat
      BY DEF DirectoryInv
    <3> QED
      BY <3>1, AlignedIsAbove
  <2>3. dir + DirectorySize \in Nat
    BY <2>2, Sizes DEF DirectorySize
  <2>4. kdir \in Nat
    BY <2>3, AlignedIsAbove
  <2>5. kdir + DirectorySize \in Nat
    BY <2>4, Sizes DEF DirectorySize
  <2>6. ft \in Nat
    BY <2>5, AlignedIsAbove
  <2> HIDE DEF dir, kdir, ft
  <2>7. heap' \in Nat /\ DOMAIN directory' = {kdir} /\ directory'[kdir] = NoTables /\ created' = {}
    BY <2>1, <2>6, Sizes DEF DirectoryInv
  <2>8. NoTables \in [TableIdx -> Nat] /\ \A i \in TableIdx : NoTables[i] = Null
    BY DEF NoTables, Null
  <2> QED
    BY <2>1, <2>7, <2>8 DEF DirectoryInv, Isolated
<1>4. CASE InitializeEnd
  <2>1. /\ DOMAIN directory' = DOMAIN directory \cup {currentDir}
        /\ \A d \in DOMAIN directory' : directory'[d] = directory[kernelDir]
        /\ pc = "heap" /\ pc' = "booted"
        /\ heap' = heap /\ currentDir' = currentDir /\ created' = created
    BY <1>4 DEF InitializeEnd
  <2>2. kernelDir \in DOMAIN directory /\ created = {}
    BY <2>1 DEF DirectoryInv
  <2> QED
    BY <2>1, <2>2 DEF DirectoryInv, Isolated
<1>5. CASE InitializeHeap
  BY <1>5 DEF InitializeHeap, DirectoryInv, Isolated
<1>6. CASE Done \/ Panic \/ MapKernelStack
  BY <1>6 DEF Done, Panic, MapKernelStack, vars, DirectoryInv, Isolated
<1>7. ASSUME NEW page \in Page, NEW dir \in DOMAIN directory, page_fault_handler(page, dir)
      PROVE  DirectoryInv'
  BY <1>7 DEF page_fault_handler, DirectoryInv, Isolated
<1>9. CASE UNCHANGED vars
  BY <1>9 DEF vars, DirectoryInv, Isolated
<1> QED
  BY <1>1, <1>2, <1>3, <1>4, <1>5, <1>6, <1>7, <1>9 DEF Next

(***************************************************************************)
(* Processes share no table with each other or with the kernel beyond the  *)
(* first baseTables, whatever is mapped for them (paging.cpp:36-56,        *)
(* 156-184).                                                               *)
(***************************************************************************)
THEOREM ProcessesAreIsolated == Spec => []Isolated
<1>1. Init => DirectoryInv
  BY Sizes DEF Init, DirectoryInv, Isolated
<1>2. DirectoryInv => Isolated
  BY DEF DirectoryInv
<1> QED
  BY <1>1, <1>2, DirectoryInvStep, PTL DEF Spec

-----------------------------------------------------------------------------
(* The blocks of the primitive heap.                                       *)

(***************************************************************************)
(* BlocksDisjoint is inductive once it is known that the pointer of the    *)
(* heap only goes up from the end of the kernel, and that nothing is       *)
(* allocated and no mapping is under way at the reset.                     *)
(***************************************************************************)
\* The blocks B lie behind the kernel and before h, and no two overlap.
Apart(B, h) ==
  /\ \A b \in B : b \subseteq EndOfKernel .. h - 1
  /\ \A b, c \in B : b # c => b \cap c = {}

BlockInv ==
  /\ heap \in Nat /\ heap >= EndOfKernel
  /\ pc = "reset" => DOMAIN enteries = {} /\ DOMAIN directory = {} /\ job = <<>>
  /\ pc # "reset" => Apart(Blocks, heap)

(***************************************************************************)
(* A block given out behind the pointer, which then lies behind the block, *)
(* meets no other (KernelPrimitiveHeap::Allocate, kheap.cpp:13-31).        *)
(***************************************************************************)
LEMMA NewBlock ==
  ASSUME NEW h \in Nat, NEW g \in Nat, NEW a \in Nat, NEW b \in Int, NEW B, NEW C,
         EndOfKernel <= h, h <= a, b < g, h <= g,
         Apart(B, h), C \subseteq B \cup {a .. b}
  PROVE  Apart(C, g)
<1>0. EndOfKernel \in Nat
  BY Sizes
<1>1. a .. b \subseteq EndOfKernel .. g - 1
  BY <1>0
<1>2. EndOfKernel .. h - 1 \subseteq EndOfKernel .. g - 1
  BY <1>0
<1>3. (EndOfKernel .. h - 1) \cap (a .. b) = {}
  BY <1>0
<1>4. \A x \in B : x \subseteq EndOfKernel .. g - 1 /\ x \cap (a .. b) = {}
  BY <1>2, <1>3 DEF Apart
<1>5. \A x \in C : x \in B \/ x = a .. b
  OBVIOUS
<1>6. \A x \in C : x \subseteq EndOfKernel .. g - 1
  BY <1>1, <1>4, <1>5
<1>7. ASSUME NEW x \in C, NEW y \in C, x # y
      PROVE  x \cap y = {}
  BY SMTT(30), <1>4, <1>5, <1>7 DEF Apart
<1> QED
  BY <1>6, <1>7 DEF Apart

(***************************************************************************)
(* A mapping takes at most one block, a table of the size of a page        *)
(* (_get_page, paging.cpp:36-56).                                          *)
(***************************************************************************)
LEMMA MapPageKeepsBlocks ==
  ASSUME BlockInv, MapPage
  PROVE  BlockInv'
<1> DEFINE table == directory[target][Head(job) \div TableSize]
           new == Aligned(heap)
<1>1. /\ job # <<>> /\ pc' \in {pc, "panic"}
      /\ heap' = IF table = Null THEN new + PageSize ELSE heap
      /\ DOMAIN directory' = DOMAIN directory
      /\ DOMAIN enteries' = IF table = Null THEN DOMAIN enteries \cup {new} ELSE DOMAIN enteries
      /\ UNCHANGED <<currentDir, frameTable>>
  BY DEF MapPage
<1>2. /\ heap \in Nat /\ heap >= EndOfKernel /\ pc # "reset"
      /\ Apart(Blocks, heap)
  BY <1>1 DEF BlockInv
<1>3. new \in Nat /\ new >= heap /\ new + PageSize - 1 \in Int
  BY <1>2, AlignedIsAbove, Sizes
<1>4. pc' # "reset"
  BY <1>1, <1>2
<1> HIDE DEF table, new
<1>5. heap' \in Nat /\ heap' >= heap /\ heap' >= EndOfKernel
  BY <1>1, <1>2, <1>3, Sizes
<1>6. CASE table = Null
  <2>1. Blocks' \subseteq Blocks \cup {new .. new + PageSize - 1}
    BY <1>1, <1>6 DEF Blocks
  <2>2. new + PageSize - 1 < heap'
    BY <1>1, <1>3, <1>6, Sizes
  <2>3. Apart(Blocks', heap')
    BY <1>2, <1>3, <1>5, <2>1, <2>2, NewBlock
  <2> QED
    BY <1>4, <1>5, <2>3 DEF BlockInv
<1>7. CASE table # Null
  <2>1. Blocks' = Blocks /\ heap' = heap
    BY <1>1, <1>7 DEF Blocks
  <2> QED
    BY <1>2, <1>4, <2>1 DEF BlockInv
<1> QED
  BY <1>6, <1>7

(***************************************************************************)
(* paging::Initialize takes three blocks one after the other: two          *)
(* directories and the frame table (paging.cpp:109-125).                   *)
(***************************************************************************)
LEMMA InitializeKeepsBlocks ==
  ASSUME BlockInv, Initialize
  PROVE  BlockInv'
<1> DEFINE dir == Aligned(heap)
           kdir == Aligned(dir + DirectorySize)
           ft == Aligned(kdir + DirectorySize)
           D == dir .. dir + DirectorySize - 1
           K == kdir .. kdir + DirectorySize - 1
           F == ft .. ft + NumFrames - 1
<1>1. /\ pc = "reset" /\ pc' = "kernel" /\ heap' = ft + NumFrames /\ currentDir' = dir
      /\ frameTable' = ft /\ DOMAIN directory' = {kdir} /\ enteries' = enteries
  BY DEF Initialize, FrameTableSize
<1>2. heap \in Nat /\ heap >= EndOfKernel /\ DOMAIN enteries = {}
  BY <1>1 DEF BlockInv
<1>3. DirectorySize \in Nat /\ DirectorySize > 0
  BY Sizes DEF DirectorySize
<1>4. dir \in Nat /\ dir >= heap
  BY <1>2, AlignedIsAbove
<1>5. kdir \in Nat /\ kdir >= dir + DirectorySize
  BY <1>3, <1>4, AlignedIsAbove
<1>6. ft \in Nat /\ ft >= kdir + DirectorySize
  BY <1>3, <1>5, AlignedIsAbove
<1>7. Blocks' = {D, K, F}
  BY <1>1, <1>2 DEF Blocks
<1> HIDE DEF dir, kdir, ft
<1>8. heap' \in Nat /\ heap' >= EndOfKernel
  BY <1>1, <1>2, <1>3, <1>4, <1>5, <1>6, Sizes
<1>9. D \cap K = {} /\ D \cap F = {} /\ K \cap F = {}
  BY <1>3, <1>4, <1>5, <1>6
<1>10. /\ D \subseteq EndOfKernel .. heap' - 1 /\ K \subseteq EndOfKernel .. heap' - 1
       /\ F \subseteq EndOfKernel .. heap' - 1
  BY <1>1, <1>2, <1>3, <1>4, <1>5, <1>6, Sizes
<1> HIDE DEF D, K, F
<1>11. Apart({D, K, F}, heap')
  BY <1>9, <1>10 DEF Apart
<1> QED
  BY <1>1, <1>7, <1>8, <1>11 DEF BlockInv

(***************************************************************************)
(* Every step keeps it: besides, create_directory takes a block for its    *)
(* directory, and no other step allocates (paging.cpp:109-184).            *)
(***************************************************************************)
LEMMA BlockInvStep ==
  ASSUME BlockInv, [Next]_vars
  PROVE  BlockInv'
<1>1. CASE MapPage
  BY <1>1, MapPageKeepsBlocks
<1>2. CASE Initialize
  BY <1>2, InitializeKeepsBlocks
<1>3. CASE create_directory
  <2> DEFINE dir == Aligned(heap)
  <2>1. /\ pc = "ready" /\ pc' = "create" /\ heap' = dir + DirectorySize
        /\ DOMAIN directory' = DOMAIN directory \cup {dir}
        /\ UNCHANGED <<enteries, currentDir, frameTable>>
    BY <1>3 DEF create_directory
  <2>2. /\ heap \in Nat /\ heap >= EndOfKernel
        /\ Apart(Blocks, heap)
    BY <2>1 DEF BlockInv
  <2>3. dir \in Nat /\ dir >= heap /\ DirectorySize \in Nat /\ DirectorySize > 0
    BY <2>2, AlignedIsAbove, Sizes DEF DirectorySize
  <2> HIDE DEF dir
  <2>4. Blocks' \subseteq Blocks \cup {dir .. dir + DirectorySize - 1}
    BY <2>1 DEF Blocks
  <2>5. heap' \in Nat /\ heap' >= heap /\ heap' >= EndOfKernel
        /\ dir + DirectorySize - 1 \in Int /\ dir + DirectorySize - 1 < heap'
    BY <2>1, <2>2, <2>3, Sizes
  <2>6. Apart(Blocks', heap')
    BY <2>2, <2>3, <2>4, <2>5, NewBlock
  <2> QED
    BY <2>1, <2>5, <2>6 DEF BlockInv
<1>4. CASE InitializeEnd
  <2>1. /\ pc = "heap" /\ pc' = "booted" /\ Blocks' = Blocks /\ heap' = heap
    BY <1>4 DEF InitializeEnd, Blocks
  <2> QED
    BY <2>1 DEF BlockInv
<1>5. ASSUME UNCHANGED <<heap, enteries, directory, currentDir, frameTable>>,
             pc' = "reset" => pc = "reset" /\ job' = job,
             pc = "reset" => pc' = "reset"
      PROVE  BlockInv'
  BY <1>5 DEF BlockInv, Blocks
<1>6. CASE Done \/ Panic \/ MapKernelStack \/ InitializeHeap
  BY <1>5, <1>6 DEF Done, Panic, MapKernelStack, InitializeHeap, vars
<1>7. ASSUME NEW page \in Page, NEW dir \in DOMAIN directory, page_fault_handler(page, dir)
      PROVE  BlockInv'
  BY <1>5, <1>7 DEF page_fault_handler
<1>9. CASE UNCHANGED vars
  BY <1>5, <1>9 DEF vars
<1> QED
  BY <1>1, <1>2, <1>3, <1>4, <1>6, <1>7, <1>9 DEF Next

(***************************************************************************)
(* Directories, tables and the frame table never overlap each other, nor   *)
(* the kernel's image (kheap.cpp:13-31, paging.cpp:36-56, 109-184).        *)
(***************************************************************************)
THEOREM BlocksNeverOverlap == Spec => []BlocksDisjoint
<1>1. Init => BlockInv
  BY Sizes DEF Init, BlockInv
<1>2. BlockInv => BlocksDisjoint
  BY DEF BlockInv, BlocksDisjoint, Apart
<1> QED
  BY <1>1, <1>2, BlockInvStep, PTL DEF Spec

-----------------------------------------------------------------------------
(* Pages, tables and indices.                                              *)

(***************************************************************************)
(* A page is the page of an index in a table (_get_page, paging.cpp:36-42).*)
(***************************************************************************)
LEMMA PageSplit ==
  ASSUME NEW p \in Nat
  PROVE  /\ p \div TableSize \in Nat /\ p % TableSize \in Index
         /\ p = (p \div TableSize) * TableSize + (p % TableSize)
<1>1. TableSize \in Nat /\ TableSize > 0
  BY PagingAssumption
<1>2. p \div TableSize \in Nat /\ p % TableSize \in 0 .. TableSize - 1
  BY <1>1
<1>3. p = TableSize * (p \div TableSize) + (p % TableSize)
  BY <1>1
<1>4. TableSize * (p \div TableSize) = (p \div TableSize) * TableSize
  BY <1>1, <1>2
<1> QED
  BY <1>2, <1>3, <1>4 DEF Index

\* A greater multiple is greater by the factor at least.
LEMMA ProductIsAbove ==
  ASSUME NEW a \in Nat, NEW b \in Nat, NEW c \in Nat, b < c
  PROVE  c * a >= b * a + a /\ b * a \in Nat /\ c * a \in Nat
<1>1. PICK d \in Nat : c = b + 1 + d
  <2>1. c - b - 1 \in Nat /\ c = b + 1 + (c - b - 1)
    OBVIOUS
  <2> QED
    BY <2>1
<1>2. d * a \in Nat /\ b * a \in Nat
  OBVIOUS
<1>3. c * a = b * a + a + d * a
  BY <1>1
<1> QED
  BY <1>2, <1>3

\* A page has one table and one index in it (paging.cpp:38-39).
LEMMA SplitIsUnique ==
  ASSUME NEW q \in Nat, NEW r \in Index, NEW x \in Nat, NEW y \in Index,
         q * TableSize + r = x * TableSize + y
  PROVE  q = x /\ r = y
<1>1. TableSize \in Nat /\ r \in 0 .. TableSize - 1 /\ y \in 0 .. TableSize - 1
  BY PagingAssumption DEF Index
<1>2. CASE q < x
  <2>1. x * TableSize >= q * TableSize + TableSize /\ q * TableSize \in Nat /\ x * TableSize \in Nat
    BY <1>1, <1>2, ProductIsAbove
  <2> QED
    BY <1>1, <2>1
<1>3. CASE x < q
  <2>1. q * TableSize >= x * TableSize + TableSize /\ q * TableSize \in Nat /\ x * TableSize \in Nat
    BY <1>1, <1>3, ProductIsAbove
  <2> QED
    BY <1>1, <2>1
<1>4. CASE q = x
  <2>1. q * TableSize \in Nat
    BY <1>1
  <2> QED
    BY <1>1, <1>4, <2>1
<1> QED
  BY <1>2, <1>3, <1>4

\* The table and the index of a page are those of a directory
\* (paging.cpp:38-39).
LEMMA PageTable ==
  ASSUME NEW p \in Page
  PROVE  p \div TableSize \in TableIdx /\ p % TableSize \in Index /\ p \in Nat
<1>1. p \in Nat /\ NumTables \in Nat /\ TableSize \in Nat /\ NumTables * TableSize \in Nat
  BY PagingAssumption DEF Page
<1>2. p < NumTables * TableSize
  BY <1>1 DEF Page
<1> DEFINE q == p \div TableSize
           r == p % TableSize
<1>3. q \in Nat /\ r \in Index /\ p = q * TableSize + r
  BY <1>1, PageSplit
<1> HIDE DEF q, r
<1>4. r \in Nat
  BY <1>1, <1>3 DEF Index
<1>5. ~(NumTables < q)
  <2>1. SUFFICES ASSUME NumTables < q
                 PROVE  FALSE
    OBVIOUS
  <2>2. q * TableSize >= NumTables * TableSize + TableSize /\ q * TableSize \in Nat
    BY <1>1, <1>3, <2>1, ProductIsAbove
  <2> QED
    BY <1>1, <1>2, <1>3, <1>4, <2>2
<1>6. q # NumTables
  BY <1>1, <1>2, <1>3, <1>4
<1>7. q \in TableIdx
  BY <1>1, <1>3, <1>5, <1>6 DEF TableIdx
<1> QED
  BY <1>1, <1>3, <1>7 DEF q, r

(***************************************************************************)
(* The table and the index tell pages apart.                               *)
(***************************************************************************)
LEMMA SamePage ==
  ASSUME NEW p \in Page, NEW s \in Page,
         p \div TableSize = s \div TableSize, p % TableSize = s % TableSize
  PROVE  p = s
<1>1. p \in Nat /\ s \in Nat
  BY PageTable
<1> QED
  BY <1>1, PageSplit

(***************************************************************************)
(* A page that is not the first of its table has its predecessor there.    *)
(***************************************************************************)
LEMMA SameTable ==
  ASSUME NEW p \in Nat, p % TableSize # 0
  PROVE  p - 1 \in Nat /\ (p - 1) \div TableSize = p \div TableSize
<1> DEFINE q == p \div TableSize
           r == p % TableSize
           x == (p - 1) \div TableSize
           y == (p - 1) % TableSize
<1>1. TableSize \in Nat /\ TableSize > 0
  BY PagingAssumption
<1>2. q \in Nat /\ r \in Index /\ p = q * TableSize + r /\ r # 0
  BY PageSplit
<1>3. q * TableSize \in Nat /\ r \in 0 .. TableSize - 1
  BY <1>1, <1>2 DEF Index
<1>4. p - 1 \in Nat /\ p - 1 = q * TableSize + (r - 1) /\ r - 1 \in Index
  <2> HIDE DEF q, r
  <2> QED
    BY <1>1, <1>2, <1>3 DEF Index
<1>5. x \in Nat /\ y \in Index /\ p - 1 = x * TableSize + y
  BY <1>4, PageSplit
<1> HIDE DEF q, r, x, y
<1>6. q = x
  BY <1>2, <1>4, <1>5, SplitIsUnique
<1> QED
  BY <1>4, <1>6 DEF q, x

(***************************************************************************)
(* The index of an aligned address is the first, so that _get_page returns *)
(* the first entry of a new table (paging.cpp:52).                         *)
(***************************************************************************)
LEMMA AlignedIndex ==
  ASSUME NEW addr \in Nat
  PROVE  Aligned(addr) % TableSize = 0
<1> DEFINE q == addr \div PageSize
           r == addr % PageSize
           m == PageSize \div TableSize
           a == Aligned(addr)
           x == a \div TableSize
           y == a % TableSize
<1>1. /\ PageSize \in Nat /\ TableSize \in Nat /\ TableSize > 0 /\ PageSize > 0
      /\ PageSize % TableSize = 0
  BY PagingAssumption
<1>2. q \in Nat /\ addr = q * PageSize + r
  BY <1>1
<1>3. m \in Nat /\ PageSize = m * TableSize + 0
  BY <1>1, PageSplit
<1>4. a = IF r = 0 THEN addr ELSE q * PageSize + PageSize
  BY DEF Aligned
<1>5. a \in Nat
  BY AlignedIsAbove
<1>6. x \in Nat /\ y \in Index /\ a = x * TableSize + y
  BY <1>5, PageSplit
<1> HIDE DEF q, r, m, a, x, y
<1>7. \E k \in Nat : a = k * PageSize
  <2>1. CASE r = 0
    BY <1>1, <1>2, <1>4, <2>1
  <2>2. CASE r # 0
    <3>1. q + 1 \in Nat /\ a = (q + 1) * PageSize
      BY <1>1, <1>2, <1>4, <2>2
    <3> QED
      BY <3>1
  <2> QED
    BY <2>1, <2>2
<1>8. PICK k \in Nat : a = k * PageSize
  BY <1>7
<1>9. k * m \in Nat /\ a = (k * m) * TableSize + 0
  BY <1>1, <1>3, <1>8
<1>10. 0 \in Index
  BY <1>1 DEF Index
<1>11. y = 0
  BY <1>6, <1>9, <1>10, SplitIsUnique
<1> QED
  BY <1>11 DEF y, a

-----------------------------------------------------------------------------
(* The invariant about mappings.                                           *)

KernelRegion == 0 .. KernelPages - 1

\* The table of a page, and the entry of a page that has one.
Table(d, p) == directory[d][p \div TableSize]
Entry(d, p) == enteries[Table(d, p)][p % TableSize]

\* The pages a job has left.
Left == {job[j] : j \in 1 .. Len(job)}

\* The phases that map a region.
RegionPhase == {"kernel", "heap", "stack", "create"}

(***************************************************************************)
(* Tables and directories lie below the pointer of the primitive heap.     *)
(***************************************************************************)
AddressInv ==
  /\ \A t \in DOMAIN enteries : 0 < t /\ t < heap
  /\ \A d \in DOMAIN directory : d < heap
  /\ currentDir < heap /\ heap > 0

(***************************************************************************)
(* Which directories there are, and which one the job of a phase is for.   *)
(***************************************************************************)
TargetInv ==
  /\ pc = "reset" => frames = {} /\ DOMAIN enteries = {} /\ DOMAIN directory = {}
  /\ pc # "reset" => kernelDir \in DOMAIN directory
  /\ job # <<>> => target \in DOMAIN directory
  /\ pc \in {"reset", "booted", "ready"} => job = <<>>
  /\ pc \in {"reset", "kernel", "heap", "booted", "stack"} => created = {}
  /\ pc \in {"kernel", "heap", "stack"} => target = kernelDir
  /\ pc \in {"kernel", "heap"} => DOMAIN directory = {kernelDir}
  /\ pc \notin {"reset", "kernel", "panic", "page_fault"} => baseTables = BaseTables

(***************************************************************************)
(* The pages s are absent, no page is twice among them, and a page whose   *)
(* table is still to be made is the first of it, or comes behind another.  *)
(***************************************************************************)
Mappable(d, s) ==
  \A j \in 1 .. Len(s) :
     /\ ~Present(d, s[j])
     /\ \A k \in 1 .. Len(s) : s[j] = s[k] => j = k
     /\ Table(d, s[j]) = Null /\ s[j] % TableSize # 0 =>
           \E k \in 1 .. j - 1 : s[k] \div TableSize = s[j] \div TableSize

(***************************************************************************)
(* What is left of a region is mappable, and of the heap's it is heap.     *)
(***************************************************************************)
JobInv ==
  /\ pc \in RegionPhase => Mappable(target, job)
  /\ pc = "heap" => Left \subseteq Heap

(***************************************************************************)
(* Frames are handed out in the order of the pages of the kernel.          *)
(***************************************************************************)
InOrder ==
  pc = "kernel" =>
     \E n \in 0 .. KernelPages :
        /\ frames = 0 .. n - 1
        /\ Len(job) = KernelPages - n
        /\ \A j \in 1 .. Len(job) : job[j] = n + j - 1
        /\ \A p \in Page : Present(kernelDir, p) <=> p \in 0 .. n - 1
        /\ \A p \in 0 .. n - 1 : Entry(kernelDir, p) = p

(***************************************************************************)
(* Every directory maps the kernel one to one.                             *)
(***************************************************************************)
OneToOne ==
  pc \notin {"reset", "kernel"} =>
     \A d \in DOMAIN directory, p \in KernelRegion : Present(d, p) /\ Entry(d, p) = p

(***************************************************************************)
(* The regions a directory was made with are present or still to be mapped *)
(* and until the machine is booted nothing else is present.                *)
(***************************************************************************)
Coverage ==
  /\ pc \in {"heap", "booted"} =>
        \A p \in Page : Present(kernelDir, p) => p \in KernelRegion \cup Heap
  /\ pc \notin {"reset", "kernel", "panic", "page_fault"} =>
        \A p \in Heap : Present(kernelDir, p) \/ (pc = "heap" /\ p \in Left)
  /\ pc \in {"stack", "ready", "create"} =>
        \A p \in KernelStack : Present(kernelDir, p) \/ (pc = "stack" /\ p \in Left)
  /\ pc \in {"ready", "create"} =>
        \A d \in created, p \in ProcessStack \cup Heap :
           Present(d, p) \/ (pc = "create" /\ d = target /\ p \in Left)

MapInv ==
  /\ TypeOK /\ DirectoryInv /\ AddressInv /\ TargetInv /\ JobInv
  /\ InOrder /\ OneToOne /\ Coverage

-----------------------------------------------------------------------------
(* One page of a mapping.                                                  *)

\* What MapPage works with: the table the page has, the table it gets, the
\* entry that is written and the frame.
OldTable == Table(target, Head(job))
UsedTable == IF OldTable = Null THEN Aligned(heap) ELSE OldTable
UsedIndex == IF OldTable = Null THEN 0 ELSE Head(job) % TableSize
NewFrame == FindFirst(frames)

(***************************************************************************)
(* The phase, the page and the directory of a mapping.                     *)
(***************************************************************************)
LEMMA MapPageOperands ==
  ASSUME MapInv, MapPage
  PROVE  /\ pc \in RegionPhase /\ job # <<>> /\ job \in Seq(Page)
         /\ Head(job) \in Page /\ Head(job) = job[1] /\ Len(job) > 0 /\ Len(job) \in Nat
         /\ target \in DOMAIN directory
         /\ OldTable \in DOMAIN enteries \cup {Null}
         /\ UsedIndex \in Index
         /\ Aligned(heap) \in Nat /\ Aligned(heap) >= heap /\ Aligned(heap) \notin DOMAIN enteries
         /\ heap \in Nat /\ heap > 0
<1>1. job # <<>> /\ pc \notin {"panic", "page_fault"}
  BY DEF MapPage
<1>2. /\ job \in Seq(Page) /\ heap \in Nat
      /\ pc \in {"reset", "kernel", "heap", "booted", "stack", "ready", "create", "panic", "page_fault"}
      /\ \A d \in DOMAIN directory : directory[d] \in [TableIdx -> DOMAIN enteries \cup {Null}]
  BY DEF MapInv, TypeOK
<1>3. pc \notin {"reset", "booted", "ready"} /\ target \in DOMAIN directory
  BY <1>1 DEF MapInv, TargetInv
<1>4. pc \in RegionPhase
  BY <1>1, <1>2, <1>3 DEF RegionPhase
<1>5. Head(job) \in Page /\ Head(job) = job[1] /\ Len(job) > 0 /\ Len(job) \in Nat
  BY <1>1, <1>2
<1>6. Head(job) \div TableSize \in TableIdx /\ Head(job) % TableSize \in Index
  BY <1>5, PageTable
<1>7. OldTable \in DOMAIN enteries \cup {Null}
  BY <1>2, <1>3, <1>6 DEF OldTable, Table
<1>8. UsedIndex \in Index
  BY <1>6, PagingAssumption DEF UsedIndex, Index
<1>9. Aligned(heap) \in Nat /\ Aligned(heap) >= heap
  BY SMTT(30), <1>2, AlignedIsAbove
<1>10. \A t \in DOMAIN enteries : t < heap /\ t \in Nat
  BY DEF MapInv, AddressInv, TypeOK
<1>11. Aligned(heap) \notin DOMAIN enteries /\ heap > 0
  BY <1>2, <1>9, <1>10 DEF MapInv, AddressInv
<1> QED
  BY SMTT(30), <1>1, <1>2, <1>3, <1>4, <1>5, <1>7, <1>8, <1>9, <1>11

(***************************************************************************)
(* What a mapping does to the tables: one entry is written when there is a *)
(* frame, and a table that was absent begins empty (_get_page and          *)
(* _map_virt_to_phys, paging.cpp:36-85).                                   *)
(***************************************************************************)
LEMMA MapPageFacts ==
  ASSUME MapInv, MapPage
  PROVE  /\ UNCHANGED <<frameTable, kernelDir, currentDir, baseTables, created, target>>
         /\ heap' = IF OldTable = Null THEN Aligned(heap) + PageSize ELSE heap
         /\ DOMAIN directory' = DOMAIN directory
         /\ \A d \in DOMAIN directory : directory'[d] \in [TableIdx -> DOMAIN enteries \cup {Null, UsedTable}]
         /\ \A d \in DOMAIN directory : \A k \in TableIdx :
               directory'[d][k] = IF d = target /\ k = Head(job) \div TableSize
                                    THEN UsedTable ELSE directory[d][k]
         /\ DOMAIN enteries' = DOMAIN enteries \cup {UsedTable}
         /\ \A t \in DOMAIN enteries' : enteries'[t] \in [Index -> Frame \cup {NoFrame}]
         /\ \A t \in DOMAIN enteries' : \A k \in Index :
               enteries'[t][k] = IF NewFrame # NoFrame /\ t = UsedTable /\ k = UsedIndex
                                   THEN NewFrame
                                   ELSE IF t \in DOMAIN enteries THEN enteries[t][k] ELSE NoFrame
         /\ NewFrame = NoFrame => pc' = "panic" /\ UNCHANGED <<frames, job>>
         /\ NewFrame # NoFrame => /\ pc' = pc /\ job' = Tail(job)
                                  /\ frames' = frames \cup {NewFrame} /\ NewFrame \in Frame
<1> DEFINE page == Head(job)
           table == directory[target][page \div TableSize]
           new == Aligned(heap)
           used == IF table = Null THEN new ELSE table
           i == EntryIndex(page, table, new)
           frame == FindFirst(frames)
           empty == [k \in Index |-> NoFrame]
           old == IF table = Null
                    THEN [t \in DOMAIN enteries \cup {new} |-> IF t = new THEN empty ELSE enteries[t]]
                    ELSE enteries
<1>1. /\ heap' = IF table = Null THEN new + PageSize ELSE heap
      /\ directory' = [directory EXCEPT ![target] = [@ EXCEPT ![page \div TableSize] = used]]
      /\ frame = NoFrame => pc' = "panic" /\ enteries' = old /\ UNCHANGED <<frames, job>>
      /\ frame # NoFrame => /\ enteries' = [old EXCEPT ![used] = [@ EXCEPT ![i] = frame]]
                            /\ frames' = frames \cup {frame} /\ job' = Tail(job) /\ UNCHANGED pc
      /\ UNCHANGED <<frameTable, kernelDir, currentDir, baseTables, created, target>>
  BY DEF MapPage, SetAtIndex
<1>2. table = OldTable /\ used = UsedTable /\ frame = NewFrame
  BY DEF OldTable, UsedTable, NewFrame, Table
<1>3. heap \in Nat /\ new \notin DOMAIN enteries /\ OldTable \in DOMAIN enteries \cup {Null}
      /\ UsedIndex \in Index /\ page \in Page /\ target \in DOMAIN directory
  BY MapPageOperands
<1>4. new % TableSize = 0
  BY <1>3, AlignedIndex
<1>5. i = UsedIndex
  BY <1>2, <1>4 DEF EntryIndex, UsedIndex
<1>6. frames \in SUBSET Frame
  BY DEF MapInv, TypeOK
<1>7. NewFrame # NoFrame => NewFrame \in Frame
  BY <1>6, FindFirstIsFree DEF NewFrame
<1>8. \A d \in DOMAIN directory : directory[d] \in [TableIdx -> DOMAIN enteries \cup {Null}]
  BY DEF MapInv, TypeOK
<1>9. \A t \in DOMAIN enteries : enteries[t] \in [Index -> Frame \cup {NoFrame}]
  BY DEF MapInv, TypeOK
<1>10. page \div TableSize \in TableIdx
  BY <1>3, PageTable
<1>11. /\ DOMAIN old = DOMAIN enteries \cup {UsedTable}
       /\ \A t \in DOMAIN old : old[t] \in [Index -> Frame \cup {NoFrame}]
       /\ \A t \in DOMAIN old : \A k \in Index :
             old[t][k] = IF t \in DOMAIN enteries THEN enteries[t][k] ELSE NoFrame
  <2>1. CASE table = Null
    <3>1. used = new /\ old = [t \in DOMAIN enteries \cup {new} |-> IF t = new THEN empty ELSE enteries[t]]
      BY <2>1
    <3>2. empty \in [Index -> Frame \cup {NoFrame}] /\ \A k \in Index : empty[k] = NoFrame
      OBVIOUS
    <3> HIDE DEF old, empty, used, new
    <3> QED
      BY <1>2, <1>3, <1>9, <3>1, <3>2
  <2>2. CASE table # Null
    <3>1. old = enteries /\ used = table
      BY <2>2
    <3> HIDE DEF old, used, table
    <3> QED
      BY <1>2, <1>3, <1>9, <2>2, <3>1
  <2> QED
    BY <2>1, <2>2
<1> HIDE DEF old, used, i, frame, table, new, empty
<1>12. /\ DOMAIN enteries' = DOMAIN enteries \cup {UsedTable}
       /\ \A t \in DOMAIN enteries' : enteries'[t] \in [Index -> Frame \cup {NoFrame}]
       /\ \A t \in DOMAIN enteries' : \A k \in Index :
             enteries'[t][k] = IF NewFrame # NoFrame /\ t = UsedTable /\ k = UsedIndex
                                 THEN NewFrame
                                 ELSE IF t \in DOMAIN enteries THEN enteries[t][k] ELSE NoFrame
  <2>1. CASE NewFrame = NoFrame
    BY <1>1, <1>2, <1>11, <2>1
  <2>2. CASE NewFrame # NoFrame
    <3>1. enteries' = [old EXCEPT ![UsedTable] = [old[UsedTable] EXCEPT ![UsedIndex] = NewFrame]]
      BY <1>1, <1>2, <1>5, <2>2
    <3> QED
      BY <1>3, <1>7, <1>11, <2>2, <3>1
  <2> QED
    BY <2>1, <2>2
<1>13. /\ DOMAIN directory' = DOMAIN directory
       /\ \A d \in DOMAIN directory : directory'[d] \in [TableIdx -> DOMAIN enteries \cup {Null, UsedTable}]
       /\ \A d \in DOMAIN directory : \A k \in TableIdx :
             directory'[d][k] = IF d = target /\ k = Head(job) \div TableSize
                                  THEN UsedTable ELSE directory[d][k]
  <2>1. directory' = [directory EXCEPT ![target] =
                         [directory[target] EXCEPT ![Head(job) \div TableSize] = UsedTable]]
    BY <1>1, <1>2
  <2> QED
    BY <1>3, <1>8, <1>10, <2>1
<1> QED
  BY <1>1, <1>2, <1>7, <1>12, <1>13 DEF new

(***************************************************************************)
(* A table stands for the same pages in every directory, so that a write   *)
(* to it changes no page but one (paging.cpp:36-56, 165-182).              *)
(***************************************************************************)
LEMMA SharedIndex ==
  ASSUME DirectoryInv, NEW d \in DOMAIN directory, NEW e \in DOMAIN directory,
         NEW p \in Page, NEW s \in Page,
         Table(d, p) # Null, Table(d, p) = Table(e, s), p % TableSize = s % TableSize
  PROVE  p = s
<1>1. p \div TableSize \in TableIdx /\ s \div TableSize \in TableIdx
  BY PageTable
<1>2. p \div TableSize = s \div TableSize
  BY <1>1 DEF DirectoryInv, Table
<1> QED
  BY <1>2, SamePage

(***************************************************************************)
(* What a mapping does to the pages: what was present stays and keeps its  *)
(* frame, and in the directory only the page asked for becomes present     *)
(* (paging.cpp:36-85).                                                     *)
(***************************************************************************)
LEMMA MapPagePresence ==
  ASSUME MapInv, MapPage
  PROVE  /\ UsedTable # Null
         /\ \A d \in DOMAIN directory, p \in Page :
               /\ Table(d, p)' = IF d = target /\ p \div TableSize = Head(job) \div TableSize
                                   THEN UsedTable ELSE Table(d, p)
               /\ Present(d, p) => Present(d, p)' /\ Entry(d, p)' = Entry(d, p)
               /\ pc \in RegionPhase /\ d = target /\ Present(d, p)' => Present(d, p) \/ p = Head(job)
               /\ pc \in RegionPhase /\ d = target /\ p = Head(job) =>
                     /\ ~Present(d, p)
                     /\ NewFrame # NoFrame => Present(d, p)' /\ Entry(d, p)' = NewFrame
<1> DEFINE page == Head(job)
<1>1. /\ page \in Page /\ page = job[1] /\ Len(job) > 0 /\ Len(job) \in Nat
      /\ target \in DOMAIN directory /\ pc \in RegionPhase
      /\ OldTable \in DOMAIN enteries \cup {Null} /\ UsedIndex \in Index
      /\ Aligned(heap) \in Nat /\ Aligned(heap) >= heap /\ Aligned(heap) \notin DOMAIN enteries
      /\ heap \in Nat /\ heap > 0
  BY MapPageOperands
<1>2. UsedTable # Null
  BY <1>1 DEF UsedTable, Null
<1>3. /\ DOMAIN directory' = DOMAIN directory
      /\ \A d \in DOMAIN directory : \A k \in TableIdx :
            directory'[d][k] = IF d = target /\ k = page \div TableSize
                                 THEN UsedTable ELSE directory[d][k]
      /\ DOMAIN enteries' = DOMAIN enteries \cup {UsedTable}
      /\ \A t \in DOMAIN enteries' : \A k \in Index :
            enteries'[t][k] = IF NewFrame # NoFrame /\ t = UsedTable /\ k = UsedIndex
                                THEN NewFrame
                                ELSE IF t \in DOMAIN enteries THEN enteries[t][k] ELSE NoFrame
      /\ NewFrame # NoFrame => NewFrame \in Frame
  BY MapPageFacts
<1>4. DirectoryInv
  BY DEF MapInv
<1>5. \A d \in DOMAIN directory, p \in Page : Table(d, p) \in DOMAIN enteries \cup {Null}
  <2>1. \A d \in DOMAIN directory : directory[d] \in [TableIdx -> DOMAIN enteries \cup {Null}]
    BY DEF MapInv, TypeOK
  <2> QED
    BY <2>1, PageTable DEF Table
<1>6. NewFrame # NoFrame => NewFrame \in 0 .. NumFrames - 1 /\ NumFrames \in Nat
  BY <1>3, Sizes DEF Frame
<1>7. NoFrame = NumFrames
  BY DEF NoFrame
<1>8. pc \in RegionPhase =>
         ~Present(target, page) /\ (OldTable = Null => page % TableSize = 0)
  BY <1>1 DEF MapInv, JobInv, Mappable, OldTable
<1>9. ASSUME NEW d \in DOMAIN directory, NEW p \in Page
      PROVE  Table(d, p)' = IF d = target /\ p \div TableSize = page \div TableSize
                              THEN UsedTable ELSE Table(d, p)
  BY <1>3, PageTable DEF Table
<1>10. \A d \in DOMAIN directory, p \in Page :
          /\ Present(d, p) <=> Table(d, p) # Null /\ Entry(d, p) # NoFrame
          /\ Present(d, p)' <=> Table(d, p)' # Null /\ Entry(d, p)' # NoFrame
  BY DEF Present, Table, Entry
<1>11. \A d \in DOMAIN directory, p \in Page :
          /\ Entry(d, p) = enteries[Table(d, p)][p % TableSize]
          /\ Entry(d, p)' = enteries'[Table(d, p)'][p % TableSize]
  BY DEF Entry, Table
<1>12. OldTable = Table(target, page)
  BY DEF OldTable
<1> HIDE DEF page
<1>13. ASSUME NEW d \in DOMAIN directory, NEW p \in Page, Table(d, p) # Null
       PROVE  /\ Table(d, p)' = Table(d, p) /\ Table(d, p) \in DOMAIN enteries
              /\ Entry(d, p)' = IF NewFrame # NoFrame /\ Table(d, p) = UsedTable /\ p % TableSize = UsedIndex
                                  THEN NewFrame ELSE Entry(d, p)
  <2>1. Table(d, p) \in DOMAIN enteries
    BY <1>5, <1>13
  <2>2. d = target /\ p \div TableSize = page \div TableSize => Table(d, p) = OldTable
    BY <1>12 DEF Table
  <2>3. Table(d, p)' = Table(d, p)
    BY <1>9, <1>13, <2>2 DEF UsedTable
  <2>4. p % TableSize \in Index
    BY PageTable
  <2> QED
    BY <1>3, <1>11, <2>1, <2>3, <2>4
<1>14. ASSUME NEW d \in DOMAIN directory, NEW p \in Page, Present(d, p)
       PROVE  Present(d, p)' /\ Entry(d, p)' = Entry(d, p)
  <2>1. Table(d, p) # Null /\ Entry(d, p) # NoFrame
    BY <1>10, <1>14
  <2>2. Present(d, p)'
    BY <1>6, <1>7, <1>10, <1>13, <2>1
  <2>3. ASSUME NewFrame # NoFrame, Table(d, p) = UsedTable, p % TableSize = UsedIndex
        PROVE  FALSE
    <3>1. OldTable # Null /\ UsedTable = OldTable /\ UsedIndex = page % TableSize
      BY <1>1, <1>13, <2>1, <2>3 DEF UsedTable, UsedIndex, page
    <3>2. Entry(d, p) = Entry(target, page) /\ Table(target, page) # Null
      BY <1>1, <1>11, <1>12, <2>3, <3>1
    <3> QED
      BY <1>1, <1>8, <1>10, <2>1, <3>2 DEF page
  <2> QED
    BY <1>13, <2>1, <2>2, <2>3
<1>15. ASSUME pc \in RegionPhase
       PROVE  UsedIndex = page % TableSize
  BY <1>8, <1>15 DEF UsedIndex, page
<1>16. ASSUME NEW d \in DOMAIN directory, NEW p \in Page,
              d = target, pc \in RegionPhase, Present(d, p)', ~Present(d, p), p # page
       PROVE  FALSE
  <2>1. Table(d, p)' # Null /\ Entry(d, p)' # NoFrame
    BY <1>10, <1>16
  <2>2. CASE Table(d, p) # Null
    <3>1. NewFrame # NoFrame /\ Table(d, p) = UsedTable /\ p % TableSize = UsedIndex
      BY <1>10, <1>13, <1>16, <2>1, <2>2
    <3>2. OldTable # Null /\ UsedTable = OldTable
      BY <1>1, <1>13, <2>2, <3>1 DEF UsedTable
    <3> QED
      BY <1>1, <1>4, <1>12, <1>15, <1>16, <2>2, <3>1, <3>2, SharedIndex
  <2>3. CASE Table(d, p) = Null
    <3>1. p \div TableSize = page \div TableSize /\ Table(d, p)' = UsedTable
      BY <1>9, <2>1, <2>3
    <3>2. OldTable = Null /\ UsedTable = Aligned(heap)
      BY <1>12, <1>16, <2>3, <3>1 DEF Table, UsedTable
    <3>3. p % TableSize \in Index
      BY PageTable
    <3>4. p % TableSize = UsedIndex
      BY <1>1, <1>3, <1>11, <2>1, <3>1, <3>2, <3>3
    <3> QED
      BY <1>1, <1>15, <1>16, <3>1, <3>4, SamePage
  <2> QED
    BY <2>2, <2>3
<1>17. ASSUME NEW d \in DOMAIN directory, NEW p \in Page,
              d = target, p = page, NewFrame # NoFrame, pc \in RegionPhase
       PROVE  Present(d, p)' /\ Entry(d, p)' = NewFrame
  <2>1. Table(d, p)' = UsedTable
    BY <1>9, <1>17
  <2>2. UsedIndex = p % TableSize /\ UsedTable \in DOMAIN enteries'
    BY <1>3, <1>15, <1>17
  <2>3. Entry(d, p)' = NewFrame
    BY <1>1, <1>3, <1>11, <1>17, <2>1, <2>2
  <2> QED
    BY <1>2, <1>6, <1>7, <1>10, <1>17, <2>1, <2>3
<1> QED
  BY <1>2, <1>8, <1>9, <1>14, <1>16, <1>17 DEF page

(***************************************************************************)
(* The types and the addresses after a mapping.                            *)
(***************************************************************************)
LEMMA MapPageKeepsTypes ==
  ASSUME MapInv, MapPage
  PROVE  TypeOK' /\ AddressInv'
<1>1. /\ job \in Seq(Page) /\ job # <<>> /\ heap \in Nat /\ heap > 0
      /\ target \in DOMAIN directory
      /\ OldTable \in DOMAIN enteries \cup {Null}
      /\ Aligned(heap) \in Nat /\ Aligned(heap) >= heap
      /\ pc \in RegionPhase
  BY MapPageOperands
<1>2. /\ UNCHANGED <<frameTable, kernelDir, currentDir, baseTables, created, target>>
      /\ heap' = IF OldTable = Null THEN Aligned(heap) + PageSize ELSE heap
      /\ DOMAIN directory' = DOMAIN directory
      /\ \A d \in DOMAIN directory : directory'[d] \in [TableIdx -> DOMAIN enteries \cup {Null, UsedTable}]
      /\ DOMAIN enteries' = DOMAIN enteries \cup {UsedTable}
      /\ \A t \in DOMAIN enteries' : enteries'[t] \in [Index -> Frame \cup {NoFrame}]
      /\ NewFrame = NoFrame => pc' = "panic" /\ UNCHANGED <<frames, job>>
      /\ NewFrame # NoFrame => /\ pc' = pc /\ job' = Tail(job)
                               /\ frames' = frames \cup {NewFrame} /\ NewFrame \in Frame
  BY MapPageFacts
<1>3. TypeOK /\ AddressInv
  BY DEF MapInv
<1>4. UsedTable \in Nat /\ UsedTable > 0 /\ UsedTable < heap' /\ heap' \in Nat /\ heap' >= heap
  <2>1. CASE OldTable = Null
    BY <1>1, <1>2, <2>1, Sizes DEF UsedTable
  <2>2. CASE OldTable # Null
    <3>1. OldTable \in Nat /\ 0 < OldTable /\ OldTable < heap
      BY <1>1, <1>3, <2>2 DEF TypeOK, AddressInv
    <3> QED
      BY <1>1, <1>2, <2>2, <3>1 DEF UsedTable
  <2> QED
    BY <2>1, <2>2
<1>5. AddressInv'
  <2>1. \A t \in DOMAIN enteries' : 0 < t /\ t < heap'
    BY <1>1, <1>2, <1>3, <1>4 DEF TypeOK, AddressInv
  <2>2. \A d \in DOMAIN directory' : d < heap'
    BY <1>1, <1>2, <1>3, <1>4 DEF TypeOK, AddressInv
  <2>3. currentDir' < heap'
    BY <1>1, <1>2, <1>3, <1>4 DEF TypeOK, AddressInv
  <2> QED
    BY <1>1, <1>4, <2>1, <2>2, <2>3 DEF AddressInv
<1>6. job' \in Seq(Page) /\ frames' \subseteq Frame
      /\ pc' \in {"kernel", "heap", "stack", "create", "panic", "page_fault"}
  <2>1. Tail(job) \in Seq(Page)
    BY <1>1
  <2>2. frames \subseteq Frame
    BY <1>3 DEF TypeOK
  <2> QED
    BY <1>1, <1>2, <2>1, <2>2 DEF RegionPhase
<1>7. \A d \in DOMAIN directory' : directory'[d] \in [TableIdx -> DOMAIN enteries' \cup {Null}]
  BY <1>2
<1>8. DOMAIN enteries' \subseteq Nat
  BY <1>2, <1>3, <1>4 DEF TypeOK
<1> QED
  BY <1>2, <1>3, <1>4, <1>5, <1>6, <1>7, <1>8 DEF TypeOK

(***************************************************************************)
(* The pages left after one of them is mapped.                             *)
(***************************************************************************)
LEMMA PagesLeft ==
  ASSUME job \in Seq(Page), job # <<>>, job' = Tail(job)
  PROVE  /\ Len(job) \in Nat /\ Len(job) > 0 /\ Len(job') = Len(job) - 1
         /\ \A j \in 1 .. Len(job') : j + 1 \in 2 .. Len(job) /\ job'[j] = job[j + 1]
         /\ Left' \subseteq Left
         /\ \A p \in Left : p = Head(job) \/ p \in Left'
         /\ Left \subseteq Page
<1>1. Len(job) \in Nat /\ Len(job) > 0 /\ Len(job') = Len(job) - 1
  OBVIOUS
<1>2. \A j \in 1 .. Len(job') : j + 1 \in 2 .. Len(job) /\ job'[j] = job[j + 1]
  BY <1>1
<1>3. Left' \subseteq Left
  BY <1>1, <1>2 DEF Left
<1>4. ASSUME NEW p \in Left, p # Head(job)
      PROVE  p \in Left'
  <2>1. PICK j \in 1 .. Len(job) : p = job[j]
    BY DEF Left
  <2>2. j # 1 /\ j - 1 \in 1 .. Len(job')
    BY <1>1, <1>4, <2>1
  <2>3. job'[j - 1] = p
    BY <1>2, <2>1, <2>2
  <2> QED
    BY <2>2, <2>3 DEF Left
<1>5. Left \subseteq Page
  BY <1>1 DEF Left
<1> QED
  BY <1>1, <1>2, <1>3, <1>4, <1>5

(***************************************************************************)
(* The pages left stay mappable: when the first has its table made, those  *)
(* of the same table find it (paging.cpp:43-55).                           *)
(***************************************************************************)
LEMMA MapPageKeepsJob ==
  ASSUME MapInv, MapPage
  PROVE  JobInv'
<1>1. /\ job \in Seq(Page) /\ job # <<>> /\ Head(job) = job[1] /\ Head(job) \in Page
      /\ target \in DOMAIN directory /\ pc \in RegionPhase
  BY MapPageOperands
<1>2. /\ target' = target
      /\ NewFrame = NoFrame => pc' = "panic"
      /\ NewFrame # NoFrame => pc' = pc /\ job' = Tail(job)
  BY MapPageFacts
<1>3. CASE NewFrame = NoFrame
  BY <1>2, <1>3 DEF JobInv, RegionPhase
<1>4. CASE NewFrame # NoFrame
  <2>1. /\ Len(job) \in Nat /\ Len(job) > 0 /\ Len(job') = Len(job) - 1
        /\ \A j \in 1 .. Len(job') : j + 1 \in 2 .. Len(job) /\ job'[j] = job[j + 1]
        /\ Left' \subseteq Left
    BY <1>1, <1>2, <1>4, PagesLeft
  <2>2. pc' = "heap" => Left' \subseteq Heap
    BY <1>2, <1>4, <2>1 DEF MapInv, JobInv
  <2>4. ASSUME pc' \in RegionPhase
        PROVE  Mappable(target, job)'
    <3>1. pc \in RegionPhase /\ Mappable(target, job)
      BY <1>2, <1>4, <2>4 DEF MapInv, JobInv
    <3>2. /\ UsedTable # Null
          /\ \A d \in DOMAIN directory, p \in Page :
                /\ Table(d, p)' = IF d = target /\ p \div TableSize = Head(job) \div TableSize
                                    THEN UsedTable ELSE Table(d, p)
                /\ d = target /\ Present(d, p)' => Present(d, p) \/ p = Head(job)
      BY <3>1, MapPagePresence
    <3>3. ASSUME NEW j \in 1 .. Len(job')
          PROVE  /\ ~Present(target, job[j])'
                 /\ \A k \in 1 .. Len(job)' : job[j]' = job[k]' => j = k
                 /\ (Table(target, job[j]) = Null)' /\ job[j]' % TableSize # 0 =>
                       \E k \in 1 .. j - 1 : job[k]' \div TableSize = job[j]' \div TableSize
      <4>1. j + 1 \in 2 .. Len(job) /\ j + 1 \in 1 .. Len(job) /\ job'[j] = job[j + 1]
        BY <2>1
      <4>2. job[j + 1] \in Page
        BY <1>1, <4>1
      <4>3. /\ ~Present(target, job[j + 1])
            /\ \A k \in 1 .. Len(job) : job[j + 1] = job[k] => j + 1 = k
            /\ Table(target, job[j + 1]) = Null /\ job[j + 1] % TableSize # 0 =>
                  \E k \in 1 .. j : job[k] \div TableSize = job[j + 1] \div TableSize
        BY <3>1, <4>1 DEF Mappable
      <4>4. job[j + 1] # Head(job)
        BY <1>1, <2>1, <4>1, <4>3
      <4> DEFINE q == job[j + 1]
      <4>5. \A d \in DOMAIN directory, p \in Page : d = target /\ p = q => ~Present(d, p)'
        BY <3>2, <4>3, <4>4
      <4>6. ~Present(target, job[j])'
        <5>1. \A d, p : d = target' /\ p = job'[j] => (Present(d, p)' <=> Present(target, job[j])')
          BY DEF Present
        <5> QED
          BY <1>1, <1>2, <4>1, <4>2, <4>5, <5>1
      <4>7. \A k \in 1 .. Len(job') : job'[j] = job'[k] => j = k
        <5>1. SUFFICES ASSUME NEW k \in 1 .. Len(job'), job'[j] = job'[k]
                       PROVE  j = k
          OBVIOUS
        <5>2. k + 1 \in 1 .. Len(job) /\ job'[k] = job[k + 1]
          BY <2>1
        <5>3. j + 1 = k + 1
          BY <4>1, <4>3, <5>1, <5>2
        <5> QED
          BY <5>3
      <4>8. ASSUME (Table(target, job[j]) = Null)', job'[j] % TableSize # 0
            PROVE  \E k \in 1 .. j - 1 : job'[k] \div TableSize = job'[j] \div TableSize
        <5>1. \A d, p : d = target' /\ p = job'[j] => Table(d, p)' = Table(target, job[j])'
          BY DEF Table
        <5>2. q \div TableSize # Head(job) \div TableSize /\ Table(target, q) = Null
          BY <1>1, <1>2, <3>2, <4>1, <4>2, <4>8, <5>1
        <5>3. PICK k \in 1 .. j : job[k] \div TableSize = q \div TableSize
          BY <4>1, <4>3, <4>8, <5>2
        <5>4. k # 1 /\ k - 1 \in 1 .. j - 1 /\ k - 1 \in 1 .. Len(job')
          BY <1>1, <2>1, <4>1, <5>2, <5>3
        <5>5. job'[k - 1] = job[k]
          BY <2>1, <5>4
        <5> QED
          BY <4>1, <5>3, <5>4, <5>5
      <4> QED
        BY <4>6, <4>7, <4>8
    <3> QED
      BY <3>3 DEF Mappable
  <2> QED
    BY <2>2, <2>4 DEF JobInv
<1> QED
  BY <1>3, <1>4

(***************************************************************************)
(* When the first frames are taken the search answers with the next        *)
(* (FrameTable::FindFirst, frame_table.cpp:5-20).                          *)
(***************************************************************************)
LEMMA FindFirstInOrder ==
  ASSUME NEW n \in Nat, n < NumFrames
  PROVE  FindFirst(0 .. n - 1) = n
<1> DEFINE S == Frame \ (0 .. n - 1)
<1>1. NumFrames \in Nat
  BY Sizes
<1>2. S \in SUBSET Nat /\ n \in S /\ \A y \in S : n <= y
  BY <1>1 DEF Frame
<1>3. Min(S) \in S /\ \A y \in S : Min(S) <= y
  BY <1>2, MinProperties
<1>4. S # {} /\ Min(S) = n
  BY <1>2, <1>3
<1> QED
  BY <1>4 DEF FindFirst

(***************************************************************************)
(* While the kernel is mapped its next page gets the next frame, and there *)
(* is one since the kernel has no more pages than there are frames.        *)
(***************************************************************************)
LEMMA MapPageKeepsOrder ==
  ASSUME MapInv, MapPage
  PROVE  InOrder' /\ (pc = "kernel" => NewFrame # NoFrame)
<1>1. /\ job \in Seq(Page) /\ job # <<>> /\ Head(job) = job[1] /\ Head(job) \in Page
      /\ target \in DOMAIN directory /\ Len(job) \in Nat /\ Len(job) > 0
  BY MapPageOperands
<1>2. /\ target' = target /\ kernelDir' = kernelDir
      /\ NewFrame = NoFrame => pc' = "panic"
      /\ NewFrame # NoFrame => pc' = pc /\ job' = Tail(job) /\ frames' = frames \cup {NewFrame}
  BY MapPageFacts
<1>3. CASE pc # "kernel"
  BY <1>2, <1>3 DEF InOrder
<1>4. CASE pc = "kernel"
  <2>1. PICK n \in 0 .. KernelPages :
           /\ frames = 0 .. n - 1
           /\ Len(job) = KernelPages - n
           /\ \A j \in 1 .. Len(job) : job[j] = n + j - 1
           /\ \A p \in Page : Present(kernelDir, p) <=> p \in 0 .. n - 1
           /\ \A p \in 0 .. n - 1 : Entry(kernelDir, p) = p
    BY <1>4 DEF MapInv, InOrder
  <2>2. /\ KernelPages \in Nat /\ NumFrames \in Nat /\ KernelPages <= NumFrames
        /\ 0 .. KernelPages - 1 \subseteq Page
    BY PagingAssumption, LayoutAssumption
  <2>3. n \in Nat /\ n < KernelPages /\ n < NumFrames
    BY <1>1, <2>1, <2>2
  <2>4. Head(job) = n
    BY <1>1, <2>1, <2>3
  <2>5. NewFrame = n /\ NewFrame # NoFrame
    BY <2>1, <2>2, <2>3, FindFirstInOrder DEF NewFrame, NoFrame
  <2>6. pc' = pc /\ job' = Tail(job) /\ frames' = frames \cup {n}
    BY <1>2, <2>5
  <2>7. /\ Len(job') = Len(job) - 1
        /\ \A j \in 1 .. Len(job') : j + 1 \in 2 .. Len(job) /\ job'[j] = job[j + 1]
    BY <1>1, <2>6, PagesLeft
  <2>8. target = kernelDir /\ pc \in RegionPhase
    BY <1>4 DEF MapInv, TargetInv, RegionPhase
  <2>9. \A d \in DOMAIN directory, p \in Page : d = kernelDir =>
           /\ Present(d, p) => Present(d, p)' /\ Entry(d, p)' = Entry(d, p)
           /\ Present(d, p)' => Present(d, p) \/ p = n
           /\ p = n => Present(d, p)' /\ Entry(d, p)' = n
    BY <2>4, <2>5, <2>8, MapPagePresence
  <2>10. kernelDir \in DOMAIN directory
    BY <1>1, <2>8
  <2>11. frames' = 0 .. (n + 1) - 1
    BY <2>1, <2>3, <2>6
  <2>12. n + 1 \in 0 .. KernelPages /\ Len(job') = KernelPages - (n + 1)
    BY <2>1, <2>2, <2>3, <2>7
  <2>13. \A j \in 1 .. Len(job') : job'[j] = (n + 1) + j - 1
    <3>1. SUFFICES ASSUME NEW j \in 1 .. Len(job')
                   PROVE  job'[j] = (n + 1) + j - 1
      OBVIOUS
    <3>2. j + 1 \in 1 .. Len(job) /\ job'[j] = job[j + 1]
      BY <2>7
    <3>3. job[j + 1] = n + (j + 1) - 1
      BY <2>1, <3>2
    <3> QED
      BY <2>3, <3>2, <3>3
  <2>14. ASSUME NEW p \in Page
         PROVE  Present(kernelDir, p)' <=> p \in 0 .. (n + 1) - 1
    <3>1. p \in Nat
      BY PageTable
    <3>2. \A d : d = kernelDir => (Present(d, p)' <=> Present(kernelDir, p)')
      BY <1>2 DEF Present
    <3>3. Present(kernelDir, p)' <=> Present(kernelDir, p) \/ p = n
      BY <2>9, <2>10, <3>2
    <3> QED
      BY <2>1, <2>3, <3>1, <3>3
  <2>15. ASSUME NEW p \in 0 .. (n + 1) - 1
         PROVE  Entry(kernelDir, p)' = p
    <3>1. p \in Page
      BY <2>2, <2>3
    <3>2. \A d : d = kernelDir => Entry(d, p)' = Entry(kernelDir, p)'
      BY <1>2 DEF Entry, Table
    <3>3. p = n \/ p \in 0 .. n - 1
      BY <2>3
    <3>4. p \in 0 .. n - 1 => Present(kernelDir, p) /\ Entry(kernelDir, p) = p /\ p # n
      BY <2>1, <2>3, <3>1
    <3> QED
      BY <2>9, <2>10, <3>1, <3>2, <3>3, <3>4
  <2>16. InOrder'
    BY <2>11, <2>12, <2>13, <2>14, <2>15 DEF InOrder
  <2> QED
    BY <2>5, <2>16
<1> QED
  BY <1>3, <1>4

(***************************************************************************)
(* A mapping leaves the pages of the kernel where they are, since it is    *)
(* for another page, and what it takes from the job is present.            *)
(***************************************************************************)
LEMMA MapPageKeepsMap ==
  ASSUME MapInv, MapPage
  PROVE  MapInv'
<1>1. /\ job \in Seq(Page) /\ job # <<>> /\ Head(job) = job[1] /\ Head(job) \in Page
      /\ target \in DOMAIN directory /\ pc \in RegionPhase
  BY MapPageOperands
<1>2. /\ UNCHANGED <<kernelDir, baseTables, created, target>>
      /\ DOMAIN directory' = DOMAIN directory
      /\ NewFrame = NoFrame => pc' = "panic" /\ job' = job
      /\ NewFrame # NoFrame => pc' = pc /\ job' = Tail(job)
  BY MapPageFacts
<1>3. /\ UsedTable # Null
      /\ \A d \in DOMAIN directory, p \in Page :
            /\ Present(d, p) => Present(d, p)' /\ Entry(d, p)' = Entry(d, p)
            /\ pc \in RegionPhase /\ d = target /\ Present(d, p)' => Present(d, p) \/ p = Head(job)
            /\ pc \in RegionPhase /\ d = target /\ p = Head(job) =>
                  /\ ~Present(d, p)
                  /\ NewFrame # NoFrame => Present(d, p)'
  BY MapPagePresence
<1>4. InOrder' /\ (pc = "kernel" => NewFrame # NoFrame)
  BY MapPageKeepsOrder
<1>5. NewFrame # NoFrame =>
         /\ Left' \subseteq Left
         /\ \A p \in Left : p = Head(job) \/ p \in Left'
  BY <1>1, <1>2, PagesLeft
<1>6. KernelRegion \subseteq Page /\ Heap \subseteq Page /\ KernelStack \subseteq Page /\ ProcessStack \subseteq Page
  BY PagingAssumption DEF KernelRegion
<1>7. TargetInv'
  <2>1. TargetInv
    BY DEF MapInv
  <2> QED
    BY <1>1, <1>2, <2>1 DEF TargetInv, RegionPhase
<1>8. OneToOne'
  <2>1. SUFFICES ASSUME pc' \notin {"reset", "kernel"}, NEW d \in DOMAIN directory, NEW p \in KernelRegion
                 PROVE  Present(d, p)' /\ Entry(d, p)' = p
    BY <1>2 DEF OneToOne
  <2>2. pc \notin {"reset", "kernel"}
    BY <1>1, <1>2, <1>4, <2>1 DEF RegionPhase
  <2>3. \A e \in DOMAIN directory : Present(e, p) /\ Entry(e, p) = p
    BY <2>2 DEF MapInv, OneToOne
  <2> QED
    BY <1>3, <1>6, <2>3
<1>9. \A d : d = kernelDir =>
         \A p : (Present(d, p) <=> Present(kernelDir, p)) /\ (Present(d, p)' <=> Present(kernelDir, p)')
  BY <1>2 DEF Present
<1>10. kernelDir \in DOMAIN directory /\ (pc \in {"kernel", "heap", "stack"} => target = kernelDir)
  BY <1>1 DEF MapInv, TargetInv, RegionPhase
<1>11. \A p \in Page :
          /\ Present(kernelDir, p) => Present(kernelDir, p)'
          /\ pc \in {"heap", "stack"} /\ Present(kernelDir, p)' => Present(kernelDir, p) \/ p = Head(job)
          /\ pc \in {"heap", "stack"} /\ NewFrame # NoFrame /\ p = Head(job) => Present(kernelDir, p)'
  BY <1>3, <1>9, <1>10 DEF RegionPhase
<1>12. Coverage'
  <2>0. Coverage
    BY DEF MapInv
  <2>1. ASSUME pc' \in {"heap", "booted"}, NEW p \in Page, Present(kernelDir, p)'
        PROVE  p \in KernelRegion \cup Heap
    <3>1. pc = "heap" /\ NewFrame # NoFrame
      BY <1>1, <1>2, <2>1 DEF RegionPhase
    <3>2. Head(job) \in Left
      BY <1>1 DEF Left
    <3>3. Left \subseteq Heap
      BY <3>1 DEF MapInv, JobInv
    <3> QED
      BY <1>11, <2>0, <2>1, <3>1, <3>2, <3>3 DEF Coverage
  <2>2. ASSUME pc' \notin {"reset", "kernel", "panic", "page_fault"}, NEW p \in Heap, ~(pc' = "heap" /\ p \in Left')
        PROVE  Present(kernelDir, p)'
    <3>1. pc = pc' /\ NewFrame # NoFrame
      BY <1>2, <2>2
    <3>2. Present(kernelDir, p) \/ (pc = "heap" /\ p \in Left)
      BY <2>0, <2>2, <3>1 DEF Coverage
    <3>3. pc = "heap" /\ p \in Left => p = Head(job)
      BY <1>5, <2>2, <3>1
    <3> QED
      BY <1>6, <1>11, <3>1, <3>2, <3>3
  <2>3. ASSUME pc' \in {"stack", "ready", "create"}, NEW p \in KernelStack,
               ~(pc' = "stack" /\ p \in Left')
        PROVE  Present(kernelDir, p)'
    <3>1. pc = pc' /\ NewFrame # NoFrame
      BY <1>2, <2>3
    <3>2. Present(kernelDir, p) \/ (pc = "stack" /\ p \in Left)
      BY <2>0, <2>3, <3>1 DEF Coverage
    <3>3. pc = "stack" /\ p \in Left => p = Head(job)
      BY <1>5, <2>3, <3>1
    <3> QED
      BY <1>6, <1>11, <3>1, <3>2, <3>3
  <2>4. ASSUME pc' \in {"ready", "create"}, NEW d \in created, NEW p \in ProcessStack \cup Heap,
               ~(pc' = "create" /\ d = target' /\ p \in Left')
        PROVE  Present(d, p)'
    <3>1. pc = pc' /\ NewFrame # NoFrame /\ target' = target
      BY <1>2, <2>4
    <3>2. Present(d, p) \/ (pc = "create" /\ d = target /\ p \in Left)
      BY <2>0, <2>4, <3>1 DEF Coverage
    <3>3. pc = "create" /\ d = target /\ p \in Left => p = Head(job)
      BY <1>5, <2>4, <3>1
    <3>4. d \in DOMAIN directory /\ p \in Page
      BY <1>6 DEF MapInv, TypeOK
    <3> QED
      BY <1>3, <3>1, <3>2, <3>3, <3>4 DEF RegionPhase
  <2> QED
    BY <1>2, <2>1, <2>2, <2>3, <2>4 DEF Coverage
<1>13. DirectoryInv'
  BY MapPageKeepsDirectories DEF MapInv
<1> QED
  BY <1>4, <1>7, <1>8, <1>12, <1>13, MapPageKeepsTypes, MapPageKeepsJob DEF MapInv

-----------------------------------------------------------------------------
(* Regions.                                                                *)

(***************************************************************************)
(* No page is twice in s, and a page that is not the first of its table    *)
(* comes behind another page of the table.                                 *)
(***************************************************************************)
Walk(s) ==
  \A j \in 1 .. Len(s) :
     /\ \A k \in 1 .. Len(s) : s[j] = s[k] => j = k
     /\ s[j] % TableSize # 0 => \E k \in 1 .. j - 1 : s[k] \div TableSize = s[j] \div TableSize

(***************************************************************************)
(* The pages of a region that begins with a table (map_region,             *)
(* paging.cpp:87-107).                                                     *)
(***************************************************************************)
LEMMA PagesOfRegion ==
  ASSUME NEW R \in SUBSET Page, NEW first \in Nat, NEW last \in Int,
         R = first .. last, first % TableSize = 0
  PROVE  /\ PagesOf(R) \in Seq(Page) /\ Len(PagesOf(R)) \in Nat
         /\ \A j \in 1 .. Len(PagesOf(R)) : PagesOf(R)[j] = first + j - 1 /\ PagesOf(R)[j] \in R
         /\ \A p \in R : \E j \in 1 .. Len(PagesOf(R)) : PagesOf(R)[j] = p
         /\ Len(PagesOf(R)) = Cardinality(R)
         /\ Walk(PagesOf(R))
<1> DEFINE s == PagesOf(R)
           n == Cardinality(R)
<1>1. n = IF first > last THEN 0 ELSE last - first + 1
  BY FS_Interval
<1>2. n \in Nat
  BY <1>1
<1>3. s = [i \in 1 .. n |-> Min(R) + i - 1]
  BY DEF PagesOf
<1>4. R # {} => Min(R) = first
  <2>1. SUFFICES ASSUME R # {}
                 PROVE  Min(R) = first
    OBVIOUS
  <2>2. R \in SUBSET Nat /\ first \in R /\ \A y \in R : first <= y
    BY <2>1
  <2>3. Min(R) \in R /\ \A y \in R : Min(R) <= y
    BY <2>2, MinProperties
  <2> QED
    BY <2>2, <2>3
<1> HIDE DEF n, s
<1>5. ASSUME NEW j \in 1 .. n
      PROVE  s[j] = first + j - 1 /\ first + j - 1 \in R
  <2>1. first <= last /\ R # {}
    BY <1>1, <1>5
  <2>2. s[j] = first + j - 1
    BY <1>3, <1>4, <2>1
  <2> QED
    BY <1>1, <1>5, <2>1, <2>2
<1>6. s \in Seq(Page) /\ Len(s) = n
  <2>1. s = [i \in 1 .. n |-> s[i]]
    BY <1>3
  <2>2. \A i \in 1 .. n : s[i] \in Page
    BY <1>5
  <2> QED
    BY <1>2, <2>1, <2>2
<1>7. \A p \in R : \E j \in 1 .. n : s[j] = p
  <2>1. SUFFICES ASSUME NEW p \in R
                 PROVE  \E j \in 1 .. n : s[j] = p
    OBVIOUS
  <2>2. p - first + 1 \in 1 .. n
    BY <1>1
  <2>3. s[p - first + 1] = first + (p - first + 1) - 1
    BY <1>5, <2>2
  <2> QED
    BY <2>2, <2>3
<1>8. Walk(s)
  <2>1. SUFFICES ASSUME NEW j \in 1 .. n
                 PROVE  /\ \A k \in 1 .. n : s[j] = s[k] => j = k
                        /\ s[j] % TableSize # 0 =>
                              \E k \in 1 .. j - 1 : s[k] \div TableSize = s[j] \div TableSize
    BY <1>6 DEF Walk
  <2>2. \A k \in 1 .. n : s[j] = s[k] => j = k
    BY <1>2, <1>5
  <2>3. ASSUME s[j] % TableSize # 0
        PROVE  \E k \in 1 .. j - 1 : s[k] \div TableSize = s[j] \div TableSize
    <3>1. s[j] = first + j - 1 /\ s[j] \in Nat
      BY <1>2, <1>5
    <3>2. (s[j] - 1) \div TableSize = s[j] \div TableSize
      BY <2>3, <3>1, SameTable
    <3>3. j # 1
      BY <2>3, <3>1
    <3>4. j - 1 \in 1 .. n /\ j - 1 \in 1 .. j - 1
      BY <1>2, <3>3
    <3>5. s[j - 1] = s[j] - 1
      BY <1>2, <1>5, <3>1, <3>4
    <3> QED
      BY <3>2, <3>4, <3>5
  <2> QED
    BY <2>2, <2>3
<1> QED
  BY <1>2, <1>5, <1>6, <1>7, <1>8 DEF s, n

(***************************************************************************)
(* Two regions that do not overlap, one after the other (Start::Process    *)
(* maps the stack, then the heap).                                         *)
(***************************************************************************)
LEMMA WalkBoth ==
  ASSUME NEW s \in Seq(Page), NEW t \in Seq(Page), Walk(s), Walk(t),
         \A j \in 1 .. Len(s), k \in 1 .. Len(t) : s[j] # t[k]
  PROVE  Walk(s \o t)
<1> DEFINE u == s \o t
           m == Len(s)
           n == Len(t)
<1>1. /\ m \in Nat /\ n \in Nat /\ Len(u) = m + n
      /\ \A j \in 1 .. m + n : u[j] = IF j <= m THEN s[j] ELSE t[j - m]
  OBVIOUS
<1>2. /\ \A j \in 1 .. m : /\ \A k \in 1 .. m : s[j] = s[k] => j = k
                           /\ s[j] % TableSize # 0 =>
                                 \E k \in 1 .. j - 1 : s[k] \div TableSize = s[j] \div TableSize
      /\ \A j \in 1 .. n : /\ \A k \in 1 .. n : t[j] = t[k] => j = k
                           /\ t[j] % TableSize # 0 =>
                                 \E k \in 1 .. j - 1 : t[k] \div TableSize = t[j] \div TableSize
      /\ \A j \in 1 .. m, k \in 1 .. n : s[j] # t[k]
  BY DEF Walk
<1> HIDE DEF u, m, n
<1>3. ASSUME NEW j \in 1 .. m + n, NEW k \in 1 .. m + n, u[j] = u[k]
      PROVE  j = k
  <2>1. (j \in 1 .. m \/ j - m \in 1 .. n) /\ (k \in 1 .. m \/ k - m \in 1 .. n)
    BY <1>1
  <2>2. CASE j \in 1 .. m
    BY <1>1, <1>2, <1>3, <2>1, <2>2
  <2>3. CASE j \notin 1 .. m
    <3>1. j - m \in 1 .. n /\ u[j] = t[j - m]
      BY <1>1, <2>1, <2>3
    <3>2. k - m \in 1 .. n /\ u[k] = t[k - m]
      <4>1. k \notin 1 .. m
        <5>1. k \in 1 .. m => u[k] = s[k]
          BY <1>1
        <5> QED
          BY <1>2, <1>3, <3>1, <5>1
      <4> QED
        BY <1>1, <2>1, <4>1
    <3>3. j - m = k - m
      BY <1>2, <1>3, <3>1, <3>2
    <3> QED
      BY <1>1, <3>3
  <2> QED
    BY <2>2, <2>3
<1>4. ASSUME NEW j \in 1 .. m + n, u[j] % TableSize # 0
      PROVE  \E k \in 1 .. j - 1 : u[k] \div TableSize = u[j] \div TableSize
  <2>1. CASE j \in 1 .. m
    <3>1. u[j] = s[j]
      BY <1>1, <2>1
    <3>2. PICK k \in 1 .. j - 1 : s[k] \div TableSize = s[j] \div TableSize
      BY <1>2, <1>4, <2>1, <3>1
    <3>3. k \in 1 .. m + n /\ k <= m
      BY <1>1, <2>1, <3>2
    <3>4. u[k] = s[k]
      BY <1>1, <3>3
    <3> QED
      BY <3>1, <3>2, <3>4
  <2>2. CASE j \notin 1 .. m
    <3>1. j - m \in 1 .. n /\ ~(j <= m)
      BY <1>1, <2>2
    <3>2. u[j] = t[j - m]
      BY <1>1, <3>1
    <3>3. PICK k \in 1 .. (j - m) - 1 : t[k] \div TableSize = t[j - m] \div TableSize
      BY <1>2, <1>4, <3>1, <3>2
    <3>4. k + m \in 1 .. j - 1 /\ k + m \in 1 .. m + n /\ ~(k + m <= m) /\ (k + m) - m = k
      BY <1>1, <3>1, <3>3
    <3>5. u[k + m] = t[k]
      BY <1>1, <3>4
    <3> QED
      BY <3>2, <3>3, <3>4, <3>5
  <2> QED
    BY <2>1, <2>2
<1> QED
  BY <1>1, <1>3, <1>4 DEF Walk, u

(***************************************************************************)
(* The layout of memory: where the regions begin, that the kernel is in    *)
(* the shared tables and the other regions are not, that the heap meets no *)
(* stack.                                                                  *)
(***************************************************************************)
LEMMA Layout ==
  /\ \A R \in {KernelRegion, KernelStack, ProcessStack, Heap} :
        /\ R \subseteq Page
        /\ \E first \in Nat, last \in Int : first % TableSize = 0 /\ R = first .. last
  /\ \A p \in KernelRegion : p \div TableSize < BaseTables
  /\ \A p \in KernelStack \cup ProcessStack \cup Heap :
        p \in Page /\ p \div TableSize >= BaseTables /\ p \notin KernelRegion
  /\ \A p \in Heap : p \notin KernelStack /\ p \notin ProcessStack
  /\ BaseTables \in 0 .. NumTables
<1>1. /\ KernelRegion \subseteq Page /\ KernelStack \subseteq Page /\ ProcessStack \subseteq Page
      /\ Heap \subseteq Page /\ KernelPages \in Nat
      /\ NumTables \in Nat /\ NumTables > 0 /\ TableSize \in Nat /\ TableSize > 0
  BY PagingAssumption DEF KernelRegion
<1>2. \A p \in Page : p \in Nat /\ p \in Int /\ p \div TableSize \in Nat
  BY PageTable DEF TableIdx
<1>3. \A R \in {KernelStack, ProcessStack, Heap} :
         /\ \E first, last \in Page : first % TableSize = 0 /\ R = first .. last
         /\ \A p \in R : p \div TableSize >= BaseTables
  BY LayoutAssumption
<1>4. \A p \in KernelRegion : p \div TableSize < BaseTables
  BY LayoutAssumption DEF KernelRegion
<1>5. 0 % TableSize = 0 /\ 0 \in Nat /\ KernelPages - 1 \in Int
  BY <1>1
<1>6. \E first \in Nat, last \in Int : first % TableSize = 0 /\ KernelRegion = first .. last
  BY <1>5 DEF KernelRegion
<1>7. KernelPages \div TableSize \in Nat
  BY <1>1
<1>8. BaseTables \in 0 .. NumTables
  <2>1. CASE KernelPages \div TableSize = 0
    BY <1>1, <2>1 DEF BaseTables
  <2>2. CASE KernelPages \div TableSize # 0
    <3>1. KernelPages # 0
      BY <1>5, <2>2, PageSplit, SplitIsUnique, <1>1 DEF Index
    <3>2. KernelPages - 1 \in Page
      BY <1>1, <3>1 DEF KernelRegion
    <3>3. KernelPages <= NumTables * TableSize /\ NumTables * TableSize \in Nat
      BY <1>1, <3>2 DEF Page
    <3> DEFINE q == KernelPages \div TableSize
               r == KernelPages % TableSize
    <3>4. q \in Nat /\ r \in Index /\ KernelPages = q * TableSize + r
      BY <1>1, PageSplit
    <3> HIDE DEF q, r
    <3>5. r \in Nat
      BY <1>1, <3>4 DEF Index
    <3>6. ~(NumTables < q)
      <4>1. SUFFICES ASSUME NumTables < q
                     PROVE  FALSE
        OBVIOUS
      <4>2. q * TableSize >= NumTables * TableSize + TableSize /\ q * TableSize \in Nat
        BY <1>1, <3>4, <4>1, ProductIsAbove
      <4> QED
        BY <1>1, <3>3, <3>4, <3>5, <4>2
    <3>7. BaseTables = q
      BY <2>2 DEF BaseTables, q
    <3> QED
      BY <1>1, <3>4, <3>6, <3>7
  <2> QED
    BY <2>1, <2>2
<1>9. BaseTables \in Nat
  BY <1>1, <1>8
<1>10. \A p \in KernelStack \cup ProcessStack \cup Heap :
          p \in Page /\ p \div TableSize >= BaseTables /\ p \notin KernelRegion
  <2>1. SUFFICES ASSUME NEW p \in KernelStack \cup ProcessStack \cup Heap
                 PROVE  p \in Page /\ p \div TableSize >= BaseTables /\ p \notin KernelRegion
    OBVIOUS
  <2>2. p \in Page
    BY <1>1
  <2>3. p \div TableSize >= BaseTables
    BY <1>3
  <2> QED
    BY <1>2, <1>4, <1>9, <2>2, <2>3
<1>11. \A p \in Heap : p \notin KernelStack /\ p \notin ProcessStack
  BY LayoutAssumption
<1>12. \A R \in {KernelRegion, KernelStack, ProcessStack, Heap} :
          /\ R \subseteq Page
          /\ \E first \in Nat, last \in Int : first % TableSize = 0 /\ R = first .. last
  BY <1>1, <1>2, <1>3, <1>6
<1> QED
  BY <1>4, <1>8, <1>10, <1>11, <1>12

(***************************************************************************)
(* The job of a region: all of its pages, in an order that can be mapped.  *)
(***************************************************************************)
LEMMA RegionJob ==
  ASSUME NEW R \in {KernelRegion, KernelStack, ProcessStack, Heap}
  PROVE  /\ PagesOf(R) \in Seq(Page) /\ Len(PagesOf(R)) \in Nat
         /\ \A j \in 1 .. Len(PagesOf(R)) : PagesOf(R)[j] \in R
         /\ \A p \in R : \E j \in 1 .. Len(PagesOf(R)) : PagesOf(R)[j] = p
         /\ Walk(PagesOf(R))
<1>1. PICK first \in Nat, last \in Int : first % TableSize = 0 /\ R = first .. last
  BY Layout
<1>2. R \in SUBSET Page
  BY Layout
<1> QED
  BY <1>1, <1>2, PagesOfRegion

(***************************************************************************)
(* What is absent and walked can be mapped.                                *)
(***************************************************************************)
LEMMA AbsentIsMappable ==
  ASSUME NEW d, NEW s, Walk(s), \A j \in 1 .. Len(s) : ~Present(d, s[j])
  PROVE  Mappable(d, s)
  BY DEF Walk, Mappable

-----------------------------------------------------------------------------
(* The boot.                                                               *)

(***************************************************************************)
(* The directory of the kernel begins without tables (paging.cpp:109-126). *)
(***************************************************************************)
LEMMA InitializeKeepsMap ==
  ASSUME MapInv, Initialize, DirectoryInv'
  PROVE  MapInv'
<1> DEFINE dir == Aligned(heap)
           kdir == Aligned(dir + DirectorySize)
           ft == Aligned(kdir + DirectorySize)
<1>1. /\ pc = "reset" /\ pc' = "kernel" /\ heap' = ft + NumFrames
      /\ currentDir' = dir /\ kernelDir' = kdir /\ frameTable' = ft
      /\ directory' = [d \in {kdir} |-> NoTables]
      /\ job' = PagesOf(KernelRegion) /\ target' = kdir
      /\ UNCHANGED <<frames, enteries, baseTables, created>>
  BY DEF Initialize, FrameTableSize, KernelRegion
<1>2. TypeOK /\ AddressInv /\ frames = {} /\ DOMAIN enteries = {} /\ created = {}
  BY <1>1 DEF MapInv, TargetInv
<1>3. DirectorySize \in Nat /\ DirectorySize > 0 /\ NumFrames \in Nat /\ NumFrames > 0
  BY Sizes DEF DirectorySize
<1>4. dir \in Nat /\ heap \in Nat /\ dir >= heap /\ heap > 0
  BY <1>2, AlignedIsAbove DEF TypeOK, AddressInv
<1>5. kdir \in Nat /\ kdir >= dir + DirectorySize
  BY <1>3, <1>4, AlignedIsAbove
<1>6. ft \in Nat /\ ft >= kdir + DirectorySize
  BY <1>3, <1>5, AlignedIsAbove
<1> HIDE DEF dir, kdir, ft
<1>7. DOMAIN directory' = {kdir} /\ directory'[kdir] = NoTables
  BY <1>1
<1>8. NoTables \in [TableIdx -> {Null}] /\ \A i \in TableIdx : NoTables[i] = Null
  BY DEF NoTables
<1>9. ASSUME NEW p \in Page, NEW d, d = kdir
      PROVE  ~Present(d, p)'
  <2>1. NoTables[p \div TableSize] = Null
    BY <1>8, PageTable
  <2> QED
    BY <1>7, <1>9, <2>1 DEF Present
<1>10. /\ job' \in Seq(Page)
       /\ \A j \in 1 .. Len(job') : job'[j] \in KernelRegion
       /\ Walk(job')
  BY <1>1, RegionJob
<1>11. Len(job') = KernelPages /\ \A j \in 1 .. Len(job') : job'[j] = 0 + j - 1
  <2>1. KernelPages \in Nat /\ KernelRegion = 0 .. KernelPages - 1
    BY PagingAssumption DEF KernelRegion
  <2>2. KernelRegion \in SUBSET Page
    BY Layout
  <2>3. 0 % TableSize = 0
    BY PagingAssumption
  <2>4. Cardinality(KernelRegion) = KernelPages
    BY <2>1, FS_Interval
  <2>5. /\ \A j \in 1 .. Len(PagesOf(KernelRegion)) : PagesOf(KernelRegion)[j] = 0 + j - 1
        /\ Len(PagesOf(KernelRegion)) = Cardinality(KernelRegion)
    BY <2>1, <2>2, <2>3, PagesOfRegion
  <2> QED
    BY <1>1, <2>4, <2>5
<1>12. TypeOK'
  <2>1. directory'[kdir] \in [TableIdx -> DOMAIN enteries' \cup {Null}]
    BY <1>1, <1>7, <1>8
  <2>2. heap' \in Nat
    BY <1>1, <1>3, <1>6
  <2> QED
    BY <1>1, <1>2, <1>4, <1>5, <1>6, <1>7, <1>10, <2>1, <2>2 DEF TypeOK
<1>13. AddressInv'
  <2>1. heap' > 0 /\ kdir < heap' /\ dir < heap'
    BY <1>1, <1>3, <1>4, <1>5, <1>6
  <2> QED
    BY <1>1, <1>2, <1>7, <2>1 DEF AddressInv
<1>14. TargetInv'
  BY <1>1, <1>2, <1>7 DEF TargetInv
<1>15. JobInv'
  <2>1. ASSUME NEW j \in 1 .. Len(job')
        PROVE  ~Present(target, job[j])'
    <3>1. job'[j] \in Page
      BY <1>10, Layout
    <3>2. \A d, p : d = target' /\ p = job'[j] => ~Present(d, p)'
      BY <1>1, <1>9, <3>1
    <3> QED
      BY <3>2 DEF Present
  <2>2. Mappable(target, job)'
    BY <1>10, <2>1 DEF Mappable, Walk
  <2> QED
    BY <1>1, <2>2 DEF JobInv
<1>16. InOrder'
  <2>1. 0 \in 0 .. KernelPages /\ 0 .. 0 - 1 = {}
    BY PagingAssumption
  <2>2. /\ frames' = 0 .. 0 - 1
        /\ Len(job') = KernelPages - 0
        /\ \A p \in Page : Present(kernelDir, p)' <=> p \in 0 .. 0 - 1
        /\ \A p \in 0 .. 0 - 1 : Entry(kernelDir, p)' = p
    <3>1. \A p \in Page : \A d : d = kernelDir' => ~Present(d, p)'
      BY <1>1, <1>9
    <3>2. \A p \in Page : ~Present(kernelDir, p)'
      BY <3>1 DEF Present
    <3> QED
      BY <1>1, <1>2, <1>11, <2>1, <3>2, PagingAssumption
  <2> QED
    BY <1>11, <2>1, <2>2 DEF InOrder
<1>17. OneToOne' /\ Coverage'
  BY <1>1, <1>2 DEF OneToOne, Coverage
<1> QED
  BY <1>12, <1>13, <1>14, <1>15, <1>16, <1>17 DEF MapInv

(***************************************************************************)
(* Pages depend on the directories and the tables only.                    *)
(***************************************************************************)
LEMMA SameTables ==
  ASSUME UNCHANGED <<enteries, directory>>
  PROVE  \A d, p : /\ Present(d, p)' <=> Present(d, p)
                   /\ Entry(d, p)' = Entry(d, p)
                   /\ Table(d, p)' = Table(d, p)
  BY DEF Present, Entry, Table

(***************************************************************************)
(* A job whose pages are absent in its directory can begin.                *)
(***************************************************************************)
LEMMA NextJob ==
  ASSUME Walk(job'),
         \A j \in 1 .. Len(job') : \A d, p : d = target' /\ p = job'[j] => ~Present(d, p)'
  PROVE  Mappable(target, job)'
<1>1. ASSUME NEW j \in 1 .. Len(job')
      PROVE  ~Present(target, job[j])'
  BY <1>1 DEF Present
<1> QED
  BY <1>1 DEF Mappable, Walk

(***************************************************************************)
(* When the kernel is mapped the heap follows (paging.cpp:128-136).        *)
(***************************************************************************)
LEMMA InitializeHeapKeepsMap ==
  ASSUME MapInv, InitializeHeap, DirectoryInv'
  PROVE  MapInv'
<1>1. /\ pc = "kernel" /\ job = <<>> /\ pc' = "heap"
      /\ baseTables' = BaseTables /\ job' = PagesOf(Heap)
      /\ UNCHANGED <<heap, frames, frameTable, enteries, directory, kernelDir, currentDir,
                     created, target>>
  BY DEF InitializeHeap
<1>2. TypeOK /\ AddressInv /\ TargetInv
  BY DEF MapInv
<1>3. DOMAIN directory = {kernelDir} /\ target = kernelDir
  BY <1>1, <1>2 DEF TargetInv
<1>4. /\ \A p \in Page : Present(kernelDir, p) <=> p \in KernelRegion
      /\ \A p \in KernelRegion : Entry(kernelDir, p) = p
  <2>1. PICK n \in 0 .. KernelPages :
           /\ Len(job) = KernelPages - n
           /\ \A p \in Page : Present(kernelDir, p) <=> p \in 0 .. n - 1
           /\ \A p \in 0 .. n - 1 : Entry(kernelDir, p) = p
    BY <1>1 DEF MapInv, InOrder
  <2>2. Len(job) = 0 /\ KernelPages \in Nat
    BY <1>1, PagingAssumption
  <2>3. n = KernelPages
    BY <2>1, <2>2
  <2> QED
    BY <2>1, <2>3 DEF KernelRegion
<1>5. \A d, p : /\ Present(d, p)' <=> Present(d, p)
                /\ Entry(d, p)' = Entry(d, p)
  BY <1>1, SameTables
<1>6. /\ job' \in Seq(Page) /\ Len(job') \in Nat
      /\ \A j \in 1 .. Len(job') : job'[j] \in Heap
      /\ \A p \in Heap : \E j \in 1 .. Len(job') : job'[j] = p
      /\ Walk(job')
  BY <1>1, RegionJob
<1>7. \A p \in Heap : p \in Page /\ p \notin KernelRegion
  BY Layout
<1>8. Left' = Heap
  BY <1>6 DEF Left
<1>9. TypeOK'
  BY <1>1, <1>2, <1>6, Layout DEF TypeOK
<1>10. AddressInv'
  BY <1>1, <1>2 DEF AddressInv
<1>11. TargetInv'
  BY <1>1, <1>2, <1>3 DEF TargetInv
<1>12. JobInv'
  <2>1. Mappable(target, job)'
    BY <1>1, <1>3, <1>4, <1>5, <1>6, <1>7, NextJob
  <2> QED
    BY <1>1, <1>8, <2>1 DEF JobInv
<1>13. InOrder'
  BY <1>1 DEF InOrder
<1>14. OneToOne'
  <2>1. \A d \in DOMAIN directory', p \in KernelRegion : Present(d, p)' /\ Entry(d, p)' = p
    BY <1>1, <1>3, <1>4, <1>5, Layout
  <2> QED
    BY <2>1 DEF OneToOne
<1>15. Coverage'
  <2>1. \A d, p : d = kernelDir' /\ p \in Page => (Present(d, p)' <=> p \in KernelRegion)
    BY <1>1, <1>4, <1>5
  <2>2. \A p \in Page : Present(kernelDir, p)' <=> p \in KernelRegion
    BY <2>1 DEF Present
  <2> QED
    BY <1>1, <1>8, <2>2 DEF Coverage
<1> QED
  BY <1>9, <1>10, <1>11, <1>12, <1>13, <1>14, <1>15 DEF MapInv

(***************************************************************************)
(* The directory that is loaded first becomes a copy of the kernel's       *)
(* (paging.cpp:142).                                                       *)
(***************************************************************************)
LEMMA InitializeEndKeepsMap ==
  ASSUME MapInv, InitializeEnd, DirectoryInv'
  PROVE  MapInv'
<1>1. /\ pc = "heap" /\ job = <<>> /\ pc' = "booted"
      /\ DOMAIN directory' = DOMAIN directory \cup {currentDir}
      /\ \A d \in DOMAIN directory' : directory'[d] = directory[kernelDir]
      /\ UNCHANGED <<heap, frames, frameTable, enteries, kernelDir, currentDir, baseTables,
                     created, job, target>>
  BY DEF InitializeEnd
<1>2. TypeOK /\ AddressInv /\ TargetInv /\ OneToOne /\ Coverage
  BY DEF MapInv
<1>3. kernelDir \in DOMAIN directory /\ created = {}
  BY <1>1, <1>2 DEF TargetInv
<1>4. \A d \in DOMAIN directory', p \in Page :
         /\ Present(d, p)' <=> Present(kernelDir, p)
         /\ Entry(d, p)' = Entry(kernelDir, p)
  BY <1>1 DEF Present, Entry, Table
<1>5. Left = {}
  BY <1>1 DEF Left
<1>6. TypeOK'
  <2>1. directory[kernelDir] \in [TableIdx -> DOMAIN enteries \cup {Null}]
    BY <1>2, <1>3 DEF TypeOK
  <2>2. \A d \in DOMAIN directory' : directory'[d] \in [TableIdx -> DOMAIN enteries' \cup {Null}]
    BY <1>1, <2>1
  <2>3. DOMAIN directory' \subseteq Nat /\ created' \subseteq DOMAIN directory'
    BY <1>1, <1>2, <1>3 DEF TypeOK
  <2> QED
    BY <1>1, <1>2, <2>2, <2>3 DEF TypeOK
<1>7. AddressInv' /\ TargetInv'
  BY <1>1, <1>2 DEF AddressInv, TargetInv
<1>8. JobInv' /\ InOrder'
  BY <1>1 DEF JobInv, InOrder, RegionPhase
<1>9. OneToOne'
  <2>1. \A p \in KernelRegion : Present(kernelDir, p) /\ Entry(kernelDir, p) = p
    BY <1>1, <1>2, <1>3 DEF OneToOne
  <2>2. \A d \in DOMAIN directory', p \in KernelRegion : Present(d, p)' /\ Entry(d, p)' = p
    BY <1>4, <2>1, Layout
  <2> QED
    BY <2>2 DEF OneToOne
<1>10. Coverage'
  <2>1. \A d, p : d = kernelDir' /\ p \in Page => (Present(d, p)' <=> Present(kernelDir, p))
    BY <1>1, <1>3, <1>4
  <2>2. \A p \in Page : Present(kernelDir, p)' <=> Present(kernelDir, p)
    BY <2>1 DEF Present
  <2>3. \A p \in Page : Present(kernelDir, p) => p \in KernelRegion \cup Heap
    BY <1>1, <1>2 DEF Coverage
  <2>4. \A p \in Heap : Present(kernelDir, p) /\ p \in Page
    BY <1>1, <1>2, <1>5, Layout DEF Coverage
  <2> QED
    BY <1>1, <2>2, <2>3, <2>4 DEF Coverage
<1> QED
  BY <1>6, <1>7, <1>8, <1>9, <1>10 DEF MapInv

(***************************************************************************)
(* The stack of the kernel meets nothing that is mapped (Processing::      *)
(* Initialize).                                                            *)
(***************************************************************************)
LEMMA MapKernelStackKeepsMap ==
  ASSUME MapInv, MapKernelStack, DirectoryInv'
  PROVE  MapInv'
<1>1. /\ pc = "booted" /\ pc' = "stack" /\ job' = PagesOf(KernelStack) /\ target' = kernelDir
      /\ UNCHANGED <<heap, frames, frameTable, enteries, directory, kernelDir, currentDir,
                     baseTables, created>>
  BY DEF MapKernelStack
<1>2. TypeOK /\ AddressInv /\ TargetInv /\ OneToOne /\ Coverage
  BY DEF MapInv
<1>3. kernelDir \in DOMAIN directory
  BY <1>1, <1>2 DEF TargetInv
<1>4. \A d, p : /\ Present(d, p)' <=> Present(d, p)
                /\ Entry(d, p)' = Entry(d, p)
  BY <1>1, SameTables
<1>5. /\ job' \in Seq(Page) /\ Len(job') \in Nat
      /\ \A j \in 1 .. Len(job') : job'[j] \in KernelStack
      /\ \A p \in KernelStack : \E j \in 1 .. Len(job') : job'[j] = p
      /\ Walk(job')
  BY <1>1, RegionJob
<1>6. \A p \in KernelStack : p \in Page /\ p \notin KernelRegion /\ p \notin Heap
  BY Layout
<1>7. \A p \in KernelStack : ~Present(kernelDir, p)
  BY <1>1, <1>2, <1>6 DEF Coverage
<1>8. KernelStack \subseteq Left'
  BY <1>5 DEF Left
<1>9. TypeOK'
  BY <1>1, <1>2, <1>5 DEF TypeOK
<1>10. AddressInv' /\ TargetInv'
  BY <1>1, <1>2, <1>3 DEF AddressInv, TargetInv
<1>11. JobInv'
  <2>1. Mappable(target, job)'
    BY <1>1, <1>4, <1>5, <1>7, NextJob
  <2> QED
    BY <1>1, <2>1 DEF JobInv
<1>12. InOrder'
  BY <1>1 DEF InOrder
<1>13. OneToOne'
  <2>1. \A d \in DOMAIN directory, p \in KernelRegion : Present(d, p) /\ Entry(d, p) = p
    BY <1>1, <1>2 DEF OneToOne
  <2> QED
    BY <1>1, <1>4, <2>1 DEF OneToOne
<1>14. Coverage'
  <2>1. \A p \in Heap : Present(kernelDir, p)
    BY <1>1, <1>2 DEF Coverage
  <2>2. \A p \in Heap : Present(kernelDir, p)'
    BY <1>1, <2>1 DEF Present
  <2> QED
    BY <1>1, <1>8, <2>2 DEF Coverage
<1> QED
  BY <1>9, <1>10, <1>11, <1>12, <1>13, <1>14 DEF MapInv

-----------------------------------------------------------------------------
(* Processes.                                                              *)

(***************************************************************************)
(* A new directory has the pages of the kernel and no other, so that the   *)
(* stack and the heap of the process are mapped in tables of its own       *)
(* (create_directory, paging.cpp:156-184).                                 *)
(***************************************************************************)
LEMMA CreateKeepsMap ==
  ASSUME MapInv, create_directory, DirectoryInv'
  PROVE  MapInv'
<1>0. PICK dir : dir = Aligned(heap)
  OBVIOUS
<1>1. /\ pc = "ready" /\ pc' = "create" /\ heap' = dir + DirectorySize
      /\ directory' = [d \in DOMAIN directory \cup {dir} |->
                          IF d = dir THEN SharedTables ELSE directory[d]]
      /\ created' = created \cup {dir} /\ target' = dir
      /\ job' = PagesOf(ProcessStack) \o PagesOf(Heap)
      /\ UNCHANGED <<frames, frameTable, enteries, kernelDir, currentDir, baseTables>>
  BY <1>0 DEF create_directory
<1>2. TypeOK /\ AddressInv /\ TargetInv /\ OneToOne /\ Coverage /\ DirectoryInv
  BY DEF MapInv
<1>3. heap \in Nat /\ dir \in Nat /\ dir >= heap /\ DirectorySize \in Nat /\ DirectorySize > 0
  <2>1. heap \in Nat
    BY <1>2 DEF TypeOK
  <2> QED
    BY <1>0, <2>1, AlignedIsAbove, Sizes DEF DirectorySize
<1>4. dir \notin DOMAIN directory
  BY <1>2, <1>3 DEF AddressInv, TypeOK
<1>5. currentDir \in DOMAIN directory /\ kernelDir \in DOMAIN directory /\ baseTables = BaseTables
  BY <1>1, <1>2 DEF DirectoryInv, TargetInv
<1>6. BaseTables \in Nat
  BY Layout
<1>7. \A i \in TableIdx : SharedTables[i] = IF i < BaseTables THEN directory[currentDir][i] ELSE Null
  BY <1>5 DEF SharedTables
<1>8. SharedTables \in [TableIdx -> DOMAIN enteries \cup {Null}]
  <2>1. directory[currentDir] \in [TableIdx -> DOMAIN enteries \cup {Null}]
    BY <1>2, <1>5 DEF TypeOK
  <2>2. \A i \in TableIdx : SharedTables[i] \in DOMAIN enteries \cup {Null}
    BY <1>7, <2>1
  <2> QED
    BY <2>2 DEF SharedTables
<1>9. /\ DOMAIN directory' = DOMAIN directory \cup {dir} /\ directory'[dir] = SharedTables
      /\ \A d \in DOMAIN directory : directory'[d] = directory[d]
  BY <1>1, <1>4
<1>10. \A d \in DOMAIN directory : \A p : /\ Present(d, p)' <=> Present(d, p)
                                          /\ Entry(d, p)' = Entry(d, p)
  BY <1>1, <1>9 DEF Present, Entry, Table
<1>11. ASSUME NEW p \in Page, p \div TableSize < BaseTables
       PROVE  /\ Present(dir, p)' <=> Present(currentDir, p)
              /\ Entry(dir, p)' = Entry(currentDir, p)
  <2>1. SharedTables[p \div TableSize] = directory[currentDir][p \div TableSize]
    BY <1>7, <1>11, PageTable
  <2> QED
    BY <1>1, <1>9, <2>1 DEF Present, Entry, Table
<1>12. ASSUME NEW p \in Page, p \div TableSize >= BaseTables
       PROVE  ~Present(dir, p)'
  <2>1. p \div TableSize \in TableIdx /\ p \div TableSize \in Nat
    BY PageTable DEF TableIdx
  <2>2. SharedTables[p \div TableSize] = Null
    BY <1>6, <1>7, <1>12, <2>1
  <2> QED
    BY <1>1, <1>9, <2>2 DEF Present
<1>13. /\ PagesOf(ProcessStack) \in Seq(Page) /\ Len(PagesOf(ProcessStack)) \in Nat
       /\ \A j \in 1 .. Len(PagesOf(ProcessStack)) : PagesOf(ProcessStack)[j] \in ProcessStack
       /\ \A p \in ProcessStack : \E j \in 1 .. Len(PagesOf(ProcessStack)) : PagesOf(ProcessStack)[j] = p
       /\ Walk(PagesOf(ProcessStack))
  BY RegionJob
<1>14. /\ PagesOf(Heap) \in Seq(Page) /\ Len(PagesOf(Heap)) \in Nat
       /\ \A j \in 1 .. Len(PagesOf(Heap)) : PagesOf(Heap)[j] \in Heap
       /\ \A p \in Heap : \E j \in 1 .. Len(PagesOf(Heap)) : PagesOf(Heap)[j] = p
       /\ Walk(PagesOf(Heap))
  BY RegionJob
<1>15. \A p \in Heap : p \notin ProcessStack
  BY Layout
<1>16. Walk(job')
  BY <1>1, <1>13, <1>14, <1>15, WalkBoth
<1>17. /\ job' \in Seq(Page)
       /\ \A j \in 1 .. Len(job') : job'[j] \in ProcessStack \cup Heap
       /\ \A p \in ProcessStack \cup Heap : \E j \in 1 .. Len(job') : job'[j] = p
  <2> DEFINE s == PagesOf(ProcessStack)
             t == PagesOf(Heap)
  <2>1. /\ s \in Seq(Page) /\ t \in Seq(Page) /\ Len(s) \in Nat /\ Len(t) \in Nat /\ job' = s \o t
        /\ \A j \in 1 .. Len(s) : s[j] \in ProcessStack
        /\ \A j \in 1 .. Len(t) : t[j] \in Heap
        /\ \A p \in ProcessStack : \E j \in 1 .. Len(s) : s[j] = p
        /\ \A p \in Heap : \E j \in 1 .. Len(t) : t[j] = p
    BY <1>1, <1>13, <1>14
  <2> HIDE DEF s, t
  <2>2. /\ job' \in Seq(Page) /\ Len(job') = Len(s) + Len(t)
        /\ \A j \in 1 .. Len(s) : job'[j] = s[j]
        /\ \A j \in 1 .. Len(t) : job'[Len(s) + j] = t[j]
        /\ \A j \in 1 .. Len(job') : ~(j <= Len(s)) => job'[j] = t[j - Len(s)]
    BY <2>1
  <2>3. ASSUME NEW j \in 1 .. Len(job')
        PROVE  job'[j] \in ProcessStack \cup Heap
    <3>1. CASE j \in 1 .. Len(s)
      BY <2>1, <2>2, <3>1
    <3>2. CASE j \notin 1 .. Len(s)
      <4>1. j - Len(s) \in 1 .. Len(t) /\ ~(j <= Len(s))
        BY <2>1, <2>2, <3>2
      <4> QED
        BY <2>1, <2>2, <4>1
    <3> QED
      BY <3>1, <3>2
  <2>4. ASSUME NEW p \in ProcessStack
        PROVE  \E j \in 1 .. Len(job') : job'[j] = p
    <3>1. PICK j \in 1 .. Len(s) : s[j] = p
      BY <2>1
    <3>2. j \in 1 .. Len(job')
      BY <2>1, <2>2
    <3> QED
      BY <2>2, <3>1, <3>2
  <2>5. ASSUME NEW p \in Heap
        PROVE  \E j \in 1 .. Len(job') : job'[j] = p
    <3>1. PICK j \in 1 .. Len(t) : t[j] = p
      BY <2>1
    <3>2. Len(s) + j \in 1 .. Len(job')
      BY <2>1, <2>2
    <3> QED
      BY <2>2, <3>1, <3>2
  <2> QED
    BY <2>2, <2>3, <2>4, <2>5
<1>18. ProcessStack \cup Heap \subseteq Left'
  BY <1>17 DEF Left
<1>19. \A p \in ProcessStack \cup Heap : p \in Page /\ p \div TableSize >= BaseTables
  BY Layout
<1>20. JobInv'
  <2>1. Mappable(target, job)'
    BY <1>1, <1>12, <1>16, <1>17, <1>19, NextJob
  <2> QED
    BY <1>1, <2>1 DEF JobInv
<1>21. TypeOK'
  <2>1. \A d \in DOMAIN directory' : directory'[d] \in [TableIdx -> DOMAIN enteries' \cup {Null}]
    BY <1>1, <1>2, <1>8, <1>9 DEF TypeOK
  <2>2. DOMAIN directory' \subseteq Nat /\ created' \subseteq DOMAIN directory'
    BY <1>1, <1>2, <1>3, <1>9 DEF TypeOK
  <2>3. heap' \in Nat
    BY <1>1, <1>3
  <2>4. {kernelDir, currentDir, target}' \subseteq Nat
    BY <1>1, <1>2, <1>3 DEF TypeOK
  <2>5. /\ frameTable' \in Nat /\ baseTables' \in 0 .. NumTables /\ frames' \subseteq Frame
        /\ DOMAIN enteries' \subseteq Nat
        /\ \A t \in DOMAIN enteries' : enteries'[t] \in [Index -> Frame \cup {NoFrame}]
    BY <1>1, <1>2 DEF TypeOK
  <2> QED
    BY <1>1, <1>17, <2>1, <2>2, <2>3, <2>4, <2>5 DEF TypeOK
<1>22. AddressInv'
  <2>1. heap' > heap /\ heap' > dir /\ heap' \in Nat
    BY <1>1, <1>3
  <2>2. DOMAIN enteries \subseteq Nat /\ DOMAIN directory \subseteq Nat /\ currentDir \in Nat
    BY <1>2 DEF TypeOK
  <2>3. /\ \A t \in DOMAIN enteries : 0 < t /\ t < heap
        /\ \A d \in DOMAIN directory : d < heap
        /\ currentDir < heap /\ heap > 0
    BY <1>2 DEF AddressInv
  <2> QED
    BY <1>1, <1>3, <1>9, <2>1, <2>2, <2>3 DEF AddressInv
<1>23. TargetInv'
  BY <1>1, <1>2, <1>5, <1>9 DEF TargetInv
<1>24. InOrder'
  BY <1>1 DEF InOrder
<1>25. OneToOne'
  <2>1. \A d \in DOMAIN directory, p \in KernelRegion : Present(d, p) /\ Entry(d, p) = p
    BY <1>1, <1>2 DEF OneToOne
  <2>2. \A p \in KernelRegion : p \in Page /\ p \div TableSize < BaseTables
    BY Layout
  <2>3. \A d \in DOMAIN directory', p \in KernelRegion : Present(d, p)' /\ Entry(d, p)' = p
    BY <1>5, <1>9, <1>10, <1>11, <2>1, <2>2
  <2> QED
    BY <2>3 DEF OneToOne
<1>26. Coverage'
  <2>1. \A p \in Heap \cup KernelStack : Present(kernelDir, p)
    BY <1>1, <1>2 DEF Coverage
  <2>2. \A d, p : d = kernelDir' /\ p \in Heap \cup KernelStack => Present(d, p)'
    BY <1>1, <1>5, <1>10, <2>1
  <2>3. \A p \in Heap \cup KernelStack : Present(kernelDir, p)'
    BY <2>2 DEF Present
  <2>4. \A d \in created, p \in ProcessStack \cup Heap : Present(d, p)' /\ created \subseteq DOMAIN directory
    BY <1>1, <1>2, <1>10 DEF Coverage, TypeOK
  <2> QED
    BY <1>1, <1>18, <2>3, <2>4 DEF Coverage
<1> QED
  BY <1>20, <1>21, <1>22, <1>23, <1>24, <1>25, <1>26 DEF MapInv

(***************************************************************************)
(* What ends a job or the machine changes no page.                         *)
(***************************************************************************)
LEMMA EndKeepsMap ==
  ASSUME MapInv, DirectoryInv', Done \/ (\E page \in Page, dir \in DOMAIN directory : page_fault_handler(page, dir))
  PROVE  MapInv'
<1>1. /\ pc' \in {"ready", "page_fault"}
      /\ pc' = "ready" => job = <<>> /\ pc \in {"stack", "create"}
      /\ pc' = "page_fault" => pc \in {"booted", "stack"}
      /\ UNCHANGED <<heap, frames, frameTable, enteries, directory, kernelDir, currentDir,
                     baseTables, created, job, target>>
  BY DEF Done, page_fault_handler
<1>2. TypeOK /\ AddressInv /\ TargetInv /\ OneToOne /\ Coverage
  BY DEF MapInv
<1>3. \A d, p : /\ Present(d, p)' <=> Present(d, p)
                /\ Entry(d, p)' = Entry(d, p)
  BY <1>1, SameTables
<1>4. TypeOK'
  BY <1>1, <1>2 DEF TypeOK
<1>5. AddressInv' /\ TargetInv'
  BY <1>1, <1>2 DEF AddressInv, TargetInv
<1>6. JobInv' /\ InOrder'
  BY <1>1 DEF JobInv, InOrder, RegionPhase
<1>7. OneToOne'
  BY <1>1, <1>2, <1>3 DEF OneToOne
<1>8. Coverage'
  <2>1. CASE pc' = "page_fault"
    BY <2>1 DEF Coverage
  <2>2. CASE pc' = "ready"
    <3>1. pc \in {"stack", "create"} /\ job = <<>>
      BY <1>1, <2>2
    <3>2. Left = {}
      BY <3>1 DEF Left
    <3>3. /\ \A p \in Heap \cup KernelStack : Present(kernelDir, p)
          /\ \A d \in created, p \in ProcessStack \cup Heap : Present(d, p)
      BY <1>2, <3>1, <3>2 DEF Coverage, TargetInv
    <3>4. \A p \in Heap \cup KernelStack : Present(kernelDir, p)'
      BY <1>1, <3>3 DEF Present
    <3> QED
      BY <1>1, <1>3, <2>2, <3>3, <3>4 DEF Coverage
  <2> QED
    BY <1>1, <2>1, <2>2
<1> QED
  BY <1>4, <1>5, <1>6, <1>7, <1>8 DEF MapInv

-----------------------------------------------------------------------------
(* What the invariant gives.                                               *)

\* Before the boot code runs there is no directory and no table.
LEMMA MapInvInit == Init => MapInv
<1>1. SUFFICES ASSUME Init
               PROVE  MapInv
  OBVIOUS
<1>2. /\ heap = EndOfKernel /\ frames = {} /\ frameTable = Null
      /\ enteries = << >> /\ directory = << >>
      /\ kernelDir = Null /\ currentDir = Null /\ baseTables = 0 /\ created = {}
      /\ job = <<>> /\ target = Null /\ pc = "reset"
  BY <1>1 DEF Init
<1>3. DOMAIN enteries = {} /\ DOMAIN directory = {}
  BY <1>2
<1>4. EndOfKernel \in Nat /\ EndOfKernel > 0 /\ NumTables \in Nat
  BY Sizes
<1>5. TypeOK
  BY <1>2, <1>3, <1>4 DEF TypeOK, Null
<1>6. DirectoryInv
  BY <1>2, <1>3, <1>4 DEF DirectoryInv, Isolated
<1>7. AddressInv /\ TargetInv /\ JobInv /\ InOrder /\ OneToOne /\ Coverage
  BY <1>2, <1>3, <1>4 DEF AddressInv, TargetInv, JobInv, InOrder, OneToOne, Coverage, RegionPhase, Null
<1> QED
  BY <1>5, <1>6, <1>7 DEF MapInv

\* Every step keeps the invariant; one lemma per operation.
LEMMA MapInvStep ==
  ASSUME MapInv, [Next]_vars
  PROVE  MapInv'
<1>1. DirectoryInv'
  BY DirectoryInvStep DEF MapInv
<1>2. CASE MapPage
  BY <1>2, MapPageKeepsMap
<1>3. CASE Initialize
  BY <1>1, <1>3, InitializeKeepsMap
<1>4. CASE InitializeHeap
  BY <1>1, <1>4, InitializeHeapKeepsMap
<1>5. CASE InitializeEnd
  BY <1>1, <1>5, InitializeEndKeepsMap
<1>6. CASE MapKernelStack
  BY <1>1, <1>6, MapKernelStackKeepsMap
<1>7. CASE create_directory
  BY <1>1, <1>7, CreateKeepsMap
<1>9. CASE Done \/ (\E page \in Page, dir \in DOMAIN directory : page_fault_handler(page, dir))
  BY <1>1, <1>9, EndKeepsMap
<1>10. ASSUME UNCHANGED vars
       PROVE  MapInv'
  <2>1. UNCHANGED <<heap, frames, frameTable, enteries, directory, kernelDir, currentDir,
                    baseTables, created, job, target, pc>>
    BY <1>10 DEF vars
  <2>2. TypeOK' /\ AddressInv' /\ TargetInv'
    BY <2>1 DEF MapInv, TypeOK, AddressInv, TargetInv
  <2>3. JobInv'
    BY <2>1 DEF MapInv, JobInv, Mappable, Left, Present, Table, Entry
  <2>4. InOrder'
    BY <2>1 DEF MapInv, InOrder, Present, Table, Entry
  <2>5. OneToOne'
    BY <2>1 DEF MapInv, OneToOne, Present, Table, Entry
  <2>6. Coverage'
    BY <2>1 DEF MapInv, Coverage, Left, Present, Table, Entry
  <2> QED
    BY <1>1, <2>2, <2>3, <2>4, <2>5, <2>6 DEF MapInv
<1> QED
  BY <1>2, <1>3, <1>4, <1>5, <1>6, <1>7, <1>9, <1>10 DEF Next, Panic

(***************************************************************************)
(* Every directory maps every page of the kernel to the frame of the same  *)
(* number, and no process lacks a page of its stack or its heap, whatever  *)
(* the sizes of the regions are (paging.cpp:109-184).             *)
(***************************************************************************)
THEOREM KernelIsOneToOne == Spec => []KernelOneToOne
<1>1. MapInv => KernelOneToOne
  <2>1. SUFFICES ASSUME MapInv
                 PROVE  KernelOneToOne
    OBVIOUS
  <2>2. TypeOK /\ OneToOne /\ Coverage
    BY <2>1 DEF MapInv
  <2> QED
    BY <2>2 DEF KernelOneToOne, OneToOne, Coverage, KernelRegion, Entry, Table
<1> QED
  BY <1>1, MapInvInit, MapInvStep, PTL DEF Spec

(***************************************************************************)
(* A page that a directory maps stays mapped to the same frame, whatever   *)
(* is mapped in other directories with shared tables (paging.cpp:36-85,    *)
(* 156-184): a mapping is only for pages that are absent in its directory, *)
(* and a table stands for the same pages in all of them.                   *)
(***************************************************************************)
THEOREM MappedPagesStay == Spec => MappingsStay
<1> DEFINE Stays ==
             \A d \in DOMAIN directory, p \in Page : Present(d, p) =>
                Present(d, p)' /\ Entry(d, p)' = Entry(d, p)
<1>1. ASSUME MapInv, [Next]_vars
      PROVE  [Stays]_vars
  <2>1. CASE MapPage
    BY <1>1, <2>1, MapPagePresence
  <2>2. CASE Initialize
    <3>1. DOMAIN directory = {}
      BY <1>1, <2>2 DEF Initialize, MapInv, TargetInv
    <3> QED
      BY <3>1
  <2>3. CASE InitializeEnd
    <3>1. DOMAIN directory = {kernelDir}
      BY <1>1, <2>3 DEF InitializeEnd, MapInv, TargetInv
    <3>2. directory'[kernelDir] = directory[kernelDir] /\ enteries' = enteries
      BY <2>3, <3>1 DEF InitializeEnd
    <3> QED
      BY <3>1, <3>2 DEF Present, Entry, Table
  <2>4. CASE create_directory
    <3>1. /\ enteries' = enteries
          /\ \A d \in DOMAIN directory : d < heap /\ d \in Nat /\ heap \in Nat
      BY <1>1, <2>4 DEF create_directory, MapInv, AddressInv, TypeOK
    <3>2. heap \in Nat => Aligned(heap) \in Nat /\ Aligned(heap) >= heap
      BY AlignedIsAbove
    <3>3. \A d \in DOMAIN directory : d # Aligned(heap)
      BY <3>1, <3>2
    <3>4. \A d \in DOMAIN directory : directory'[d] = directory[d]
      BY <2>4, <3>3 DEF create_directory
    <3> QED
      BY <3>1, <3>4 DEF Present, Entry, Table
  <2>5. CASE InitializeHeap \/ MapKernelStack \/ Done
             \/ (\E page \in Page, dir \in DOMAIN directory : page_fault_handler(page, dir))
    <3>1. enteries' = enteries /\ directory' = directory
      BY <2>5 DEF InitializeHeap, MapKernelStack, Done, page_fault_handler
    <3> QED
      BY <3>1 DEF Present, Entry, Table
  <2>6. CASE UNCHANGED vars
    BY <2>6
  <2> QED
    BY <1>1, <2>1, <2>2, <2>3, <2>4, <2>5, <2>6 DEF Next, Panic
<1>2. [Stays]_vars =>
        [\A d \in DOMAIN directory, p \in Page : Present(d, p) =>
            /\ Present(d, p)'
            /\ enteries'[directory'[d][p \div TableSize]][p % TableSize]
                  = enteries[directory[d][p \div TableSize]][p % TableSize]]_vars
  BY DEF Entry, Table
<1> HIDE DEF Stays
<1> QED
  BY <1>1, <1>2, MapInvInit, MapInvStep, PTL DEF Spec, MappingsStay
=============================================================================
