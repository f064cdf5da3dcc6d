------------------------------- MODULE Paging -------------------------------
(***************************************************************************)
(* Paging (kernel/kernel/paging.cpp), the frame table (frame_table.cpp)    *)
(* and the primitive heap both take their memory from (kheap.cpp).         *)
(*                                                                         *)
(* An address of the primitive heap is a number of bytes, of the other     *)
(* memory only the page is kept.  A page is present when its entry holds a *)
(* frame.  Mapping a region is a job: the pages left, one step for each.   *)
(* Nothing else uses the paging structures meanwhile: at boot there is one *)
(* thread, later the callers have interrupts disabled.                     *)
(*                                                                         *)
(* The handler of page faults is installed by paging::Initialize and gone  *)
(* when Interrupts::Initialize clears the table of handlers.  Meanwhile no *)
(* process runs, so that it never gets to map a page.                      *)
(***************************************************************************)
EXTENDS Integers, Sequences, FiniteSets, FiniteSetsExt

CONSTANTS
    NumFrames,    \* number_of_frames
    PageSize,     \* PAGE_SIZE
    TableSize,    \* PAGE_TABLE_SIZE, entries of a table
    NumTables,    \* tables of a directory
    KernelPages,  \* K_MAPPED_REGION, in pages
    KernelStack,  \* pages of KERNEL_STACK_BEGIN and KERNEL_STACK_SIZE
    ProcessStack, \* pages of the stack of a process
    Heap,         \* pages of K_HEAP_START and K_HEAP_INITIAL_SIZE
    EndOfKernel,  \* &end, given by the linker
    MaxProcesses  \* bound: directories created

Frame == 0 .. NumFrames - 1
Index == 0 .. TableSize - 1
TableIdx == 0 .. NumTables - 1
Page == 0 .. NumTables * TableSize - 1
NoFrame == NumFrames  \* the entry of a page that is not present
Null == 0

ASSUME PagingAssumption ==
    /\ {NumFrames, PageSize, TableSize, NumTables, EndOfKernel} \subseteq Nat \ {0}
    /\ PageSize % TableSize = 0
    /\ KernelPages \in Nat /\ MaxProcesses \in Nat
    /\ {KernelStack, ProcessStack, Heap} \subseteq SUBSET Page
    /\ 0 .. KernelPages - 1 \subseteq Page

\* __base_kernel_tables_size, the number of tables all directories share.
BaseTables == IF KernelPages \div TableSize = 0 THEN 1 ELSE KernelPages \div TableSize

(***************************************************************************)
(* What the addresses in the headers (kconstants.h:23-26, kmm.h:32-33,     *)
(* processing.h:36-37, process.cpp:180-181) guarantee: there are frames    *)
(* for the kernel, which lies in the shared tables; the stacks and the     *)
(* heap begin with a page table, share none with the kernel and do not     *)
(* overlap.                                                                *)
(***************************************************************************)
ASSUME LayoutAssumption ==
    /\ KernelPages <= NumFrames
    /\ \A p \in 0 .. KernelPages - 1 : p \div TableSize < BaseTables
    /\ \A R \in {KernelStack, ProcessStack, Heap} :
          /\ \E first, last \in Page : first % TableSize = 0 /\ R = first .. last
          /\ \A p \in R : p \div TableSize >= BaseTables
    /\ Heap \cap (KernelStack \cup ProcessStack) = {}

VARIABLES
    heap,        \* __primitive_heap
    frames,      \* frames that are taken
    frameTable,  \* frame_table.frames
    enteries,    \* the tables, by their addresses: a frame for every index
    directory,   \* the directories, by their addresses: a table for every index
    kernelDir,   \* __kernel_directory
    currentDir,  \* paging_current_directory
    baseTables,  \* __base_kernel_tables_size
    created,     \* directories of the processes
    job,         \* pages left to map
    target,      \* the directory they are mapped in
    pc           \* whose job it is

vars == <<heap, frames, frameTable, enteries, directory, kernelDir, currentDir,
          baseTables, created, job, target, pc>>

Init ==
    /\ heap = EndOfKernel
    /\ frames = {} /\ frameTable = Null
    /\ enteries = << >> /\ directory = << >>
    /\ kernelDir = Null /\ currentDir = Null
    /\ baseTables = 0 /\ created = {}
    /\ job = <<>> /\ target = Null
    /\ pc = "reset"

-----------------------------------------------------------------------------

\* Mutant of Aligned: the address is rounded down.
RoundedDown(addr) == (addr \div PageSize) * PageSize

\* Allocate_WPointer: where an aligned block begins.
Aligned(addr) ==
    IF addr % PageSize = 0 THEN addr ELSE (addr \div PageSize) * PageSize + PageSize

DirectorySize == 2 * PageSize  \* tables and table_addresses
FrameTableSize == NumFrames    \* the frame table's constructor: a bool for each

\* The pages of a region, an interval, in the order they are mapped.
PagesOf(region) == [i \in 1 .. Cardinality(region) |-> Min(region) + i - 1]

Present(dir, page) ==
    LET table == directory[dir][page \div TableSize]
    IN  table # Null /\ enteries[table][page % TableSize] # NoFrame

\* Mutant of FindFirst: the scan does not look at the last frame.
AllButLast(taken) ==
    IF Frame \ taken \subseteq {NumFrames - 1} THEN NoFrame ELSE Min(Frame \ taken)

\* Mutant of FindFirst: the scan begins at the second frame.
FromSecond(taken) == IF Frame \ taken \subseteq {0} THEN NoFrame ELSE Min(Frame \ (taken \cup {0}))

\* FrameTable::FindFirst; NoFrame is its error.
FindFirst(taken) == IF Frame \ taken = {} THEN NoFrame ELSE Min(Frame \ taken)

\* _get_page: the index of the entry it returns.
EntryIndex(page, table, new) == IF table # Null THEN page % TableSize ELSE new % TableSize

-----------------------------------------------------------------------------
(* One page of _map_virt_to_phys.                                          *)

\* Mutant of SetAtIndex: the frame stays free.
FrameStaysFree(idx) == frames

\* FrameTable::SetAtIndex.
SetAtIndex(idx) == frames \cup {idx}

\* The search for a frame comes before the table is made, the panic after.
MapPage ==
    /\ job # <<>> /\ pc \notin {"panic", "page_fault"}
    /\ LET page == Head(job)
           table == directory[target][page \div TableSize]
           new == Aligned(heap)
           used == IF table = Null THEN new ELSE table
           i == EntryIndex(page, table, new)
           frame == FindFirst(frames)
           empty == [k \in Index |-> NoFrame]
           old == IF table = Null
                    THEN [t \in DOMAIN enteries \cup {new} |-> IF t = new THEN empty ELSE enteries[t]]
                    ELSE enteries
       IN  /\ heap' = IF table = Null THEN new + PageSize ELSE heap
           /\ directory' = [directory EXCEPT ![target] = [@ EXCEPT ![page \div TableSize] = used]]
           /\ IF frame = NoFrame
                THEN /\ pc' = "panic"
                     /\ enteries' = old
                     /\ UNCHANGED <<frames, job>>
                ELSE /\ enteries' = [old EXCEPT ![used] = [@ EXCEPT ![i] = frame]]
                     /\ frames' = SetAtIndex(frame)
                     /\ job' = Tail(job)
                     /\ UNCHANGED pc
    /\ UNCHANGED <<frameTable, kernelDir, currentDir, baseTables, created, target>>

-----------------------------------------------------------------------------
(* Boot.                                                                   *)

NoTables == [i \in TableIdx |-> Null]

\* paging::Initialize up to the mapping of the kernel: three aligned blocks.
Initialize ==
    LET dir == Aligned(heap)
        kdir == Aligned(dir + DirectorySize)
        ft == Aligned(kdir + DirectorySize)
    IN  /\ pc = "reset"
        /\ currentDir' = dir /\ kernelDir' = kdir /\ frameTable' = ft
        /\ heap' = ft + FrameTableSize
        /\ directory' = [d \in {kdir} |-> NoTables]
        /\ job' = PagesOf(0 .. KernelPages - 1) /\ target' = kdir
        /\ pc' = "kernel"
        /\ UNCHANGED <<frames, enteries, baseTables, created>>

\* The number of tables later directories share, and the kernel's heap.
InitializeHeap ==
    /\ pc = "kernel" /\ job = <<>>
    /\ baseTables' = BaseTables
    /\ job' = PagesOf(Heap)
    /\ pc' = "heap"
    /\ UNCHANGED <<heap, frames, frameTable, enteries, directory, kernelDir, currentDir,
                   created, target>>

\* The rest of Initialize: the current directory becomes a copy.
InitializeEnd ==
    /\ pc = "heap" /\ job = <<>>
    /\ directory' = [d \in DOMAIN directory \cup {currentDir} |-> directory[kernelDir]]
    /\ pc' = "booted"
    /\ UNCHANGED <<heap, frames, frameTable, enteries, kernelDir, currentDir, baseTables,
                   created, job, target>>

\* Processing::Initialize maps the kernel's stack.
MapKernelStack ==
    /\ pc = "booted"
    /\ job' = PagesOf(KernelStack) /\ target' = kernelDir
    /\ pc' = "stack"
    /\ UNCHANGED <<heap, frames, frameTable, enteries, directory, kernelDir, currentDir,
                   baseTables, created>>

\* The end of a job; that of the kernel's stack up to Interrupts::Initialize.
Done ==
    /\ pc \in {"stack", "create"} /\ job = <<>>
    /\ pc' = "ready"
    /\ UNCHANGED <<heap, frames, frameTable, enteries, directory, kernelDir, currentDir,
                   baseTables, created, job, target>>

\* page_fault_handler while it is installed, for a page that is absent in the
\* directory of the CPU: there is no scheduler, or no process it has chosen.
page_fault_handler(page, dir) ==
    /\ pc \in {"booted", "stack"}
    /\ dir \in {kernelDir, currentDir} /\ ~Present(dir, page)
    /\ pc' = "page_fault"
    /\ UNCHANGED <<heap, frames, frameTable, enteries, directory, kernelDir, currentDir,
                   baseTables, created, job, target>>

-----------------------------------------------------------------------------
(* Processes.                                                              *)

\* Mutant of SharedTables: all tables of the current directory.
AllTables == directory[currentDir]

\* create_directory: the tables of the kernel it copies.
SharedTables == [i \in TableIdx |-> IF i < baseTables THEN directory[currentDir][i] ELSE Null]

\* create_directory, with the mappings of Start::Process: the stack, the heap.
create_directory ==
    /\ pc = "ready" /\ Cardinality(created) < MaxProcesses
    /\ LET dir == Aligned(heap)
       IN  /\ heap' = dir + DirectorySize
           /\ directory' = [d \in DOMAIN directory \cup {dir} |->
                               IF d = dir THEN SharedTables ELSE directory[d]]
           /\ created' = created \cup {dir}
           /\ target' = dir
    /\ job' = PagesOf(ProcessStack) \o PagesOf(Heap)
    /\ pc' = "create"
    /\ UNCHANGED <<frames, frameTable, enteries, kernelDir, currentDir, baseTables>>

\* GO_PANIC loops for ever.
Panic == pc \in {"panic", "page_fault"} /\ UNCHANGED vars

Next ==
    \/ MapPage \/ Done
    \/ Initialize \/ InitializeHeap \/ InitializeEnd \/ MapKernelStack
    \/ create_directory
    \/ \E page \in Page, dir \in DOMAIN directory : page_fault_handler(page, dir)
    \/ Panic

Spec == Init /\ [][Next]_vars

-----------------------------------------------------------------------------

\* The variables have values of their types.
TypeOK ==
    /\ heap \in Nat /\ frameTable \in Nat /\ baseTables \in 0 .. NumTables
    /\ frames \subseteq Frame
    /\ DOMAIN enteries \subseteq Nat /\ DOMAIN directory \subseteq Nat
    /\ \A t \in DOMAIN enteries : enteries[t] \in [Index -> Frame \cup {NoFrame}]
    /\ \A d \in DOMAIN directory : directory[d] \in [TableIdx -> DOMAIN enteries \cup {Null}]
    /\ created \subseteq DOMAIN directory
    /\ {kernelDir, currentDir, target} \subseteq Nat
    /\ job \in Seq(Page)
    /\ pc \in {"reset", "kernel", "heap", "booted", "stack", "ready", "create", "panic", "page_fault"}

(***************************************************************************)
(* A frame is the memory of one page: no two entries of all the tables     *)
(* hold it, and it is marked in the frame table, so that it will never be  *)
(* handed out again (paging.cpp:68-81, frame_table.cpp:5-30).              *)
(***************************************************************************)
FramesNotShared ==
    /\ \A t \in DOMAIN enteries, i \in Index :
          enteries[t][i] # NoFrame => enteries[t][i] \in frames
    /\ \A t, u \in DOMAIN enteries, i, k \in Index :
          enteries[t][i] # NoFrame /\ enteries[t][i] = enteries[u][k] => t = u /\ i = k

(***************************************************************************)
(* "we want to have a kernel that is mapped 1-1" (paging.cpp:164): from    *)
(* the end of paging::Initialize on, every directory maps every page of    *)
(* the kernel to the frame of the same number, although a directory only   *)
(* copies tables and the kernel's own gets more pages later.  When no      *)
(* mapping is in progress, every process has the whole of its stack and of *)
(* its heap, although _get_page takes the first page of a new table for    *)
(* the page it was asked for (paging.cpp:52).  Besides, all variables have *)
(* values of their types.                                                  *)
(***************************************************************************)
KernelOneToOne ==
    /\ TypeOK
    /\ pc \notin {"reset", "kernel"} =>
          \A d \in DOMAIN directory, p \in 0 .. KernelPages - 1 :
              /\ Present(d, p)
              /\ enteries[directory[d][p \div TableSize]][p % TableSize] = p
    /\ pc = "ready" =>
          /\ \A d \in created, p \in ProcessStack \cup Heap : Present(d, p)
          /\ \A p \in KernelStack \cup Heap : Present(kernelDir, p)

(***************************************************************************)
(* Processes are isolated: directories made by create_directory have only  *)
(* the tables of the kernel in common with each other and with the         *)
(* kernel's own (paging.cpp:165-182).                                      *)
(***************************************************************************)
Isolated ==
    \A d \in created, e \in DOMAIN directory : \A i, k \in TableIdx :
        d # e /\ directory[d][i] # Null /\ directory[d][i] = directory[e][k]
            => i = k /\ i < baseTables

\* The blocks of the primitive heap, as sets of addresses.
Blocks ==
    {d .. d + DirectorySize - 1 : d \in DOMAIN directory \cup {currentDir}}
        \cup {t .. t + PageSize - 1 : t \in DOMAIN enteries}
        \cup {frameTable .. frameTable + NumFrames - 1}

(***************************************************************************)
(* The blocks the primitive heap has given out lie behind the kernel and   *)
(* before its pointer, and no two overlap (kheap.cpp:13-31).               *)
(***************************************************************************)
BlocksDisjoint ==
    pc # "reset" =>
        /\ \A b \in Blocks : b \subseteq EndOfKernel .. heap - 1
        /\ \A b, c \in Blocks : b # c => b \cap c = {}

(***************************************************************************)
(* A mapping panics only for want of frames; it does so instead of handing *)
(* out a frame twice (frame_table.cpp:18, paging.cpp:71-74).               *)
(***************************************************************************)
PanicsForWantOfFrames == pc = "panic" => frames = Frame

(***************************************************************************)
(* A page that a directory maps stays mapped, to the same frame, whatever  *)
(* is mapped in this or in any other directory: map_region never looks     *)
(* whether a page is present (paging.cpp:68-82), so a directory that       *)
(* shares one table too many would get its stack and its heap over those   *)
(* of another, and their frames would be lost.                             *)
(***************************************************************************)
MappingsStay ==
    [][\A d \in DOMAIN directory, p \in Page : Present(d, p) =>
          /\ Present(d, p)'
          /\ enteries'[directory'[d][p \div TableSize]][p % TableSize]
                = enteries[directory[d][p \div TableSize]][p % TableSize]]_vars
=============================================================================
