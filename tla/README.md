# A TLA+ model of the juos kernel

juos is a small 32-bit x86 kernel in C++: it boots, sets up a heap and paging,
runs kernel processes in turn under a timer interrupt, and offers a shell that
starts and ends processes.  This directory models it from the boot code to the
file system, checks the models with TLC and proves part of what is checked with
TLAPS.

All paths below are relative to `src/kernel/`.

## Inventory

| Component | State | Operations | Hard part |
|---|---|---|---|
| Scheduler, `kernel/schedualer.cpp` | two queues of processes, list of ended pids, current process | AddItem, CalculateNext, GetNext, SignalEnd | terminations and launches in any order; starvation |
| Processes and tick, `kernel/process.cpp`, `kernel/timer.cpp` | process objects with saved registers and directory, cached info of the current one, static locals, cr3 | Start::Process, End::Process, SelfProcessInit, the tick | interrupts between steps; cr3 and stack changed under running code |
| Programs, `kernel/kernel.cpp` | registered programs, the shell's locals | kernel_main, kernel_stage_2, shell, loop2 | order of initialization; uninitialized last_pid |
| Keyboard input, `kernel/keyboard.cpp`, `kernel/kio.cpp`, `data_structures/queue.hpp` | per-process linked list of keys, lock word, line buffer | KeyboardHandler, GetChar, GetString | handler against dequeue, hlt, editing |
| Memory manager, `kernel/kmm.cpp` | fast-bin table, list of big chunks | malloc, free | holes and consolidation; interrupts inside malloc |
| Interrupt dispatch, `arch/i386/interrupts/` | handler table, IDT, PIC masks, the stack frame the stubs build | boot steps, set_handler, irq_handler, isr_handler | interrupts enabled before the IDT is loaded, error codes, acknowledgement |
| Paging, `kernel/paging.cpp`, `kernel/frame_table.cpp`, `kernel/kheap.cpp` | frames, directories, tables, bump pointer | Initialize, map_region, create_directory, page_fault_handler | frames run out; entry of a new table; tables shared by directories |
| Console, `arch/i386/tty.cpp`, `drivers/ps2_keyboard.cpp`, `libc/stdio/` | cursor, screen, static buffer of printf | Putchar, printf, KeyboardSource | edges of the screen, unsigned columns, prints between accesses |
| ATA driver, `drivers/ata.cpp` | the device's registers, the sector buffer | create_device, read_bytes, write_bytes | polling a slow or absent device, read-modify-write |
| ext2, `drivers/ext2.cpp` | super block, groups, bitmaps, inodes on the disk; cache of files in memory | mount, CreateFile | power failure between writes, remount, 4-bit block numbers |
| Containers, `data_structures/vector.hpp`, `string.hpp` | buffers of Vectors and Strings | copies, assignment, growth, destruction | ownership, zeros behind the end |
| list, static_stack, icxxabi | - | - | never used, not modelled |

The parts interact in four ways.  The timer interrupt calls the scheduler and
then switches processes; the keyboard interrupt writes to the input buffer of
whatever process runs; programs call Start and End, which change the scheduler's
queues from inside a process; everything allocates from the same memory manager,
whose table is shared by all address spaces while the memory behind it is not.
Page faults come through the interrupt stubs and panic; ext2 reaches the
disk through the storage interface that the ATA driver fills.

## Modules

| Module | Models |
|---|---|
| `AbstractScheduler` | what the scheduler promises: a set of live processes and a choice among the eligible |
| `Scheduler` | the two queues, refined from `AbstractScheduler` |
| `Kernel` | CPU, tick, Start/End, keyboard interrupt and programs; extends `Scheduler` |
| `InputBuffer` | one key's way from the handler through the queue to a line |
| `MemoryManager` | malloc and free as sequences of atomic calls |
| `FastBin` | the fast bin's table with interrupts inside malloc |
| `Paging` | primitive heap, frame table, directories, boot mappings, page faults |
| `Interrupts` | boot order, IDT, PIC, stubs, dispatch and return |
| `Ata` | the driver's functions step by step, and an ATA device |
| `Ext2` | mount and CreateFile as sequences of sector writes, with power failures |
| `Console` | printf, putchar, terminal, keyboard decoding |
| `Containers` | Vector and String over allocated chunks |
| `KernelProofs` | theorems about `Scheduler`, with the history of `MCScheduler`, and on top of them about `Kernel` |
| `MemoryManagerProofs` | theorems about `FastBin` and about `MemoryManager` |
| `PagingProofs`, `InterruptsProofs`, `InputBufferProofs`, `AtaProofs`, `Ext2Proofs`, `ConsoleProofs` | theorems about `Paging`, `Interrupts`, `InputBuffer`, `Ata`, `Ext2` and `Console` |
| `MC*` | values of the constants for TLC; `MCScheduler` also adds a history variable |

Definitions that begin with "Mutant of" in their comment are deliberately wrong
variants of a definition.  Replacing the definition by the variant must make TLC
report the property named for it in `PROJECT.json`; this shows that the property
depends on that piece of code.  No specification uses them.

Most modules have no run for their type invariant by itself: `TypeOK` is a
conjunct of one of the invariants, whose comment says so.

### Scheduler

`sysQ`, `regQ`, `canceled` and `current` are `_system_processes`,
`_regular_processes`, `_canceled_processes` and `_CurrentProcess`.  `_FindProcess`
is a loop in the code; the model states its result: `CanceledPrefix` is the set
of the one number of processes it pops, `Found` the process it returns and
`Requeued` the queue it leaves.  The environment may end a pid that was never
launched or was ended before, since the shell can do both.

### Kernel

An interrupt is taken only while the interrupt flag is set.  The handlers are
entered through interrupt gates, so each is one step (the keyboard handler
enables interrupts when nothing but its return is left).  Start::Process and
End::Process are split where they load cr3, because they rely on their callers'
`cli`, and the model lets a tick in wherever the flag allows one.  A saved
context is a program point; `at` records where each process really is.
`kstack` records that the kernel process's stack frames were overwritten by
kernel code working on another process's stack under the kernel's directory
(all stacks are at one virtual address).  For the same reason the priority of a
process that the shell launches may be any: `Start::Process` reads its argument
from the stack after it has loaded the kernel's directory (`process.cpp:168-170,
184`; the code is built without optimization, `../config.sh:12`).  `SystemPid` says which pids get
`Priority::System`.  Where the code leaves defined behaviour, `mode` says why and
the model stops.

### InputBuffer

The reader's steps are its memory accesses; the handler, which does not take
the lock, may run between any two.  The nodes come from a small fast bin that
can be empty, in which case the code writes through NULL, as the model does.
`Chain(n)` is the one list of nodes that starts at `n` and ends with a null
pointer; that there is one at every step is part of what is proved.
The lock word starts with any value, as its declaration has no initializer.

### MemoryManager and FastBin

`MemoryManager` keeps the byte arithmetic (13-byte headers, sizes aligned to 8,
the element-wise pointer difference) and leaves out interrupts.  `FastBin`
keeps the interrupts and leaves out the bytes: the shell tests and claims a
chunk in two steps; the tick frees and allocates a node of the run queue, and
a key allocates a node of the input buffer.  It stops when two blocks of one
heap share a chunk and when no chunk is free (what the code does then is in
`InputBuffer`).  The list of ended processes doubles its buffer when it is full;
once that is larger than a chunk it comes from the big chunks (`End`).  `last_pid`
of the shell is uninitialized (`UninitPid`); an END before the first START may
end nothing or the shell, and a tick that then finds no process
(`NoNextProcess`) leaves the nodes of all of them free.

### Paging

An address of the primitive heap is a byte address, so that the alignment of
directories and tables is really computed; other memory is known by its page.
`frames` is the set of taken frames, `enteries` and `directory` are the tables
and directories by address.  `_get_page` and `map_region` work page by page:
each `MapPage` takes a frame or panics.  A table that `_get_page` has just
created yields the entry of the *first* page, not of the one asked for
(`paging.cpp:52`), and the model does the same (`EntryIndex`).  The page fault
handler is installed from `paging::Initialize` to `Interrupts::Initialize`, which
clears it; before the first tick `GetNext` has no process, so a fault in that
time panics (`page_fault_handler`) and the lines that would map a page are never
reached.  The kernel maps 512 pages one to one, a heap of 4096
pages and a stack; each process takes 4112 frames of 40960, more than the
machine has, and none are ever returned, so the eighth process panics.
`LayoutAssumption` is what the addresses in the headers guarantee of the regions
(`kconstants.h:23-26`, `kmm.h:32-33`, `processing.h:36-37`,
`process.cpp:180-181`): stacks and heap begin with a page table, share none with
the kernel, and the heap does not meet a stack.

### Interrupts

The stack of the interrupted code is a sequence of words, so that a return takes
exactly the words the stub believes to be there.  `pc` goes through the steps of
`kernel_main`; interrupts are enabled from `Pic::_EnableDevices` on, before the
IDT is loaded.  `Interrupts::Initialize` clears the handlers and with them the
page fault handler that `paging::Initialize` has entered, so that a later page
fault returns through the stub that has pushed a second error code.

### Ata

The driver works through a script of the steps of its functions, one per access
to the device; `COMMAND` polls again, as in the code.  The device is external: it
shows BSY after a moment, answers after any time or with an error (DRQ or ERR,
never both), and while it is busy it may lose what is written to any one of its
registers.  Head, count and the three bytes of the address are set one by one
(`Register`, `Part`, `IO_REG_SET`), so a command may find registers of two
requests: the device then works on a third sector, on none, or, if the count is
the 0 of a finished transfer, which stands for 256, wants more sectors than the
driver moves.  The bits of the head register that are the same in every request
(`0xE0` and the slave bit) are left out.  `_get_device_info` works on the status
it has read (`status`): the first one decides whether a device was found, the two
loops test it and read it again.  `create_device` accepts ATAPI devices, which
abort reads and writes.  Requests that cross a sector overrun the buffer and are
made; the properties say what holds for the others.

### Ext2

The disk is a sequence of cells; a sector has four, and a block a multiple.
What a function writes is a list of sectors, written one by one (`WriteSector`);
the power may fail before each of them, and the file system may be mounted
again.  A write of a sector is atomic, as disks promise.  Bitmap entries, inodes
and descriptors have a cell each.  `After` is the disk when a whole list has
been written: of the writes to a sector the last one stays.
`Ext2Assumption` asks that blocks consist of sectors, that the blocks a
descriptor can lead to are on the disk (block numbers in it have four bits, so
that is the super block's index and 17 more), and that there are at most as
many files as two groups of the smallest blocks hold, which is what the code's
1024 files and 512-byte bitmaps come to.  With the bitmap the inode table is
scaled down: the code's has up to 256 blocks, the model's three, so the assumption
bounds the scaled table and says nothing about how large a disk the code needs.
The build option `K_NEW_STORAGE` (`ext2.cpp:67-68`), with which every mount would
create super block and group anew, is set by no makefile and left out.

### Console

Characters are ASCII codes and conversions are computed.  A number takes the
steps of `_convert_to_base` and `print_n`: the static buffer is cleared, the
digits are written from its end (`convert`), the characters are counted up to the
zero (`strlen`) and passed to `putchar` one by one (`digit`); each digit written,
counted or read is a step of its own.  `%d` is the only conversion of what
the shell prints with interrupts enabled (`kernel.cpp:66-86`); `%x`, `%o`, `%b` and
`%p`, which convert to other bases in the same buffer, `%c` and `%s` are not
modelled, and `FormatAssumption` keeps `%` out of the characters of a format.
Each access of `Putchar` to the cursor and to the screen is a step; a print from
code with interrupts disabled may come between any two.  `todo` is what is left
of the shell's call; `Begin` replaces a call in it by its steps.  `size_t` has 16
values, which are enough for the column to wrap as in the code: a line that goes
back over the end of a row leaves the column below zero, and `Cursor`, which is
computed in `size_t`, is right nevertheless.  Only a backspace at cell 0 writes
outside the screen (`erased_at_home`).  `FormatAssumption` says of the formats
in the code that no escape is cut off by the end, that what is meant as a
character neither begins an escape nor ends the format, that there is one number,
and that the numbers have room in the buffer.

### Containers

A memory of chunks is passed through `new`, `delete` and the constructors,
assignments and destructors the compiler calls in their order; an array knows
how many elements it has constructed.  Calls are atomic (interrupts inside
malloc are `FastBin`'s).  Writing behind a chunk ends the behaviour, with
`mem.wrong` saying what happened.

## Runs

| Run | Bounds | Result |
|---|---|---|
| `scheduler` | 2 System, 3 regular processes | queues partition the live processes, at most one overtaking, refinement, no starvation |
| `kernel` | 4 lines typed, last_pid uninitialized (the shell's or the first launched one's), the third process launched gets the highest priority, 4-bit counter | views of the current process agree, processes resume where they were, the machine is lost in three known ways only; ended processes stop, live ones run, input is served |
| `input_buffer` | 4 keys, 3 nodes, lines of 2 | no use after free, FIFO of the keys kept, editing, keys are read |
| `input_buffer_lost` | 3 keys, 4 nodes | violation: a key is lost in a concurrent dequeue |
| `memory_manager` | 5 allocations of 4 sizes | blocks disjoint until the big chunks were all free, and listed |
| `fast_bin` | 3 lines, 16 chunks, chunks of 2 pids, last_pid of nobody, the shell or the first launched | exclusive ownership until a handler wins the race, no leak even then |
| `paging` | 85 frames, 6 tables of 4 pages, 7 processes | frames owned once, kernel one to one, processes isolated, heap blocks disjoint, panics for want of frames only, mappings stay |
| `interrupts` | 2 devices, 2 exceptions | the machine dies in three known ways only; every request is served |
| `ata` | 2 sectors of 2 bytes, requests of up to 3 bytes, each register lost or not | reads and writes inside a sector are right, functions return unless the device is missing or not ready |
| `ext2` | 8 files, 5 descriptors, 152 cells, 3 mounts | marks lead inodes at every power failure, files of a mount are lost in two known ways only, entries intact, groups stay |
| `console` | screen of 2 by 2, 5 keys, lines of 4 | writes stay on the screen, typed text is before the cursor, printf prints what its format means, each except in named cases |
| `containers` | 2 vectors, 1 String, 6 calls, chunks of 2, elements of 2 | contents, exclusive ownership, overruns in known ways only |

Why the bounds are enough.  Three regular processes are the least for which an
overtaking between two others can be seen by a third, and two System processes
for the queues to be told apart from single slots.  Four commands allow START,
END and a superfluous END, START, START, END, and a third START whose process
gets the highest priority, with an END of it.  Three nodes and four keys let
the fast bin run out while a dequeue is in progress.  The sizes of
`memory_manager` are chosen around the header's 13 bytes: two chunk sizes that
are multiples of it, one that is not, and a small one; five allocations allow
three neighbours, a reuse and an append.  Three lines let the shell start a
process, leave a hole below its node and allocate again, and the second END is
where the list of ended processes leaves the fast bin.  The 85 frames
of `paging` run out in the middle of the seventh process; there are tables that
directories share and tables they do not.  A sector of two
bytes and three-byte requests give every alignment; the two sectors differ in the
lowest byte of the address, so that a register that was lost leads to the other
sector, to a count of 256 or nowhere wrong.  (The proofs hold for all 28 bits.)  Eight files fill two groups
and three blocks of inodes in the smaller descriptors; of the five descriptors
one has blocks of two sectors, one a super block in block 0, one the last index
at which a group's block numbers fit into four bits, and one an index beyond it.
Two columns, two rows and lines of four let an echo pass the end of a row and of
the screen and backspaces return over more than one row, also from a row of the
cleaned screen to its first cell.  Six calls on `Containers` suffice for a
vector to grow three times, for the overrun of a copy and of a capacity that was
set, and for a vector that is assigned to itself.  One page fault
(with error code) and one division error (without) stand for all exceptions.

Fairness.  The timer ticks for ever and its interrupt stays pending while the
flag is clear, so ticks are strongly fair where the flag changes; programs
execute instructions whenever they have the CPU and a time slice of 1/20 s is
longer than a step.  The keyboard is never fair.  In `Interrupts` the boot code
and the return from a handler proceed, interrupts are enabled again whenever
they were disabled, and a pending request is taken if the flag is set again and
again; devices need never raise a request.  In `Ata` the driver's code proceeds
and a device that was given a command answers in the end (with an error,
perhaps); nothing is assumed of one that is absent.  The other runs check safety
only.

In `Ata` an absent device makes the driver poll for ever, in `Ext2` a failed
assertion halts, in `Console` and `Containers` the behaviour ends where memory
was overwritten or the bound is used up: these four really may stop and are
checked without deadlock.  In the others, states in which the code has left
defined behaviour have an explicit stuttering step.

## Proofs

The first part of `KernelProofs` proves, for every set of processes and every
choice of System processes, from `SchedulerAssumption` alone (System processes
are processes, the null pointer is none):

- `SchedTypeCorrect`: `SchedSpec => []SchedTypeOK`;
- `NoProcessLost`: `SchedSpec => []QueuesPartitionLive`;
- `SchedulerRefines`: `SchedSpec => ImplementsAbstract`, the safety part of the
  abstract scheduler.

The inductive invariant is `SchedIInv`, the conjunction of the first two: the
partition needs the types to reason about the queues as sequences, and the type
of `current` needs the partition, since the process chosen comes from a queue.
The argument rests on three lemmas about sequences: the shape of the queue
`_FindProcess` leaves (`RequeuedShape`), that it loses canceled processes only
and duplicates none (`RequeuedKeeps`), and the same for an enqueue
(`AppendKeeps`).  `CalculateNextChooses` then shows that a decision is one of
the abstract scheduler's, and `AbsStep` that every step is one or stutters.

It also proves `WaitingIsBounded`: `MCSpec => []OvertakenAtMostOnce`.
The history of `MCScheduler` counts how often another process was chosen while
one waited; that no count passes one is not inductive.  `OvertakingInv` adds the
reason (`InTurn`): a live process that has overtaken another of its queue stands
behind it, so that its turn does not come again before the other's.

Its second part proves, however many lines are typed, whatever `last_pid` holds
uninitialized, whatever priorities the launched processes get and for every word
size, from `KernelAssumption` (the kernel process has `Priority::System`, the shell
does not):

- `CpuStaysCoherent`: `Spec => []CpuAgrees`;
- `InterruptedCodeResumes`: `Spec => []ResumesWhereInterrupted`;
- `OnlyKnownLosses`: `Spec => []LostOnlyInKnownWays`;
- `KernelImplementsScheduler`: `Spec => SchedSpec`, a refinement by which the
  theorems about `Scheduler` hold in the kernel;
- `KernelSchedulesAsPromised`: `Spec => ImplementsAbstract /\ []QueuesPartitionLive`.

`KInv` is the invariant of all five.  The properties speak of the moments at
which an interrupt can look; between them cr3, the static locals of Start and End
and the cached information are out of step, and the invariant says for every
program point by how much (`OnCpu`, `Statics`, `Phases`).  A process that waits
must not have been interrupted with interrupts off (`OffCpu`), or its saved point
would be one of those.  That a pid is left for every START needs a count of the
lines in flight (`Launches`).

`PagingProofs` proves, for every number of frames, pages and tables and every
choice of regions, from `PagingAssumption` (sizes are positive, a page is a
multiple of the entries of a table, regions consist of pages):

- `FramesAreNotShared`: `Spec => []FramesNotShared`;
- `PanicsOnlyForWantOfFrames`: `Spec => []PanicsForWantOfFrames`;
- `ProcessesAreIsolated`: `Spec => []Isolated`.

The first two follow from `FrameInv`.  `FindFirst` answers an unmarked frame;
that no entry holds it already needs the marks of all frames in entries, hence
the two are proved together, with the type of the tables.  `Isolated` follows
from `DirectoryInv`: a new table is in no other directory because every table of
every directory lies below the pointer of the primitive heap, where the new one
begins (`AlignedIsAbove`), and copying a directory leaves a table at its index.
`FindFirstIsFree`, `MapPageKeepsFrames`, `MapPageKeepsDirectories` and
`CreateKeepsDirectories` carry the argument.

With `LayoutAssumption` for the last two, it goes on to prove:

- `BlocksNeverOverlap`: `Spec => []BlocksDisjoint`, from `BlockInv`: the blocks
  lie between the end of the kernel and the pointer of the primitive heap, so
  the next one, which begins at the pointer or above, meets none of them;
- `KernelIsOneToOne`: `Spec => []KernelOneToOne`;
- `MappedPagesStay`: `Spec => MappingsStay`, an action property.

The last two follow from `MapInv`.  While the kernel is mapped, frames are handed
out in the order of its pages (`InOrder`); afterwards the shared tables hold it
(`OneToOne`).  That `_get_page` takes the first page of a new table does no harm
to a region needs `Mappable`: the pages still to be mapped are absent, and a page
whose table is missing is the first of it or comes behind another of that table.
`Coverage` says that what a directory was made with is present or still in the
job; `TargetInv` and `AddressInv` keep the new directories and tables apart from
the old.

`InterruptsProofs` proves `MachineDiesInKnownWays`: `Spec => []DiesInKnownWays`.
`BootInv` adds what the boot has done at each `pc`: the gates (`GatesInv`), the
handlers (`HandlersInv`), and the words a stub has pushed (`StackInv`).

`InputBufferProofs` proves, for every number of nodes and keys and every length
of line:

- `NoUseAfterFree`: `Spec => []ListIsAllocated`;
- `KeysAreFifo`: `Spec => []KeptKeysInOrder`;
- `LineIsAsEdited`: `Spec => []EditedPrefix`.

`QueueInv` says that there is a path of allocated, different nodes from the front
to the rear which holds the keys not yet read, and how far a dequeue has taken it
apart.  The handler may enqueue between any two of its steps; the case in which
it links a key behind the very node that is being removed is the one where the
key is lost, and there the path ends.  That a list is the only one from its first
node (`Chain` is well defined) is proved by a least counterexample.

The first part of `MemoryManagerProofs` proves, for every size of the bin and
number of lines, from `FastBinAssumption`:

- `ChunksExclusiveUntilRaced`: `Spec => []ExclusiveUntilRaced`;
- `ChunksNeverLeak`: `Spec => []NoChunkLeaked`.

`Inv` states exclusiveness for the five kinds of owners (`Apart`, `Distinct`)
instead of by a count, and adds the conjunct that makes it inductive: until the
race, the chunk the shell is about to claim is still free.  `FirstFreeIsFree`
carries the allocations, `DistinctCount` and `OwnedIsOwners` lead back to the
count of the property.

Its second part proves, for every size of the fast bin, every set of
requested sizes and any number of calls, from `MemoryManagerAssumption`:

- `BlocksAreDisjointUntilDrained`: `Spec => []DisjointUntilDrained`;
- `BlocksAlwaysStayListed`: `Spec => []BlocksStayListed`.

`MemoryInv` says that the next pointers lead along one ascending sequence of
chunks from the first (`Ascending`, `Linked`), that the used chunks are on it
and are the big blocks in use (`Owned`), and, until the chunks were all free,
that a block in use ends before the next chunk (`Fits`).  Prev pointers are
weaker: the chunk behind a first chunk that was absorbed has none, since the
code lets the first one stay on the list; one place back or null is what makes a
consolidation safe.  `WalkLeadsAlong` turns the code's walk along the pointers
into a place of the sequence, by a least counterexample to the number of its
steps.  The second theorem needs no condition: a chunk granted again over blocks
in use still leaves them on the list.

`AtaProofs` proves, for every size of sectors and of the disk, from
`AtaAssumption` (sizes are positive, the disk's sectors are numbered by 28 bits,
bytes are told apart from junk):

- `ReadsAreRight`: `Spec => []ReadsTheDisk`;
- `WritesAreRight`: `Spec => WritesWhatWasAsked`, an action property.

`Inv` says at which step of its script the driver is, and what the request has
achieved before it (`DataInv`): the registers set so far hold their parts of the
sector's number (`Registers`), the buffer has the sector, or has it with the bytes
to be written.  By `Parts` the parts of a number of 28 bits make it up, so that a
device which took them all is at the sector that is wanted (`AtWanted`).  The device may do what it likes in
between (`DeviceApart`); if it loses a register or a command or has no data, the
history says so and nothing is promised.  `SplitIsUnique` and `SectorOnDisk` are
the arithmetic of sectors, `BufferRoom` that a sector fits in the buffer.

`Ext2Proofs` proves, for every geometry, size of the disk and number of files and
mounts that `Ext2Assumption` admits:

- `EntriesAreIntact`: `Spec => []EntriesIntact`;
- `DescriptorsStay`: `Spec => GroupsStay`, an action property;
- `MarksComeFirst`: `Spec => []MarksLeadInodes`;
- `CreatedFilesAreOnDisk`: `Spec => []FilesAreOnDisk`.

A function knows all its writes when it is called and the disk changes later,
sector by sector, so the invariant speaks of the disk and of `todo` together. It
has three layers.  `Typed` and `CacheIntact` say that every write is one of the
disk's sectors, that the used entries of the cache are a prefix and that only
long names destroy any.  `Groups`: a descriptor on the disk is at one of two
places and is the one that belongs there; every sector in `todo` keeps it so
(`Keeping`), where that of the second group, which lies in the block bitmap of
the first, comes when the first one's is there already and is from then on what
this bitmap is written back with; a mounted file system has its first descriptor
and its super block on the disk or in `todo` (`IsOrWillBe`).  `FilesInv`: the
files of the mount are on the disk that there will be when `todo` has been
written (`FilesOn`), which a sector that arrives does not change (`AfterHead`);
`CreateWrites` follows a new file through the four blocks that are written, by
what one list of writes behind another leaves in a block (`AfterBoth`,
`AfterStorage`, `AfterOther`).  `Files`, for blocks of one sector and one group,
speaks of the disk as it is at a power failure: the marks are those of the files up to some
`n`, the inodes up to `n` or `n - 1` (`OnDisk`), and what is left in `todo` is
either harmless (`Mounting`), the last sectors of creating a file with mark
before inode (`Creating`), or begins with the second group's descriptor
(`SecondGroup`).  `MarksLeadInodes` would not be inductive alone: it does not
say what the sectors still to be written contain, nor that a mount counts the
files anew over those of an earlier one.  `AfterCell` carries the argument: what
a cell holds when a list has been written is what it held before or what one of
the writes puts there.

`ConsoleProofs` proves, for every size of the screen, of a `size_t` with room for
it and of the static buffer, every set of prompts, numbers and keys, and lines of
any length, from `ConsoleAssumption` and `FormatAssumption`:

- `WritesStayInside`: `Spec => []InsideScreen`;
- `LineStandsBeforeCursor`: `Spec => []TypedTextIsOnScreen`;
- `PrintfPrintsItsText`: `Spec => []PrintsItsText`.

The first two are not inductive: they speak of the cursor between two accesses of
`Putchar` only if one knows which access comes next.  `IInv` says what `todo` may
be (`Shape`: the accesses of one character, the first of which may be done, and
calls behind them) and, unless another print came inside of a `Putchar` or a
backspace at cell 0, where the cursor is before each access (`Placed`).  There the
column is an integer: `At` says that `terminal_column` is its unsigned value, and
`Inside` that row and column together lead to a cell of the screen, in the last
column or below the last row only while the comparison that corrects it is still
to come.  `Reading` says where the typed line stands, counted from the end that
the character under way will have (`EndOfText`).  `AccessedPlaces` takes the
cursor through the four accesses, `AccessedType` keeps the types, and
`WriteRests` does the same for a whole text that is printed with interrupts
disabled.  What is written there are digits (`DigitsType`), and what `printf`
calls are bytes for `putchar` and `SetColor` and the conversion of its argument
(`PrintfType`).  For this it must be known that the recursive functions for the
digits, the loop of `printf`, the text after each character and the
concatenation exist at all; that they do is proved by a least counterexample to
the number for which there is none (`DigitsExist`, `PrintfExists`, `AfterExists`,
`FlattenExists`).

`PrintsItsText` speaks of the end of a print only.  Its invariant, `PrintInv`,
says at every step before that what has been passed to `putchar` is the
beginning of the text and that what the rest of the call passes is what follows
there: `Said` is what one call in `todo` still prints when the static buffer is
as it is now, and `Says` places all of them in the text one behind the other.
`InOrder` adds that nothing is still to be taken from the buffer behind a number
that is to be converted, so that a conversion spoils no other one; a print from
code with interrupts disabled spoils one only when `InNumber` holds, and then
`mixed` is set.  That a prompt begins so (`PrintfPrints`) is proved from the end
of the format to its beginning, by the largest part from which on the loop of
`printf` would not print what it should: `FormatPlaces` and `TextPlaces` say
where each part stands and `CallsForPart` what the loop calls there.  Of a number
under way, what is said is the digits of the value that is left and then those in
the buffer: by `ConvertSays`, which rests on `DigitInFront`, writing a digit
leaves that unchanged, by `MeasureSays` counting a character does, and
`DigitHasRoom` shows that no digit is written in front of the buffer.

Each inductive invariant was checked by TLC on the instance of the component's
run before it was proved.

The liveness properties (`EligibleProcessesRun`, `TerminatedStops`,
`LiveProcessesRun`, `ShellServesInput`, `KeysAreRead`, `RequestsServed`,
`FunctionsReturn`) stay with TLC, as fairness is out of the prover's reach.
Of the safety properties the three of `Containers` are model-checked and not
proved.  They compare the result of folding constructors over the elements of an
array with what was pushed: what a recursive definition computes for every input
needs induction over data, which the prover does not have, and the least
counterexamples that replace it elsewhere would have to be found for each of
these folds.  `NoKeyLost` is not true of the code, as `input_buffer_lost`
shows.

## Seen while modelling, without a run of its own

- The tick that finds no next process loads the current process's directory
  (`timer.cpp:86`), and the tick after it has no current process either: the
  null pointer is used.  `LostOnlyInKnownWays` includes this outcome and says
  when it is reached.
- `__malloc_big` takes the first hole with room (`MallocReuse`), where its
  comment speaks of the smallest (`kmm.cpp:152`).

- The count in the prompt wraps below zero after a superfluous END
  (`kernel.cpp:87`); a deleted character stays in the line buffer behind the end
  (`kio.cpp:35`).
- When all big chunks were free, the first is granted again whatever is behind
  it, and blocks overlap (`drained`); a chunk may be appended by a size that was
  never written (`wild`, `kmm.cpp:194`).  A handler that allocates between the
  test and the claim of a fast chunk gets the same chunk (`raced`).
- `Start::Process` may give a launched process another priority than the shell asks
  for, as it reads its argument from another process's stack.  If that is
  `Priority::System`, the shell and all regular processes wait for as long as the
  launched one lives; `LiveProcessesRun` and `ShellServesInput` name this case
  (`Starves`, `process.cpp:168-184`, `schedualer.cpp:59-71`).
- `_get_device_info` cannot tell that there is no device: an empty bus reads as
  zero, and `COMMAND` polls it for RDY for ever before the status is tested
  (`ata.cpp:96, 331-336`), so the panic for it in `create_device` is not reached.
  The loop that should wait for "either DRQ or ERR" goes on while both are set
  (`ata.cpp:355-359`), which no ATA device shows, and so never waits.
- The storage driver ignores the result of its read in `write_bytes`, treats
  every nonzero status as success and never uses `sectors` (`ata.cpp:231, 259`).
- The super block is always written to block 1, whatever its index says, at
  every mount; inode indices start anew after a mount, so that new files
  overwrite old inodes; the descriptor of a second group lies in the block
  bitmap of the first, and its creation zeroes the first's inode bitmap and the
  first block of its inode table (`ext2.cpp:35, 73, 203`).  An inode's place in
  its block is its index modulo 4 whatever the size of a block, so that in larger
  blocks later files overwrite earlier ones and three quarters or more stay empty
  (`ext2.cpp:132`).  `FilesAreOnDisk` names the last two as the ways in which the
  files of a mount are lost.
- The entry of F11 in the key table is behind the range test; shift, control and
  caps lock put zeros into the line; `%%` prints two characters
  (`ps2_keyboard.cpp:113`, `printf.cpp`).
- `new char[size]` leaves no room for the zero of `strncpy`; it stays in the
  chunk since chunks are rounded up, except for lengths that fill one.  A copy of
  a Vector has room for its size only and the capacity of the original
  (`vector.hpp:72`).  A Vector assigned to itself loses its elements
  (`vector.hpp:101-108`), `pop_back` of an empty one wraps its size, and
  `reserve` may make the buffer smaller than the size (`vector.hpp:147-156`).
- The page fault handler is cleared before there is a process to serve
  (`interrupts.cpp:53-56`).  If it were reached, it would map nothing for the
  last page, whose end wraps to zero (`paging.cpp:209-215`), and for a page
  without a table it would map the first one of the new table.

## What is not modelled

The destructors of a process and of a page directory and ApplyContext are never
called.  The copy of the boot stack, GDT and PIT programming are writes to
hardware without state of the kernel's own.  String::compare on text without a
terminator may read stale bytes; which command a line compares equal to is the
environment's choice in `Kernel`.  Vector(size) and resize need log and ceil,
which nothing defines.  list and static_stack are never instantiated, icxxabi's
destructors are never run, vfs.h is an interface of which only CreateFile is
implemented, and `output.cpp` is a concatenation of sources outside the build.

## What could follow

1. `Ext2` over `Ata`: the composition in which the write of a sector may itself
   fail.  The file system ignores what the device returns, as the driver does,
   so that the properties of `Ext2` would need the device's good conduct as a
   condition, as those of `Ata` have it.
2. `Containers` with functions over the elements of an array instead of folds, as
   far as its properties can be proved by least counterexamples as well.
