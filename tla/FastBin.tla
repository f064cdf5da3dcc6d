------------------------------ MODULE FastBin ------------------------------
(***************************************************************************)
(* The fast bin of the memory manager (kernel/kernel/kmm.cpp) under        *)
(* interrupts.  Its table of chunks is one for the whole kernel, although  *)
(* every process has a heap of its own behind the same virtual addresses;  *)
(* nothing locks it.  The shell allocates Strings with interrupts enabled, *)
(* so a tick, which moves a node of the run queue, or a key, which gets a  *)
(* node of the input buffer, may come between the test and the claim of a  *)
(* chunk.  Code that runs with interrupts disabled is one step.            *)
(*                                                                         *)
(* The state begins when the shell asks for its first line.  Chunks that   *)
(* were taken for good before that never change and are left out: the      *)
(* chunks are numbered in the order of the others.  A line of text is one  *)
(* key.  Once two blocks of one heap share a chunk, one overwrites the     *)
(* other, nothing more is defined and the model stops.  It also stops when *)
(* malloc finds no free chunk: InputBuffer models what the code does then. *)
(***************************************************************************)
EXTENDS Naturals, Sequences, FiniteSets, FiniteSetsExt, Functions

CONSTANTS
    NumChunks,   \* chunks that are not taken for good (of FASTBIN_MAX_SIZE)
    FastIds,     \* process identifiers a chunk has room for (16: FASTBIN_THRESHOLD / 4)
    UninitPid,   \* values the uninitialized last_pid of shell() may have
    MaxLines     \* bound: lines typed

ASSUME FastBinAssumption ==
    /\ NumChunks \in Nat /\ NumChunks >= 2 /\ MaxLines \in Nat
    /\ FastIds \in Nat /\ UninitPid \subseteq Nat

Chunk == 1 .. NumChunks
NoChunk == 0
Line == {"START", "END", "OTHER"}
NoPid == 0
ShellPid == 2

VARIABLES
    table,     \* chunks with a ptr_to_heap
    runQ,      \* nodes of _regular_processes: <<pid, chunk>>
    canceled,  \* _canceled_processes
    cancelBuf, \* the chunk of its buffer, NoChunk once that is a big one
    cpu,       \* the process that runs
    current,   \* _CurrentProcess, NoPid when the last tick found none
    kept,      \* chunks of the mappings of processes, never freed
    keys,      \* nodes of the shell's input buffer: <<line, chunk>>
    strs,      \* chunks of the shell's Strings: str, and a temporary
    pc,        \* the shell's next step
    str,       \* the line str holds
    literal,   \* the literal str is compared with
    scan,      \* i of __malloc_fastbin
    lines,     \* history: lines typed
    pidSeq,    \* KernelProcess::_pid_seq
    lastPid,   \* last_pid of shell()
    raced      \* history: a handler claimed the chunk the shell was about to claim

kernelVars == <<runQ, canceled, cancelBuf, cpu, current, kept, pidSeq, lastPid>>
shellVars == <<strs, pc, str, literal, scan>>
fastBinVars == <<table, kernelVars, keys, shellVars, lines, raced>>

FastBinInit ==
    /\ table = {1, 2}
    /\ runQ = << <<ShellPid, 1>> >>
    /\ canceled = <<1>> /\ cancelBuf = 2  \* kernel_stage_2 ended itself
    /\ cpu = ShellPid /\ current = ShellPid
    /\ kept = {}
    /\ keys = <<>>
    /\ strs = <<>> /\ pc = "read" /\ str = "OTHER" /\ literal = "none" /\ scan = 1
    /\ lines = 0 /\ pidSeq = 3 /\ lastPid \in UninitPid
    /\ raced = FALSE

-----------------------------------------------------------------------------

\* The owners of chunks, as pairs of heap and chunk, with repetitions.
OwnedNodes ==
    LET nodes == [n \in 1 .. Len(runQ) |-> <<"kernel", runQ[n][2]>>]
        inputs == [n \in 1 .. Len(keys) |-> <<"shell", keys[n][2]>>]
        strings == [n \in 1 .. Len(strs) |-> <<"shell", strs[n]>>]
        buffer == IF cancelBuf = NoChunk THEN <<>> ELSE << <<"kernel", cancelBuf>> >>
    IN  nodes \o inputs \o strings \o buffer

\* No two blocks of one heap share a chunk.
Intact ==
    /\ IsInjective(OwnedNodes)
    /\ \A c \in kept : <<"kernel", c>> \notin Range(OwnedNodes)

-----------------------------------------------------------------------------
(* Code that runs with interrupts disabled.                                *)

\* Mutant of FirstFree: the last chunk, free or not.
LastChunk(used) == Max(Chunk)

\* __malloc_fastbin without interruption.
FirstFree(used) == IF Chunk \subseteq used THEN NoChunk ELSE Min(Chunk \ used)

\* A handler's malloc returned chunk c.
HandlerClaims(c) == raced' = (raced \/ (pc = "claim" /\ c = scan))

\* _FindProcess on the regular queue: the nodes of the canceled processes in
\* front are deleted, that of the chosen one is deleted and made anew.
Tick ==
    /\ Intact
    /\ \E k \in 0 .. Len(runQ) - 1 :
          LET left == table \ {runQ[n][2] : n \in 1 .. k + 1}
              c == FirstFree(left)
          IN  /\ \A n \in 1 .. k : runQ[n][1] \in Range(canceled)
              /\ runQ[k + 1][1] \notin Range(canceled)
              /\ table' = left \cup {c}
              /\ runQ' = Append(SubSeq(runQ, k + 2, Len(runQ)), <<runQ[k + 1][1], c>>)
              /\ cpu' = runQ[k + 1][1] /\ current' = cpu'
              /\ HandlerClaims(c)
    /\ UNCHANGED <<canceled, cancelBuf, kept, pidSeq, lastPid, keys, shellVars, lines>>

\* All are canceled: their nodes are deleted, the interrupted code goes on.  The
\* next tick finds no current process either, unless a START comes before it.
NoNextProcess ==
    /\ Intact /\ current # NoPid
    /\ \A n \in 1 .. Len(runQ) : runQ[n][1] \in Range(canceled)
    /\ table' = table \ {runQ[n][2] : n \in 1 .. Len(runQ)}
    /\ runQ' = <<>> /\ current' = NoPid
    /\ UNCHANGED <<canceled, cancelBuf, cpu, kept, pidSeq, lastPid, keys, shellVars, lines, raced>>

\* loop2 has no input buffer: a key typed while it runs is dropped.
KeyboardHandler(line) ==
    /\ Intact /\ cpu = ShellPid
    /\ lines < MaxLines
    /\ lines' = lines + 1
    /\ LET c == FirstFree(table)
       IN  /\ c \in Chunk
           /\ table' = table \cup {c}
           /\ keys' = Append(keys, <<line, c>>)
           /\ HandlerClaims(c)
    /\ UNCHANGED <<kernelVars, shellVars>>

\* Start::Process("loop2"): the name, the Vector of mappings, its buffer for one
\* and then for two mappings, the node of the run queue; the name and the first
\* buffer are freed, the latter before the node is made.
Start ==
    LET name == FirstFree(table)
        vector == FirstFree(table \cup {name})
        one == FirstFree(table \cup {name, vector})
        two == FirstFree(table \cup {name, vector, one})
        node == FirstFree(table \cup {name, vector, two})
    IN  /\ two \in Chunk
        /\ kept' = kept \cup {vector, two}
        /\ table' = (table \cup {vector, two, node}) \ ({name} \cup ({one} \ {node}))
        /\ runQ' = Append(runQ, <<pidSeq, node>>)
        /\ pidSeq' = pidSeq + 1 /\ lastPid' = pidSeq
        /\ UNCHANGED <<canceled, cancelBuf, cpu, current>>

\* End::Process(last_pid): push_back doubles a buffer that is full; one that is
\* larger than a chunk comes from the big chunks.
End ==
    LET full == \E n \in 0 .. Len(canceled) : Len(canceled) = 2 ^ n
        fast == 2 * Len(canceled) <= FastIds
        new == IF fast THEN FirstFree(table) ELSE NoChunk
    IN  /\ full /\ fast => new \in Chunk
        /\ canceled' = Append(canceled, lastPid)
        /\ cancelBuf' = IF full THEN new ELSE cancelBuf
        /\ table' = IF full THEN (table \cup ({new} \ {NoChunk})) \ {cancelBuf} ELSE table
        /\ UNCHANGED <<runQ, cpu, current, kept, pidSeq, lastPid>>

-----------------------------------------------------------------------------
(* The shell, with interrupts enabled.                                     *)

At(step) == Intact /\ cpu = ShellPid /\ pc = step /\ UNCHANGED <<lines, raced>>

\* GetChar deletes the node of the key; then String str(buffer).
ReadLine ==
    /\ At("read") /\ keys # <<>>
    /\ str' = Head(keys)[1]
    /\ table' = table \ {Head(keys)[2]}
    /\ keys' = Tail(keys)
    /\ pc' = "scan" /\ scan' = 1 /\ literal' = "none"
    /\ UNCHANGED <<kernelVars, strs>>

\* __malloc_fastbin: test one chunk.
TestChunk ==
    /\ At("scan") /\ scan \in Chunk
    /\ IF scan \in table
         THEN scan' = scan + 1 /\ pc' = pc
         ELSE scan' = scan /\ pc' = "claim"
    /\ UNCHANGED <<table, kernelVars, keys, strs, str, literal>>

\* The chunk is free no more.  A temporary String for the literal follows str.
ClaimChunk ==
    /\ At("claim")
    /\ table' = table \cup {scan}
    /\ strs' = Append(strs, scan)
    /\ IF literal = "none"
         THEN pc' = "scan" /\ literal' = "START"
         ELSE pc' = "compare" /\ literal' = literal
    /\ scan' = 1
    /\ UNCHANGED <<kernelVars, keys, str>>

\* Mutant of Freed: ~String leaves the chunk in the table.
NotFreed(c) == table

\* The table after free.
Freed(c) == table \ {c}

\* compare, and the end of the temporary.
Compare ==
    /\ At("compare")
    /\ table' = Freed(strs[2])
    /\ strs' = <<strs[1]>>
    /\ IF str # literal /\ literal = "START"
         THEN pc' = "scan" /\ literal' = "END"
         ELSE pc' = (IF str = literal THEN "command" ELSE "drop") /\ literal' = literal
    /\ UNCHANGED <<kernelVars, keys, str, scan>>

\* Between cli and sti.
Command ==
    /\ At("command")
    /\ \/ str = "START" /\ Start
       \/ str = "END" /\ End
    /\ pc' = "drop"
    /\ UNCHANGED <<keys, strs, str, literal, scan>>

\* The end of str.
DropString ==
    /\ At("drop")
    /\ table' = Freed(strs[1])
    /\ strs' = <<>> /\ pc' = "read"
    /\ UNCHANGED <<kernelVars, keys, str, literal, scan>>

Shell == ReadLine \/ TestChunk \/ ClaimChunk \/ Compare \/ Command \/ DropString

-----------------------------------------------------------------------------

\* Two blocks share a chunk, or the tick that comes finds no process to leave.
FastBinStopped == (~Intact \/ current = NoPid) /\ UNCHANGED fastBinVars

FastBinNext ==
    \/ Tick
    \/ NoNextProcess
    \/ \E line \in Line : KeyboardHandler(line)
    \/ Shell
    \/ FastBinStopped

FastBinSpec == FastBinInit /\ [][FastBinNext]_fastBinVars

-----------------------------------------------------------------------------

OwnedChunks == {o[2] : o \in Range(OwnedNodes)} \cup kept

\* The variables have values of their types.
FastBinTypeOK ==
    /\ table \subseteq Chunk /\ kept \subseteq Chunk /\ cancelBuf \in Chunk \cup {NoChunk}
    /\ runQ \in Seq(Nat \X Chunk) /\ canceled \in Seq(Nat)
    /\ cpu \in Nat /\ current \in Nat /\ lastPid \in Nat
    /\ keys \in Seq(Line \X Chunk)
    /\ strs \in Seq(Chunk) /\ Len(strs) <= 2
    /\ pc \in {"read", "scan", "claim", "compare", "command", "drop"}
    /\ str \in Line /\ literal \in {"none", "START", "END"} /\ scan \in 1 .. NumChunks + 1
    /\ lines \in 0 .. MaxLines /\ pidSeq \in Nat /\ raced \in BOOLEAN

(***************************************************************************)
(* As long as no handler claimed a chunk between the shell's test and its  *)
(* claim of it, the table is right: every chunk in use is marked and has   *)
(* one owner, in whatever heap (kmm.cpp:97-131, 254-266).                  *)
(***************************************************************************)
ExclusiveUntilRaced ==
    ~raced => /\ Cardinality(OwnedChunks) = Len(OwnedNodes) + Cardinality(kept)
              /\ table = OwnedChunks

(***************************************************************************)
(* Even after such a race no chunk leaks: one that is marked has an owner  *)
(* that will free it or keeps it for good (kmm.cpp:254-266).  Besides, all *)
(* variables have values of their types.                                   *)
(***************************************************************************)
NoChunkLeaked == FastBinTypeOK /\ table \subseteq OwnedChunks
=============================================================================
