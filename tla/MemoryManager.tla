--------------------------- MODULE MemoryManager ---------------------------
(***************************************************************************)
(* malloc and free of the kernel, kernel/kernel/kmm.cpp: requests of at    *)
(* most FASTBIN_THRESHOLD bytes are served from a table of equal chunks    *)
(* (the fast bin), larger ones from a linked list of chunks with headers   *)
(* (the big chunks), which are reused when they were freed or appended     *)
(* behind the last one.                                                    *)
(*                                                                         *)
(* Calls are atomic here.  Addresses are offsets from the start of the     *)
(* heap.  Headers are kept by address; once a block that a caller owns     *)
(* overlaps another one or a header, or a chunk was placed at a            *)
(* meaningless address, nothing more is defined and the model stops.       *)
(***************************************************************************)
EXTENDS Integers, Sequences, FiniteSets

CONSTANTS
    BinSize,   \* FASTBIN_MAX_SIZE: chunks in the fast bin (100 in the code)
    Sizes,     \* sizes that are requested
    MaxCalls   \* bound: calls of malloc

FastbinThreshold == 64
FastChunkSize == 4     \* sizeof(fast_chunk_t)
HeaderSize == 13       \* sizeof(big_chunk_t), packed
ChunkSizeAlign == 8
BigChunks == (FastChunkSize + FastbinThreshold) * BinSize  \* _fastbin_area_end
Null == -1
Garbage == -2          \* a size that is no number of bytes

ASSUME MemoryManagerAssumption ==
    /\ BinSize \in Nat \ {0}
    /\ Sizes \subseteq Nat \ {0}
    /\ MaxCalls \in Nat

VARIABLES
    fastBin,    \* indices of the chunks with a ptr_to_heap
    hdr,        \* headers of big chunks, by address
    allocated,  \* allocated_chunks
    wild,       \* a chunk was appended at a meaningless address
    live,       \* history: blocks callers own, <<address, size requested>>
    drained,    \* history: all big chunks were freed at some time
    calls       \* history: calls of malloc

vars == <<fastBin, hdr, allocated, wild, live, drained, calls>>

Header(prev, next, size, used) ==
    [prev |-> prev, next |-> next, size |-> size, used |-> used]

Init ==
    /\ fastBin = {}
    /\ hdr = [c \in {BigChunks} |-> Header(Null, Null, 0, FALSE)]
    /\ allocated = 0
    /\ wild = FALSE
    /\ live = {}
    /\ drained = FALSE
    /\ calls = 0

-----------------------------------------------------------------------------

\* The chunk a walk along the list reaches after k steps from the first.
Walk(k) ==
    LET step[n \in 0 .. k] ==
            IF n = 0 THEN BigChunks
            ELSE IF step[n - 1] = Null THEN Null ELSE hdr[step[n - 1]].next
    IN  step[k]

\* The chunks on the list, in order.
List ==
    LET len == CHOOSE n \in 0 .. Cardinality(DOMAIN hdr) : Walk(n) # Null /\ hdr[Walk(n)].next = Null
    IN  [k \in 1 .. len + 1 |-> Walk(k - 1)]

\* Two blocks, <<address, length>>, have a byte in common.
Overlap(a, b) == a[1] < b[1] + b[2] /\ b[1] < a[1] + a[2]

IsFast(b) == b[1] <= BigChunks

\* The memory a caller's block needs to itself: its bytes, and its header.
Footprint(b) == IF IsFast(b) THEN b ELSE <<b[1] - HeaderSize, b[2] + HeaderSize>>

\* Malloc must "Allocate a memory chunk of size _size_" (kmm.h:102): the blocks
\* in use have no byte in common, and none reaches into the header of another.
NoOverlap == \A a, b \in live : a # b => ~Overlap(Footprint(a), Footprint(b))

-----------------------------------------------------------------------------
(* malloc                                                                  *)

AlignedSize(size) ==
    ((size + HeaderSize + ChunkSizeAlign - 1) \div ChunkSizeAlign) * ChunkSizeAlign

Requested(size) ==
    /\ NoOverlap /\ ~wild
    /\ calls < MaxCalls
    /\ calls' = calls + 1
    /\ UNCHANGED drained

\* The first free chunk of the table; without one the result is null.
MallocFastbin(size) ==
    /\ Requested(size) /\ size <= FastbinThreshold
    /\ IF fastBin = 0 .. BinSize - 1
         THEN UNCHANGED <<fastBin, live>>
         ELSE LET i == CHOOSE n \in (0 .. BinSize - 1) \ fastBin :
                           \A m \in (0 .. BinSize - 1) \ fastBin : n <= m
              IN  /\ fastBin' = fastBin \cup {i}
                  /\ live' = live \cup {<<i * FastbinThreshold, size>>}
    /\ UNCHANGED <<hdr, allocated, wild>>

BIGCHUNK_DATA_BEGIN(c) == c + HeaderSize

\* The big chunk at c now belongs to the caller.
Grant(c, size) ==
    /\ live' = live \cup {<<BIGCHUNK_DATA_BEGIN(c), size>>}
    /\ allocated' = allocated + 1
    /\ UNCHANGED <<fastBin, wild>>

\* No chunk is allocated: the first one is taken as it is.
MallocFirst(size) ==
    /\ Requested(size) /\ size > FastbinThreshold
    /\ allocated = 0
    /\ hdr' = [hdr EXCEPT ![BigChunks] = Header(@.prev, @.next, AlignedSize(size), TRUE)]
    /\ Grant(BigChunks, size)

\* Bytes from chunk c to the next one.
Distance(c) == hdr[c].next - c

\* Mutant of HasRoom: the size of the hole does not matter.
AnyRoom(c, req) == TRUE

HasRoom(c, req) == Distance(c) >= req

\* Places in the list of unused chunks, the last one never among them, with room.
Holes(req) ==
    { k \in 1 .. Len(List) : LET c == List[k] IN
          hdr[c].next # Null /\ ~hdr[c].used /\ HasRoom(c, req) }

\* ret->next - ret - 1 counts headers, not bytes, and is meaningless unless the
\* distance is a multiple of the header's size.
ReusedSize(c) ==
    IF Distance(c) % HeaderSize = 0 THEN Distance(c) \div HeaderSize - 1 ELSE Garbage

\* The first hole with enough room.  smallest_hole_value is set to the size
\* requested, so the rest of the hole is never split off.
MallocReuse(size) ==
    LET holes == Holes(AlignedSize(size)) IN
    /\ Requested(size) /\ size > FastbinThreshold
    /\ allocated # 0
    /\ \E k \in holes :
          /\ \A j \in holes : k <= j
          /\ hdr' = [hdr EXCEPT ![List[k]] = Header(@.prev, @.next, ReusedSize(List[k]), TRUE)]
          /\ Grant(List[k], size)

\* Behind the last chunk, at the distance its size says.
MallocAppend(size) ==
    LET last == List[Len(List)]
        new == last + hdr[last].size
    IN  /\ Requested(size) /\ size > FastbinThreshold
        /\ allocated # 0
        /\ Holes(AlignedSize(size)) = {}
        /\ IF hdr[last].size = Garbage
             THEN wild' = TRUE /\ UNCHANGED <<fastBin, hdr, allocated, live>>
             ELSE /\ hdr' = [c \in DOMAIN hdr \cup {new} |->
                                IF c = new THEN Header(last, Null, AlignedSize(size), TRUE)
                                ELSE IF c = last THEN [hdr[c] EXCEPT !.next = new]
                                ELSE hdr[c]]
                  /\ Grant(new, size)

Malloc(size) ==
    MallocFastbin(size) \/ MallocFirst(size) \/ MallocReuse(size) \/ MallocAppend(size)

-----------------------------------------------------------------------------
(* free                                                                    *)

FreeFastbin(b) ==
    /\ IsFast(b)
    /\ fastBin' = fastBin \ {b[1] \div FastbinThreshold}
    /\ UNCHANGED <<hdr, allocated, drained>>

\* The sum the code stores when it joins two chunks.
JoinedSize(s, t) == IF Garbage \in {s, t} THEN Garbage ELSE s + t + HeaderSize

\* Chunk c absorbs the chunk behind it if that one is not used.
ConsolidatedForwards(h, c) ==
    LET n == h[c].next IN
    IF n = Null THEN h
    ELSE IF h[n].used THEN h
    ELSE [a \in DOMAIN h |->
            IF a = c THEN [h[c] EXCEPT !.next = h[n].next, !.size = JoinedSize(@, h[n].size)]
            ELSE IF a = h[n].next THEN [h[a] EXCEPT !.prev = c]
            ELSE h[a]]

\* Mutant of ConsolidatedBackwards: a used chunk is absorbed, too.
AbsorbsUsed(h, c) ==
    LET n == h[c].prev IN
    IF n = Null THEN h
    ELSE [a \in DOMAIN h |->
            IF a = c THEN [h[c] EXCEPT !.prev = h[n].prev, !.size = JoinedSize(@, h[n].size)]
            ELSE IF a = h[n].prev THEN [h[a] EXCEPT !.next = c]
            ELSE h[a]]

\* Chunk c, not the lower one, stays on the list; the first chunk stays first.
ConsolidatedBackwards(h, c) ==
    LET n == h[c].prev IN
    IF n = Null THEN h
    ELSE IF h[n].used THEN h
    ELSE [a \in DOMAIN h |->
            IF a = c THEN [h[c] EXCEPT !.prev = h[n].prev, !.size = JoinedSize(@, h[n].size)]
            ELSE IF a = h[n].prev THEN [h[a] EXCEPT !.next = c]
            ELSE h[a]]

FreeBig(b) ==
    LET c == b[1] - HeaderSize
        unused == [hdr EXCEPT ![c].used = FALSE]
    IN  /\ ~IsFast(b)
        /\ hdr' = ConsolidatedBackwards(ConsolidatedForwards(unused, c), c)
        /\ allocated' = allocated - 1
        /\ drained' = (drained \/ allocated' = 0)
        /\ UNCHANGED fastBin

Free(b) ==
    /\ NoOverlap /\ ~wild
    /\ FreeFastbin(b) \/ FreeBig(b)
    /\ live' = live \ {b}
    /\ UNCHANGED <<wild, calls>>

-----------------------------------------------------------------------------

Stopped == (~NoOverlap \/ wild \/ (calls = MaxCalls /\ live = {})) /\ UNCHANGED vars

Next ==
    \/ \E size \in Sizes : Malloc(size)
    \/ \E b \in live : Free(b)
    \/ Stopped

Spec == Init /\ [][Next]_vars

-----------------------------------------------------------------------------

BigLive == {b \in live : ~IsFast(b)}

\* The variables have values of their types, the counts are right.
TypeOK ==
    /\ fastBin \subseteq 0 .. BinSize - 1
    /\ BigChunks \in DOMAIN hdr
    /\ \A c \in DOMAIN hdr :
          hdr[c] \in [prev : DOMAIN hdr \cup {Null}, next : DOMAIN hdr \cup {Null},
                      size : Nat \cup {Garbage}, used : BOOLEAN]
    /\ NoOverlap => /\ allocated = Cardinality(BigLive)
                    /\ fastBin = {b[1] \div FastbinThreshold : b \in live \ BigLive}
    /\ wild \in BOOLEAN /\ drained \in BOOLEAN
    /\ live \subseteq Nat \X Sizes
    /\ calls \in 0 .. MaxCalls

(***************************************************************************)
(* Through any sequence of malloc and free, splits and consolidations, no  *)
(* two blocks in use share a byte, nor does a block reach into the header  *)
(* of another, as long as the big chunks were never all free at once and   *)
(* no chunk was placed by a garbage size (kmm.cpp:133-328).  Besides, all  *)
(* variables have values of their types, allocated_chunks and the fast     *)
(* bin's table counting the blocks in use.                                 *)
(***************************************************************************)
DisjointUntilDrained == TypeOK /\ (~drained => NoOverlap)

(***************************************************************************)
(* Consolidation loses no block in use: every one is marked so and is      *)
(* reached from the first chunk, although the first chunk's pointer is     *)
(* never moved when that chunk is absorbed, and although a chunk absorbed  *)
(* behind it stays on the list (kmm.cpp:304-320).                          *)
(***************************************************************************)
BlocksStayListed ==
    \A b \in BigLive : \E k \in 1 .. Len(List) :
        List[k] = b[1] - HeaderSize /\ hdr[List[k]].used
=============================================================================
