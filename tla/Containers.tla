---------------------------- MODULE Containers -----------------------------
(***************************************************************************)
(* Vector and String (kernel/data_structures) as _registered_processes     *)
(* uses them, a Vector of RegisteredProcess, each of which has a String,   *)
(* and a String by itself, over the chunks that new and delete take from   *)
(* the memory manager.  Calls are atomic.  A chunk has room for more than  *)
(* was asked for: FASTBIN_THRESHOLD if that is enough, a multiple of        *)
(* CHUNK_SIZE_ALIGN otherwise; what is written or read behind it is that   *)
(* of another one, and is not followed.  Nor is a size that wraps around.  *)
(*                                                                         *)
(* A String is its pointer, a RegisteredProcess its String.  The vectors   *)
(* Vector(size), Vector(size, initial) and resize need log and ceil, which *)
(* the repository declares and nowhere defines.                            *)
(***************************************************************************)
EXTENDS Naturals, Sequences, FiniteSets, SequencesExt

CONSTANTS
    Vectors,            \* vector objects
    Names,              \* sequences of characters
    NumChunks,          \* bound: chunks; a call that needs more is not made
    FASTBIN_THRESHOLD, CHUNK_SIZE_ALIGN,
    ElementSize,        \* sizeof(RegisteredProcess)
    Cookie,             \* what new[] adds to keep the number of elements
    MaxCalls            \* bound: calls

ASSUME ContainersAssumption ==
    /\ FASTBIN_THRESHOLD \in Nat \ {0} /\ CHUNK_SIZE_ALIGN \in Nat \ {0}
    /\ ElementSize \in Nat \ {0} /\ Cookie \in Nat
    /\ NumChunks \in Nat /\ MaxCalls \in Nat /\ \A s \in Names : Len(s) \in Nat

Chunk == 1 .. NumChunks
Null == 0

VARIABLES
    mem,       \* the chunks, the pointer returned last, and what went wrong
    vec,       \* Vector -> its members, or NoVector
    str,       \* a String: data, which is null if there is none, and size
    pushed,    \* history: Vector -> the names it was given and has not popped or lost
    content,   \* history: the text the String was given
    events,    \* history: operations after which more may go wrong
    calls      \* history: how many

vars == <<mem, vec, str, pushed, content, events, calls>>

NoVector == [exists |-> FALSE, size |-> 0, capacity |-> 0, Log |-> 0, buffer |-> Null]
NoString == [data |-> Null, size |-> 0]
EmptyVector == [NoVector EXCEPT !.exists = TRUE]
Unallocated == [is |-> "free", room |-> 0, text |-> <<>>, count |-> 0, cells |-> <<>>]

Init ==
    /\ mem = [chunks |-> [c \in Chunk |-> Unallocated], last |-> Null, wrong |-> {}]
    /\ vec = [v \in Vectors |-> NoVector]
    /\ str = NoString
    /\ pushed = [v \in Vectors |-> <<>>] /\ content = <<>>
    /\ events = {} /\ calls = 0

-----------------------------------------------------------------------------
(* new and delete, on a memory m.                                          *)

Room(n) ==
    IF n <= FASTBIN_THRESHOLD THEN FASTBIN_THRESHOLD
      ELSE ((n + CHUNK_SIZE_ALIGN - 1) \div CHUNK_SIZE_ALIGN) * CHUNK_SIZE_ALIGN

Wrong(m, what) == [m EXCEPT !.wrong = @ \cup {what}]
Enough(m) == "no_memory" \notin m.wrong

New(m, chunk) ==
    LET free == {c \in Chunk : m.chunks[c].is = "free"}
        c == CHOOSE c \in free : \A d \in free : c <= d
    IN  IF free = {} THEN Wrong(m, "no_memory")
                     ELSE [m EXCEPT !.chunks[c] = chunk, !.last = c]

Delete(m, c) ==
    IF c = Null THEN m
      ELSE IF m.chunks[c].is = "free" THEN Wrong(m, "freed_twice")
      ELSE [m EXCEPT !.chunks[c] = Unallocated]

-----------------------------------------------------------------------------
(* String.  strncpy writes a zero behind the characters it copies, which   *)
(* new char[size] has no place for.                                        *)

strncpy(m, c, text) ==
    IF Len(text) < m.chunks[c].room THEN [m EXCEPT !.chunks[c].text = text]
                                    ELSE Wrong(m, "string_overrun")

NewString(m, text) ==
    LET n == New(m, [Unallocated EXCEPT !.is = "chars", !.room = Room(Len(text))])
    IN  IF Enough(n) THEN strncpy(n, n.last, text) ELSE n

\* Mutant of CopyString: the pointer is copied.
SharedString(m, s) == [m EXCEPT !.last = s]

\* The copy constructor.
CopyString(m, s) == IF Enough(m) THEN NewString(m, m.chunks[s].text) ELSE m

\* operator= does the same, and forgets what it had.
AssignString(m, s) == CopyString(m, s)

\* String(size): zeros.
SizedString(m, n) == New(m, [Unallocated EXCEPT !.is = "chars", !.room = Room(n)])

\* Of the text, up to the first zero.
getLength(m, c) == Len(m.chunks[c].text)

\* A new buffer with what fits of the text; it then gets a zero behind its end.
setLength(m, c, n) ==
    LET old == m.chunks[c].text
        a == SizedString(m, n)
        b == [a EXCEPT !.chunks[a.last].text = SubSeq(old, 1, IF n < Len(old) THEN n ELSE Len(old))]
    IN  IF ~Enough(a) THEN a
        ELSE IF n < a.chunks[a.last].room THEN Delete(b, c) ELSE Wrong(b, "string_overrun")

\* setLength, and the text of the other String behind what getLength says.
add(m, s, text) ==
    LET n == setLength(m, s.data, s.size + Len(text))
    IN  IF Enough(n) THEN [n EXCEPT !.chunks[n.last].text = @ \o text] ELSE n

-----------------------------------------------------------------------------
(* Arrays of RegisteredProcess; an array knows how many it constructed.    *)

\* operator= of the element i: the String it had is forgotten.
AssignElement(m, array, i, s) ==
    LET n == AssignString(m, s)
    IN  IF ~Enough(n) THEN n
        ELSE IF i \notin DOMAIN m.chunks[array].cells THEN Wrong(m, "vector_overrun")
        ELSE [n EXCEPT !.chunks[array].cells[i] = n.last]

\* The constructor of the element i: an empty name.
ConstructElement(m, array, i) ==
    LET n == NewString(m, <<>>)
    IN  IF Enough(n) THEN [n EXCEPT !.chunks[array].cells[i] = n.last] ELSE n

Iota(n) == [i \in 1 .. n |-> i - 1]

\* The pointer to the array is the last one.
NewArray(m, n) ==
    LET room == Room(n * ElementSize + Cookie)
        a == New(m, [Unallocated EXCEPT !.is = "array", !.room = room, !.count = n,
                                        !.cells = [i \in 0 .. (room - Cookie) \div ElementSize - 1 |-> Null]])
    IN  [FoldLeft(LAMBDA k, i : ConstructElement(k, a.last, i), a, Iota(n)) EXCEPT !.last = a.last]

DeleteArray(m, array) ==
    IF array = Null THEN m
      ELSE Delete(FoldLeft(LAMBDA k, i : Delete(k, k.chunks[array].cells[i]), m,
                           Iota(m.chunks[array].count)), array)

\* n elements are assigned from one array to another.
CopyElements(m, from, to, n) ==
    FoldLeft(LAMBDA k, i : AssignElement(k, to, i, k.chunks[from].cells[i]), m, Iota(n))

-----------------------------------------------------------------------------
(* Vector, as functions of a memory and a vector: both, changed.           *)

reserve(m, v, capacity) ==
    LET a == NewArray(m, capacity)
        b == CopyElements(a, v.buffer, a.last, v.size)
    IN  [m |-> DeleteArray(b, v.buffer),
         v |-> [v EXCEPT !.capacity = capacity, !.buffer = a.last]]

\* Mutant of Grown: it grows when it is full, without counting.
GrownUncounted(m, v) == IF v.size >= v.capacity THEN reserve(m, v, 2 ^ v.Log) ELSE [m |-> m, v |-> v]

Grown(m, v) ==
    IF v.size >= v.capacity
      THEN LET r == reserve(m, v, 2 ^ v.Log)
           IN  [r EXCEPT !.v.Log = @ + 1]
      ELSE [m |-> m, v |-> v]

\* Mutant of push_back: the size is counted before the element is assigned.
PushedBehind(m, v, s) ==
    LET g == Grown(m, v)
    IN  [m |-> AssignElement(g.m, g.v.buffer, g.v.size + 1, s), v |-> [g.v EXCEPT !.size = @ + 1]]

push_back(m, v, s) ==
    LET g == Grown(m, v)
    IN  [m |-> AssignElement(g.m, g.v.buffer, g.v.size, s), v |-> [g.v EXCEPT !.size = @ + 1]]

-----------------------------------------------------------------------------

\* Nothing went wrong so far; the model ends where it does.
Sane == mem.wrong = {}

\* What an operation leaves behind.
Result(v, r) ==
    /\ Enough(r.m) /\ mem' = [r.m EXCEPT !.last = Null] /\ vec' = [vec EXCEPT ![v] = r.v]
    /\ UNCHANGED <<str, content>>

StringResult(m, size) ==
    /\ Enough(m) /\ mem' = [m EXCEPT !.last = Null] /\ str' = [data |-> m.last, size |-> size]
    /\ UNCHANGED <<vec, pushed, events>>

\* The String is constructed with a size; String(0) would have no zero.
ConstructSized(n) ==
    /\ Sane /\ str = NoString
    /\ StringResult(SizedString(mem, n), n)
    /\ content' = <<>>

setText(text) ==
    /\ Sane /\ str # NoString
    /\ StringResult(NewString(Delete(mem, str.data), text), Len(text))
    /\ content' = text

SetLength(n) ==
    /\ Sane /\ str # NoString
    /\ StringResult(setLength(mem, str.data, n), n)
    /\ content' = SubSeq(content, 1, IF n < Len(content) THEN n ELSE Len(content))

\* add with a String of its own, which is destroyed afterwards.
Add(text) ==
    /\ Sane /\ str # NoString
    /\ LET other == NewString(mem, text)
           n == add(other, str, text)
       IN  Enough(other) /\ StringResult([Delete(n, other.last) EXCEPT !.last = n.last], str.size + Len(text))
    /\ content' = content \o text

\* ~String.
DestroyString ==
    /\ Sane /\ str # NoString
    /\ mem' = Delete(mem, str.data) /\ str' = NoString /\ content' = <<>>
    /\ UNCHANGED <<vec, pushed, events>>

Construct(v) ==
    /\ Sane /\ ~vec[v].exists
    /\ vec' = [vec EXCEPT ![v] = EmptyVector] /\ pushed' = [pushed EXCEPT ![v] = <<>>]
    /\ UNCHANGED <<mem, str, content, events>>

\* The caller makes a String, RegisterProcess a RegisteredProcess with a copy
\* of it; both are destroyed afterwards.
RegisterProcess(v, name) ==
    /\ Sane /\ vec[v].exists
    /\ LET a == NewString(mem, name)
           b == CopyString(a, a.last)
           c == push_back(b, vec[v], b.last)
       IN  Result(v, [c EXCEPT !.m = Delete(Delete(c.m, b.last), a.last)])
    /\ pushed' = [pushed EXCEPT ![v] = Append(@, name)]
    /\ UNCHANGED events

\* Nobody looks whether there is an element.
pop_back(v) ==
    /\ Sane /\ vec[v].exists
    /\ IF vec[v].size = 0
         THEN mem' = Wrong(mem, "size_wrapped") /\ UNCHANGED <<vec, pushed>>
         ELSE /\ vec' = [vec EXCEPT ![v].size = @ - 1]
              /\ pushed' = [pushed EXCEPT ![v] = Front(@)]
              /\ UNCHANGED mem
    /\ events' = events \cup {"popped"}
    /\ UNCHANGED <<str, content>>

\* reserve, called by a user, maybe with less than there is.
Reserve(v, capacity) ==
    /\ Sane /\ vec[v].exists
    /\ Result(v, reserve(mem, vec[v], capacity))
    /\ events' = events \cup {"reserved"}
    /\ UNCHANGED pushed

clear(v) ==
    /\ Sane /\ vec[v].exists
    /\ vec' = [vec EXCEPT ![v] = EmptyVector] /\ pushed' = [pushed EXCEPT ![v] = <<>>]
    /\ events' = events \cup {"cleared"}
    /\ UNCHANGED <<mem, str, content>>

\* The copy constructor: an array of size elements, and the other's capacity.
CopyConstruct(v, w) ==
    /\ Sane /\ ~vec[v].exists /\ vec[w].exists
    /\ LET a == NewArray(mem, vec[w].size)
       IN  Result(v, [m |-> CopyElements(a, vec[w].buffer, a.last, vec[w].size),
                      v |-> [vec[w] EXCEPT !.buffer = a.last]])
    /\ pushed' = [pushed EXCEPT ![v] = pushed[w]]
    /\ events' = events \cup {"copied"}

\* operator=.  Assigned to itself a vector copies the new elements it has got.
Assign(v, w) ==
    /\ Sane /\ vec[v].exists /\ vec[w].exists
    /\ LET a == NewArray(DeleteArray(mem, vec[v].buffer), vec[w].capacity)
           from == IF v = w THEN a.last ELSE vec[w].buffer
       IN  Result(v, [m |-> CopyElements(a, from, a.last, vec[w].size),
                      v |-> [vec[w] EXCEPT !.buffer = a.last]])
    /\ pushed' = [pushed EXCEPT ![v] = IF v = w THEN [i \in DOMAIN @ |-> <<>>] ELSE pushed[w]]
    /\ UNCHANGED events

Destroyed(v) == IF v.size > 0 THEN DeleteArray(mem, v.buffer) ELSE mem

\* ~Vector.
Destroy(v) ==
    /\ Sane /\ vec[v].exists
    /\ mem' = Destroyed(vec[v])
    /\ vec' = [vec EXCEPT ![v] = NoVector] /\ pushed' = [pushed EXCEPT ![v] = <<>>]
    /\ UNCHANGED <<str, content, events>>

Next ==
    /\ calls < MaxCalls /\ calls' = calls + 1
    /\ \/ DestroyString
       \/ \E n \in 1 .. FASTBIN_THRESHOLD : ConstructSized(n)
       \/ \E n \in 0 .. FASTBIN_THRESHOLD : SetLength(n)
       \/ \E text \in Names : setText(text) \/ Add(text)
       \/ \E v \in Vectors :
             \/ Construct(v) \/ pop_back(v) \/ clear(v) \/ Destroy(v)
             \/ \E name \in Names : RegisterProcess(v, name)
             \/ \E n \in 0 .. FASTBIN_THRESHOLD + 1 : Reserve(v, n)
             \/ \E w \in Vectors : CopyConstruct(v, w) \/ Assign(v, w)

Spec == Init /\ [][Next]_vars

-----------------------------------------------------------------------------

\* The variables have values of their types; a vector that grew by itself has
\* the capacity that Log says.
TypeOK ==
    /\ \A c \in Chunk : /\ mem.chunks[c].is \in {"free", "chars", "array"}
                        /\ \A i \in DOMAIN mem.chunks[c].cells : mem.chunks[c].cells[i] \in Chunk \cup {Null}
    /\ str.data \in Chunk \cup {Null}
    /\ mem.wrong \subseteq {"freed_twice", "string_overrun", "vector_overrun", "size_wrapped"}
    /\ \A v \in Vectors :
          /\ vec[v].buffer \in Chunk \cup {Null}
          /\ "reserved" \notin events => /\ vec[v].size <= vec[v].capacity
                                        /\ vec[v].capacity = (2 ^ vec[v].Log) \div 2

Elements(v) ==
    IF vec[v].buffer = Null THEN {}
      ELSE LET a == mem.chunks[vec[v].buffer]
           IN  {i \in DOMAIN a.cells : a.cells[i] # Null}

String(v, i) == mem.chunks[vec[v].buffer].cells[i]

Holds(c, text) == mem.chunks[c].is = "chars" /\ mem.chunks[c].text = text

(***************************************************************************)
(* A vector holds the names that were pushed to it, in their order,        *)
(* through every growth, copy and assignment of another vector; when it is *)
(* assigned to itself it holds as many empty names, since operator= has    *)
(* deleted what it copies (vector.hpp:67-75, 100-110, 132-161,             *)
(* string.hpp:123-131).  A String holds the text it was given, cut to a    *)
(* length or added to, whatever its size was before (string.hpp:137-181).  *)
(***************************************************************************)
HoldsWhatWasPushed ==
    Sane =>
        /\ \A v \in Vectors :
              /\ vec[v].size = Len(pushed[v])
              /\ \A i \in 0 .. vec[v].size - 1 : Holds(String(v, i), pushed[v][i + 1])
        /\ str # NoString => Holds(str.data, content) /\ getLength(mem, str.data) <= str.size

Owned == {str.data} \cup UNION {{vec[v].buffer} \cup {String(v, i) : i \in Elements(v)} : v \in Vectors}
Leaked == {c \in Chunk : mem.chunks[c].is # "free"} \ Owned

(***************************************************************************)
(* Every array and every String of an element is in a chunk of its own     *)
(* that is allocated, also those of elements behind the size, so that the  *)
(* destructors free nothing twice (vector.hpp:158-160, 185-191,            *)
(* string.hpp:104-110).  While vectors are only pushed to, assigned and    *)
(* destroyed, the empty names of new elements are all that is lost: an     *)
(* assignment forgets the String the element had (string.hpp:123-131).     *)
(* Besides, all variables have values of their types.                      *)
(***************************************************************************)
OwnedOnce ==
    /\ TypeOK
    /\ "freed_twice" \notin mem.wrong
    /\ Sane => \A v, w \in Vectors :
          /\ vec[v].buffer # Null => mem.chunks[vec[v].buffer].is = "array"
          /\ v # w /\ vec[v].buffer # Null => vec[v].buffer # vec[w].buffer
          /\ \A i \in Elements(v), j \in Elements(w) :
                /\ mem.chunks[String(v, i)].is = "chars"
                /\ String(v, i) # str.data
                /\ String(v, i) = String(w, j) => v = w /\ i = j
    /\ Sane /\ events = {} =>
          \A c \in Leaked : /\ mem.chunks[c].is = "chars" \/ mem.chunks[c].count = 0
                            /\ mem.chunks[c].text = <<>>

Fills(n) == n = Room(n)

(***************************************************************************)
(* Only a text or a length that fills its chunk, so that the zero which    *)
(* strncpy or setLength puts behind it is outside, or a push to a vector   *)
(* that was copied or had its capacity set, writes outside a chunk:        *)
(* push_back grows to 1 << Log, whatever the capacity is (vector.hpp:72,   *)
(* 139-142, string.hpp:75-81, 170, strncpy.cpp:17).                        *)
(***************************************************************************)
OverrunsInKnownWays ==
    /\ "string_overrun" \in mem.wrong =>
          \/ \E v \in Vectors : \E i \in DOMAIN pushed[v] : Fills(Len(pushed[v][i]))
          \/ Fills(str.size)
          \/ \E text \in Names : Fills(Len(text)) /\ IsSuffix(text, content)
    /\ "vector_overrun" \in mem.wrong => events \cap {"reserved", "copied"} # {}
=============================================================================
