---------------------------- MODULE InputBuffer ----------------------------
(***************************************************************************)
(* The way of a key from the keyboard interrupt to a line of text: the     *)
(* handler enqueues it on the input buffer of the running process          *)
(* (keyboard.cpp), which GetChar dequeues and GetString edits (kio.cpp).   *)
(* The buffer is the linked list of data_structures/queue.hpp, with its    *)
(* nodes in the fast bin of the memory manager.                            *)
(*                                                                         *)
(* The reader runs with interrupts enabled and the handler does not take   *)
(* the reader's lock, so the handler may run between any two memory        *)
(* accesses of dequeue; the handler itself is one step.  Only the reader   *)
(* and the timer tick that may wake it from hlt are modelled of the rest   *)
(* of the kernel: keys typed while another process runs go elsewhere.      *)
(***************************************************************************)
EXTENDS Naturals, Sequences, FiniteSets

CONSTANTS
    Letter,      \* characters that are neither of the next two
    Backspace,   \* '\b'
    Newline,     \* '\n'
    Nul,         \* '\0'
    NumNodes,    \* chunks the fast bin has left for queue nodes
    MaxLen,      \* max_len of GetString
    MaxKeys,     \* bound: keys typed
    UninitLock   \* values the uninitialized input_buffer_lock may have

Char == Letter \cup {Backspace, Newline}
Null == 0                \* NULL; as an address, the word at 0 is mapped memory
Node == 1 .. NumNodes

ASSUME InputBufferAssumption ==
    /\ NumNodes \in Nat /\ MaxLen \in Nat \ {0} /\ MaxKeys \in Nat
    /\ UninitLock \subseteq {0, 1}
    /\ Nul \notin Char /\ Backspace \notin Letter /\ Newline \notin Letter

VARIABLES
    first, last,   \* the two pointers of the Queue
    element, next, \* the fields of the nodes, and of what is at address NULL
    alloc,         \* nodes the fast bin has handed out
    lock,          \* input_buffer_lock
    pc,            \* the reader's next step
    x, p, t,       \* locals of dequeue; t holds first->next before it is stored
    buffer, i,     \* buffer and i of GetString
    typed,         \* history: keys the handler enqueued, lost ones included
    kept,          \* history: those that were linked into the list
    read,          \* history: the characters GetChar returned
    edited         \* history: the line as typed and corrected since GetString began

queueVars == <<first, last, element, next, alloc>>
localVars == <<x, p, t>>
lineVars == <<buffer, i, edited>>
vars == <<queueVars, lock, pc, localVars, lineVars, typed, kept, read>>

Init ==
    /\ first = Null /\ last = Null
    /\ element = [n \in Node \cup {Null} |-> Nul]
    /\ next = [n \in Node \cup {Null} |-> Null]
    /\ alloc = {}
    /\ lock \in UninitLock
    /\ pc = "lock"
    /\ x = Nul /\ p = Null /\ t = Null
    /\ buffer = [k \in 1 .. MaxLen |-> Nul] /\ i = 0 /\ edited = <<>>
    /\ typed = <<>> /\ kept = <<>> /\ read = <<>>

-----------------------------------------------------------------------------
(* The list as a whole.                                                    *)

Path == UNION {[1 .. m -> Node] : m \in 0 .. NumNodes}

\* c are the nodes a reader that starts at n and follows links will meet.
ListFrom(links, n, c) ==
    /\ n = IF c = <<>> THEN Null ELSE c[1]
    /\ \A k \in 1 .. Len(c) : links[c[k]] = IF k < Len(c) THEN c[k + 1] ELSE Null

Chain(n) == CHOOSE c \in Path : ListFrom(next, n, c)

\* Where the list will begin once a dequeue in progress is done.
Front == IF pc = "store" THEN t ELSE first

\* A key enqueued now is found by the reader: there is a node for it, and it
\* is linked behind a node that stays in the list.
Linkable(n) ==
    /\ n # Null
    /\ first = Null \/ \E k \in 1 .. Len(Chain(Front)) : Chain(Front)[k] = last

-----------------------------------------------------------------------------
(* The interrupts.                                                         *)

\* __malloc_fastbin: the first free chunk, or NULL.
FreeNode ==
    IF alloc = Node THEN Null
    ELSE CHOOSE n \in Node \ alloc : \A m \in Node \ alloc : n <= m

\* Mutant of Linked: the new node goes to the front of the list.
LinkedInFront(n) ==
    /\ first' = n
    /\ last' = IF first = Null THEN n ELSE last
    /\ next' = [next EXCEPT ![n] = first]

\* enqueue: link node n, whose next was set to NULL.
Linked(n) ==
    IF first = Null
      THEN /\ first' = n /\ last' = n
           /\ next' = [next EXCEPT ![n] = Null]
      ELSE /\ next' = [next EXCEPT ![n] = Null, ![last] = n]
           /\ last' = next'[last]
           /\ UNCHANGED first

\* An interrupt ends the hlt.
Wake == pc' = IF pc = "halted" THEN "check" ELSE pc

KeyboardHandler(key) ==
    LET n == FreeNode IN
    /\ Len(typed) < MaxKeys
    /\ alloc' = alloc \cup ({n} \ {Null})
    /\ element' = [element EXCEPT ![n] = key]
    /\ Linked(n)
    /\ typed' = Append(typed, key)
    /\ kept' = IF Linkable(n) THEN Append(kept, key) ELSE kept
    /\ Wake
    /\ UNCHANGED <<lock, localVars, lineVars, read>>

\* The tick returns to the reader some time later.
Tick ==
    /\ pc = "halted"
    /\ Wake
    /\ UNCHANGED <<queueVars, lock, localVars, lineVars, typed, kept, read>>

-----------------------------------------------------------------------------
(* GetChar.                                                                *)

Step(from, to) == pc = from /\ pc' = to /\ UNCHANGED <<typed, kept>>

LockInputBuffer ==
    /\ Step("lock", "check")
    /\ lock = 0
    /\ lock' = 1
    /\ UNCHANGED <<queueVars, localVars, lineVars, read>>

SpinOnLock == pc = "lock" /\ lock = 1 /\ UNCHANGED vars

CheckEmpty ==
    /\ Step("check", IF first = Null THEN "hlt" ELSE "load")
    /\ UNCHANGED <<queueVars, lock, localVars, lineVars, read>>

Hlt ==
    /\ Step("hlt", "halted")
    /\ UNCHANGED <<queueVars, lock, localVars, lineVars, read>>

DequeueLoad ==
    /\ Step("load", "next")
    /\ x' = element[first] /\ p' = first
    /\ UNCHANGED <<queueVars, lock, t, lineVars, read>>

\* Mutant of DequeueNext: the node is deleted while it is still the first one.
DeletedWhileLinked ==
    /\ Step("next", "store")
    /\ t' = next[first]
    /\ alloc' = alloc \ {p}
    /\ UNCHANGED <<first, last, element, next, lock, x, p, lineVars, read>>

DequeueNext ==
    /\ Step("next", "store")
    /\ t' = next[first]
    /\ UNCHANGED <<queueVars, lock, x, p, lineVars, read>>

DequeueStore ==
    /\ Step("store", "delete")
    /\ first' = t
    /\ UNCHANGED <<last, element, next, alloc, lock, localVars, lineVars, read>>

DequeueDelete ==
    /\ Step("delete", "unlock")
    /\ alloc' = alloc \ {p}
    /\ UNCHANGED <<first, last, element, next, lock, localVars, lineVars, read>>

\* Mutant of UnlockInputBuffer: the lock is kept.
NeverUnlocked ==
    /\ Step("unlock", "edit")
    /\ read' = Append(read, x)
    /\ UNCHANGED <<queueVars, lock, localVars, lineVars>>

UnlockInputBuffer ==
    /\ Step("unlock", "edit")
    /\ lock' = 0
    /\ read' = Append(read, x)
    /\ UNCHANGED <<queueVars, localVars, lineVars>>

GetChar ==
    \/ LockInputBuffer \/ SpinOnLock \/ CheckEmpty \/ Hlt
    \/ DequeueLoad \/ DequeueNext \/ DequeueStore \/ DequeueDelete
    \/ UnlockInputBuffer

-----------------------------------------------------------------------------
(* GetString, called again by the shell with a cleared buffer.             *)

\* Mutant of Backed: i is decremented at the beginning of the line, too.
BackedPastStart(k) == IF k > 0 THEN k - 1 ELSE MaxLen - 1

\* i after a backspace.
Backed(k) == IF k > 0 THEN k - 1 ELSE k

\* The condition of the loop.
MoreFits(k) == k < MaxLen

\* The switch on the character GetChar returned, and the loop's condition.
GetString ==
    /\ \/ /\ x = Newline
          /\ Step("edit", "return")
          /\ UNCHANGED lineVars
       \/ /\ x = Backspace
          /\ Step("edit", "lock")
          /\ i' = Backed(i)
          /\ edited' = IF edited # <<>> THEN SubSeq(edited, 1, Len(edited) - 1) ELSE edited
          /\ UNCHANGED buffer
       \/ /\ x \notin {Newline, Backspace}
          /\ Step("edit", IF MoreFits(i + 1) THEN "lock" ELSE "return")
          /\ buffer' = [buffer EXCEPT ![i + 1] = x]
          /\ i' = i + 1
          /\ edited' = Append(edited, x)
    /\ UNCHANGED <<queueVars, lock, localVars, read>>

\* The shell uses the line, clears the buffer and asks for the next one.
NextLine ==
    /\ Step("return", "lock")
    /\ buffer' = [k \in 1 .. MaxLen |-> Nul] /\ i' = 0 /\ edited' = <<>>
    /\ UNCHANGED <<queueVars, lock, localVars, read>>

-----------------------------------------------------------------------------

Reader == GetChar \/ GetString \/ NextLine

Next ==
    \/ Reader
    \/ Tick
    \/ \E key \in Char : KeyboardHandler(key)

Spec == Init /\ [][Next]_vars

\* The reader's process is scheduled, and the timer ticks for ever.
FairSpec == Spec /\ WF_vars(Reader) /\ WF_vars(Tick)

-----------------------------------------------------------------------------

\* Every variable has a value of its type.
TypeOK ==
    /\ {first, last, p, t} \subseteq Node \cup {Null}
    /\ element \in [Node \cup {Null} -> Char \cup {Nul}]
    /\ next \in [Node \cup {Null} -> Node \cup {Null}]
    /\ alloc \subseteq Node
    /\ lock \in {0, 1}
    /\ pc \in {"lock", "check", "hlt", "halted", "load", "next", "store", "delete",
               "unlock", "edit", "return"}
    /\ x \in Char \cup {Nul}
    /\ buffer \in [1 .. MaxLen -> Letter \cup {Nul}] /\ i \in 0 .. MaxLen
    /\ {typed, kept, read} \subseteq Seq(Char)
    /\ edited \in Seq(Letter)

(***************************************************************************)
(* No use after free: although the handler extends the list in the middle  *)
(* of a dequeue, every node the reader or the handler may still follow is  *)
(* allocated (queue.hpp:75-78 unlinks before it deletes).                  *)
(***************************************************************************)
ListIsAllocated ==
    /\ \A k \in 1 .. Len(Chain(first)) : Chain(first)[k] \in alloc
    /\ \A k \in 1 .. Len(Chain(Front)) : Chain(Front)[k] \in alloc

(***************************************************************************)
(* Apart from the keys that could not be linked, the buffer is a FIFO: the *)
(* keys returned, the one being dequeued and those in the list are, in     *)
(* order, the keys kept, whatever the interleaving of handler and dequeue  *)
(* (queue.hpp:48-84).                                                      *)
(***************************************************************************)
KeptKeysInOrder ==
    LET chain == Chain(Front)
        inFlight == IF pc \in {"store", "delete", "unlock"} THEN <<x>> ELSE <<>>
    IN  kept = read \o inFlight \o [k \in 1 .. Len(chain) |-> element[chain[k]]]

(***************************************************************************)
(* The part of the buffer before i is the line as typed and corrected,     *)
(* also after backspaces in an empty line (kio.cpp:22-51).  Besides, all   *)
(* variables have values of their types.                                   *)
(***************************************************************************)
EditedPrefix == TypeOK /\ edited = [k \in 1 .. i |-> buffer[k]]

(***************************************************************************)
(* A key in the list is read: one that arrives between the test for an     *)
(* empty buffer and hlt does not wake the reader, but the next tick does   *)
(* (kio.cpp:10-13).  The exception is a lock word that was not 0 to begin  *)
(* with, on which the first GetChar spins for ever.                        *)
(***************************************************************************)
KeysAreRead == []<>(first = Null \/ (pc = "lock" /\ lock = 1 /\ read = <<>>))

-----------------------------------------------------------------------------
(* What the code does not do.                                              *)

(***************************************************************************)
(* LockInputBuffer "Locks the current processes's input buffer with a      *)
(* mutex" (processing.h:239): no key is lost to a concurrent enqueue while *)
(* there are nodes left.                                                   *)
(***************************************************************************)
NoKeyLost == pc = "halted" /\ first = Null /\ alloc # Node => read = typed
=============================================================================
