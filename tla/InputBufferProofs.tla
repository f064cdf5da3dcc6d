------------------------- MODULE InputBufferProofs -------------------------
(***************************************************************************)
(* Proofs about InputBuffer: whatever keys arrive between the memory       *)
(* accesses of a dequeue, the list stays allocated and in order, for every *)
(* number of nodes, keys and characters.                                   *)
(***************************************************************************)
EXTENDS InputBuffer, SequenceTheorems, FiniteSetTheorems, WellFoundedInduction, TLAPS

-----------------------------------------------------------------------------
(* The inductive invariant.                                                *)

(***************************************************************************)
(* The list is a path without repetitions, and all of its nodes are        *)
(* allocated and hold keys.  last need not be in it: it is not after a key *)
(* was lost, for want of a node or to a dequeue.  But if it is, it is the  *)
(* end, and it is never a node that was deleted as long as there is a list *)
(* (queue.hpp:48-84).                                                      *)
(***************************************************************************)
IsList(c) ==
  /\ ListFrom(next, first, c)
  /\ \A j, k \in 1 .. Len(c) : c[j] = c[k] => j = k
  /\ \A k \in 1 .. Len(c) : c[k] \in alloc /\ element[c[k]] \in Char
  /\ \A k \in 1 .. Len(c) : c[k] = last => k = Len(c)
  /\ c # <<>> => last \in alloc \cup {Null}

(***************************************************************************)
(* Where the reader is in dequeue.  What it read of the list stays true    *)
(* except that a node may have got a successor since, and a node that is   *)
(* being deleted is not in the list (queue.hpp:66-84).                     *)
(***************************************************************************)
IsReading(c) ==
  /\ pc \in {"load", "next", "store"} => c # <<>>
  /\ pc \in {"next", "store"} => p = first /\ x = element[first]
  /\ pc = "store" => t = Null \/ (Len(c) > 1 /\ t = c[2])
  /\ pc = "delete" => /\ p \in alloc /\ \A k \in 1 .. Len(c) : c[k] # p
                      /\ c # <<>> => last # p

\* The list as it will be once a dequeue in progress is done.
FrontOf(c) == IF pc = "store" THEN IF t = Null THEN <<>> ELSE Tail(c) ELSE c

InFlight == IF pc \in {"store", "delete", "unlock"} THEN <<x>> ELSE <<>>
Keys(elements, c) == [k \in 1 .. Len(c) |-> elements[c[k]]]
IsFifo(c) == kept = read \o InFlight \o Keys(element, FrontOf(c))

QueueInv == \E c \in Path : IsList(c) /\ IsReading(c) /\ IsFifo(c)

\* GetString has room for the character it waits for.
LineInv ==
  /\ edited = [k \in 1 .. i |-> buffer[k]]
  /\ pc # "return" => i < MaxLen
  /\ pc \in {"next", "store", "delete", "unlock", "edit"} => x \in Char

Inv == TypeOK /\ LineInv /\ QueueInv

-----------------------------------------------------------------------------
(* Sequences and nodes.                                                    *)

\* Every set of naturals has a least element.
LEMMA LeastExists ==
  ASSUME NEW T \in SUBSET Nat, T # {}
  PROVE  \E m \in T : \A n \in T : m <= n
<1>1. IsWellFoundedOn(OpToRel(<, Nat), Nat)
  BY NatLessThanWellFounded
<1>2. PICK m \in T : \A n \in T : ~(<<n, m>> \in OpToRel(<, Nat))
  BY <1>1, WFMin
<1>3. \A n \in T : ~(n < m)
  BY <1>2 DEF OpToRel
<1> QED
  BY <1>3

\* A path is a sequence of at most NumNodes nodes.
LEMMA PathIsSeq ==
  /\ \A c \in Path : c \in Seq(Node) /\ Len(c) <= NumNodes
  /\ \A c \in Seq(Node) : Len(c) <= NumNodes => c \in Path
  /\ <<>> \in Path
<1>1. NumNodes \in Nat
  BY InputBufferAssumption
<1>2. ASSUME NEW c \in Path
      PROVE  c \in Seq(Node) /\ Len(c) <= NumNodes
  <2>1. PICK m \in 0 .. NumNodes : c \in [1 .. m -> Node]
    BY <1>2 DEF Path
  <2>2. m \in Nat
    BY <1>1
  <2>3. c \in Seq(Node) /\ Len(c) = m
    BY <2>1, <2>2
  <2> QED
    BY <1>1, <2>3
<1>3. ASSUME NEW c \in Seq(Node), Len(c) <= NumNodes
      PROVE  c \in Path
  <2>1. c \in [1 .. Len(c) -> Node] /\ Len(c) \in Nat
    BY <1>3
  <2>2. Len(c) \in 0 .. NumNodes
    BY <1>1, <1>3, <2>1
  <2> QED
    BY <2>1, <2>2 DEF Path
<1>4. <<>> \in Seq(Node) /\ Len(<<>>) = 0
  BY EmptySeq
<1>5. <<>> \in Path
  <2>1. PICK e : e = <<>>
    OBVIOUS
  <2>2. e \in Seq(Node) /\ Len(e) = 0
    BY <1>4, <2>1
  <2>3. e \in Path
    <3>1. e \in [1 .. 0 -> Node] /\ 0 \in 0 .. NumNodes
      BY <1>1, <2>2
    <3> QED
      BY <3>1 DEF Path
  <2> QED
    BY <2>1, <2>3
<1> QED
  BY <1>2, <1>3, <1>5

\* NULL is not a node.
LEMMA NullIsNoNode == Null \notin Node /\ Node \subseteq Nat
  BY InputBufferAssumption DEF Null, Node

\* There is one list from a node.
LEMMA ListIsUnique ==
  ASSUME NEW links, NEW n, NEW c \in Path, NEW d \in Path,
         ListFrom(links, n, c), ListFrom(links, n, d)
  PROVE  c = d
<1>1. c \in Seq(Node) /\ d \in Seq(Node)
  BY PathIsSeq
<1>2. /\ Len(c) \in Nat /\ \A k \in 1 .. Len(c) : c[k] \in Node
      /\ Len(d) \in Nat /\ \A k \in 1 .. Len(d) : d[k] \in Node
  BY <1>1
<1>3. (c = <<>> <=> Len(c) = 0) /\ (d = <<>> <=> Len(d) = 0)
  BY <1>1, EmptySeq
<1> DEFINE T == {k \in Nat : k \in 1 .. Len(c) /\ k \in 1 .. Len(d) /\ c[k] # d[k]}
<1>4. T = {}
  <2>1. SUFFICES ASSUME T # {}
                 PROVE  FALSE
    OBVIOUS
  <2>2. PICK m \in T : \A k \in T : m <= k
    BY <2>1, LeastExists
  <2>3. m \in Nat /\ m \in 1 .. Len(c) /\ m \in 1 .. Len(d) /\ c[m] # d[m]
    BY <2>2
  <2>4. CASE m = 1
    BY <2>3, <2>4, <1>2, <1>3 DEF ListFrom
  <2>5. CASE m # 1
    <3>1. m - 1 \in Nat /\ m - 1 \in 1 .. Len(c) /\ m - 1 \in 1 .. Len(d) /\ m - 1 < m
      BY <2>3, <2>5, <1>2
    <3>2. c[m - 1] = d[m - 1]
      BY <2>2, <3>1
    <3>3. (m - 1) + 1 = m /\ m - 1 < Len(c) /\ m - 1 < Len(d)
      BY <2>3, <1>2
    <3>4. links[c[m - 1]] = c[m] /\ links[d[m - 1]] = d[m]
      BY <3>1, <3>3 DEF ListFrom
    <3> QED
      BY <2>3, <3>2, <3>4
  <2> QED
    BY <2>4, <2>5
<1>5. \A k \in 1 .. Len(c) : k \in 1 .. Len(d) => c[k] = d[k]
  BY <1>2, <1>4
<1> HIDE DEF T
<1>6. ~(Len(c) < Len(d))
  <2>1. SUFFICES ASSUME Len(c) < Len(d)
                 PROVE  FALSE
    OBVIOUS
  <2>2. CASE Len(c) = 0
    BY <1>2, <1>3, <2>1, <2>2, NullIsNoNode DEF ListFrom
  <2>3. CASE Len(c) # 0
    <3> DEFINE l == Len(c)
    <3>1. l \in 1 .. Len(c) /\ l \in 1 .. Len(d) /\ l + 1 \in 1 .. Len(d) /\ ~(l < Len(c)) /\ l < Len(d)
      BY <1>2, <2>1, <2>3
    <3>2. links[c[l]] = Null /\ links[d[l]] = d[l + 1] /\ c[l] = d[l]
      BY <1>5, <3>1 DEF ListFrom
    <3> QED
      BY <1>2, <3>1, <3>2, NullIsNoNode
  <2> QED
    BY <2>2, <2>3
<1>7. ~(Len(d) < Len(c))
  <2>1. SUFFICES ASSUME Len(d) < Len(c)
                 PROVE  FALSE
    OBVIOUS
  <2>2. CASE Len(d) = 0
    BY <1>2, <1>3, <2>1, <2>2, NullIsNoNode DEF ListFrom
  <2>3. CASE Len(d) # 0
    <3> DEFINE l == Len(d)
    <3>1. l \in 1 .. Len(d) /\ l \in 1 .. Len(c) /\ l + 1 \in 1 .. Len(c) /\ ~(l < Len(d)) /\ l < Len(c)
      BY <1>2, <2>1, <2>3
    <3>2. links[d[l]] = Null /\ links[c[l]] = c[l + 1] /\ c[l] = d[l]
      BY <1>5, <3>1 DEF ListFrom
    <3> QED
      BY <1>2, <3>1, <3>2, NullIsNoNode
  <2> QED
    BY <2>2, <2>3
<1>8. Len(c) = Len(d)
  BY <1>2, <1>6, <1>7
<1> QED
  BY <1>1, <1>5, <1>8, SeqEqual

\* Chain is the list from a node.
LEMMA ChainIsList ==
  ASSUME NEW n, NEW c \in Path, ListFrom(next, n, c)
  PROVE  Chain(n) = c
<1>1. Chain(n) \in Path /\ ListFrom(next, n, Chain(n))
  BY DEF Chain
<1> QED
  BY <1>1, ListIsUnique

\* __malloc_fastbin answers a free node, or NULL when there is none
\* (kmm.cpp:97-131).
LEMMA FreeNodeIsFree ==
  ASSUME alloc \subseteq Node
  PROVE  (FreeNode = Null /\ alloc = Node) \/ FreeNode \in Node \ alloc
<1>1. CASE alloc = Node
  BY <1>1 DEF FreeNode
<1>2. CASE alloc # Node
  <2>1. Node \ alloc # {} /\ Node \ alloc \in SUBSET Nat
    BY <1>2, NullIsNoNode
  <2>2. \E n \in Node \ alloc : \A m \in Node \ alloc : n <= m
    BY <2>1, LeastExists
  <2> QED
    BY <1>2, <2>2 DEF FreeNode
<1> QED
  BY <1>1, <1>2

\* A path to which a free node is added is not too long.
LEMMA LongerPath ==
  ASSUME NEW c \in Path, NEW n \in Node,
         \A j, k \in 1 .. Len(c) : c[j] = c[k] => j = k,
         \A k \in 1 .. Len(c) : c[k] # n
  PROVE  Append(c, n) \in Path
<1>1. /\ c \in Seq(Node) /\ Len(c) <= NumNodes /\ NumNodes \in Nat /\ Len(c) \in Nat
      /\ \A k \in 1 .. Len(c) : c[k] \in Node
  BY PathIsSeq, InputBufferAssumption
<1> DEFINE T == Node \ {n}
<1>2. IsFiniteSet(Node) /\ Cardinality(Node) = NumNodes
  <2>1. IsFiniteSet(1 .. NumNodes) /\ Cardinality(1 .. NumNodes) = IF 1 > NumNodes THEN 0 ELSE NumNodes - 1 + 1
    BY <1>1, FS_Interval
  <2> QED
    BY <1>1, <2>1 DEF Node
<1>3. IsFiniteSet(T) /\ Cardinality(T) = NumNodes - 1
  BY <1>2, FS_RemoveElement
<1>4. IsFiniteSet(1 .. Len(c)) /\ Cardinality(1 .. Len(c)) = Len(c)
  <2>1. PICK l \in Nat : l = Len(c)
    BY <1>1
  <2>2. IsFiniteSet(1 .. l) /\ Cardinality(1 .. l) = IF 1 > l THEN 0 ELSE l - 1 + 1
    BY FS_Interval
  <2>3. IsFiniteSet(1 .. l) /\ Cardinality(1 .. l) = l
    BY <2>2
  <2> QED
    BY <2>1, <2>3
<1>5. c \in [1 .. Len(c) -> T]
  BY <1>1
<1> HIDE DEF T
<1>6. ~(Cardinality(T) < Cardinality(1 .. Len(c)))
  <2>1. SUFFICES ASSUME Cardinality(T) < Cardinality(1 .. Len(c))
                 PROVE  FALSE
    OBVIOUS
  <2>2. \E j, k \in 1 .. Len(c) : j # k /\ c[j] = c[k]
    BY <1>3, <1>4, <1>5, <2>1, FS_PigeonHole
  <2> QED
    BY <2>2
<1>7. Append(c, n) \in Seq(Node) /\ Len(Append(c, n)) = Len(c) + 1
  BY <1>1
<1>8. Len(Append(c, n)) <= NumNodes
  BY <1>1, <1>3, <1>4, <1>6, <1>7
<1> QED
  BY <1>7, <1>8, PathIsSeq

\* The nodes of c hold keys, and the same in both memories.
SameKeys(S, c, e, f) == \A k \in 1 .. Len(c) : f[c[k]] = e[c[k]] /\ e[c[k]] \in S

\* The keys of a list that a node is added to.
LEMMA KeysOfLonger ==
  ASSUME NEW S, NEW N, NEW c \in Seq(N), NEW n \in N, NEW e, NEW f,
         SameKeys(S, c, e, f), f[n] \in S
  PROVE  /\ Keys(e, c) \in Seq(S)
         /\ Keys(f, Append(c, n)) = Append(Keys(e, c), f[n])
         /\ Keys(f, c) = Keys(e, c)
<1> DEFINE d == Append(c, n)
           a == Keys(e, c)
           b == Keys(f, d)
<1>0. \A k \in 1 .. Len(c) : f[c[k]] = e[c[k]] /\ e[c[k]] \in S
  BY DEF SameKeys
<1>1. Len(c) \in Nat /\ d \in Seq(N) /\ Len(d) = Len(c) + 1 /\ d[Len(c) + 1] = n
  OBVIOUS
<1>2. \A k \in 1 .. Len(c) : d[k] = c[k]
  OBVIOUS
<1>3. a \in [1 .. Len(c) -> S]
  BY <1>0 DEF Keys
<1>4. a \in Seq(S) /\ Len(a) = Len(c)
  BY <1>1, <1>3
<1> HIDE DEF d
<1>5. b = [k \in 1 .. Len(c) + 1 |-> f[d[k]]]
  BY <1>1 DEF Keys
<1>6. \A k \in 1 .. Len(c) + 1 : b[k] = IF k = Len(c) + 1 THEN f[n] ELSE a[k]
  <2>1. ASSUME NEW k \in 1 .. Len(c) + 1
        PROVE  b[k] = IF k = Len(c) + 1 THEN f[n] ELSE a[k]
    <3>1. CASE k = Len(c) + 1
      BY <1>1, <1>5, <3>1
    <3>2. CASE k # Len(c) + 1
      <4>1. k \in 1 .. Len(c)
        BY <1>1, <3>2
      <4> QED
        BY <1>0, <1>2, <1>5, <3>2, <4>1 DEF Keys
    <3> QED
      BY <3>1, <3>2
  <2> QED
    BY <2>1
<1>7. \A k \in 1 .. Len(c) + 1 : b[k] \in S
  <2>1. ASSUME NEW k \in 1 .. Len(c) + 1
        PROVE  b[k] \in S
    <3>1. k = Len(c) + 1 \/ k \in 1 .. Len(c)
      BY <1>1
    <3> QED
      BY <1>1, <1>3, <1>6, <3>1
  <2> QED
    BY <2>1
<1>8. b \in [1 .. Len(c) + 1 -> S]
  BY <1>5, <1>7
<1>9. b \in Seq(S) /\ Len(b) = Len(c) + 1
  BY <1>1, <1>8
<1> HIDE DEF a, b
<1>10. b = Append(a, f[n])
  <2>1. Append(a, f[n]) \in Seq(S) /\ Len(Append(a, f[n])) = Len(c) + 1
    BY <1>4
  <2>2. \A k \in 1 .. Len(c) + 1 : Append(a, f[n])[k] = IF k = Len(c) + 1 THEN f[n] ELSE a[k]
    BY <1>1, <1>4
  <2>3. \A k \in 1 .. Len(b) : b[k] = Append(a, f[n])[k]
    BY <1>6, <1>9, <2>2
  <2> QED
    BY <1>9, <2>1, <2>3, SeqEqual
<1>11. Keys(f, c) = Keys(e, c)
  BY <1>0 DEF Keys
<1> QED
  BY <1>4, <1>10, <1>11 DEF a, b, d

\* The keys of a list and of its tail.
LEMMA KeysOfTail ==
  ASSUME NEW S, NEW N, NEW c \in Seq(N), c # <<>>, NEW e,
         \A k \in 1 .. Len(c) : e[c[k]] \in S
  PROVE  /\ Keys(e, Tail(c)) \in Seq(S)
         /\ Keys(e, c) = <<e[c[1]]>> \o Keys(e, Tail(c))
<1> DEFINE d == Tail(c)
           a == Keys(e, d)
           b == Keys(e, c)
           h == <<e[c[1]]>>
<1>1. Len(c) \in Nat \ {0}
  BY EmptySeq
<1>2. d \in Seq(N) /\ Len(d) = Len(c) - 1 /\ \A k \in 1 .. Len(d) : d[k] = c[k + 1]
  BY <1>1
<1> HIDE DEF d
<1>3. a \in [1 .. Len(d) -> S]
  <2>1. ASSUME NEW k \in 1 .. Len(d)
        PROVE  e[d[k]] \in S
    <3>1. k + 1 \in 1 .. Len(c)
      BY <1>1, <1>2
    <3> QED
      BY <1>2, <3>1
  <2> QED
    BY <2>1 DEF Keys
<1>4. a \in Seq(S) /\ Len(a) = Len(c) - 1
  BY <1>1, <1>2, <1>3, SMTT(30)
<1>5. b \in [1 .. Len(c) -> S]
  BY DEF Keys
<1>6. b \in Seq(S) /\ Len(b) = Len(c)
  BY <1>1, <1>5
<1>7. e[c[1]] \in S
  BY <1>1
<1>8. \A k \in 1 .. Len(c) : b[k] = IF k = 1 THEN e[c[1]] ELSE a[k - 1]
  <2>1. ASSUME NEW k \in 1 .. Len(c), k # 1
        PROVE  b[k] = a[k - 1]
    <3>1. k - 1 \in 1 .. Len(d) /\ (k - 1) + 1 = k
      BY <1>1, <1>2, <2>1
    <3>2. d[k - 1] = c[k]
      BY <1>2, <3>1
    <3> QED
      BY <3>1, <3>2 DEF Keys
  <2> QED
    BY <2>1 DEF Keys
<1> HIDE DEF a, b
<1>9. h \in Seq(S) /\ Len(h) = 1 /\ h[1] = e[c[1]]
  BY <1>7
<1> HIDE DEF h
<1>10. h \o a \in Seq(S) /\ Len(h \o a) = Len(c)
  <2>1. h \o a \in Seq(S) /\ Len(h \o a) = Len(h) + Len(a)
    BY <1>4, <1>9, ConcatProperties
  <2> QED
    BY <1>1, <1>4, <1>9, <2>1
<1>11. \A k \in 1 .. Len(c) : (h \o a)[k] = IF k = 1 THEN e[c[1]] ELSE a[k - 1]
  <2>1. ASSUME NEW k \in 1 .. Len(c)
        PROVE  (h \o a)[k] = IF k = 1 THEN e[c[1]] ELSE a[k - 1]
    <3>1. (h \o a)[k] = IF k <= Len(h) THEN h[k] ELSE a[k - Len(h)]
      <4>1. k \in 1 .. Len(h) + Len(a)
        BY <1>1, <1>4, <1>9
      <4> QED
        BY <1>4, <1>9, <4>1, ConcatProperties
    <3> QED
      BY <1>9, <3>1
  <2> QED
    BY <2>1
<1>12. \A k \in 1 .. Len(b) : b[k] = (h \o a)[k]
  BY <1>6, <1>8, <1>11
<1>13. b = h \o a
  BY <1>6, <1>10, <1>12, SeqEqual
<1> QED
  BY <1>4, <1>13 DEF a, b, d, h

\* Concatenation is associative.
LEMMA ConcatAssoc ==
  ASSUME NEW S, NEW r \in Seq(S), NEW h \in Seq(S), NEW s \in Seq(S)
  PROVE  r \o (h \o s) = (r \o h) \o s
  BY ConcatAssociative, SMTT(30)

\* Adding a character at the end.
LEMMA ConcatAppend ==
  ASSUME NEW S, NEW r \in Seq(S), NEW f \in Seq(S), NEW s \in Seq(S), NEW e \in S
  PROVE  (r \o f) \o Append(s, e) = Append((r \o f) \o s, e)
<1>1. PICK q \in Seq(S) : q = r \o f
  BY ConcatProperties
<1>2. PICK h \in Seq(S) : h = <<e>>
  <2>1. <<e>> \in Seq(S)
    OBVIOUS
  <2> QED
    BY <2>1
<1>3. Append(s, e) = s \o h /\ q \o s \in Seq(S)
  BY <1>2, AppendIsConcat, ConcatProperties
<1>4. Append(q \o s, e) = (q \o s) \o h
  BY <1>2, <1>3, AppendIsConcat
<1>5. q \o (s \o h) = (q \o s) \o h
  BY ConcatAssoc, SMTT(30)
<1> QED
  BY <1>1, <1>3, <1>4, <1>5

\* The first character of the rest becomes the one in flight, and that the
\* last one read.
LEMMA ConcatShift ==
  ASSUME NEW S, NEW r \in Seq(S), NEW s \in Seq(S), NEW e \in S
  PROVE  /\ (r \o <<>>) \o (<<e>> \o s) = (r \o <<e>>) \o s
         /\ (Append(r, e) \o <<>>) \o s = (r \o <<e>>) \o s
<1>1. PICK h \in Seq(S) : h = <<e>>
  <2>1. <<e>> \in Seq(S)
    OBVIOUS
  <2> QED
    BY <2>1
<1>2. r \o <<>> = r
  BY ConcatEmptySeq
<1>3. r \o (h \o s) = (r \o h) \o s
  BY ConcatAssociative
<1>4. Append(r, e) = r \o h /\ Append(r, e) \in Seq(S)
  BY <1>1, AppendIsConcat, AppendProperties
<1>5. Append(r, e) \o <<>> = Append(r, e)
  BY <1>4, ConcatEmptySeq
<1> QED
  BY <1>1, <1>2, <1>3, <1>4, <1>5

-----------------------------------------------------------------------------
(* Lists.                                                                  *)

\* A list whose nodes keep their successors stays.
LEMMA ListStays ==
  ASSUME NEW links, NEW others, NEW n, NEW c \in Path, ListFrom(links, n, c),
         \A k \in 1 .. Len(c) : others[c[k]] = links[c[k]]
  PROVE  ListFrom(others, n, c)
  BY DEF ListFrom

\* enqueue behind the last node (queue.hpp:57-61).
LEMMA ListGrows ==
  ASSUME NEW links \in [Node \cup {Null} -> Node \cup {Null}], NEW f, NEW c \in Path,
         c # <<>>, ListFrom(links, f, c), NEW n \in Node, NEW l,
         \A j, k \in 1 .. Len(c) : c[j] = c[k] => j = k,
         \A k \in 1 .. Len(c) : c[k] # n,
         l = c[Len(c)]
  PROVE  ListFrom([links EXCEPT ![n] = Null, ![l] = n], f, Append(c, n))
<1> DEFINE m == [links EXCEPT ![n] = Null, ![l] = n]
           d == Append(c, n)
<1>1. c \in Seq(Node) /\ Len(c) \in Nat \ {0} /\ \A k \in 1 .. Len(c) : c[k] \in Node
  BY PathIsSeq, EmptySeq
<1>2. /\ d \in Seq(Node) /\ Len(d) = Len(c) + 1 /\ d[Len(c) + 1] = n
      /\ \A k \in 1 .. Len(c) : d[k] = c[k]
  BY <1>1
<1>3. d # <<>>
  BY <1>1, <1>2, EmptySeq
<1>4. l \in Node /\ l # n
  BY <1>1
<1>5. m[n] = Null /\ m[l] = n
  BY <1>4
<1>6. \A k \in 1 .. Len(c) : k # Len(c) => m[c[k]] = links[c[k]]
  <2>1. ASSUME NEW k \in 1 .. Len(c), k # Len(c)
        PROVE  m[c[k]] = links[c[k]]
    <3>1. c[k] # l /\ c[k] # n /\ c[k] \in Node
      BY <1>1, <2>1
    <3> QED
      BY <3>1
  <2> QED
    BY <2>1
<1> HIDE DEF m, d
<1>7. f = d[1]
  BY <1>1, <1>2 DEF ListFrom
<1>8. ASSUME NEW k \in 1 .. Len(d)
      PROVE  m[d[k]] = IF k < Len(d) THEN d[k + 1] ELSE Null
  <2>1. CASE k = Len(c) + 1
    BY <1>1, <1>2, <1>5, <2>1
  <2>2. CASE k = Len(c)
    BY <1>1, <1>2, <1>5, <2>2
  <2>3. CASE k # Len(c) + 1 /\ k # Len(c)
    <3>1. k \in 1 .. Len(c) /\ k + 1 \in 1 .. Len(c) /\ k < Len(c) /\ k < Len(d)
      BY <1>1, <1>2, <2>3
    <3>2. links[c[k]] = c[k + 1]
      BY <3>1 DEF ListFrom
    <3>3. m[c[k]] = c[k + 1] /\ d[k] = c[k] /\ d[k + 1] = c[k + 1]
      BY <1>2, <1>6, <2>3, <3>1, <3>2
    <3> QED
      BY <3>1, <3>3
  <2> QED
    BY <2>1, <2>2, <2>3
<1>9. ListFrom(m, f, d)
  BY <1>3, <1>7, <1>8 DEF ListFrom
<1> QED
  BY <1>9 DEF m, d

\* dequeue takes the first node off (queue.hpp:76).
LEMMA ListShrinks ==
  ASSUME NEW links, NEW f, NEW c \in Path, c # <<>>, ListFrom(links, f, c)
  PROVE  /\ Tail(c) \in Path /\ Len(Tail(c)) = Len(c) - 1
         /\ \A k \in 1 .. Len(Tail(c)) : k + 1 \in 1 .. Len(c) /\ Tail(c)[k] = c[k + 1]
         /\ ListFrom(links, links[f], Tail(c))
         /\ c[1] = f /\ f \in Node
         /\ Tail(c) = <<>> <=> links[f] = Null
<1> DEFINE d == Tail(c)
<1>1. c \in Seq(Node) /\ Len(c) \in Nat \ {0} /\ Len(c) <= NumNodes /\ NumNodes \in Nat
  BY PathIsSeq, EmptySeq, InputBufferAssumption
<1>2. d \in Seq(Node) /\ Len(d) = Len(c) - 1 /\ \A k \in 1 .. Len(d) : d[k] = c[k + 1]
  BY <1>1
<1> HIDE DEF d
<1>3. Len(d) \in Nat /\ \A k \in 1 .. Len(d) : k + 1 \in 1 .. Len(c) /\ d[k] \in Node
  BY <1>1, <1>2
<1>4. d \in Path
  BY <1>1, <1>2, PathIsSeq
<1>5. c[1] = f /\ f \in Node
  BY <1>1 DEF ListFrom
<1>6. d = <<>> <=> Len(d) = 0
  BY <1>2, EmptySeq
<1>7. links[f] = IF 1 < Len(c) THEN c[2] ELSE Null
  BY <1>1, <1>5 DEF ListFrom
<1>8. links[f] = IF d = <<>> THEN Null ELSE d[1]
  BY <1>1, <1>2, <1>6, <1>7
<1>9. d # <<>> => d[1] # Null
  BY <1>3, <1>6, NullIsNoNode
<1>10. ASSUME NEW k \in 1 .. Len(d)
       PROVE  links[d[k]] = IF k < Len(d) THEN d[k + 1] ELSE Null
  <2>1. k + 1 \in 1 .. Len(c)
    BY <1>3
  <2>2. links[c[k + 1]] = IF k + 1 < Len(c) THEN c[(k + 1) + 1] ELSE Null
    BY <2>1 DEF ListFrom
  <2>3. CASE k < Len(d)
    <3>1. k + 1 \in 1 .. Len(d) /\ k + 1 < Len(c)
      BY <1>1, <1>2, <2>3
    <3> QED
      BY <1>2, <2>2, <2>3, <3>1
  <2>4. CASE ~(k < Len(d))
    BY <1>1, <1>2, <2>2, <2>4
  <2> QED
    BY <2>3, <2>4
<1>11. ListFrom(links, links[f], d)
  BY <1>8, <1>10 DEF ListFrom
<1> QED
  BY <1>2, <1>3, <1>4, <1>5, <1>8, <1>9, <1>11 DEF d

\* The list as it will be is the end of the list as it is.
LEMMA FrontIsList ==
  ASSUME TypeOK, NEW c \in Path, IsList(c), IsReading(c)
  PROVE  /\ FrontOf(c) \in Path /\ ListFrom(next, Front, FrontOf(c))
         /\ \A k \in 1 .. Len(FrontOf(c)) : \E j \in 1 .. Len(c) : FrontOf(c)[k] = c[j]
         /\ FrontOf(c) # <<>> => /\ c # <<>> /\ Len(FrontOf(c)) \in 1 .. Len(FrontOf(c))
                                 /\ FrontOf(c)[Len(FrontOf(c))] = c[Len(c)]
<1>1. ListFrom(next, first, c) /\ c \in Seq(Node) /\ Len(c) \in Nat
  BY PathIsSeq DEF IsList
<1>2. c # <<>> => Len(c) \in Nat \ {0}
  BY <1>1, EmptySeq
<1>3. CASE pc # "store"
  <2>1. FrontOf(c) = c /\ Front = first
    BY <1>3 DEF FrontOf, Front
  <2> QED
    BY <1>1, <1>2, <2>1
<1>4. CASE pc = "store" /\ t = Null
  <2>1. FrontOf(c) = <<>> /\ Front = Null /\ Len(<<>>) = 0
    BY <1>4 DEF FrontOf, Front
  <2>2. ListFrom(next, Null, <<>>)
    BY <2>1 DEF ListFrom
  <2> QED
    BY <2>1, <2>2, PathIsSeq
<1>5. CASE pc = "store" /\ t # Null
  <2>1. FrontOf(c) = Tail(c) /\ Front = t
    BY <1>5 DEF FrontOf, Front
  <2>2. c # <<>> /\ Len(c) > 1 /\ t = c[2]
    BY <1>5 DEF IsReading
  <2>3. /\ Tail(c) \in Path /\ Len(Tail(c)) = Len(c) - 1
        /\ \A k \in 1 .. Len(Tail(c)) : k + 1 \in 1 .. Len(c) /\ Tail(c)[k] = c[k + 1]
        /\ ListFrom(next, next[first], Tail(c)) /\ c[1] = first
    BY <1>1, <2>2, ListShrinks
  <2>4. next[first] = t
    <3>1. next[c[1]] = c[2]
      BY <1>1, <1>2, <2>2 DEF ListFrom
    <3> QED
      BY <2>2, <2>3, <3>1
  <2>5. Len(Tail(c)) \in 1 .. Len(Tail(c)) /\ Len(Tail(c)) + 1 = Len(c)
    BY <1>1, <2>2, <2>3
  <2>6. Tail(c)[Len(Tail(c))] = c[Len(c)]
    BY <2>3, <2>5
  <2> QED
    BY <2>1, <2>2, <2>3, <2>4, <2>5, <2>6
<1> QED
  BY <1>3, <1>4, <1>5

\* The keys of the list as it will be are keys.
LEMMA FrontHasKeys ==
  ASSUME TypeOK, NEW c \in Path, IsList(c), IsReading(c)
  PROVE  /\ \A k \in 1 .. Len(FrontOf(c)) : /\ FrontOf(c)[k] \in alloc
                                            /\ element[FrontOf(c)[k]] \in Char
         /\ Keys(element, FrontOf(c)) \in Seq(Char)
<1>1. FrontOf(c) \in Seq(Node)
  BY FrontIsList, PathIsSeq
<1>2. \A k \in 1 .. Len(FrontOf(c)) : \E j \in 1 .. Len(c) : FrontOf(c)[k] = c[j]
  BY FrontIsList
<1>3. \A k \in 1 .. Len(FrontOf(c)) : FrontOf(c)[k] \in alloc /\ element[FrontOf(c)[k]] \in Char
  BY <1>2 DEF IsList
<1>4. PICK f \in Seq(Node) : f = FrontOf(c)
  BY <1>1
<1>5. Keys(element, f) \in [1 .. Len(f) -> Char] /\ Len(f) \in Nat
  BY <1>3, <1>4 DEF Keys
<1>6. Keys(element, f) \in Seq(Char)
  BY <1>5
<1> QED
  BY <1>3, <1>4, <1>6

\* Chain gives the two lists the properties speak of.
LEMMA Chains ==
  ASSUME TypeOK, NEW c \in Path, IsList(c), IsReading(c)
  PROVE  Chain(first) = c /\ Chain(Front) = FrontOf(c)
  BY FrontIsList, ChainIsList DEF IsList

\* What was read and what is being read are keys.
LEMMA FlightIsKey ==
  ASSUME TypeOK, LineInv
  PROVE  read \in Seq(Char) /\ kept \in Seq(Char) /\ InFlight \in Seq(Char)
<1>1. pc \in {"store", "delete", "unlock"} => x \in Char
  BY DEF LineInv
<1>2. <<>> \in Seq(Char)
  BY EmptySeq
<1>3. x \in Char => <<x>> \in Seq(Char)
  OBVIOUS
<1>4. InFlight \in Seq(Char)
  BY <1>1, <1>2, <1>3 DEF InFlight
<1> QED
  BY <1>4 DEF TypeOK

-----------------------------------------------------------------------------
(* The keyboard handler.                                                   *)

\* What the handler leaves alone (keyboard.cpp:18-41).
LEMMA HandlerKeeps ==
  ASSUME TypeOK, NEW key \in Char, KeyboardHandler(key)
  PROVE  /\ x' = x /\ p' = p /\ t' = t /\ read' = read
         /\ \A s \in {"load", "next", "store", "delete", "unlock", "edit", "return"} :
               pc' = s <=> pc = s
         /\ InFlight' = InFlight
         /\ alloc \subseteq alloc'
         /\ element \in [Node \cup {Null} -> Char \cup {Nul}]
         /\ element' = [element EXCEPT ![FreeNode] = key]
         /\ next \in [Node \cup {Null} -> Node \cup {Null}]
         /\ alloc \subseteq Node
<1> USE DEF KeyboardHandler, localVars
<1>1. x' = x /\ p' = p /\ t' = t /\ read' = read /\ alloc \subseteq alloc'
  OBVIOUS
<1>2. \A s \in {"load", "next", "store", "delete", "unlock", "edit", "return"} :
         pc' = s <=> pc = s
  BY DEF Wake
<1>3. InFlight' = InFlight
  BY <1>1, <1>2 DEF InFlight
<1> QED
  BY <1>1, <1>2, <1>3 DEF TypeOK

(***************************************************************************)
(* A key that is lost leaves the list as it is: there was no node for it,  *)
(* or it was linked behind one that is not in the list any more.           *)
(***************************************************************************)
LEMMA LostKeyKeepsList ==
  ASSUME TypeOK, NEW c \in Path, IsList(c), IsReading(c), IsFifo(c),
         NEW key \in Char, KeyboardHandler(key),
         first' = first, last' \in alloc' \cup {Null}, kept' = kept,
         \A k \in 1 .. Len(c) : next'[c[k]] = next[c[k]],
         \A k \in 1 .. Len(c) : c[k] # FreeNode /\ c[k] # last',
         pc = "delete" => last' # p
  PROVE  IsList(c)' /\ IsReading(c)' /\ IsFifo(c)'
<1>1. c \in Seq(Node) /\ Len(c) \in Nat /\ \A k \in 1 .. Len(c) : c[k] \in Node
  BY PathIsSeq
<1>2. ListFrom(next', first', c)
  BY ListStays DEF IsList
<1>3. \A k \in 1 .. Len(c) : element'[c[k]] = element[c[k]]
  BY <1>1, HandlerKeeps
<1>4. IsList(c)'
  BY <1>2, <1>3, HandlerKeeps DEF IsList
<1>5. first \in Node \cup {Null} /\ (c # <<>> => first = c[1] /\ 1 \in 1 .. Len(c))
  BY <1>1, EmptySeq DEF TypeOK, IsList, ListFrom
<1>6. pc \in {"next", "store"} => element'[first] = element[first]
  BY <1>3, <1>5 DEF IsReading
<1>7. IsReading(c)'
  BY <1>6, HandlerKeeps DEF IsReading
<1>8. FrontOf(c)' = FrontOf(c)
  BY HandlerKeeps DEF FrontOf
<1>9. PICK f \in Path : f = FrontOf(c) /\ \A k \in 1 .. Len(f) : \E j \in 1 .. Len(c) : f[k] = c[j]
  BY FrontIsList
<1>10. \A k \in 1 .. Len(f) : element'[f[k]] = element[f[k]]
  BY <1>3, <1>9
<1>11. Keys(element', f) = Keys(element, f)
  BY <1>10 DEF Keys
<1>12. IsFifo(c)'
  BY <1>8, <1>9, <1>11, HandlerKeeps DEF IsFifo
<1> QED
  BY <1>4, <1>7, <1>12

\* The first key (queue.hpp:52-56).
LEMMA FirstKeyMakesList ==
  ASSUME TypeOK, LineInv, NEW c \in Path, IsList(c), IsReading(c), IsFifo(c),
         NEW key \in Char, KeyboardHandler(key),
         first = Null, FreeNode \in Node \ alloc
  PROVE  \E d \in Path : IsList(d)' /\ IsReading(d)' /\ IsFifo(d)'
<1>1. c = <<>>
  <2>1. c \in Seq(Node) /\ (c # <<>> => 1 \in 1 .. Len(c))
    BY PathIsSeq, EmptySeq
  <2>2. c # <<>> => c[1] \in Node
    BY <2>1
  <2> QED
    BY <2>2, NullIsNoNode DEF IsList, ListFrom
<1>2. PICK n \in Node : n = FreeNode /\ n \notin alloc /\ n # Null
  BY NullIsNoNode
<1>3. first' = n /\ last' = n /\ next' = [next EXCEPT ![n] = Null] /\ alloc' = alloc \cup {n}
  BY <1>2 DEF KeyboardHandler, Linked
<1>4. Linkable(n)
  BY <1>2 DEF Linkable
<1>5. kept' = Append(kept, key)
  BY <1>2, <1>4 DEF KeyboardHandler
<1>6. PICK d : d = <<n>>
  OBVIOUS
<1>7. d \in Seq(Node) /\ Len(d) = 1 /\ d[1] = n
  BY <1>6
<1>8. d \in Path
  <2>1. NumNodes >= 1
    BY InputBufferAssumption DEF Node
  <2> QED
    BY <1>7, <2>1, PathIsSeq
<1>9. d # <<>>
  BY <1>7, EmptySeq
<1>10. next'[n] = Null /\ element'[n] = key
  BY <1>2, <1>3, HandlerKeeps
<1>11. IsList(d)'
  BY <1>3, <1>7, <1>9, <1>10 DEF IsList, ListFrom
<1>12. pc \notin {"load", "next", "store"}
  BY <1>1 DEF IsReading
<1>13. pc = "delete" => p # n
  BY <1>2 DEF IsReading
<1>14. IsReading(d)'
  BY <1>3, <1>7, <1>12, <1>13, HandlerKeeps DEF IsReading
<1>15. FrontOf(c) = c /\ FrontOf(d)' = d
  BY <1>12, HandlerKeeps DEF FrontOf
<1>16. Keys(element, c) = <<>> /\ Keys(element', d) = Append(<<>>, key)
  <2>1. c \in Seq(Node) /\ Len(c) = 0
    BY <1>1, EmptySeq
  <2>2. PICK g, h : g = Keys(element', d) /\ h = Append(<<>>, key)
    OBVIOUS
  <2>3. g = h
    <3>1. g = [k \in 1 .. 1 |-> element'[d[k]]] /\ \A k \in 1 .. 1 : element'[d[k]] = key
      BY <1>7, <1>10, <2>2 DEF Keys
    <3>2. g \in [1 .. 1 -> Char] /\ g[1] = key
      BY <3>1
    <3>3. g \in Seq(Char) /\ Len(g) = 1
      <4>1. PICK l \in Nat : l = 1
        OBVIOUS
      <4>2. g \in [1 .. l -> Char]
        BY <3>2, <4>1
      <4>3. g \in Seq(Char) /\ Len(g) = l
        BY <4>2
      <4> QED
        BY <4>1, <4>3
    <3>4. h \in Seq(Char) /\ Len(h) = 1 /\ h[1] = key
      BY <2>2
    <3>5. \A k \in 1 .. Len(g) : g[k] = h[k]
      BY <3>2, <3>3, <3>4
    <3> QED
      BY <3>3, <3>4, <3>5, SeqEqual
  <2>4. Keys(element, c) = <<>>
    BY <2>1 DEF Keys
  <2> QED
    BY <2>2, <2>3, <2>4
<1>17. IsFifo(d)'
  <2>1. read \in Seq(Char) /\ InFlight \in Seq(Char)
    BY FlightIsKey
  <2> QED
    BY <1>5, <1>15, <1>16, <2>1, ConcatAppend, EmptySeq, HandlerKeeps DEF IsFifo
<1> QED
  BY <1>8, <1>11, <1>14, <1>17

(***************************************************************************)
(* A key linked behind the end of the list.  If the node it is linked to   *)
(* is being dequeued, it is lost nevertheless (queue.hpp:57-61, 76).       *)
(***************************************************************************)
LEMMA NextKeyExtendsList ==
  ASSUME TypeOK, LineInv, NEW c \in Path, IsList(c), IsReading(c), IsFifo(c),
         NEW key \in Char, KeyboardHandler(key),
         first # Null, FreeNode \in Node \ alloc, c # <<>>, last = c[Len(c)]
  PROVE  \E d \in Path : IsList(d)' /\ IsReading(d)' /\ IsFifo(d)'
<1>1. c \in Seq(Node) /\ Len(c) \in Nat \ {0} /\ \A k \in 1 .. Len(c) : c[k] \in Node
  BY PathIsSeq, EmptySeq
<1>2. PICK n \in Node : n = FreeNode /\ n \notin alloc /\ n # Null
  BY NullIsNoNode
<1>3. last \in Node /\ last \in alloc /\ last # n
  BY <1>1, <1>2 DEF IsList
<1>4. first' = first /\ next' = [next EXCEPT ![n] = Null, ![last] = n] /\ alloc' = alloc \cup {n}
  BY <1>2 DEF KeyboardHandler, Linked
<1>5. last' = n
  <2>1. last' = next'[last]
    BY <1>2 DEF KeyboardHandler, Linked
  <2> QED
    BY <1>3, <1>4, <2>1, HandlerKeeps
<1>6. PICK d : d = Append(c, n)
  OBVIOUS
<1>7. /\ \A k \in 1 .. Len(c) : c[k] # n
      /\ \A j, k \in 1 .. Len(c) : c[j] = c[k] => j = k
  BY <1>2 DEF IsList
<1>8. d \in Path
  BY <1>6, <1>7, LongerPath
<1>9. /\ d \in Seq(Node) /\ Len(d) = Len(c) + 1 /\ d[Len(c) + 1] = n
      /\ \A k \in 1 .. Len(c) : d[k] = c[k]
  BY <1>1, <1>6
<1>10. ListFrom(next', first', d)
  <2>1. ListFrom(next, first, c)
    BY DEF IsList
  <2> QED
    BY <1>4, <1>6, <1>7, <2>1, ListGrows, HandlerKeeps
<1>11. element'[n] = key /\ \A k \in 1 .. Len(c) : element'[c[k]] = element[c[k]]
  BY <1>1, <1>2, <1>7, HandlerKeeps
<1>12. \A k \in 1 .. Len(d) : k = Len(c) + 1 \/ k \in 1 .. Len(c)
  BY <1>1, <1>9
<1>13. \A j, k \in 1 .. Len(d) : d[j] = d[k] => j = k
  BY <1>1, <1>7, <1>9, <1>12
<1>14. \A k \in 1 .. Len(d) : d[k] \in alloc' /\ element'[d[k]] \in Char
  BY <1>4, <1>9, <1>11, <1>12 DEF IsList
<1>15. \A k \in 1 .. Len(d) : d[k] = last' => k = Len(d)
  BY <1>5, <1>7, <1>9, <1>12
<1>16. IsList(d)'
  BY <1>4, <1>5, <1>10, <1>13, <1>14, <1>15 DEF IsList
<1>17. d # <<>> /\ c[1] = first /\ d[1] = first /\ d[2] = IF Len(c) > 1 THEN c[2] ELSE n
  BY <1>1, <1>9, EmptySeq DEF IsList, ListFrom
<1>18. element'[first] = element[first]
  BY <1>1, <1>11, <1>17
<1>19. pc = "delete" => p # n /\ \A k \in 1 .. Len(d) : d[k] # p
  BY <1>2, <1>9, <1>12 DEF IsReading
<1>20. pc = "store" => t = Null \/ (Len(d) > 1 /\ t = d[2])
  BY <1>1, <1>9, <1>17 DEF IsReading
<1>21. IsReading(d)'
  BY <1>4, <1>5, <1>17, <1>18, <1>19, <1>20, HandlerKeeps DEF IsReading
<1>22. PICK f \in Path : /\ f = FrontOf(c)
                         /\ f # <<>> => Len(f) \in 1 .. Len(f) /\ f[Len(f)] = c[Len(c)]
                         /\ \A k \in 1 .. Len(f) : \E j \in 1 .. Len(c) : f[k] = c[j]
                         /\ \A k \in 1 .. Len(f) : element[f[k]] \in Char
  BY FrontIsList, FrontHasKeys
<1>23. f \in Seq(Node)
  BY PathIsSeq
<1>24. Chain(Front) = f
  BY <1>22, Chains
<1>25. Linkable(n) <=> f # <<>>
  <2>1. f = <<>> => Len(f) = 0
    BY EmptySeq
  <2> QED
    BY <1>2, <1>22, <1>24, <2>1 DEF Linkable
<1>26. FrontOf(d)' = IF f = <<>> THEN <<>> ELSE Append(f, n)
  <2>1. CASE pc # "store"
    BY <1>6, <1>22, <2>1, HandlerKeeps DEF FrontOf
  <2>2. CASE pc = "store" /\ t = Null
    BY <1>22, <2>2, HandlerKeeps DEF FrontOf
  <2>3. CASE pc = "store" /\ t # Null
    <3>1. f = Tail(c) /\ FrontOf(d)' = Tail(d)
      BY <1>22, <2>3, HandlerKeeps DEF FrontOf
    <3>2. Len(c) > 1
      BY <2>3 DEF IsReading
    <3>3. Tail(c) \in Seq(Node) /\ Len(Tail(c)) = Len(c) - 1 /\ \A k \in 1 .. Len(c) - 1 : Tail(c)[k] = c[k + 1]
      BY <1>1
    <3>4. Tail(d) \in Seq(Node) /\ Len(Tail(d)) = Len(c) /\ \A k \in 1 .. Len(c) : Tail(d)[k] = d[k + 1]
      BY <1>1, <1>9
    <3>5. f # <<>>
      <4>1. Len(f) > 0
        BY <1>1, <3>1, <3>2, <3>3
      <4> QED
        BY <4>1
    <3>6. Append(f, n) \in Seq(Node) /\ Len(Append(f, n)) = Len(c)
      BY <1>1, <3>1, <3>3
    <3>7. ASSUME NEW k \in 1 .. Len(c)
          PROVE  Append(f, n)[k] = d[k + 1]
      <4>1. CASE k = Len(c)
        BY <1>1, <1>9, <3>1, <3>3, <4>1
      <4>2. CASE k # Len(c)
        <5>1. k \in 1 .. Len(c) - 1 /\ k + 1 \in 1 .. Len(c)
          BY <1>1, <4>2
        <5>2. Append(f, n)[k] = f[k]
          BY <1>1, <3>1, <3>3, <5>1
        <5> QED
          BY <1>9, <3>1, <3>3, <5>1, <5>2
      <4> QED
        BY <4>1, <4>2
    <3>8. Tail(d) = Append(f, n)
      BY <3>4, <3>6, <3>7, SeqEqual
    <3> QED
      BY <3>1, <3>5, <3>8
  <2> QED
    BY <2>1, <2>2, <2>3
<1>27. \A k \in 1 .. Len(f) : element'[f[k]] = element[f[k]]
  BY <1>11, <1>22
<1>28. /\ Keys(element, f) \in Seq(Char)
       /\ Keys(element', Append(f, n)) = Append(Keys(element, f), element'[n])
       /\ Keys(element', f) = Keys(element, f)
  <2>1. SameKeys(Char, f, element, element') /\ element'[n] \in Char
    BY <1>11, <1>22, <1>27 DEF SameKeys
  <2>2. PICK e, g : e = element /\ g = element'
    OBVIOUS
  <2>3. SameKeys(Char, f, e, g) /\ g[n] \in Char
    BY <2>1, <2>2
  <2>4. /\ Keys(e, f) \in Seq(Char) /\ Keys(g, f) = Keys(e, f)
        /\ Keys(g, Append(f, n)) = Append(Keys(e, f), g[n])
    BY <1>23, <2>3, KeysOfLonger
  <2> QED
    BY <2>2, <2>4
<1>29. IsFifo(d)'
  <2>1. read \in Seq(Char) /\ InFlight \in Seq(Char)
    BY FlightIsKey
  <2>2. CASE f = <<>>
    <3>1. kept' = kept
      BY <1>2, <1>25, <2>2 DEF KeyboardHandler
    <3> QED
      BY <1>22, <1>26, <1>28, <2>2, <3>1, HandlerKeeps DEF IsFifo
  <2>3. CASE f # <<>>
    <3>1. kept' = Append(kept, key)
      BY <1>2, <1>25, <2>3 DEF KeyboardHandler
    <3>2. kept = (read \o InFlight) \o Keys(element, f)
      BY <1>22 DEF IsFifo
    <3>3. kept' = (read \o InFlight) \o Append(Keys(element, f), key)
      <4>1. PICK r \in Seq(Char), g \in Seq(Char), s \in Seq(Char) :
                   r = read /\ g = InFlight /\ s = Keys(element, f)
        BY <1>28, <2>1
      <4>2. (r \o g) \o Append(s, key) = Append((r \o g) \o s, key)
        BY ConcatAppend, SMTT(30)
      <4> QED
        BY <3>1, <3>2, <4>1, <4>2
    <3> QED
      BY <1>11, <1>26, <1>28, <2>3, <3>3, HandlerKeeps DEF IsFifo
  <2> QED
    BY <2>2, <2>3
<1> QED
  BY <1>8, <1>16, <1>21, <1>29

\* The handler keeps the list, whatever the reader is doing.
LEMMA HandlerKeepsQueue ==
  ASSUME TypeOK, LineInv, QueueInv, NEW key \in Char, KeyboardHandler(key)
  PROVE  QueueInv'
<1>1. PICK c \in Path : IsList(c) /\ IsReading(c) /\ IsFifo(c)
  BY DEF QueueInv
<1>2. /\ c \in Seq(Node) /\ Len(c) \in Nat /\ \A k \in 1 .. Len(c) : c[k] \in Node /\ c[k] \in alloc
      /\ c = <<>> <=> Len(c) = 0
  BY <1>1, PathIsSeq, EmptySeq DEF IsList
<1>3. first = Null <=> c = <<>>
  BY <1>1, <1>2, NullIsNoNode DEF IsList, ListFrom
<1>4. alloc \subseteq Node /\ Null \notin Node /\ last \in Node \cup {Null}
  BY NullIsNoNode DEF TypeOK
<1>5. next \in [Node \cup {Null} -> Node \cup {Null}]
  BY DEF TypeOK
<1>6. pc = "delete" => p \in alloc
  BY <1>1 DEF IsReading
<1>7. PICK n : n = FreeNode
  OBVIOUS
<1>8. /\ first = Null => first' = n /\ last' = n /\ next' = [next EXCEPT ![n] = Null]
      /\ first # Null => /\ next' = [next EXCEPT ![n] = Null, ![last] = n]
                         /\ last' = next'[last] /\ first' = first
      /\ kept' = IF Linkable(n) THEN Append(kept, key) ELSE kept
  BY <1>7 DEF KeyboardHandler, Linked
<1>9. alloc' = alloc \cup ({n} \ {Null})
  BY <1>7 DEF KeyboardHandler
<1>10. CASE n = Null
  <2>1. kept' = kept
    BY <1>8, <1>10 DEF Linkable
  <2>2. first' = first /\ last' = Null
    <3>1. CASE first = Null
      BY <1>8, <1>10, <3>1
    <3>2. CASE first # Null
      BY <1>4, <1>5, <1>8, <1>10, <3>2
    <3> QED
      BY <3>1, <3>2
  <2>3. \A k \in 1 .. Len(c) : next'[c[k]] = next[c[k]]
    <3>1. ASSUME NEW k \in 1 .. Len(c)
          PROVE  next'[c[k]] = next[c[k]]
      <4>1. first # Null /\ c[k] # Null /\ c[k] \in Node
        BY <1>2, <1>3, <1>4
      <4>2. c[k] = last => next[c[k]] = Null
        BY <1>1, <1>2 DEF IsList, ListFrom
      <4> QED
        BY <1>4, <1>5, <1>8, <1>10, <4>1, <4>2
    <3> QED
      BY <3>1
  <2>4. \A k \in 1 .. Len(c) : c[k] # FreeNode /\ c[k] # last'
    BY <1>2, <1>4, <1>7, <1>10, <2>2
  <2>5. pc = "delete" => last' # p
    BY <1>4, <1>6, <2>2
  <2>6. IsList(c)' /\ IsReading(c)' /\ IsFifo(c)'
    BY <1>1, <2>1, <2>2, <2>3, <2>4, <2>5, LostKeyKeepsList
  <2> QED
    BY <2>6 DEF QueueInv
<1>11. CASE n # Null /\ first = Null
  <2>1. FreeNode \in Node \ alloc
    BY <1>4, <1>7, <1>11, FreeNodeIsFree
  <2> QED
    BY <1>1, <1>11, <2>1, FirstKeyMakesList DEF QueueInv
<1>12. CASE n # Null /\ first # Null /\ last = c[Len(c)]
  <2>1. FreeNode \in Node \ alloc
    BY <1>4, <1>7, <1>12, FreeNodeIsFree
  <2> QED
    BY <1>1, <1>3, <1>12, <2>1, NextKeyExtendsList DEF QueueInv
<1>13. CASE n # Null /\ first # Null /\ last # c[Len(c)]
  <2>1. n \in Node \ alloc
    BY <1>4, <1>7, <1>13, FreeNodeIsFree
  <2>2. \A k \in 1 .. Len(c) : c[k] # last /\ c[k] # n
    BY <1>1, <1>2, <1>13, <2>1 DEF IsList
  <2>3. first' = first /\ last' = n
    BY <1>4, <1>5, <1>8, <1>13, <2>1
  <2>4. \A k \in 1 .. Len(c) : next'[c[k]] = next[c[k]]
    BY <1>2, <1>5, <1>8, <1>13, <2>2
  <2>5. ~Linkable(n)
    <3>1. \A k \in 1 .. Len(FrontOf(c)) : \E j \in 1 .. Len(c) : FrontOf(c)[k] = c[j]
      BY <1>1, FrontIsList
    <3>2. Chain(Front) = FrontOf(c)
      BY <1>1, Chains
    <3> QED
      BY <1>13, <2>2, <3>1, <3>2 DEF Linkable
  <2>6. kept' = kept /\ last' \in alloc' \cup {Null} /\ (pc = "delete" => last' # p)
    BY <1>6, <1>8, <1>9, <1>13, <2>1, <2>3, <2>5
  <2>7. \A k \in 1 .. Len(c) : c[k] # FreeNode /\ c[k] # last'
    BY <1>7, <2>2, <2>3
  <2>8. IsList(c)' /\ IsReading(c)' /\ IsFifo(c)'
    BY <1>1, <2>3, <2>4, <2>6, <2>7, LostKeyKeepsList
  <2> QED
    BY <2>8 DEF QueueInv
<1> QED
  BY <1>10, <1>11, <1>12, <1>13

\* The handler does not touch the reader's line, and keeps the types.
LEMMA HandlerKeepsLine ==
  ASSUME TypeOK, LineInv, NEW key \in Char, KeyboardHandler(key)
  PROVE  TypeOK' /\ LineInv'
<1> USE DEF KeyboardHandler, localVars, lineVars
<1>1. PICK n \in Node \cup {Null} : n = FreeNode
  BY FreeNodeIsFree DEF TypeOK
<1>2. LineInv'
  BY HandlerKeeps DEF LineInv
<1>3. element' \in [Node \cup {Null} -> Char \cup {Nul}]
  BY <1>1 DEF TypeOK
<1>4. next' \in [Node \cup {Null} -> Node \cup {Null}] /\ {first', last'} \subseteq Node \cup {Null}
  <2>1. {first, last, n, Null} \subseteq Node \cup {Null} /\ next \in [Node \cup {Null} -> Node \cup {Null}]
    BY DEF TypeOK
  <2>2. CASE first = Null
    BY <1>1, <2>1, <2>2 DEF Linked
  <2>3. CASE first # Null
    <3>1. next' = [next EXCEPT ![n] = Null, ![last] = n] /\ last' = next'[last] /\ first' = first
      BY <1>1, <2>3 DEF Linked
    <3>2. next' \in [Node \cup {Null} -> Node \cup {Null}]
      BY <2>1, <3>1
    <3> QED
      BY <2>1, <3>1, <3>2
  <2> QED
    BY <2>2, <2>3
<1>5. alloc' \subseteq Node
  BY <1>1 DEF TypeOK
<1>6. typed' \in Seq(Char) /\ kept' \in Seq(Char) /\ read' \in Seq(Char)
  <2>1. typed \in Seq(Char) /\ kept \in Seq(Char) /\ read \in Seq(Char)
    BY DEF TypeOK
  <2>2. Append(typed, key) \in Seq(Char) /\ Append(kept, key) \in Seq(Char)
    BY <2>1
  <2> QED
    BY <2>1, <2>2
<1>7. pc' \in {"lock", "check", "hlt", "halted", "load", "next", "store", "delete",
               "unlock", "edit", "return"}
  BY DEF Wake, TypeOK
<1> QED
  BY <1>2, <1>3, <1>4, <1>5, <1>6, <1>7 DEF TypeOK

-----------------------------------------------------------------------------
(* The reader.                                                             *)

\* Outside of dequeue the reader leaves the list alone (kio.cpp:4-51).
LEMMA PauseKeepsQueue ==
  ASSUME TypeOK, QueueInv, UNCHANGED <<queueVars, kept, read>>,
         pc \notin {"next", "store", "delete", "unlock"},
         pc' \notin {"next", "store", "delete", "unlock"},
         pc' = "load" => first # Null
  PROVE  QueueInv'
<1>1. PICK c \in Path : IsList(c) /\ IsReading(c) /\ IsFifo(c)
  BY DEF QueueInv
<1>2. first' = first /\ last' = last /\ element' = element /\ next' = next /\ alloc' = alloc
  BY DEF queueVars
<1>3. c = <<>> => first = Null
  BY <1>1 DEF IsList, ListFrom
<1>4. IsList(c)'
  BY <1>1, <1>2 DEF IsList
<1>5. IsReading(c)'
  BY <1>3 DEF IsReading
<1>6. FrontOf(c)' = c /\ FrontOf(c) = c /\ InFlight' = InFlight
  BY DEF FrontOf, InFlight
<1>7. IsFifo(c)'
  BY <1>1, <1>2, <1>6 DEF IsFifo
<1> QED
  BY <1>4, <1>5, <1>7 DEF QueueInv

\* T x = p->element (queue.hpp:66-75).
LEMMA LoadKeepsQueue ==
  ASSUME TypeOK, QueueInv, DequeueLoad
  PROVE  QueueInv' /\ x' \in Char
<1> USE DEF DequeueLoad, Step, queueVars
<1>1. PICK c \in Path : IsList(c) /\ IsReading(c) /\ IsFifo(c)
  BY DEF QueueInv
<1>2. c # <<>> /\ pc = "load" /\ pc' = "next"
  BY <1>1 DEF IsReading
<1>3. c[1] = first /\ 1 \in 1 .. Len(c)
  BY <1>1, <1>2, PathIsSeq, EmptySeq DEF IsList, ListFrom
<1>4. element[first] \in Char
  BY <1>1, <1>3 DEF IsList
<1>5. IsList(c)'
  BY <1>1 DEF IsList
<1>6. IsReading(c)'
  BY <1>2 DEF IsReading
<1>7. FrontOf(c)' = c /\ FrontOf(c) = c /\ InFlight' = InFlight
  BY <1>2 DEF FrontOf, InFlight
<1>8. IsFifo(c)'
  BY <1>1, <1>7 DEF IsFifo
<1> QED
  BY <1>4, <1>5, <1>6, <1>8 DEF QueueInv

\* first->next is read: from now on the list begins there (queue.hpp:76).
LEMMA NextKeepsQueue ==
  ASSUME TypeOK, LineInv, QueueInv, DequeueNext
  PROVE  QueueInv'
<1> USE DEF DequeueNext, Step, queueVars
<1>1. PICK c \in Path : IsList(c) /\ IsReading(c) /\ IsFifo(c)
  BY DEF QueueInv
<1>2. c # <<>> /\ pc = "next" /\ pc' = "store" /\ x = element[first] /\ x \in Char /\ x' = x
  BY <1>1 DEF IsReading, LineInv
<1>3. c \in Seq(Node) /\ Len(c) \in Nat
  BY PathIsSeq
<1>4. /\ Len(Tail(c)) = Len(c) - 1 /\ Tail(c) \in Path
      /\ \A k \in 1 .. Len(Tail(c)) : k + 1 \in 1 .. Len(c) /\ Tail(c)[k] = c[k + 1]
      /\ c[1] = first /\ (Tail(c) = <<>> <=> next[first] = Null)
  BY <1>1, <1>2, ListShrinks DEF IsList
<1>5. t' = IF 1 < Len(c) THEN c[2] ELSE Null
  <2>1. \A k \in 1 .. Len(c) : next[c[k]] = IF k < Len(c) THEN c[k + 1] ELSE Null
    BY <1>1 DEF IsList, ListFrom
  <2>2. 1 \in 1 .. Len(c) /\ 1 + 1 = 2
    BY <1>2, <1>3, EmptySeq
  <2>3. next[c[1]] = IF 1 < Len(c) THEN c[2] ELSE Null
    BY <2>1, <2>2
  <2> QED
    BY <1>4, <2>3
<1>6. IsList(c)'
  BY <1>1 DEF IsList
<1>7. IsReading(c)'
  BY <1>1, <1>2, <1>5 DEF IsReading
<1>8. FrontOf(c)' = Tail(c)
  BY <1>2, <1>4 DEF FrontOf
<1>9. /\ Keys(element, Tail(c)) \in Seq(Char)
      /\ Keys(element, c) = <<element[c[1]]>> \o Keys(element, Tail(c))
  <2>1. \A k \in 1 .. Len(c) : element[c[k]] \in Char
    BY <1>1 DEF IsList
  <2>2. PICK e : e = element
    OBVIOUS
  <2>3. \A k \in 1 .. Len(c) : e[c[k]] \in Char
    BY <2>1, <2>2
  <2>4. /\ Keys(e, Tail(c)) \in Seq(Char)
        /\ Keys(e, c) = <<e[c[1]]>> \o Keys(e, Tail(c))
    BY <1>2, <1>3, <2>3, KeysOfTail
  <2> QED
    BY <2>2, <2>4
<1>10. kept = (read \o <<>>) \o (<<x>> \o Keys(element, Tail(c)))
  <2>1. FrontOf(c) = c /\ InFlight = <<>> /\ element[c[1]] = x
    BY <1>2, <1>4 DEF FrontOf, InFlight
  <2> QED
    BY <1>1, <1>9, <2>1 DEF IsFifo
<1>11. kept = (read \o <<x>>) \o Keys(element, Tail(c))
  <2>1. PICK r \in Seq(Char), s \in Seq(Char), e \in Char :
               r = read /\ s = Keys(element, Tail(c)) /\ e = x
    BY <1>2, <1>9, FlightIsKey
  <2>2. (r \o <<>>) \o (<<e>> \o s) = (r \o <<e>>) \o s
    BY ConcatShift
  <2> QED
    BY <1>10, <2>1, <2>2
<1>12. IsFifo(c)'
  BY <1>2, <1>8, <1>11 DEF IsFifo, InFlight
<1> QED
  BY <1>6, <1>7, <1>12 DEF QueueInv

\* first = first->next (queue.hpp:76).
LEMMA StoreKeepsQueue ==
  ASSUME TypeOK, LineInv, QueueInv, DequeueStore
  PROVE  QueueInv'
<1> USE DEF DequeueStore, Step, localVars
<1>1. PICK c \in Path : IsList(c) /\ IsReading(c) /\ IsFifo(c)
  BY DEF QueueInv
<1>2. c # <<>> /\ pc = "store" /\ pc' = "delete" /\ p = first
  BY <1>1 DEF IsReading
<1>3. c \in Seq(Node) /\ Len(c) \in Nat \ {0}
  BY <1>2, PathIsSeq, EmptySeq
<1>4. PICK d \in Path : /\ d = FrontOf(c) /\ ListFrom(next, Front, d)
                        /\ \A k \in 1 .. Len(d) : \E j \in 1 .. Len(c) : d[k] = c[j]
  BY <1>1, FrontIsList
<1>5. Front = t /\ c[1] = first
  BY <1>1, <1>2 DEF Front, IsList, ListFrom
<1>6. p \in alloc
  BY <1>1, <1>2, <1>3, <1>5 DEF IsList
<1>7. CASE t = Null
  <2>1. d = <<>> /\ Len(d) = 0
    BY <1>2, <1>4, <1>7 DEF FrontOf
  <2>2. IsList(d)'
    BY <1>4, <1>5, <2>1 DEF IsList
  <2>3. IsReading(d)'
    BY <1>2, <1>6, <2>1 DEF IsReading
  <2>4. FrontOf(d)' = FrontOf(c) /\ InFlight' = InFlight
    BY <1>2, <1>4 DEF FrontOf, InFlight
  <2>5. IsFifo(d)'
    BY <1>1, <2>4 DEF IsFifo
  <2> QED
    BY <2>2, <2>3, <2>5 DEF QueueInv
<1>8. CASE t # Null
  <2>1. d = Tail(c) /\ Len(c) > 1
    BY <1>1, <1>2, <1>4, <1>8 DEF FrontOf, IsReading
  <2>2. Len(d) = Len(c) - 1 /\ \A k \in 1 .. Len(d) : k + 1 \in 1 .. Len(c) /\ d[k] = c[k + 1]
    BY <1>1, <1>2, <2>1, ListShrinks DEF IsList
  <2>3. \A j, k \in 1 .. Len(d) : d[j] = d[k] => j = k
    <3>1. ASSUME NEW j \in 1 .. Len(d), NEW k \in 1 .. Len(d), d[j] = d[k]
          PROVE  j = k
      <4>1. j + 1 \in 1 .. Len(c) /\ k + 1 \in 1 .. Len(c) /\ c[j + 1] = c[k + 1]
        BY <2>2, <3>1
      <4>2. j + 1 = k + 1
        BY <1>1, <4>1 DEF IsList
      <4> QED
        BY <1>3, <2>2, <4>2
    <3> QED
      BY <3>1
  <2>4. \A k \in 1 .. Len(d) : d[k] = last => k = Len(d)
    <3>1. ASSUME NEW k \in 1 .. Len(d), d[k] = last
          PROVE  k = Len(d)
      <4>1. k + 1 = Len(c)
        BY <1>1, <2>2, <3>1 DEF IsList
      <4> QED
        BY <1>3, <2>2, <4>1
    <3> QED
      BY <3>1
  <2>5. \A k \in 1 .. Len(d) : d[k] \in alloc /\ element[d[k]] \in Char
    BY <1>1, <1>4 DEF IsList
  <2>6. IsList(d)'
    <3>1. last \in alloc \cup {Null}
      BY <1>1, <1>2 DEF IsList
    <3> QED
      BY <1>4, <1>5, <2>3, <2>4, <2>5, <3>1 DEF IsList
  <2>7. \A k \in 1 .. Len(d) : d[k] # p
    <3>1. ASSUME NEW k \in 1 .. Len(d), d[k] = p
          PROVE  FALSE
      <4>1. k + 1 \in 1 .. Len(c) /\ 1 \in 1 .. Len(c) /\ c[k + 1] = c[1]
        BY <1>2, <1>3, <1>5, <2>2, <3>1
      <4>2. k + 1 = 1
        BY <1>1, <4>1 DEF IsList
      <4> QED
        BY <1>3, <2>2, <4>2
    <3> QED
      BY <3>1
  <2>8. last # p
    <3>1. \A k \in 1 .. Len(c) : c[k] = last => k = Len(c)
      BY <1>1 DEF IsList
    <3>2. 1 \in 1 .. Len(c) /\ Len(c) # 1
      BY <1>3, <2>1
    <3>3. c[1] # last
      BY <3>1, <3>2
    <3> QED
      BY <1>2, <1>5, <3>3
  <2>9. IsReading(d)'
    BY <1>2, <1>6, <2>7, <2>8 DEF IsReading
  <2>10. FrontOf(d)' = FrontOf(c) /\ InFlight' = InFlight
    BY <1>2, <1>4 DEF FrontOf, InFlight
  <2>11. IsFifo(d)'
    BY <1>1, <2>10 DEF IsFifo
  <2> QED
    BY <2>6, <2>9, <2>11 DEF QueueInv
<1> QED
  BY <1>7, <1>8

\* delete p: the node is in no list any more (queue.hpp:78-84).
LEMMA DeleteKeepsQueue ==
  ASSUME TypeOK, QueueInv, DequeueDelete
  PROVE  QueueInv'
<1> USE DEF DequeueDelete, Step, localVars
<1>1. PICK c \in Path : IsList(c) /\ IsReading(c) /\ IsFifo(c)
  BY DEF QueueInv
<1>2. /\ pc = "delete" /\ pc' = "unlock" /\ (c # <<>> => last # p)
      /\ \A k \in 1 .. Len(c) : c[k] # p
  BY <1>1 DEF IsReading
<1>3. IsList(c)'
  BY <1>1, <1>2 DEF IsList
<1>4. IsReading(c)'
  BY <1>2 DEF IsReading
<1>5. FrontOf(c)' = FrontOf(c) /\ InFlight' = InFlight
  BY <1>2 DEF FrontOf, InFlight
<1>6. IsFifo(c)'
  BY <1>1, <1>5 DEF IsFifo
<1> QED
  BY <1>3, <1>4, <1>6 DEF QueueInv

\* UnlockInputBuffer, and GetChar returns (kio.cpp:16-19).
LEMMA UnlockKeepsQueue ==
  ASSUME TypeOK, LineInv, QueueInv, UnlockInputBuffer
  PROVE  QueueInv'
<1> USE DEF UnlockInputBuffer, Step, localVars, queueVars
<1>1. PICK c \in Path : IsList(c) /\ IsReading(c) /\ IsFifo(c)
  BY DEF QueueInv
<1>2. pc = "unlock" /\ pc' = "edit" /\ x \in Char /\ read' = Append(read, x)
  BY DEF LineInv
<1>3. IsList(c)'
  BY <1>1 DEF IsList
<1>4. IsReading(c)'
  BY <1>2 DEF IsReading
<1>5. FrontOf(c)' = FrontOf(c) /\ InFlight = <<x>> /\ InFlight' = <<>>
  BY <1>2 DEF FrontOf, InFlight
<1>6. kept = (read \o <<x>>) \o Keys(element, FrontOf(c))
  BY <1>1, <1>5 DEF IsFifo
<1>7. kept = (Append(read, x) \o <<>>) \o Keys(element, FrontOf(c))
  <2>1. PICK r \in Seq(Char), s \in Seq(Char), e \in Char :
               r = read /\ s = Keys(element, FrontOf(c)) /\ e = x
    BY <1>1, <1>2, FlightIsKey, FrontHasKeys
  <2>2. (Append(r, e) \o <<>>) \o s = (r \o <<e>>) \o s
    BY ConcatShift
  <2> QED
    BY <1>6, <2>1, <2>2
<1>8. IsFifo(c)'
  BY <1>2, <1>5, <1>7 DEF IsFifo
<1> QED
  BY <1>3, <1>4, <1>8 DEF QueueInv

Prefix(b, j) == [k \in 1 .. j |-> b[k]]

\* The line before i.
LEMMA LineLength ==
  ASSUME NEW S, NEW b, NEW j \in Nat, NEW e \in Seq(S), e = Prefix(b, j)
  PROVE  Len(e) = j /\ (e = <<>> <=> j = 0) /\ \A k \in 1 .. j : e[k] = b[k] /\ e[k] \in S
<1>0. e = [k \in 1 .. j |-> b[k]]
  BY DEF Prefix
<1>1. Len(e) = j
  <2>1. DOMAIN e = 1 .. j /\ DOMAIN e = 1 .. Len(e) /\ Len(e) \in Nat
    BY <1>0, LenProperties
  <2> QED
    BY <2>1
<1>2. e = <<>> <=> j = 0
  BY <1>1, EmptySeq
<1>3. \A k \in 1 .. j : e[k] = b[k] /\ e[k] \in S
  BY <1>0, <1>1, ElementOfSeq
<1> QED
  BY <1>1, <1>2, <1>3

\* A backspace takes its last character.
LEMMA LineShorter ==
  ASSUME NEW S, NEW b, NEW j \in Nat, NEW e \in Seq(S), e = Prefix(b, j), j > 0
  PROVE  SubSeq(e, 1, Len(e) - 1) \in Seq(S) /\ SubSeq(e, 1, Len(e) - 1) = Prefix(b, j - 1)
<1>1. Len(e) = j /\ \A k \in 1 .. j : e[k] = b[k] /\ e[k] \in S
  BY LineLength
<1>2. j - 1 \in Nat /\ \A k \in 1 .. j - 1 : k \in 1 .. j
  OBVIOUS
<1>3. /\ SubSeq(e, 1, j - 1) \in Seq(S) /\ Len(SubSeq(e, 1, j - 1)) = j - 1
      /\ \A k \in 1 .. j - 1 : SubSeq(e, 1, j - 1)[k] = e[k]
  BY <1>1, <1>2
<1>4. PICK s \in Seq(S) : s = SubSeq(e, 1, j - 1)
  BY <1>3
<1>5. DOMAIN s = 1 .. j - 1 /\ s = [k \in DOMAIN s |-> s[k]]
  BY <1>3, <1>4
<1>6. \A k \in 1 .. j - 1 : s[k] = b[k]
  BY <1>1, <1>2, <1>3, <1>4
<1>7. s = [k \in 1 .. j - 1 |-> b[k]]
  BY <1>5, <1>6
<1> QED
  BY <1>1, <1>4, <1>7 DEF Prefix

\* Another character follows it.
LEMMA LineLonger ==
  ASSUME NEW S, NEW b, NEW j \in Nat, NEW e \in Seq(S), e = Prefix(b, j),
         NEW d, NEW c \in S, d[j + 1] = c, Prefix(d, j) = Prefix(b, j)
  PROVE  Append(e, c) \in Seq(S) /\ Append(e, c) = Prefix(d, j + 1)
<1>1. Len(e) = j /\ \A k \in 1 .. j : e[k] = d[k] /\ e[k] \in S
  BY LineLength
<1>2. PICK s \in Seq(S) : s = Append(e, c)
  BY AppendProperties
<1>3. Len(s) = j + 1 /\ s[j + 1] = c /\ \A k \in 1 .. j : s[k] = e[k]
  BY <1>1, <1>2
<1>4. DOMAIN s = 1 .. j + 1 /\ s = [k \in DOMAIN s |-> s[k]]
  BY <1>3
<1>5. \A k \in 1 .. j + 1 : k = j + 1 \/ k \in 1 .. j
  OBVIOUS
<1>6. \A k \in 1 .. j + 1 : s[k] = d[k]
  BY <1>1, <1>3, <1>5
<1>7. s = [k \in 1 .. j + 1 |-> d[k]]
  BY <1>4, <1>6
<1> QED
  BY <1>2, <1>7 DEF Prefix

\* GetString's switch on a character keeps the line (kio.cpp:22-51).
LEMMA GetStringKeepsLine ==
  ASSUME TypeOK, LineInv, GetString
  PROVE  TypeOK' /\ LineInv'
<1> USE DEF Step, lineVars, localVars, queueVars
<1>1. /\ MaxLen \in Nat \ {0} /\ i \in 0 .. MaxLen /\ i < MaxLen /\ pc = "edit" /\ x \in Char
      /\ edited \in Seq(Letter) /\ buffer \in [1 .. MaxLen -> Letter \cup {Nul}]
      /\ edited = [k \in 1 .. i |-> buffer[k]]
  BY InputBufferAssumption DEF GetString, TypeOK, LineInv
<1>2. i \in Nat /\ i + 1 \in 1 .. MaxLen
  BY <1>1
<1>3. PICK j \in Nat, e \in Seq(Letter), b \in [1 .. MaxLen -> Letter \cup {Nul}] :
             j = i /\ b = buffer /\ e = edited
  BY <1>1, <1>2
<1>4. e = Prefix(b, j)
  BY <1>1, <1>3 DEF Prefix
<1>5. /\ Len(e) = j /\ (e = <<>> <=> j = 0)
      /\ j > 0 => /\ SubSeq(e, 1, Len(e) - 1) \in Seq(Letter)
                  /\ SubSeq(e, 1, Len(e) - 1) = Prefix(b, j - 1)
  <2>1. Len(e) = j /\ (e = <<>> <=> j = 0)
    BY <1>4, LineLength
  <2>2. j > 0 => /\ SubSeq(e, 1, Len(e) - 1) \in Seq(Letter)
                 /\ SubSeq(e, 1, Len(e) - 1) = Prefix(b, j - 1)
    BY <1>4, LineShorter
  <2> QED
    BY <2>1, <2>2
<1>6. /\ first' = first /\ last' = last /\ p' = p /\ t' = t /\ element' = element /\ next' = next
      /\ alloc' = alloc /\ lock' = lock /\ x' = x /\ typed' = typed /\ kept' = kept /\ read' = read
  BY DEF GetString
<1>7. CASE pc' = "return" /\ UNCHANGED lineVars
  <2>1. pc' = "return" /\ buffer' = buffer /\ i' = i /\ edited' = edited
    BY <1>7
  <2>2. LineInv'
    BY <1>1, <2>1 DEF LineInv
  <2> QED
    BY <1>6, <2>1, <2>2 DEF TypeOK
<1>8. CASE /\ x = Backspace /\ pc' = "lock" /\ buffer' = buffer /\ i' = Backed(i)
           /\ edited' = IF edited # <<>> THEN SubSeq(edited, 1, Len(edited) - 1) ELSE edited
  <2>1. /\ pc' = "lock" /\ buffer' = buffer /\ i' = Backed(i)
        /\ edited' = IF edited # <<>> THEN SubSeq(edited, 1, Len(edited) - 1) ELSE edited
    BY <1>8
  <2>2. CASE i > 0
    <3>1. i' = i - 1 /\ edited' = SubSeq(e, 1, Len(e) - 1)
      BY <1>2, <1>3, <1>5, <2>1, <2>2 DEF Backed
    <3>2. edited' \in Seq(Letter) /\ edited' = [k \in 1 .. i - 1 |-> buffer[k]]
      BY <1>3, <1>5, <2>2, <3>1 DEF Prefix
    <3>3. i' \in 0 .. MaxLen /\ i' < MaxLen
      BY <1>1, <2>2, <3>1
    <3>4. LineInv'
      BY <2>1, <3>1, <3>2, <3>3 DEF LineInv
    <3> QED
      BY <1>6, <2>1, <3>2, <3>3, <3>4 DEF TypeOK
  <2>3. CASE i = 0
    <3>1. i' = i /\ edited' = edited
      BY <1>3, <1>5, <2>1, <2>3 DEF Backed
    <3>2. LineInv'
      BY <1>1, <2>1, <3>1 DEF LineInv
    <3> QED
      BY <1>6, <2>1, <3>1, <3>2 DEF TypeOK
  <2> QED
    BY <1>2, <2>2, <2>3
<1>9. CASE x \notin {Newline, Backspace}
  <2>1. /\ pc' = (IF MoreFits(i + 1) THEN "lock" ELSE "return") /\ i' = i + 1
        /\ buffer' = [buffer EXCEPT ![i + 1] = x] /\ edited' = Append(edited, x)
    BY <1>9 DEF GetString
  <2>2. x \in Letter
    BY <1>1, <1>9 DEF Char
  <2>3. buffer' \in [1 .. MaxLen -> Letter \cup {Nul}]
    BY <1>1, <2>1, <2>2
  <2>4. PICK d, c : d = buffer' /\ c = x
    OBVIOUS
  <2>5. d[j + 1] = c
    BY <1>1, <1>2, <1>3, <2>1, <2>4
  <2>6. Prefix(d, j) = Prefix(b, j)
    <3>1. \A k \in 1 .. j : k \in 1 .. MaxLen /\ k # i + 1
      BY <1>1, <1>3
    <3>2. \A k \in 1 .. j : d[k] = b[k]
      BY <1>1, <1>3, <2>1, <2>4, <3>1
    <3> QED
      BY <3>2 DEF Prefix
  <2>7. Append(e, c) \in Seq(Letter) /\ Append(e, c) = Prefix(d, j + 1)
    BY <1>4, <2>2, <2>4, <2>5, <2>6, LineLonger
  <2>8. edited' \in Seq(Letter) /\ edited' = [k \in 1 .. i + 1 |-> buffer'[k]]
    BY <1>3, <2>1, <2>4, <2>7 DEF Prefix
  <2>9. i' \in 0 .. MaxLen /\ (pc' # "return" => i' < MaxLen) /\ pc' \in {"lock", "return"}
    BY <1>1, <2>1 DEF MoreFits
  <2>10. LineInv'
    BY <2>1, <2>8, <2>9 DEF LineInv
  <2> QED
    BY <1>6, <2>3, <2>8, <2>9, <2>10 DEF TypeOK
<1> QED
  BY <1>7, <1>8, <1>9 DEF GetString

\* The shell starts the next line with an empty buffer (kernel.cpp:64-69).
LEMMA NextLineKeepsLine ==
  ASSUME TypeOK, LineInv, NextLine
  PROVE  TypeOK' /\ LineInv'
<1> USE DEF NextLine, Step, localVars, queueVars
<1>1. MaxLen \in Nat \ {0}
  BY InputBufferAssumption
<1>2. buffer' \in [1 .. MaxLen -> Letter \cup {Nul}] /\ i' = 0 /\ edited' = <<>> /\ pc' = "lock"
  OBVIOUS
<1>3. edited' \in Seq(Letter) /\ edited' = [k \in 1 .. i' |-> buffer'[k]]
  <2>1. <<>> \in Seq(Letter)
    BY EmptySeq
  <2>2. [k \in 1 .. 0 |-> buffer'[k]] = <<>>
    OBVIOUS
  <2> QED
    BY <1>2, <2>1, <2>2
<1>4. LineInv'
  BY <1>1, <1>2, <1>3 DEF LineInv
<1> QED
  BY <1>1, <1>2, <1>3, <1>4 DEF TypeOK

\* GetChar and the tick do not touch the line (kio.cpp:4-20).
LEMMA GetCharKeepsLine ==
  ASSUME TypeOK, LineInv, QueueInv, GetChar \/ Tick
  PROVE  TypeOK' /\ LineInv'
<1> USE DEF Step, lineVars, localVars, queueVars
<1>1. CASE LockInputBuffer
  BY <1>1 DEF LockInputBuffer, TypeOK, LineInv
<1>2. CASE SpinOnLock
  BY <1>2 DEF SpinOnLock, vars, TypeOK, LineInv
<1>3. CASE CheckEmpty
  BY <1>3 DEF CheckEmpty, TypeOK, LineInv
<1>4. CASE Hlt
  BY <1>4 DEF Hlt, TypeOK, LineInv
<1>5. CASE DequeueLoad
  <2>1. x' \in Char
    BY <1>5, LoadKeepsQueue
  <2> QED
    BY <1>5, <2>1 DEF DequeueLoad, TypeOK, LineInv
<1>6. CASE DequeueNext
  <2>1. t' \in Node \cup {Null}
    BY <1>6 DEF DequeueNext, TypeOK
  <2> QED
    BY <1>6, <2>1 DEF DequeueNext, TypeOK, LineInv
<1>7. CASE DequeueStore
  BY <1>7 DEF DequeueStore, TypeOK, LineInv
<1>8. CASE DequeueDelete
  BY <1>8 DEF DequeueDelete, TypeOK, LineInv
<1>9. CASE UnlockInputBuffer
  <2>1. x \in Char /\ read \in Seq(Char) /\ read' = Append(read, x)
    BY <1>9 DEF UnlockInputBuffer, TypeOK, LineInv
  <2>2. read' \in Seq(Char)
    BY <2>1
  <2> QED
    BY <1>9, <2>1, <2>2 DEF UnlockInputBuffer, TypeOK, LineInv
<1>10. CASE Tick
  BY <1>10 DEF Tick, Wake, TypeOK, LineInv
<1> QED
  BY <1>1, <1>2, <1>3, <1>4, <1>5, <1>6, <1>7, <1>8, <1>9, <1>10 DEF GetChar

-----------------------------------------------------------------------------
(* The theorems.                                                           *)

\* The queue is empty when the process is created (queue.hpp:12-31).
LEMMA InvInit == Init => Inv
<1>1. SUFFICES ASSUME Init
               PROVE  Inv
  OBVIOUS
<1> USE DEF Init
<1>2. NumNodes \in Nat /\ MaxLen \in Nat \ {0} /\ UninitLock \subseteq {0, 1}
  BY InputBufferAssumption
<1>3. <<>> \in Seq(Char) /\ <<>> \in Seq(Letter) /\ Len(<<>>) = 0
  BY EmptySeq
<1>4. TypeOK
  BY <1>1, <1>2, <1>3 DEF TypeOK
<1>5. LineInv
  <2>1. [k \in 1 .. 0 |-> buffer[k]] = <<>>
    OBVIOUS
  <2> QED
    BY <1>1, <1>2, <2>1 DEF LineInv
<1>6. PICK c : c = <<>>
  OBVIOUS
<1>7. c \in Path /\ Len(c) = 0
  BY <1>3, <1>6, PathIsSeq
<1>8. IsList(c)
  BY <1>1, <1>6, <1>7 DEF IsList, ListFrom
<1>9. IsReading(c)
  BY <1>1 DEF IsReading
<1>10. IsFifo(c)
  <2>1. FrontOf(c) = c /\ InFlight = <<>> /\ read = <<>> /\ kept = <<>>
    BY <1>1 DEF FrontOf, InFlight
  <2>2. Keys(element, c) = <<>>
    BY <1>7 DEF Keys
  <2>3. <<>> \o <<>> = <<>>
    BY <1>3, ConcatEmptySeq
  <2> QED
    BY <2>1, <2>2, <2>3 DEF IsFifo
<1> QED
  BY <1>4, <1>5, <1>7, <1>8, <1>9, <1>10 DEF Inv, QueueInv

\* Every step of the reader, the tick and the handler keeps the invariant.
LEMMA InvStep ==
  ASSUME Inv, [Next]_vars
  PROVE  Inv'
<1> USE DEF Inv
<1>1. CASE \E key \in Char : KeyboardHandler(key)
  BY <1>1, HandlerKeepsQueue, HandlerKeepsLine
<1>2. CASE GetChar \/ Tick
  <2>1. TypeOK' /\ LineInv'
    BY <1>2, GetCharKeepsLine
  <2>2. CASE DequeueLoad \/ DequeueNext \/ DequeueStore \/ DequeueDelete \/ UnlockInputBuffer
    BY <2>1, <2>2, LoadKeepsQueue, NextKeepsQueue, StoreKeepsQueue, DeleteKeepsQueue, UnlockKeepsQueue
  <2>3. CASE LockInputBuffer \/ SpinOnLock \/ CheckEmpty \/ Hlt \/ Tick
    <3>1. /\ UNCHANGED <<queueVars, kept, read>>
          /\ pc \notin {"next", "store", "delete", "unlock"}
          /\ pc' \notin {"next", "store", "delete", "unlock"}
          /\ pc' = "load" => first # Null
      BY <2>3 DEF LockInputBuffer, SpinOnLock, CheckEmpty, Hlt, Tick, Wake, Step, vars, queueVars
    <3> QED
      BY <2>1, <3>1, PauseKeepsQueue
  <2> QED
    BY <1>2, <2>2, <2>3 DEF GetChar
<1>3. CASE GetString \/ NextLine
  <2>1. TypeOK' /\ LineInv'
    BY <1>3, GetStringKeepsLine, NextLineKeepsLine
  <2>2. /\ UNCHANGED <<queueVars, kept, read>>
        /\ pc \notin {"next", "store", "delete", "unlock"}
        /\ pc' \notin {"next", "store", "delete", "unlock"}
        /\ pc' = "load" => first # Null
    BY <1>3 DEF GetString, NextLine, Step, queueVars
  <2> QED
    BY <2>1, <2>2, PauseKeepsQueue
<1>4. CASE UNCHANGED vars
  <2> USE DEF vars, queueVars, localVars, lineVars
  <2>1. TypeOK'
    BY <1>4 DEF TypeOK
  <2>2. LineInv'
    BY <1>4 DEF LineInv
  <2>3. PICK c \in Path : IsList(c) /\ IsReading(c) /\ IsFifo(c)
    BY DEF QueueInv
  <2>4. IsList(c)'
    BY <1>4, <2>3 DEF IsList
  <2>5. IsReading(c)'
    BY <1>4, <2>3 DEF IsReading
  <2>6. FrontOf(c)' = FrontOf(c) /\ InFlight' = InFlight
    BY <1>4 DEF FrontOf, InFlight
  <2>7. IsFifo(c)'
    BY <1>4, <2>3, <2>6 DEF IsFifo
  <2> QED
    BY <2>1, <2>2, <2>4, <2>5, <2>7 DEF QueueInv
<1> QED
  BY <1>1, <1>2, <1>3, <1>4 DEF Next, Reader

(***************************************************************************)
(* No use after free: every node the reader or the handler may still       *)
(* follow is allocated, although the handler extends the list in the       *)
(* middle of a dequeue (queue.hpp:48-84), for every number of nodes.       *)
(***************************************************************************)
THEOREM NoUseAfterFree == Spec => []ListIsAllocated
<1>1. ASSUME Inv
      PROVE  ListIsAllocated
  <2>1. PICK c \in Path : IsList(c) /\ IsReading(c)
    BY <1>1 DEF Inv, QueueInv
  <2>2. Chain(first) = c /\ Chain(Front) = FrontOf(c)
    BY <1>1, <2>1, Chains DEF Inv
  <2>3. \A k \in 1 .. Len(FrontOf(c)) : FrontOf(c)[k] \in alloc
    BY <1>1, <2>1, FrontHasKeys DEF Inv
  <2>4. \A k \in 1 .. Len(c) : c[k] \in alloc
    BY <2>1 DEF IsList
  <2> QED
    BY <2>2, <2>3, <2>4 DEF ListIsAllocated
<1> QED
  BY <1>1, InvInit, InvStep, PTL DEF Spec

(***************************************************************************)
(* The keys that were linked are read in the order in which they were      *)
(* typed, none twice and none left out, wherever the handler interrupts    *)
(* dequeue (queue.hpp:48-84).                                              *)
(***************************************************************************)
THEOREM KeysAreFifo == Spec => []KeptKeysInOrder
<1>1. ASSUME Inv
      PROVE  KeptKeysInOrder
  <2>1. PICK c \in Path : IsList(c) /\ IsReading(c) /\ IsFifo(c)
    BY <1>1 DEF Inv, QueueInv
  <2>2. Chain(Front) = FrontOf(c)
    BY <1>1, <2>1, Chains DEF Inv
  <2> QED
    BY <2>1, <2>2 DEF KeptKeysInOrder, IsFifo, InFlight, Keys
<1> QED
  BY <1>1, InvInit, InvStep, PTL DEF Spec

(***************************************************************************)
(* GetString's buffer before i is the line as typed and corrected, and i   *)
(* stays in the buffer (kio.cpp:22-51), for every length of the buffer.    *)
(***************************************************************************)
THEOREM LineIsAsEdited == Spec => []EditedPrefix
<1>1. ASSUME Inv
      PROVE  EditedPrefix
  BY <1>1 DEF Inv, LineInv, EditedPrefix
<1> QED
  BY <1>1, InvInit, InvStep, PTL DEF Spec
=============================================================================
