------------------------ MODULE MemoryManagerProofs ------------------------
(***************************************************************************)
(* Proofs about the memory manager.  About FastBin, for every size of the  *)
(* bin and every number of lines: every chunk has one owner until a        *)
(* handler claims the chunk the shell has tested, and no chunk leaks even  *)
(* then.  About MemoryManager, for every size of the fast bin, all sizes   *)
(* that are requested and every number of calls: the list of big chunks    *)
(* stays one ascending chain that holds every block in use, and until all  *)
(* big chunks were free at once the blocks in use are disjoint.            *)
(***************************************************************************)
EXTENDS MemoryManager, FastBin, SequenceTheorems, FiniteSetTheorems, WellFoundedInduction, TLAPS

-----------------------------------------------------------------------------
(* FastBin: the inductive invariant.                                       *)

\* The chunks of a list of nodes, and that no two of them share one.
Chunks(s) == {s[n][2] : n \in 1 .. Len(s)}
Distinct(s) == \A j, k \in 1 .. Len(s) : s[j][2] = s[k][2] => j = k
StrChunks == {strs[n] : n \in 1 .. Len(strs)}

BufChunks == {cancelBuf} \ {NoChunk}

Owners == Chunks(runQ) \cup Chunks(keys) \cup StrChunks \cup BufChunks \cup kept

\* How many Strings the shell has at each of its steps (kernel.cpp:64-100).
ShellInv ==
  /\ pidSeq >= 3
  /\ pc = "read" => Len(strs) = 0
  /\ pc \in {"scan", "claim"} => Len(strs) = IF literal = "none" THEN 0 ELSE 1
  /\ pc = "compare" => Len(strs) = 2
  /\ pc \in {"command", "drop"} => Len(strs) = 1
  /\ pc = "claim" => scan \in Chunk

\* The owners of five kinds have no chunk in common.
Apart(R, K, S, B, T) ==
  /\ R \cap K = {} /\ R \cap S = {} /\ R \cap B = {} /\ R \cap T = {}
  /\ K \cap S = {} /\ K \cap B = {} /\ K \cap T = {}
  /\ S \cap B = {} /\ S \cap T = {}
  /\ B \cap T = {}

(***************************************************************************)
(* Until the race the table marks exactly the chunks in use, each owner    *)
(* has its own, and the chunk the shell is about to claim is still free.   *)
(***************************************************************************)
ExclusiveInv ==
  ~raced => /\ table = Owners
            /\ Distinct(runQ) /\ Distinct(keys) /\ (Len(strs) = 2 => strs[1] # strs[2])
            /\ Apart(Chunks(runQ), Chunks(keys), StrChunks, BufChunks, kept)
            /\ pc = "claim" => scan \notin table

Inv == FastBinTypeOK /\ ShellInv /\ table \subseteq Owners /\ ExclusiveInv

-----------------------------------------------------------------------------
(* Chunks and lists of nodes.                                              *)

\* __malloc_fastbin answers a free chunk, or NULL when there is none
\* (kmm.cpp:97-131).
LEMMA FirstFreeIsFree ==
  ASSUME NEW used
  PROVE  /\ FirstFree(used) \in Chunk \cup {NoChunk}
         /\ FirstFree(used) \in Chunk => FirstFree(used) \notin used
         /\ FirstFree(used) \notin Chunk => Chunk \subseteq used
<1>1. NoChunk \notin Chunk
  BY FastBinAssumption DEF NoChunk, Chunk
<1>2. CASE Chunk \subseteq used
  BY <1>1, <1>2 DEF FirstFree
<1>3. CASE ~(Chunk \subseteq used)
  <2> DEFINE T == Chunk \ used
  <2>1. T \subseteq Nat /\ T # {}
    BY <1>3, FastBinAssumption DEF Chunk
  <2>2. IsWellFoundedOn(OpToRel(<, Nat), Nat)
    BY NatLessThanWellFounded
  <2>3. PICK m \in T : \A n \in T : ~(<<n, m>> \in OpToRel(<, Nat))
    BY <2>1, <2>2, WFMin
  <2>4. \A n \in T : ~(n < m)
    BY <2>1, <2>3 DEF OpToRel
  <2>5. \E l \in T : \A n \in T : l <= n
    BY <2>1, <2>4
  <2>6. Min(T) \in T
    BY <2>5 DEF Min
  <2> QED
    BY <1>3, <2>6 DEF FirstFree
<1> QED
  BY <1>2, <1>3

Lists(A) == Seq(A \X Chunk)

\* The list with a node more, the first m nodes' chunks and the rest.
With(s, a, c) == Append(s, <<a, c>>)
FrontChunks(s, m) == {s[n][2] : n \in 1 .. m}
Rest(s, m) == SubSeq(s, m + 1, Len(s))

\* A node is added at the end.
LEMMA LongerList ==
  ASSUME NEW A, NEW s \in Lists(A), NEW a \in A, NEW c \in Chunk
  PROVE  /\ With(s, a, c) \in Lists(A)
         /\ Chunks(With(s, a, c)) = Chunks(s) \cup {c}
         /\ Distinct(s) /\ c \notin Chunks(s) => Distinct(With(s, a, c))
<1> USE DEF Lists
<1>1. PICK e \in A \X Chunk : e = <<a, c>> /\ e[2] = c
  <2>1. <<a, c>> \in A \X Chunk /\ <<a, c>>[2] = c
    OBVIOUS
  <2> QED
    BY <2>1
<1>2. PICK u \in Seq(A \X Chunk) : u = Append(s, e)
  BY AppendProperties
<1>3. /\ Len(s) \in Nat /\ Len(u) = Len(s) + 1 /\ u[Len(s) + 1] = e
      /\ \A n \in 1 .. Len(s) : u[n] = s[n]
  BY <1>2
<1>4. \A n \in 1 .. Len(u) : n = Len(s) + 1 \/ n \in 1 .. Len(s)
  BY <1>3
<1>5. Chunks(u) = Chunks(s) \cup {c}
  <2>1. ASSUME NEW d \in Chunks(u)
        PROVE  d \in Chunks(s) \cup {c}
    <3>1. PICK n \in 1 .. Len(u) : d = u[n][2]
      BY DEF Chunks
    <3>2. CASE n = Len(s) + 1
      BY <1>1, <1>3, <3>1, <3>2
    <3>3. CASE n \in 1 .. Len(s)
      BY <1>3, <3>1, <3>3 DEF Chunks
    <3> QED
      BY <1>4, <3>2, <3>3
  <2>2. \A n \in 1 .. Len(s) : n \in 1 .. Len(u)
    BY <1>3
  <2>3. Len(s) + 1 \in 1 .. Len(u)
    BY <1>3
  <2>4. c \in Chunks(u)
    BY <1>1, <1>3, <2>3 DEF Chunks
  <2>5. \A d : d \in Chunks(s) => d \in Chunks(u)
    BY <1>3, <2>2 DEF Chunks
  <2> QED
    BY <2>1, <2>4, <2>5
<1>6. ASSUME Distinct(s), c \notin Chunks(s)
      PROVE  Distinct(u)
  <2>1. \A n \in 1 .. Len(s) : s[n][2] # c
    BY <1>6 DEF Chunks
  <2>2. ASSUME NEW j \in 1 .. Len(u), NEW k \in 1 .. Len(u), u[j][2] = u[k][2]
        PROVE  j = k
    <3>1. CASE j \in 1 .. Len(s) /\ k \in 1 .. Len(s)
      BY <1>3, <1>6, <2>2, <3>1 DEF Distinct
    <3>2. CASE j = Len(s) + 1 /\ k \in 1 .. Len(s)
      BY <1>1, <1>3, <2>1, <2>2, <3>2
    <3>3. CASE k = Len(s) + 1 /\ j \in 1 .. Len(s)
      BY <1>1, <1>3, <2>1, <2>2, <3>3
    <3> QED
      BY <1>4, <3>1, <3>2, <3>3
  <2> QED
    BY <2>2 DEF Distinct
<1> QED
  BY <1>1, <1>2, <1>5, <1>6 DEF With

\* Nodes are taken off at the front.
LEMMA ShorterList ==
  ASSUME NEW A, NEW s \in Lists(A), NEW m \in 0 .. Len(s)
  PROVE  /\ Rest(s, m) \in Lists(A)
         /\ Chunks(s) = FrontChunks(s, m) \cup Chunks(Rest(s, m))
         /\ Distinct(s) => /\ Distinct(Rest(s, m))
                           /\ FrontChunks(s, m) \cap Chunks(Rest(s, m)) = {}
<1> USE DEF Lists
<1> DEFINE F == {s[n][2] : n \in 1 .. m}
<1>1. PICK l \in Nat : l = Len(s)
  OBVIOUS
<1>2. m \in Nat /\ m <= l
  BY <1>1
<1>3. \A n \in 1 .. l : s[n] \in A \X Chunk
  BY <1>1
<1>4. PICK u : u = SubSeq(s, m + 1, l)
  OBVIOUS
<1>5. u \in Seq(A \X Chunk) /\ Len(u) = l - m /\ \A n \in 1 .. l - m : u[n] = s[m + n]
  BY <1>1, <1>2, <1>3, <1>4
<1>6. \A n \in 1 .. l - m : m + n \in 1 .. l /\ m + n \notin 1 .. m
  BY <1>2
<1>7. \A n \in 1 .. l : n \in 1 .. m \/ (n - m \in 1 .. l - m /\ m + (n - m) = n)
  BY <1>2
<1>8. \A n \in 1 .. m : n \in 1 .. l
  BY <1>2
<1>9. Chunks(s) = F \cup Chunks(u)
  <2>1. ASSUME NEW d \in Chunks(s)
        PROVE  d \in F \cup Chunks(u)
    <3>1. PICK n \in 1 .. l : d = s[n][2]
      BY <1>1 DEF Chunks
    <3>2. CASE n \in 1 .. m
      BY <3>1, <3>2
    <3>3. CASE n \notin 1 .. m
      <4>1. n - m \in 1 .. l - m /\ u[n - m] = s[n]
        BY <1>5, <1>7, <3>3
      <4> QED
        BY <1>5, <3>1, <4>1 DEF Chunks
    <3> QED
      BY <3>2, <3>3
  <2>2. F \subseteq Chunks(s)
    BY <1>1, <1>8 DEF Chunks
  <2>3. ASSUME NEW d \in Chunks(u)
        PROVE  d \in Chunks(s)
    <3>1. PICK n \in 1 .. l - m : d = u[n][2]
      BY <1>5 DEF Chunks
    <3> QED
      BY <1>1, <1>5, <1>6, <3>1 DEF Chunks
  <2> QED
    BY <2>1, <2>2, <2>3
<1>10. ASSUME Distinct(s)
       PROVE  Distinct(u) /\ F \cap Chunks(u) = {}
  <2>1. ASSUME NEW j \in 1 .. Len(u), NEW k \in 1 .. Len(u), u[j][2] = u[k][2]
        PROVE  j = k
    <3>1. m + j \in 1 .. l /\ m + k \in 1 .. l /\ s[m + j][2] = s[m + k][2]
      BY <1>5, <1>6, <2>1
    <3>2. m + j = m + k
      BY <1>1, <1>10, <3>1 DEF Distinct
    <3> QED
      BY <1>2, <1>5, <3>2
  <2>2. ASSUME NEW d \in F, d \in Chunks(u)
        PROVE  FALSE
    <3>1. PICK j \in 1 .. m : d = s[j][2]
      OBVIOUS
    <3>2. PICK k \in 1 .. l - m : d = u[k][2]
      BY <1>5, <2>2 DEF Chunks
    <3>3. j \in 1 .. l /\ m + k \in 1 .. l /\ s[j][2] = s[m + k][2]
      BY <1>5, <1>6, <1>8, <3>1, <3>2
    <3>4. j = m + k
      BY <1>1, <1>10, <3>3 DEF Distinct
    <3> QED
      BY <1>6, <3>4
  <2> QED
    BY <2>1, <2>2 DEF Distinct
<1> QED
  BY <1>1, <1>4, <1>5, <1>9, <1>10 DEF Rest, FrontChunks

-----------------------------------------------------------------------------
(* The handlers.                                                           *)

\* The tick frees nodes of the run queue and makes one anew
\* (schedualer.cpp:35-57).
LEMMA TickInv ==
  ASSUME Inv, Tick
  PROVE  Inv'
<1> USE DEF Inv
<1>1. /\ runQ \in Seq(Nat \X Chunk) /\ table \subseteq Chunk /\ cpu \in Nat /\ raced \in BOOLEAN
      /\ pc \in {"read", "scan", "claim", "compare", "command", "drop"}
  BY DEF FastBinTypeOK
<1>2. PICK k \in 0 .. Len(runQ) - 1 :
        LET left == table \ {runQ[n][2] : n \in 1 .. k + 1}
            c == FirstFree(left)
        IN  /\ table' = left \cup {c}
            /\ runQ' = Append(SubSeq(runQ, k + 2, Len(runQ)), <<runQ[k + 1][1], c>>)
            /\ cpu' = runQ[k + 1][1] /\ current' = cpu'
            /\ HandlerClaims(c)
  BY DEF Tick
<1>3. PICK F : F = {runQ[n][2] : n \in 1 .. k + 1}
  OBVIOUS
<1>4. PICK c : c = FirstFree(table \ F)
  OBVIOUS
<1>5. Len(runQ) \in Nat /\ k \in Nat /\ k + 1 \in 1 .. Len(runQ) /\ k + 1 \in 0 .. Len(runQ) /\ k + 2 = (k + 1) + 1
  BY <1>1
<1>6. PICK U : U = SubSeq(runQ, k + 2, Len(runQ))
  OBVIOUS
<1>7. /\ table' = (table \ F) \cup {c} /\ runQ' = Append(U, <<runQ[k + 1][1], c>>)
      /\ cpu' = runQ[k + 1][1] /\ current' = cpu' /\ raced' = (raced \/ (pc = "claim" /\ c = scan))
  BY <1>2, <1>3, <1>4, <1>6 DEF HandlerClaims
<1>8. runQ[k + 1] \in Nat \X Chunk
  BY <1>1, <1>5
<1>9. runQ[k + 1][1] \in Nat /\ runQ[k + 1][2] \in Chunk
  BY <1>8
<1>10. c \in Chunk /\ c \notin table \ F
  <2>1. k + 1 \in 1 .. k + 1
    BY <1>5
  <2>2. runQ[k + 1][2] \in F
    BY <1>3, <2>1
  <2>3. ~(Chunk \subseteq table \ F)
    BY <1>9, <2>2
  <2> QED
    BY <1>4, <2>3, FirstFreeIsFree
<1>11. /\ U \in Seq(Nat \X Chunk) /\ Chunks(runQ) = F \cup Chunks(U)
       /\ Distinct(runQ) => Distinct(U) /\ F \cap Chunks(U) = {}
  <2>1. PICK s \in Lists(Nat), m \in Nat : s = runQ /\ m = k + 1 /\ m \in 0 .. Len(s)
    BY <1>1, <1>5 DEF Lists
  <2>2. F = FrontChunks(s, m) /\ U = Rest(s, m)
    BY <1>3, <1>5, <1>6, <2>1 DEF FrontChunks, Rest
  <2>3. /\ Rest(s, m) \in Lists(Nat)
        /\ Chunks(s) = FrontChunks(s, m) \cup Chunks(Rest(s, m))
        /\ Distinct(s) => /\ Distinct(Rest(s, m))
                          /\ FrontChunks(s, m) \cap Chunks(Rest(s, m)) = {}
    BY <2>1, ShorterList
  <2> QED
    BY <2>1, <2>2, <2>3 DEF Lists
<1>12. /\ runQ' \in Seq(Nat \X Chunk) /\ Chunks(runQ)' = Chunks(U) \cup {c}
       /\ Distinct(U) /\ c \notin Chunks(U) => Distinct(runQ)'
  <2>1. PICK N, a : N = Nat /\ a = runQ[k + 1][1]
    OBVIOUS
  <2>2. /\ With(U, a, c) \in Lists(N) /\ Chunks(With(U, a, c)) = Chunks(U) \cup {c}
        /\ Distinct(U) /\ c \notin Chunks(U) => Distinct(With(U, a, c))
    <3>1. U \in Lists(N) /\ c \in Chunk /\ a \in N
      BY <1>9, <1>10, <1>11, <2>1 DEF Lists
    <3> QED
      BY <3>1, LongerList
  <2>3. PICK q : q = With(U, a, c) /\ q = runQ'
    BY <1>7, <2>1 DEF With
  <2>4. Chunks(runQ)' = Chunks(q) /\ (Distinct(runQ)' <=> Distinct(q))
    BY <2>3 DEF Chunks, Distinct
  <2> QED
    BY <2>1, <2>2, <2>3, <2>4 DEF Lists
<1>13. /\ canceled' = canceled /\ cancelBuf' = cancelBuf /\ kept' = kept /\ pidSeq' = pidSeq
       /\ keys' = keys /\ strs' = strs /\ pc' = pc /\ str' = str /\ literal' = literal
       /\ scan' = scan /\ lines' = lines /\ lastPid' = lastPid /\ BufChunks' = BufChunks
  BY DEF Tick, shellVars, BufChunks
<1>14. FastBinTypeOK'
  BY <1>1, <1>7, <1>9, <1>10, <1>12, <1>13 DEF FastBinTypeOK
<1>15. ShellInv'
  BY <1>13 DEF ShellInv
<1>16. Chunks(keys)' = Chunks(keys) /\ StrChunks' = StrChunks
  BY <1>13 DEF Chunks, StrChunks
<1>17. table' \subseteq Owners'
  BY <1>7, <1>11, <1>12, <1>13, <1>16 DEF Owners
<1>18. ExclusiveInv'
  <2>1. SUFFICES ASSUME ~raced'
                 PROVE  /\ table' = Owners'
                        /\ Distinct(runQ)' /\ Distinct(keys)' /\ (Len(strs') = 2 => strs'[1] # strs'[2])
                        /\ Apart(Chunks(runQ)', Chunks(keys)', StrChunks', BufChunks', kept')
                        /\ pc' = "claim" => scan' \notin table'
    BY DEF ExclusiveInv
  <2>2. ~raced /\ (pc = "claim" => c # scan)
    BY <1>7, <2>1
  <2>3. /\ table = Owners
        /\ Distinct(runQ) /\ Distinct(keys) /\ (Len(strs) = 2 => strs[1] # strs[2])
        /\ Apart(Chunks(runQ), Chunks(keys), StrChunks, BufChunks, kept)
        /\ pc = "claim" => scan \notin table
    BY <2>2 DEF ExclusiveInv
  <2>4. table \ F = Chunks(U) \cup Chunks(keys) \cup StrChunks \cup BufChunks \cup kept
    BY <1>11, <2>3 DEF Owners, Apart
  <2>5. table' = Owners'
    BY <1>7, <1>12, <1>13, <1>16, <2>4 DEF Owners
  <2>6. Distinct(runQ)'
    BY <1>10, <1>11, <1>12, <2>3, <2>4
  <2>7. Distinct(keys)' /\ (Len(strs') = 2 => strs'[1] # strs'[2])
    BY <1>13, <2>3 DEF Distinct
  <2>8. Apart(Chunks(runQ)', Chunks(keys)', StrChunks', BufChunks', kept')
    <3>1. c \notin Chunks(keys) /\ c \notin StrChunks /\ c \notin BufChunks /\ c \notin kept
      BY <1>10, <2>4
    <3>2. Chunks(U) \subseteq Chunks(runQ)
      BY <1>11
    <3> QED
      BY <1>12, <1>13, <1>16, <2>3, <3>1, <3>2 DEF Apart
  <2>9. pc' = "claim" => scan' \notin table'
    BY <1>7, <1>13, <2>2, <2>3
  <2> QED
    BY <2>5, <2>6, <2>7, <2>8, <2>9
<1> QED
  BY <1>14, <1>15, <1>17, <1>18

\* The tick that finds no process frees the nodes of the run queue
\* (schedualer.cpp:35-57, timer.cpp:82-88).
LEMMA NoNextProcessInv ==
  ASSUME Inv, NoNextProcess
  PROVE  Inv'
<1> USE DEF Inv
<1>1. /\ table' = table \ Chunks(runQ) /\ runQ' = <<>> /\ current' = NoPid
      /\ canceled' = canceled /\ cancelBuf' = cancelBuf /\ kept' = kept /\ pidSeq' = pidSeq
      /\ keys' = keys /\ strs' = strs /\ pc' = pc /\ str' = str /\ literal' = literal
      /\ scan' = scan /\ lines' = lines /\ lastPid' = lastPid /\ cpu' = cpu /\ raced' = raced
  BY DEF NoNextProcess, shellVars, Chunks
<1>2. runQ' \in Seq(Nat \X Chunk) /\ Len(runQ') = 0
  BY <1>1
<1>3. Chunks(runQ)' = {} /\ Distinct(runQ)'
  <2>1. 1 .. 0 = {}
    OBVIOUS
  <2> QED
    BY <1>2, <2>1 DEF Chunks, Distinct
<1>4. /\ Chunks(keys)' = Chunks(keys) /\ StrChunks' = StrChunks /\ BufChunks' = BufChunks
      /\ (Distinct(keys)' <=> Distinct(keys))
  BY <1>1 DEF Chunks, StrChunks, BufChunks, Distinct
<1>5. FastBinTypeOK'
  BY <1>1, <1>2 DEF FastBinTypeOK, NoPid
<1>6. ShellInv'
  BY <1>1 DEF ShellInv
<1>7. table' \subseteq Owners'
  BY <1>1, <1>3, <1>4 DEF Owners
<1>8. ExclusiveInv'
  <2>1. CASE raced
    BY <1>1, <2>1 DEF ExclusiveInv
  <2>2. CASE ~raced
    <3>1. /\ table = Owners /\ Distinct(keys)
          /\ Apart(Chunks(runQ), Chunks(keys), StrChunks, BufChunks, kept)
      BY <2>2 DEF ExclusiveInv
    <3>2. table' = Owners'
      BY <1>1, <1>3, <1>4, <3>1 DEF Owners, Apart
    <3>3. Apart(Chunks(runQ)', Chunks(keys)', StrChunks', BufChunks', kept')
      BY <1>1, <1>3, <1>4, <3>1 DEF Apart
    <3> QED
      BY <1>1, <1>3, <1>4, <2>2, <3>1, <3>2, <3>3 DEF ExclusiveInv
  <2> QED
    BY <2>1, <2>2
<1> QED
  BY <1>5, <1>6, <1>7, <1>8

\* A key gets a node of the input buffer (keyboard.cpp:18-41).
LEMMA KeyboardInv ==
  ASSUME Inv, NEW line \in Line, KeyboardHandler(line)
  PROVE  Inv'
<1> USE DEF Inv
<1>1. /\ keys \in Seq(Line \X Chunk) /\ table \subseteq Chunk /\ raced \in BOOLEAN
      /\ lines \in 0 .. MaxLines /\ MaxLines \in Nat
  BY FastBinAssumption DEF FastBinTypeOK
<1>2. PICK c : c = FirstFree(table)
  OBVIOUS
<1>3. /\ c \in Chunk /\ table' = table \cup {c} /\ keys' = Append(keys, <<line, c>>)
      /\ raced' = (raced \/ (pc = "claim" /\ c = scan)) /\ lines < MaxLines /\ lines' = lines + 1
  BY <1>2 DEF KeyboardHandler, HandlerClaims
<1>4. c \notin table
  BY <1>2, <1>3, FirstFreeIsFree
<1>5. /\ keys' \in Seq(Line \X Chunk) /\ Chunks(keys)' = Chunks(keys) \cup {c}
      /\ Distinct(keys) /\ c \notin Chunks(keys) => Distinct(keys)'
  <2>1. PICK s \in Lists(Line) : s = keys
    BY <1>1 DEF Lists
  <2>2. /\ With(s, line, c) \in Lists(Line) /\ Chunks(With(s, line, c)) = Chunks(s) \cup {c}
        /\ Distinct(s) /\ c \notin Chunks(s) => Distinct(With(s, line, c))
    BY <1>3, LongerList
  <2>3. PICK q : q = With(s, line, c) /\ q = keys'
    BY <1>3, <2>1 DEF With
  <2>4. Chunks(keys)' = Chunks(q) /\ (Distinct(keys)' <=> Distinct(q))
    BY <2>3 DEF Chunks, Distinct
  <2> QED
    BY <2>1, <2>2, <2>3, <2>4 DEF Lists
<1>6. /\ canceled' = canceled /\ cancelBuf' = cancelBuf /\ kept' = kept /\ pidSeq' = pidSeq
      /\ runQ' = runQ /\ cpu' = cpu /\ strs' = strs /\ pc' = pc /\ str' = str
      /\ literal' = literal /\ scan' = scan
      /\ current' = current /\ lastPid' = lastPid /\ BufChunks' = BufChunks
  BY DEF KeyboardHandler, kernelVars, shellVars, BufChunks
<1>7. FastBinTypeOK'
  <2>1. lines' \in 0 .. MaxLines /\ raced' \in BOOLEAN /\ table' \subseteq Chunk
    BY <1>1, <1>3
  <2> QED
    BY <1>5, <1>6, <2>1 DEF FastBinTypeOK
<1>8. ShellInv'
  BY <1>6 DEF ShellInv
<1>9. Chunks(runQ)' = Chunks(runQ) /\ StrChunks' = StrChunks
  BY <1>6 DEF Chunks, StrChunks
<1>10. table' \subseteq Owners'
  BY <1>3, <1>5, <1>6, <1>9 DEF Owners
<1>11. ExclusiveInv'
  <2>1. SUFFICES ASSUME ~raced'
                 PROVE  /\ table' = Owners'
                        /\ Distinct(runQ)' /\ Distinct(keys)' /\ (Len(strs') = 2 => strs'[1] # strs'[2])
                        /\ Apart(Chunks(runQ)', Chunks(keys)', StrChunks', BufChunks', kept')
                        /\ pc' = "claim" => scan' \notin table'
    BY DEF ExclusiveInv
  <2>2. ~raced /\ (pc = "claim" => c # scan)
    BY <1>3, <2>1
  <2>3. /\ table = Owners
        /\ Distinct(runQ) /\ Distinct(keys) /\ (Len(strs) = 2 => strs[1] # strs[2])
        /\ Apart(Chunks(runQ), Chunks(keys), StrChunks, BufChunks, kept)
        /\ pc = "claim" => scan \notin table
    BY <2>2 DEF ExclusiveInv
  <2>4. table' = Owners'
    BY <1>3, <1>5, <1>6, <1>9, <2>3 DEF Owners
  <2>5. c \notin Chunks(runQ) /\ c \notin Chunks(keys) /\ c \notin StrChunks /\ c \notin BufChunks /\ c \notin kept
    BY <1>4, <2>3 DEF Owners
  <2>6. Distinct(runQ)' /\ Distinct(keys)' /\ (Len(strs') = 2 => strs'[1] # strs'[2])
    BY <1>5, <1>6, <2>3, <2>5 DEF Distinct
  <2>7. Apart(Chunks(runQ)', Chunks(keys)', StrChunks', BufChunks', kept')
    BY <1>5, <1>6, <1>9, <2>3, <2>5 DEF Apart
  <2>8. pc' = "claim" => scan' \notin table'
    BY <1>3, <1>6, <2>2, <2>3
  <2> QED
    BY <2>4, <2>6, <2>7, <2>8
<1> QED
  BY <1>7, <1>8, <1>10, <1>11

-----------------------------------------------------------------------------
(* The shell.                                                              *)

\* The chunks of no, one and two Strings.
LEMMA Strings ==
  ASSUME FastBinTypeOK
  PROVE  /\ Len(strs) \in Nat
         /\ Len(strs) = 0 => StrChunks = {}
         /\ Len(strs) = 1 => StrChunks = {strs[1]} /\ strs[1] \in Chunk
         /\ Len(strs) = 2 => StrChunks = {strs[1], strs[2]} /\ strs[1] \in Chunk /\ strs[2] \in Chunk
<1>1. strs \in Seq(Chunk)
  BY DEF FastBinTypeOK
<1>2. Len(strs) \in Nat /\ \A n \in 1 .. Len(strs) : strs[n] \in Chunk
  BY <1>1
<1>3. CASE Len(strs) = 0
  BY <1>2, <1>3 DEF StrChunks
<1>4. CASE Len(strs) = 1
  <2>1. \A n : n \in 1 .. Len(strs) <=> n = 1
    BY <1>4
  <2> QED
    BY <1>2, <1>4, <2>1 DEF StrChunks
<1>5. CASE Len(strs) = 2
  <2>1. \A n : n \in 1 .. Len(strs) <=> n = 1 \/ n = 2
    BY <1>5
  <2> QED
    BY <1>2, <1>5, <2>1 DEF StrChunks
<1> QED
  BY <1>2, <1>3, <1>4, <1>5

\* GetChar deletes the node of the key it returns (queue.hpp:66-84).
LEMMA ReadLineInv ==
  ASSUME Inv, ReadLine
  PROVE  Inv'
<1> USE DEF Inv
<1>1. /\ keys \in Seq(Line \X Chunk) /\ table \subseteq Chunk /\ keys # <<>>
      /\ pc = "read" /\ raced' = raced /\ lines' = lines
      /\ str' = Head(keys)[1] /\ table' = table \ {Head(keys)[2]} /\ keys' = Tail(keys)
      /\ pc' = "scan" /\ scan' = 1 /\ literal' = "none" /\ strs' = strs
      /\ runQ' = runQ /\ canceled' = canceled /\ cancelBuf' = cancelBuf /\ cpu' = cpu
      /\ current' = current /\ lastPid' = lastPid /\ BufChunks' = BufChunks
      /\ kept' = kept /\ pidSeq' = pidSeq
  BY DEF ReadLine, At, FastBinTypeOK, kernelVars, BufChunks
<1>2. Len(keys) \in Nat /\ 1 \in 1 .. Len(keys) /\ 1 \in 0 .. Len(keys) /\ Head(keys) = keys[1]
  BY <1>1, EmptySeq
<1>3. PICK c : c = keys[1][2]
  OBVIOUS
<1>4. keys[1] \in Line \X Chunk
  BY <1>1, <1>2
<1>5. /\ keys' \in Seq(Line \X Chunk) /\ Chunks(keys) = {c} \cup Chunks(keys)'
      /\ Distinct(keys) => Distinct(keys)' /\ {c} \cap Chunks(keys)' = {}
  <2>1. PICK s \in Lists(Line), m \in Nat : s = keys /\ m = 1 /\ m \in 0 .. Len(s)
    BY <1>1, <1>2 DEF Lists
  <2>2. /\ Rest(s, m) \in Lists(Line)
        /\ Chunks(s) = FrontChunks(s, m) \cup Chunks(Rest(s, m))
        /\ Distinct(s) => /\ Distinct(Rest(s, m))
                          /\ FrontChunks(s, m) \cap Chunks(Rest(s, m)) = {}
    BY <2>1, ShorterList
  <2>3. \A n : n \in 1 .. m <=> n = 1
    BY <2>1
  <2>4. FrontChunks(s, m) = {c}
    BY <1>3, <2>1, <2>3 DEF FrontChunks
  <2>5. PICK q : q = keys'
    OBVIOUS
  <2>6. Rest(s, m) = q
    <3>1. Tail(keys) = SubSeq(keys, 2, Len(keys))
      BY <1>1, TailIsSubSeq
    <3> QED
      BY <1>1, <2>1, <2>5, <3>1 DEF Rest
  <2>7. Chunks(keys)' = Chunks(q) /\ (Distinct(keys)' <=> Distinct(q))
    BY <2>5 DEF Chunks, Distinct
  <2> QED
    BY <2>1, <2>2, <2>4, <2>5, <2>6, <2>7 DEF Lists
<1>6. FastBinTypeOK'
  <2>1. Head(keys)[1] \in Line
    BY <1>2, <1>4
  <2>2. scan' \in 1 .. NumChunks + 1
    BY <1>1, FastBinAssumption
  <2> QED
    BY <1>1, <1>5, <2>1, <2>2 DEF FastBinTypeOK
<1>7. ShellInv'
  BY <1>1 DEF ShellInv
<1>8. Chunks(runQ)' = Chunks(runQ) /\ StrChunks' = StrChunks /\ (Distinct(runQ)' <=> Distinct(runQ))
  BY <1>1 DEF Chunks, StrChunks, Distinct
<1>9. table' = table \ {c}
  BY <1>1, <1>2, <1>3
<1>10. table' \subseteq Owners'
  BY <1>1, <1>5, <1>8, <1>9 DEF Owners
<1>11. ExclusiveInv'
  <2>1. CASE raced
    BY <1>1, <2>1 DEF ExclusiveInv
  <2>2. CASE ~raced
    <3>1. /\ table = Owners
          /\ Distinct(runQ) /\ Distinct(keys) /\ (Len(strs) = 2 => strs[1] # strs[2])
          /\ Apart(Chunks(runQ), Chunks(keys), StrChunks, BufChunks, kept)
      BY <2>2 DEF ExclusiveInv
    <3>2. table' = Owners'
      BY <1>1, <1>5, <1>8, <1>9, <3>1 DEF Owners, Apart
    <3>3. Apart(Chunks(runQ)', Chunks(keys)', StrChunks', BufChunks', kept')
      BY <1>1, <1>5, <1>8, <3>1 DEF Apart
    <3> QED
      BY <1>1, <1>5, <1>8, <3>1, <3>2, <3>3 DEF ExclusiveInv
  <2> QED
    BY <2>1, <2>2
<1> QED
  BY <1>6, <1>7, <1>10, <1>11

\* The test of __malloc_fastbin (kmm.cpp:102-106).
LEMMA TestChunkInv ==
  ASSUME Inv, TestChunk
  PROVE  Inv'
<1> USE DEF Inv
<1>1. /\ pc = "scan" /\ scan \in Chunk /\ raced' = raced /\ lines' = lines
      /\ (scan \in table /\ scan' = scan + 1 /\ pc' = pc) \/ (scan \notin table /\ scan' = scan /\ pc' = "claim")
      /\ runQ' = runQ /\ canceled' = canceled /\ cancelBuf' = cancelBuf /\ cpu' = cpu
      /\ current' = current /\ lastPid' = lastPid /\ BufChunks' = BufChunks
      /\ kept' = kept /\ pidSeq' = pidSeq /\ keys' = keys /\ strs' = strs /\ table' = table
      /\ str' = str /\ literal' = literal
  BY DEF TestChunk, At, kernelVars, BufChunks
<1>2. /\ Chunks(runQ)' = Chunks(runQ) /\ StrChunks' = StrChunks /\ Chunks(keys)' = Chunks(keys)
      /\ (Distinct(runQ)' <=> Distinct(runQ)) /\ (Distinct(keys)' <=> Distinct(keys))
  BY <1>1 DEF Chunks, StrChunks, Distinct
<1>3. Owners' = Owners
  BY <1>1, <1>2 DEF Owners
<1>4. scan' \in 1 .. NumChunks + 1 /\ (pc' = "claim" => scan' \in Chunk /\ scan' \notin table)
  BY <1>1, FastBinAssumption DEF Chunk
<1>5. FastBinTypeOK'
  BY <1>1, <1>4 DEF FastBinTypeOK
<1>6. ShellInv'
  BY <1>1, <1>4 DEF ShellInv
<1>7. ExclusiveInv'
  BY <1>1, <1>2, <1>3, <1>4 DEF ExclusiveInv
<1> QED
  BY <1>1, <1>3, <1>5, <1>6, <1>7

\* The claim: the chunk may have been taken since the test (kmm.cpp:112-115).
LEMMA ClaimChunkInv ==
  ASSUME Inv, ClaimChunk
  PROVE  Inv'
<1> USE DEF Inv
<1>1. /\ pc = "claim" /\ raced' = raced /\ lines' = lines
      /\ table' = table \cup {scan} /\ strs' = Append(strs, scan) /\ scan' = 1
      /\ (literal = "none" /\ pc' = "scan" /\ literal' = "START")
         \/ (literal # "none" /\ pc' = "compare" /\ literal' = literal)
      /\ runQ' = runQ /\ canceled' = canceled /\ cancelBuf' = cancelBuf /\ cpu' = cpu
      /\ current' = current /\ lastPid' = lastPid /\ BufChunks' = BufChunks
      /\ kept' = kept /\ pidSeq' = pidSeq /\ keys' = keys /\ str' = str
  BY DEF ClaimChunk, At, kernelVars, BufChunks
<1>2. scan \in Chunk /\ strs \in Seq(Chunk) /\ Len(strs) = (IF literal = "none" THEN 0 ELSE 1)
  BY <1>1 DEF ShellInv, FastBinTypeOK
<1>3. /\ strs' \in Seq(Chunk) /\ Len(strs') = Len(strs) + 1 /\ strs'[Len(strs) + 1] = scan
      /\ \A n \in 1 .. Len(strs) : strs'[n] = strs[n]
  BY <1>1, <1>2
<1>4. Len(strs') = IF literal = "none" THEN 1 ELSE 2
  BY <1>2, <1>3
<1>5. StrChunks' = StrChunks \cup {scan}
  <2>1. \A n \in 1 .. Len(strs') : n = Len(strs) + 1 \/ n \in 1 .. Len(strs)
    BY <1>2, <1>3
  <2>2. Len(strs) + 1 \in 1 .. Len(strs') /\ \A n \in 1 .. Len(strs) : n \in 1 .. Len(strs')
    BY <1>2, <1>3
  <2>3. ASSUME NEW d \in StrChunks'
        PROVE  d \in StrChunks \cup {scan}
    BY <1>3, <2>1 DEF StrChunks
  <2>4. scan \in StrChunks'
    BY <1>3, <2>2 DEF StrChunks
  <2>5. ASSUME NEW d \in StrChunks
        PROVE  d \in StrChunks'
    BY <1>3, <2>2 DEF StrChunks
  <2> QED
    BY <2>3, <2>4, <2>5
<1>6. /\ Chunks(runQ)' = Chunks(runQ) /\ Chunks(keys)' = Chunks(keys)
      /\ (Distinct(runQ)' <=> Distinct(runQ)) /\ (Distinct(keys)' <=> Distinct(keys))
  BY <1>1 DEF Chunks, Distinct
<1>7. FastBinTypeOK'
  <2>1. scan' \in 1 .. NumChunks + 1 /\ table' \subseteq Chunk /\ Len(strs') <= 2
    BY <1>1, <1>2, <1>4, FastBinAssumption DEF FastBinTypeOK
  <2> QED
    BY <1>1, <1>3, <2>1 DEF FastBinTypeOK
<1>8. ShellInv'
  BY <1>1, <1>4 DEF ShellInv
<1>9. table' \subseteq Owners'
  BY <1>1, <1>5, <1>6 DEF Owners
<1>10. ExclusiveInv'
  <2>1. CASE raced
    BY <1>1, <2>1 DEF ExclusiveInv
  <2>2. CASE ~raced
    <3>1. /\ table = Owners /\ scan \notin table
          /\ Distinct(runQ) /\ Distinct(keys)
          /\ Apart(Chunks(runQ), Chunks(keys), StrChunks, BufChunks, kept)
      BY <1>1, <2>2 DEF ExclusiveInv
    <3>2. table' = Owners'
      BY <1>1, <1>5, <1>6, <3>1 DEF Owners
    <3>3. /\ scan \notin Chunks(runQ) /\ scan \notin Chunks(keys) /\ scan \notin StrChunks
          /\ scan \notin BufChunks /\ scan \notin kept
      BY <3>1 DEF Owners
    <3>4. Apart(Chunks(runQ)', Chunks(keys)', StrChunks', BufChunks', kept')
      BY <1>1, <1>5, <1>6, <3>1, <3>3 DEF Apart
    <3>5. Len(strs') = 2 => strs'[1] # strs'[2]
      <4>1. SUFFICES ASSUME Len(strs') = 2
                     PROVE  strs'[1] # strs'[2]
        OBVIOUS
      <4>2. Len(strs) = 1 /\ strs'[2] = scan /\ strs'[1] = strs[1]
        BY <1>2, <1>3, <4>1
      <4>3. strs[1] \in StrChunks
        BY <4>2, Strings
      <4> QED
        BY <3>3, <4>2, <4>3
    <3> QED
      BY <1>1, <1>6, <3>1, <3>2, <3>4, <3>5 DEF ExclusiveInv
  <2> QED
    BY <2>1, <2>2
<1> QED
  BY <1>7, <1>8, <1>9, <1>10

\* The temporary String ends (kernel.cpp:71, 79; string.hpp).
LEMMA CompareInv ==
  ASSUME Inv, Compare
  PROVE  Inv'
<1> USE DEF Inv
<1>1. /\ pc = "compare" /\ raced' = raced /\ lines' = lines
      /\ table' = table \ {strs[2]} /\ strs' = <<strs[1]>> /\ scan' = scan
      /\ (pc' = "scan" /\ literal' = "END") \/ (pc' \in {"command", "drop"} /\ literal' = literal)
      /\ runQ' = runQ /\ canceled' = canceled /\ cancelBuf' = cancelBuf /\ cpu' = cpu
      /\ current' = current /\ lastPid' = lastPid /\ BufChunks' = BufChunks
      /\ kept' = kept /\ pidSeq' = pidSeq /\ keys' = keys /\ str' = str
  BY DEF Compare, At, kernelVars, Freed, BufChunks
<1>2. Len(strs) = 2 /\ StrChunks = {strs[1], strs[2]} /\ strs[1] \in Chunk /\ strs[2] \in Chunk
  BY <1>1, Strings DEF ShellInv
<1>3. strs' \in Seq(Chunk) /\ Len(strs') = 1 /\ strs'[1] = strs[1]
  BY <1>1, <1>2
<1>4. FastBinTypeOK'
  <2>1. table' \subseteq Chunk /\ Len(strs') <= 2
    BY <1>1, <1>3 DEF FastBinTypeOK
  <2> QED
    BY <1>1, <1>3, <2>1 DEF FastBinTypeOK
<1>5. StrChunks' = {strs[1]}
  <2>1. \A n : n \in 1 .. Len(strs') <=> n = 1
    BY <1>3
  <2> QED
    BY <1>3, <2>1 DEF StrChunks
<1>6. /\ Chunks(runQ)' = Chunks(runQ) /\ Chunks(keys)' = Chunks(keys)
      /\ (Distinct(runQ)' <=> Distinct(runQ)) /\ (Distinct(keys)' <=> Distinct(keys))
  BY <1>1 DEF Chunks, Distinct
<1>7. ShellInv'
  BY <1>1, <1>3 DEF ShellInv
<1>8. table' \subseteq Owners'
  BY <1>1, <1>2, <1>5, <1>6 DEF Owners
<1>9. ExclusiveInv'
  <2>1. CASE raced
    BY <1>1, <2>1 DEF ExclusiveInv
  <2>2. CASE ~raced
    <3>1. /\ table = Owners /\ strs[1] # strs[2]
          /\ Distinct(runQ) /\ Distinct(keys)
          /\ Apart(Chunks(runQ), Chunks(keys), StrChunks, BufChunks, kept)
      BY <1>2, <2>2 DEF ExclusiveInv
    <3>2. table' = Owners'
      BY <1>1, <1>2, <1>5, <1>6, <3>1 DEF Owners, Apart
    <3>3. Apart(Chunks(runQ)', Chunks(keys)', StrChunks', BufChunks', kept')
      BY <1>1, <1>2, <1>5, <1>6, <3>1 DEF Apart
    <3> QED
      BY <1>1, <1>3, <1>6, <3>1, <3>2, <3>3 DEF ExclusiveInv
  <2> QED
    BY <2>1, <2>2
<1> QED
  BY <1>4, <1>7, <1>8, <1>9

\* The end of str (string.hpp, ~String).
LEMMA DropStringInv ==
  ASSUME Inv, DropString
  PROVE  Inv'
<1> USE DEF Inv
<1>1. /\ pc = "drop" /\ raced' = raced /\ lines' = lines
      /\ table' = table \ {strs[1]} /\ strs' = <<>> /\ scan' = scan /\ pc' = "read"
      /\ runQ' = runQ /\ canceled' = canceled /\ cancelBuf' = cancelBuf /\ cpu' = cpu
      /\ current' = current /\ lastPid' = lastPid /\ BufChunks' = BufChunks
      /\ kept' = kept /\ pidSeq' = pidSeq /\ keys' = keys /\ str' = str /\ literal' = literal
  BY DEF DropString, At, kernelVars, Freed, BufChunks
<1>2. Len(strs) = 1 /\ StrChunks = {strs[1]}
  BY <1>1, Strings DEF ShellInv
<1>3. strs' \in Seq(Chunk) /\ Len(strs') = 0
  BY <1>1, EmptySeq
<1>4. FastBinTypeOK'
  <2>1. table' \subseteq Chunk /\ Len(strs') <= 2
    BY <1>1, <1>3 DEF FastBinTypeOK
  <2> QED
    BY <1>1, <1>3, <2>1 DEF FastBinTypeOK
<1>5. StrChunks' = {}
  BY <1>3 DEF StrChunks
<1>6. /\ Chunks(runQ)' = Chunks(runQ) /\ Chunks(keys)' = Chunks(keys)
      /\ (Distinct(runQ)' <=> Distinct(runQ)) /\ (Distinct(keys)' <=> Distinct(keys))
  BY <1>1 DEF Chunks, Distinct
<1>7. ShellInv'
  BY <1>1, <1>3 DEF ShellInv
<1>8. table' \subseteq Owners'
  BY <1>1, <1>2, <1>5, <1>6 DEF Owners
<1>9. ExclusiveInv'
  <2>1. CASE raced
    BY <1>1, <2>1 DEF ExclusiveInv
  <2>2. CASE ~raced
    <3>1. /\ table = Owners /\ Distinct(runQ) /\ Distinct(keys)
          /\ Apart(Chunks(runQ), Chunks(keys), StrChunks, BufChunks, kept)
      BY <2>2 DEF ExclusiveInv
    <3>2. table' = Owners'
      BY <1>1, <1>2, <1>5, <1>6, <3>1 DEF Owners, Apart
    <3>3. Apart(Chunks(runQ)', Chunks(keys)', StrChunks', BufChunks', kept')
      BY <1>1, <1>2, <1>5, <1>6, <3>1 DEF Apart
    <3> QED
      BY <1>1, <1>3, <1>6, <3>1, <3>2, <3>3 DEF ExclusiveInv
  <2> QED
    BY <2>1, <2>2
<1> QED
  BY <1>4, <1>7, <1>8, <1>9

\* The five chunks of Start::Process are free and differ, except that the node
\* may reuse the first buffer (process.cpp:31-60, kernel.cpp:71-77).
LEMMA StartChunks ==
  ASSUME Inv, Start
  PROVE  \E vector \in Chunk, two \in Chunk, node \in Chunk :
            /\ vector \notin table /\ two \notin table /\ node \notin table
            /\ vector # two /\ vector # node /\ two # node
            /\ kept' = kept \cup {vector, two}
            /\ table' = table \cup {vector, two, node}
            /\ runQ' = Append(runQ, <<pidSeq, node>>)
            /\ pidSeq' = pidSeq + 1 /\ canceled' = canceled /\ cancelBuf' = cancelBuf /\ cpu' = cpu
            /\ current' = current /\ lastPid' = pidSeq /\ BufChunks' = BufChunks
<1>1. PICK name : name = FirstFree(table)
  OBVIOUS
<1>2. PICK vector : vector = FirstFree(table \cup {name})
  OBVIOUS
<1>3. PICK one : one = FirstFree(table \cup {name, vector})
  OBVIOUS
<1>4. PICK two : two = FirstFree(table \cup {name, vector, one})
  OBVIOUS
<1>5. PICK node : node = FirstFree(table \cup {name, vector, two})
  OBVIOUS
<1>6. /\ two \in Chunk /\ kept' = kept \cup {vector, two}
      /\ table' = (table \cup {vector, two, node}) \ ({name} \cup ({one} \ {node}))
      /\ runQ' = Append(runQ, <<pidSeq, node>>)
      /\ pidSeq' = pidSeq + 1 /\ canceled' = canceled /\ cancelBuf' = cancelBuf /\ cpu' = cpu
      /\ current' = current /\ lastPid' = pidSeq /\ BufChunks' = BufChunks
  BY <1>1, <1>2, <1>3, <1>4, <1>5 DEF Start, BufChunks
<1>7. two \notin table \cup {name, vector, one}
  BY <1>4, <1>6, FirstFreeIsFree
<1>8. one \in Chunk /\ one \notin table \cup {name, vector}
  <2>1. ~(Chunk \subseteq table \cup {name, vector})
    BY <1>6, <1>7
  <2> QED
    BY <1>3, <2>1, FirstFreeIsFree
<1>9. vector \in Chunk /\ vector \notin table \cup {name}
  <2>1. ~(Chunk \subseteq table \cup {name})
    BY <1>6, <1>7
  <2> QED
    BY <1>2, <2>1, FirstFreeIsFree
<1>10. name \in Chunk /\ name \notin table
  <2>1. ~(Chunk \subseteq table)
    BY <1>6, <1>7
  <2> QED
    BY <1>1, <2>1, FirstFreeIsFree
<1>11. node \in Chunk /\ node \notin table \cup {name, vector, two}
  <2>1. ~(Chunk \subseteq table \cup {name, vector, two})
    BY <1>7, <1>8
  <2> QED
    BY <1>5, <2>1, FirstFreeIsFree
<1>12. table' = table \cup {vector, two, node}
  BY <1>6, <1>7, <1>8, <1>9, <1>10, <1>11
<1> QED
  BY <1>6, <1>7, <1>9, <1>11, <1>12

\* Start::Process takes chunks that are free (kernel.cpp:71-77).
LEMMA StartInv ==
  ASSUME Inv, Command, Start
  PROVE  Inv'
<1> USE DEF Inv
<1>1. /\ pc = "command" /\ raced' = raced /\ lines' = lines /\ pc' = "drop"
      /\ keys' = keys /\ strs' = strs /\ str' = str /\ literal' = literal /\ scan' = scan
  BY DEF Command, At
<1>2. PICK vector \in Chunk, two \in Chunk, node \in Chunk :
            /\ vector \notin table /\ two \notin table /\ node \notin table
            /\ vector # two /\ vector # node /\ two # node
            /\ kept' = kept \cup {vector, two}
            /\ table' = table \cup {vector, two, node}
            /\ runQ' = Append(runQ, <<pidSeq, node>>)
            /\ pidSeq' = pidSeq + 1 /\ canceled' = canceled /\ cancelBuf' = cancelBuf /\ cpu' = cpu
            /\ current' = current /\ lastPid' = pidSeq /\ BufChunks' = BufChunks
  BY StartChunks
<1>3. runQ \in Seq(Nat \X Chunk) /\ pidSeq \in Nat /\ pidSeq >= 3
  BY DEF FastBinTypeOK, ShellInv
<1>4. /\ runQ' \in Seq(Nat \X Chunk) /\ Chunks(runQ)' = Chunks(runQ) \cup {node}
      /\ Distinct(runQ) /\ node \notin Chunks(runQ) => Distinct(runQ)'
  <2>1. PICK N, s, a : N = Nat /\ s = runQ /\ a = pidSeq
    OBVIOUS
  <2>2. s \in Lists(N) /\ a \in N
    BY <1>3, <2>1 DEF Lists
  <2>3. /\ With(s, a, node) \in Lists(N) /\ Chunks(With(s, a, node)) = Chunks(s) \cup {node}
        /\ Distinct(s) /\ node \notin Chunks(s) => Distinct(With(s, a, node))
    BY <2>2, LongerList
  <2>4. PICK q : q = With(s, a, node) /\ q = runQ'
    BY <1>2, <2>1 DEF With
  <2>5. Chunks(runQ)' = Chunks(q) /\ (Distinct(runQ)' <=> Distinct(q))
    BY <2>4 DEF Chunks, Distinct
  <2> QED
    BY <2>1, <2>3, <2>4, <2>5 DEF Lists
<1>5. /\ Chunks(keys)' = Chunks(keys) /\ StrChunks' = StrChunks
      /\ (Distinct(keys)' <=> Distinct(keys))
  BY <1>1 DEF Chunks, StrChunks, Distinct
<1>6. FastBinTypeOK'
  <2>1. table' \subseteq Chunk /\ kept' \subseteq Chunk /\ pidSeq' \in Nat
    BY <1>2, <1>3 DEF FastBinTypeOK
  <2> QED
    BY <1>1, <1>2, <1>4, <2>1 DEF FastBinTypeOK
<1>7. ShellInv'
  <2>1. pidSeq' >= 3
    BY <1>2, <1>3
  <2> QED
    BY <1>1, <2>1 DEF ShellInv
<1>8. table' \subseteq Owners'
  BY <1>2, <1>4, <1>5 DEF Owners
<1>9. ExclusiveInv'
  <2>1. CASE raced
    BY <1>1, <2>1 DEF ExclusiveInv
  <2>2. CASE ~raced
    <3>1. /\ table = Owners /\ Distinct(runQ) /\ Distinct(keys)
          /\ (Len(strs) = 2 => strs[1] # strs[2])
          /\ Apart(Chunks(runQ), Chunks(keys), StrChunks, BufChunks, kept)
      BY <2>2 DEF ExclusiveInv
    <3>2. table' = Owners'
      BY <1>2, <1>4, <1>5, <3>1 DEF Owners
    <3>3. ASSUME NEW c, c \notin table
          PROVE  /\ c \notin Chunks(runQ) /\ c \notin Chunks(keys) /\ c \notin StrChunks
                 /\ c \notin BufChunks /\ c \notin kept
      BY <3>1, <3>3 DEF Owners
    <3>4. Apart(Chunks(runQ)', Chunks(keys)', StrChunks', BufChunks', kept')
      BY <1>2, <1>4, <1>5, <3>1, <3>3, ZenonT(30) DEF Apart
    <3>5. Distinct(runQ)'
      BY <1>2, <1>4, <3>1, <3>3
    <3> QED
      BY <1>1, <1>5, <3>1, <3>2, <3>4, <3>5 DEF ExclusiveInv
  <2> QED
    BY <2>1, <2>2
<1> QED
  BY <1>6, <1>7, <1>8, <1>9

\* End::Process doubles a buffer that is full (process.cpp:150-160,
\* vector.hpp:113-129).
LEMMA EndInv ==
  ASSUME Inv, Command, End
  PROVE  Inv'
<1> USE DEF Inv
<1>1. /\ pc = "command" /\ raced' = raced /\ lines' = lines /\ pc' = "drop"
      /\ keys' = keys /\ strs' = strs /\ str' = str /\ literal' = literal /\ scan' = scan
  BY DEF Command, At
<1>2. PICK new : new = FirstFree(table)
  OBVIOUS
<1>3. /\ \/ new \in Chunk /\ cancelBuf' = new /\ table' = (table \cup {new}) \ {cancelBuf}
         \/ cancelBuf' = NoChunk /\ table' = table \ {cancelBuf}
         \/ cancelBuf' = cancelBuf /\ table' = table
      /\ canceled' = Append(canceled, lastPid)
      /\ runQ' = runQ /\ cpu' = cpu /\ kept' = kept /\ pidSeq' = pidSeq
      /\ current' = current /\ lastPid' = lastPid
  <2>1. NoChunk \notin Chunk
    BY FastBinAssumption DEF NoChunk, Chunk
  <2> QED
    BY <1>2, <2>1 DEF End
<1>4. new \in Chunk => new \notin table
  BY <1>2, FirstFreeIsFree
<1>5. /\ Chunks(runQ)' = Chunks(runQ) /\ Chunks(keys)' = Chunks(keys) /\ StrChunks' = StrChunks
      /\ (Distinct(runQ)' <=> Distinct(runQ)) /\ (Distinct(keys)' <=> Distinct(keys))
  BY <1>1, <1>3 DEF Chunks, StrChunks, Distinct
<1>6. FastBinTypeOK'
  <2>1. lastPid \in Nat /\ canceled \in Seq(Nat)
    BY DEF FastBinTypeOK
  <2>2. canceled' \in Seq(Nat)
    BY <1>3, <2>1
  <2>3. table' \subseteq Chunk /\ cancelBuf' \in Chunk \cup {NoChunk}
    BY <1>3 DEF FastBinTypeOK
  <2> QED
    BY <1>1, <1>3, <2>2, <2>3 DEF FastBinTypeOK
<1>7. ShellInv'
  BY <1>1, <1>3 DEF ShellInv
<1>8. \/ new \in Chunk /\ BufChunks' = {new} /\ table' = (table \cup {new}) \ BufChunks
      \/ BufChunks' = {} /\ table' = table \ BufChunks
      \/ BufChunks' = BufChunks /\ table' = table
  <2>1. NoChunk \notin Chunk /\ NoChunk \notin table
    BY FastBinAssumption DEF NoChunk, Chunk, FastBinTypeOK
  <2>2. CASE new \in Chunk /\ cancelBuf' = new /\ table' = (table \cup {new}) \ {cancelBuf}
    BY <2>1, <2>2 DEF BufChunks
  <2>3. CASE cancelBuf' = NoChunk /\ table' = table \ {cancelBuf}
    BY <2>1, <2>3 DEF BufChunks
  <2>4. CASE cancelBuf' = cancelBuf /\ table' = table
    BY <2>4 DEF BufChunks
  <2> QED
    BY <1>3, <2>2, <2>3, <2>4
<1>9. table' \subseteq Owners'
  BY <1>3, <1>5, <1>8 DEF Owners
<1>10. ExclusiveInv'
  <2>1. CASE raced
    BY <1>1, <2>1 DEF ExclusiveInv
  <2>2. CASE ~raced
    <3>1. /\ table = Owners /\ Distinct(runQ) /\ Distinct(keys)
          /\ (Len(strs) = 2 => strs[1] # strs[2])
          /\ Apart(Chunks(runQ), Chunks(keys), StrChunks, BufChunks, kept)
      BY <2>2 DEF ExclusiveInv
    <3>2. new \in Chunk => /\ new \notin Chunks(runQ) /\ new \notin Chunks(keys)
                           /\ new \notin StrChunks /\ new \notin BufChunks /\ new \notin kept
      BY <1>4, <3>1 DEF Owners
    <3>3. table' = Owners'
      BY <1>3, <1>5, <1>8, <3>1, <3>2 DEF Owners, Apart
    <3>4. Apart(Chunks(runQ)', Chunks(keys)', StrChunks', BufChunks', kept')
      BY <1>3, <1>5, <1>8, <3>1, <3>2 DEF Apart
    <3> QED
      BY <1>1, <1>5, <3>1, <3>3, <3>4 DEF ExclusiveInv
  <2> QED
    BY <2>1, <2>2
<1> QED
  BY <1>6, <1>7, <1>9, <1>10

-----------------------------------------------------------------------------
(* The invariant holds.                                                    *)

\* The shell waits for its first line: it has a node of the run queue, and
\* _canceled_processes has a buffer.
LEMMA InvInit ==
  ASSUME FastBinInit
  PROVE  Inv
<1>1. 1 \in Chunk /\ 2 \in Chunk /\ 1 \in 1 .. NumChunks + 1 /\ 0 \in 0 .. MaxLines
  BY FastBinAssumption DEF Chunk
<1>2. PICK e : e = <<ShellPid, 1>>
  OBVIOUS
<1>3. e \in Nat \X Chunk /\ e[2] = 1
  BY <1>1, <1>2 DEF ShellPid
<1>4. runQ \in Seq(Nat \X Chunk) /\ Len(runQ) = 1 /\ runQ[1] = e
  BY <1>2, <1>3 DEF FastBinInit
<1>5. keys = <<>> /\ strs = <<>> /\ Len(keys) = 0 /\ Len(strs) = 0
  BY DEF FastBinInit
<1>6. canceled \in Seq(Nat) /\ keys \in Seq(Line \X Chunk) /\ strs \in Seq(Chunk)
  BY <1>5 DEF FastBinInit
<1>7. FastBinTypeOK
  <2>1. table \subseteq Chunk /\ kept \subseteq Chunk /\ cancelBuf \in Chunk
    BY <1>1 DEF FastBinInit
  <2>2. /\ Len(strs) <= 2 /\ cpu \in Nat /\ pidSeq \in Nat /\ raced = FALSE
        /\ current \in Nat /\ lastPid \in Nat
    BY <1>5, FastBinAssumption DEF FastBinInit, ShellPid
  <2>3. scan \in 1 .. NumChunks + 1 /\ lines \in 0 .. MaxLines
    BY <1>1 DEF FastBinInit
  <2>4. str \in Line /\ literal = "none" /\ pc = "read"
    BY DEF FastBinInit, Line
  <2> QED
    BY <1>4, <1>6, <2>1, <2>2, <2>3, <2>4 DEF FastBinTypeOK
<1>8. ShellInv
  BY <1>5 DEF FastBinInit, ShellInv
<1>9. \A n : n \in 1 .. Len(runQ) <=> n = 1
  BY <1>4
<1>10. Chunks(runQ) = {1} /\ Distinct(runQ)
  BY <1>3, <1>4, <1>9 DEF Chunks, Distinct
<1>11. 1 .. 0 = {}
  OBVIOUS
<1>12. Chunks(keys) = {} /\ Distinct(keys) /\ StrChunks = {}
  BY <1>5, <1>11 DEF Chunks, Distinct, StrChunks
<1>13. BufChunks = {2}
  BY DEF FastBinInit, BufChunks, NoChunk
<1>14. table = Owners
  BY <1>10, <1>12, <1>13 DEF FastBinInit, Owners
<1>15. Apart(Chunks(runQ), Chunks(keys), StrChunks, BufChunks, kept)
  BY <1>10, <1>12, <1>13 DEF FastBinInit, Apart
<1>16. ExclusiveInv
  BY <1>5, <1>10, <1>12, <1>14, <1>15 DEF ExclusiveInv, FastBinInit
<1> QED
  BY <1>7, <1>8, <1>14, <1>16 DEF Inv

\* Every step keeps the invariant, one lemma per handler or step of the shell.
LEMMA InvStep ==
  ASSUME Inv, [FastBinNext]_fastBinVars
  PROVE  Inv'
<1>1. CASE Tick
  BY <1>1, TickInv
<1>2. CASE NoNextProcess
  BY <1>2, NoNextProcessInv
<1>3. CASE \E line \in Line : KeyboardHandler(line)
  BY <1>3, KeyboardInv
<1>4. CASE Shell
  <2>1. CASE ReadLine
    BY <2>1, ReadLineInv
  <2>2. CASE TestChunk
    BY <2>2, TestChunkInv
  <2>3. CASE ClaimChunk
    BY <2>3, ClaimChunkInv
  <2>4. CASE Compare
    BY <2>4, CompareInv
  <2>5. CASE Command
    <3>1. Start \/ End
      BY <2>5 DEF Command
    <3> QED
      BY <2>5, <3>1, StartInv, EndInv
  <2>6. CASE DropString
    BY <2>6, DropStringInv
  <2> QED
    BY <1>4, <2>1, <2>2, <2>3, <2>4, <2>5, <2>6 DEF Shell
<1>5. CASE UNCHANGED fastBinVars
  <2>1. /\ table' = table /\ runQ' = runQ /\ canceled' = canceled /\ cancelBuf' = cancelBuf
        /\ cpu' = cpu /\ kept' = kept /\ pidSeq' = pidSeq /\ keys' = keys /\ strs' = strs
        /\ pc' = pc /\ str' = str /\ literal' = literal /\ scan' = scan /\ lines' = lines
        /\ raced' = raced /\ current' = current /\ lastPid' = lastPid
        /\ BufChunks' = BufChunks
    BY <1>5 DEF fastBinVars, kernelVars, shellVars, BufChunks
  <2>2. FastBinTypeOK'
    BY <2>1 DEF Inv, FastBinTypeOK
  <2>3. ShellInv'
    BY <2>1 DEF Inv, ShellInv
  <2>4. /\ Chunks(runQ)' = Chunks(runQ) /\ Chunks(keys)' = Chunks(keys) /\ StrChunks' = StrChunks
        /\ (Distinct(runQ)' <=> Distinct(runQ)) /\ (Distinct(keys)' <=> Distinct(keys))
    BY <2>1 DEF Chunks, StrChunks, Distinct
  <2>5. Owners' = Owners
    BY <2>1, <2>4 DEF Owners
  <2>6. ExclusiveInv'
    BY <2>1, <2>4, <2>5 DEF Inv, ExclusiveInv
  <2> QED
    BY <2>1, <2>2, <2>3, <2>5, <2>6 DEF Inv
<1> QED
  BY <1>1, <1>3, <1>4, <1>5, <1>2 DEF FastBinNext, FastBinStopped

-----------------------------------------------------------------------------
(* What the invariant says of OwnedNodes.                                  *)

\* The four parts of OwnedNodes.
Tagged(heap, s) == [n \in 1 .. Len(s) |-> <<heap, s[n][2]>>]
TaggedStrs == [n \in 1 .. Len(strs) |-> <<"shell", strs[n]>>]
TaggedBuf == IF cancelBuf = NoChunk THEN <<>> ELSE << <<"kernel", cancelBuf>> >>
Buffers == IF cancelBuf = NoChunk THEN 0 ELSE 1

Heap == {"kernel", "shell"}

\* A list of nodes and its entries in OwnedNodes have the same chunks.
LEMMA TaggedList ==
  ASSUME NEW A, NEW s \in Lists(A), NEW heap \in Heap
  PROVE  /\ Tagged(heap, s) \in Lists(Heap)
         /\ Len(Tagged(heap, s)) = Len(s) /\ Chunks(Tagged(heap, s)) = Chunks(s)
<1> USE DEF Lists
<1>1. Len(s) \in Nat /\ \A n \in 1 .. Len(s) : s[n] \in A \X Chunk
  OBVIOUS
<1>2. \A n \in 1 .. Len(s) : <<heap, s[n][2]>> \in Heap \X Chunk
  BY <1>1
<1>3. PICK u : u = Tagged(heap, s)
  OBVIOUS
<1>4. u \in Seq(Heap \X Chunk) /\ Len(u) = Len(s) /\ \A n \in 1 .. Len(s) : u[n] = <<heap, s[n][2]>>
  BY <1>1, <1>2, <1>3 DEF Tagged
<1>5. \A n \in 1 .. Len(s) : u[n][2] = s[n][2]
  BY <1>4
<1>6. Chunks(u) = Chunks(s)
  <2>1. ASSUME NEW d \in Chunks(u)
        PROVE  d \in Chunks(s)
    BY <1>4, <1>5 DEF Chunks
  <2>2. ASSUME NEW d \in Chunks(s)
        PROVE  d \in Chunks(u)
    <3>1. PICK n \in 1 .. Len(s) : d = s[n][2]
      BY DEF Chunks
    <3>2. d = u[n][2] /\ n \in 1 .. Len(u)
      BY <1>4, <1>5, <3>1
    <3> QED
      BY <3>2 DEF Chunks
  <2> QED
    BY <2>1, <2>2
<1> QED
  BY <1>3, <1>4, <1>6

\* The chunks of two lists in a row.
LEMMA JoinedLists ==
  ASSUME NEW s \in Lists(Heap), NEW u \in Lists(Heap)
  PROVE  /\ s \o u \in Lists(Heap) /\ Len(s \o u) = Len(s) + Len(u)
         /\ Chunks(s \o u) = Chunks(s) \cup Chunks(u)
<1> USE DEF Lists
<1>1. PICK k \in Nat, m \in Nat : k = Len(s) /\ m = Len(u)
  OBVIOUS
<1>2. PICK w : w = s \o u
  OBVIOUS
<1>3. /\ w \in Seq(Heap \X Chunk) /\ Len(w) = k + m
      /\ \A n \in 1 .. k : w[n] = s[n]
      /\ \A n \in 1 .. m : w[k + n] = u[n]
  BY <1>1, <1>2, ConcatProperties
<1>4. \A n \in 1 .. k + m : n \in 1 .. k \/ (n - k \in 1 .. m /\ k + (n - k) = n)
  BY <1>1
<1>5. \A n \in 1 .. m : k + n \in 1 .. k + m
  BY <1>1
<1>6. \A n \in 1 .. k : n \in 1 .. k + m
  BY <1>1
<1>7. ASSUME NEW d \in Chunks(w)
      PROVE  d \in Chunks(s) \cup Chunks(u)
  <2>1. PICK n \in 1 .. k + m : d = w[n][2]
    BY <1>3 DEF Chunks
  <2>2. CASE n \in 1 .. k
    BY <1>1, <1>3, <2>1, <2>2 DEF Chunks
  <2>3. CASE n \notin 1 .. k
    <3>1. n - k \in 1 .. m /\ w[n] = u[n - k]
      BY <1>3, <1>4, <2>3
    <3> QED
      BY <1>1, <2>1, <3>1 DEF Chunks
  <2> QED
    BY <2>2, <2>3
<1>8. ASSUME NEW d \in Chunks(s)
      PROVE  d \in Chunks(w)
  BY <1>1, <1>3, <1>6 DEF Chunks
<1>9. ASSUME NEW d \in Chunks(u)
      PROVE  d \in Chunks(w)
  <2>1. PICK n \in 1 .. m : d = u[n][2]
    BY <1>1 DEF Chunks
  <2>2. k + n \in 1 .. Len(w) /\ w[k + n][2] = d
    BY <1>3, <1>5, <2>1
  <2> QED
    BY <2>2 DEF Chunks
<1> QED
  BY <1>1, <1>2, <1>3, <1>7, <1>8, <1>9

\* OwnedNodes lists every owner once, whatever the state of the table.
LEMMA OwnedIsOwners ==
  ASSUME FastBinTypeOK
  PROVE  /\ OwnedChunks = Owners
         /\ Len(OwnedNodes) = Len(runQ) + Len(keys) + Len(strs) + Buffers
<1>1. /\ runQ \in Lists(Nat) /\ keys \in Lists(Line) /\ strs \in Seq(Chunk)
      /\ cancelBuf \in Chunk \cup {NoChunk} /\ NoChunk \notin Chunk
  BY FastBinAssumption DEF FastBinTypeOK, Lists, NoChunk, Chunk
<1>2. PICK a \in Lists(Heap) : a = Tagged("kernel", runQ) /\ Len(a) = Len(runQ) /\ Chunks(a) = Chunks(runQ)
  <2>1. PICK N, s, h : N = Nat /\ s = runQ /\ h = "kernel"
    OBVIOUS
  <2>2. s \in Lists(N) /\ h \in Heap
    BY <1>1, <2>1 DEF Heap
  <2>3. /\ Tagged(h, s) \in Lists(Heap)
        /\ Len(Tagged(h, s)) = Len(s) /\ Chunks(Tagged(h, s)) = Chunks(s)
    BY <2>2, TaggedList
  <2> QED
    BY <2>1, <2>3
<1>3. PICK b \in Lists(Heap) : b = Tagged("shell", keys) /\ Len(b) = Len(keys) /\ Chunks(b) = Chunks(keys)
  <2>1. PICK s \in Lists(Line), h \in Heap : s = keys /\ h = "shell"
    BY <1>1 DEF Heap
  <2>2. /\ Tagged(h, s) \in Lists(Heap)
        /\ Len(Tagged(h, s)) = Len(s) /\ Chunks(Tagged(h, s)) = Chunks(s)
    BY TaggedList
  <2> QED
    BY <2>1, <2>2
<1>4. PICK c \in Lists(Heap) : c = TaggedStrs /\ Len(c) = Len(strs) /\ Chunks(c) = StrChunks
  <2>1. Len(strs) \in Nat /\ \A n \in 1 .. Len(strs) : strs[n] \in Chunk
    BY <1>1
  <2>2. \A n \in 1 .. Len(strs) : <<"shell", strs[n]>> \in Heap \X Chunk
    BY <2>1 DEF Heap
  <2>3. PICK u : u = TaggedStrs
    OBVIOUS
  <2>4. /\ u \in Seq(Heap \X Chunk) /\ Len(u) = Len(strs)
        /\ \A n \in 1 .. Len(strs) : u[n] = <<"shell", strs[n]>>
    BY <2>1, <2>2, <2>3 DEF TaggedStrs
  <2>5. \A n \in 1 .. Len(strs) : u[n][2] = strs[n]
    BY <2>4
  <2>6. Chunks(u) = StrChunks
    BY <2>4, <2>5 DEF Chunks, StrChunks
  <2> QED
    BY <2>3, <2>4, <2>6 DEF Lists
<1>5. PICK d \in Lists(Heap) : d = TaggedBuf /\ Len(d) = Buffers /\ Chunks(d) = BufChunks
  <2>1. CASE cancelBuf = NoChunk
    <3>1. PICK u \in Lists(Heap) : u = <<>> /\ Len(u) = 0
      <4>1. <<>> \in Seq(Heap \X Chunk) /\ Len(<<>>) = 0
        BY EmptySeq
      <4> QED
        BY <4>1 DEF Lists
    <3>2. 1 .. 0 = {}
      OBVIOUS
    <3>3. Chunks(u) = {} /\ BufChunks = {}
      BY <2>1, <3>1, <3>2 DEF Chunks, BufChunks
    <3> QED
      BY <2>1, <3>1, <3>3 DEF TaggedBuf, Buffers
  <2>2. CASE cancelBuf # NoChunk
    <3>1. PICK e \in Heap \X Chunk : e = <<"kernel", cancelBuf>> /\ e[2] = cancelBuf
      <4>1. <<"kernel", cancelBuf>> \in Heap \X Chunk /\ <<"kernel", cancelBuf>>[2] = cancelBuf
        BY <1>1, <2>2 DEF Heap
      <4> QED
        BY <4>1
    <3>2. PICK u : u = <<e>>
      OBVIOUS
    <3>3. u \in Seq(Heap \X Chunk) /\ Len(u) = 1 /\ u[1] = e
      BY <3>2
    <3>4. \A n : n \in 1 .. Len(u) <=> n = 1
      BY <3>3
    <3>5. Chunks(u) = BufChunks
      BY <2>2, <3>1, <3>3, <3>4 DEF Chunks, BufChunks
    <3> QED
      BY <2>2, <3>1, <3>2, <3>3, <3>5 DEF TaggedBuf, Buffers, Lists
  <2> QED
    BY <2>1, <2>2
<1>6. OwnedNodes = ((a \o b) \o c) \o d
  BY <1>2, <1>3, <1>4, <1>5 DEF OwnedNodes, Tagged, TaggedStrs, TaggedBuf
<1>7. PICK ab \in Lists(Heap) : ab = a \o b /\ Len(ab) = Len(a) + Len(b) /\ Chunks(ab) = Chunks(a) \cup Chunks(b)
  BY JoinedLists
<1>8. PICK abc \in Lists(Heap) : /\ abc = ab \o c /\ Len(abc) = Len(ab) + Len(c)
                                 /\ Chunks(abc) = Chunks(ab) \cup Chunks(c)
  BY JoinedLists
<1>9. PICK o \in Lists(Heap) : /\ o = abc \o d /\ Len(o) = Len(abc) + Len(d)
                               /\ Chunks(o) = Chunks(abc) \cup Chunks(d)
  BY JoinedLists
<1>10. OwnedNodes = o
  BY <1>6, <1>7, <1>8, <1>9
<1>11. {p[2] : p \in Range(OwnedNodes)} = Chunks(o)
  <2>1. DOMAIN o = 1 .. Len(o)
    BY DEF Lists
  <2> QED
    BY <1>10, <2>1 DEF Range, Chunks
<1>12. OwnedChunks = Owners
  BY <1>2, <1>3, <1>4, <1>5, <1>7, <1>8, <1>9, <1>11 DEF OwnedChunks, Owners
<1>13. Len(runQ) \in Nat /\ Len(keys) \in Nat /\ Len(strs) \in Nat
  BY <1>1 DEF Lists
<1> QED
  BY <1>2, <1>3, <1>4, <1>5, <1>7, <1>8, <1>9, <1>10, <1>12, <1>13

\* A list of nodes that share no chunk has as many chunks as nodes.
LEMMA DistinctCount ==
  ASSUME NEW A, NEW s \in Lists(A), Distinct(s)
  PROVE  Cardinality(Chunks(s)) = Len(s)
<1>1. PICK k \in Nat : k = Len(s)
  BY DEF Lists
<1> DEFINE f == [n \in 1 .. k |-> s[n][2]]
<1>2. f \in [1 .. k -> Chunks(s)]
  BY <1>1 DEF Chunks
<1>3. \A i, j \in 1 .. k : f[i] = f[j] => i = j
  BY <1>1 DEF Distinct
<1>4. \A c \in Chunks(s) : \E n \in 1 .. k : f[n] = c
  BY <1>1 DEF Chunks
<1> HIDE DEF f
<1>5. f \in Bijection(1 .. k, Chunks(s))
  BY <1>2, <1>3, <1>4 DEF Bijection, Injection, Surjection, IsInjective
<1>6. ExistsBijection(1 .. k, Chunks(s))
  BY <1>5 DEF ExistsBijection
<1>7. \A T : ExistsBijection(1 .. k, T) => Cardinality(T) = k
  BY FS_CountingElements
<1> QED
  BY <1>1, <1>6, <1>7

\* Two finite sets with nothing in common.
LEMMA DisjointUnion ==
  ASSUME NEW S, NEW T, IsFiniteSet(S), IsFiniteSet(T), S \cap T = {}
  PROVE  IsFiniteSet(S \cup T) /\ Cardinality(S \cup T) = Cardinality(S) + Cardinality(T)
<1>1. Cardinality(S) \in Nat /\ Cardinality(T) \in Nat
  BY FS_CardinalityType
<1>2. Cardinality(S \cap T) = 0
  BY FS_EmptySet
<1>3. /\ IsFiniteSet(S \cup T)
      /\ Cardinality(S \cup T) = Cardinality(S) + Cardinality(T) - Cardinality(S \cap T)
  BY FS_Union
<1> QED
  BY <1>1, <1>2, <1>3

-----------------------------------------------------------------------------
(* The theorems.                                                           *)

(***************************************************************************)
(* The inductive invariant holds in every state the kernel reaches.        *)
(***************************************************************************)
THEOREM InvHolds == FastBinSpec => []Inv
<1>1. FastBinInit => Inv
  BY InvInit
<1>2. Inv /\ [FastBinNext]_fastBinVars => Inv'
  BY InvStep
<1> QED
  BY <1>1, <1>2, PTL DEF FastBinSpec

(***************************************************************************)
(* No chunk leaks, raced or not: a chunk marked in the table has an owner  *)
(* that will free it or keeps it for good (kmm.cpp:254-266), for every bin *)
(* size and every number of lines.                                         *)
(***************************************************************************)
THEOREM ChunksNeverLeak == FastBinSpec => []NoChunkLeaked
<1>1. Inv => NoChunkLeaked
  BY OwnedIsOwners DEF Inv, NoChunkLeaked
<1> QED
  BY <1>1, InvHolds, PTL

(***************************************************************************)
(* Until a handler claims the chunk the shell has tested and not claimed,  *)
(* the table marks exactly the chunks in use and each has one owner: the   *)
(* window between test and claim is the only way to share a chunk          *)
(* (kmm.cpp:97-131).                                                       *)
(***************************************************************************)
THEOREM ChunksExclusiveUntilRaced == FastBinSpec => []ExclusiveUntilRaced
<1>1. ASSUME Inv, ~raced
      PROVE  /\ Cardinality(OwnedChunks) = Len(OwnedNodes) + Cardinality(kept)
             /\ table = OwnedChunks
  <2>1. PICK R, K, S, B, T : /\ R = Chunks(runQ) /\ K = Chunks(keys) /\ S = StrChunks
                             /\ B = BufChunks /\ T = kept
    OBVIOUS
  <2>2. Apart(R, K, S, B, T) /\ table = OwnedChunks /\ OwnedChunks = R \cup K \cup S \cup B \cup T
    BY <1>1, <2>1, OwnedIsOwners DEF Inv, ExclusiveInv, Owners
  <2>3. IsFiniteSet(Chunk)
    BY FS_Interval, FastBinAssumption DEF Chunk
  <2>4. Cardinality(R) = Len(runQ)
    <3>1. PICK N, s : N = Nat /\ s = runQ
      OBVIOUS
    <3>2. s \in Lists(N) /\ Distinct(s)
      BY <1>1, <3>1 DEF Inv, FastBinTypeOK, ExclusiveInv, Lists
    <3>3. Cardinality(Chunks(s)) = Len(s)
      BY <3>2, DistinctCount
    <3> QED
      BY <2>1, <3>1, <3>3
  <2>5. Cardinality(K) = Len(keys)
    <3>1. PICK s \in Lists(Line) : s = keys /\ Distinct(s)
      BY <1>1 DEF Inv, FastBinTypeOK, ExclusiveInv, Lists
    <3>2. Cardinality(Chunks(s)) = Len(s)
      BY <3>1, DistinctCount
    <3> QED
      BY <2>1, <3>1, <3>2
  <2>6. Cardinality(S) = Len(strs) /\ IsFiniteSet(S)
    <3>1. Len(strs) = 0 \/ Len(strs) = 1 \/ Len(strs) = 2
      <4>1. PICK n \in Nat : n = Len(strs) /\ n <= 2
        BY <1>1, Strings DEF Inv, FastBinTypeOK
      <4>2. n = 0 \/ n = 1 \/ n = 2
        BY <4>1
      <4> QED
        BY <4>1, <4>2
    <3>2. CASE Len(strs) = 0
      BY <1>1, <2>1, <3>2, Strings, FS_EmptySet DEF Inv
    <3>3. CASE Len(strs) = 1
      BY <1>1, <2>1, <3>3, Strings, FS_Singleton DEF Inv
    <3>4. CASE Len(strs) = 2
      <4>1. PICK x, y : x = strs[1] /\ y = strs[2] /\ x # y
        BY <1>1, <3>4 DEF Inv, ExclusiveInv
      <4>2. S = {x} \cup {y}
        BY <1>1, <2>1, <3>4, <4>1, Strings DEF Inv
      <4>3. IsFiniteSet({x}) /\ Cardinality({x}) = 1
        BY FS_Singleton
      <4>4. IsFiniteSet({x} \cup {y}) /\ Cardinality({x} \cup {y}) = 1 + 1
        BY <4>1, <4>3, FS_AddElement
      <4> QED
        BY <3>4, <4>2, <4>4
    <3> QED
      BY <3>1, <3>2, <3>3, <3>4
  <2>7. IsFiniteSet(R) /\ IsFiniteSet(K) /\ IsFiniteSet(T)
    <3>1. R \subseteq Chunk /\ K \subseteq Chunk /\ T \subseteq Chunk
      <4>1. R \subseteq table /\ K \subseteq table /\ T \subseteq table
        BY <2>2
      <4> QED
        BY <1>1, <4>1 DEF Inv, FastBinTypeOK
    <3> QED
      BY <2>3, <3>1, FS_Subset
  <2>8. Cardinality(R \cup K) = Len(runQ) + Len(keys) /\ IsFiniteSet(R \cup K)
    <3>1. R \cap K = {}
      BY <2>2 DEF Apart
    <3>2. IsFiniteSet(R \cup K) /\ Cardinality(R \cup K) = Cardinality(R) + Cardinality(K)
      BY <2>7, <3>1, DisjointUnion
    <3> QED
      BY <2>4, <2>5, <3>2
  <2>9. Cardinality(R \cup K \cup S) = Len(runQ) + Len(keys) + Len(strs) /\ IsFiniteSet(R \cup K \cup S)
    <3>1. (R \cup K) \cap S = {}
      BY <2>2 DEF Apart
    <3>2. /\ IsFiniteSet((R \cup K) \cup S)
          /\ Cardinality((R \cup K) \cup S) = Cardinality(R \cup K) + Cardinality(S)
      BY <2>6, <2>8, <3>1, DisjointUnion
    <3> QED
      BY <2>6, <2>8, <3>2
  <2>10. IsFiniteSet(B) /\ Cardinality(B) = Buffers /\ Buffers \in Nat
    <3>1. CASE cancelBuf = NoChunk
      BY <2>1, <3>1, FS_EmptySet DEF BufChunks, Buffers
    <3>2. CASE cancelBuf # NoChunk
      <4>1. B = {cancelBuf}
        BY <2>1, <3>2 DEF BufChunks
      <4> QED
        BY <3>2, <4>1, FS_Singleton DEF Buffers
    <3> QED
      BY <3>1, <3>2
  <2>11. /\ Cardinality(R \cup K \cup S \cup B) = Len(runQ) + Len(keys) + Len(strs) + Buffers
         /\ IsFiniteSet(R \cup K \cup S \cup B)
    <3>1. (R \cup K \cup S) \cap B = {}
      BY <2>2 DEF Apart
    <3> QED
      BY <2>9, <2>10, <3>1, DisjointUnion
  <2>12. Cardinality(R \cup K \cup S \cup B \cup T)
           = Len(runQ) + Len(keys) + Len(strs) + Buffers + Cardinality(T)
    <3>1. (R \cup K \cup S \cup B) \cap T = {}
      BY <2>2 DEF Apart
    <3> QED
      BY <2>7, <2>11, <3>1, DisjointUnion
  <2>13. Len(OwnedNodes) = Len(runQ) + Len(keys) + Len(strs) + Buffers
    BY <1>1, OwnedIsOwners DEF Inv
  <2> QED
    BY <2>1, <2>2, <2>12, <2>13
<1>2. Inv => ExclusiveUntilRaced
  BY <1>1 DEF ExclusiveUntilRaced
<1> QED
  BY <1>2, InvHolds, PTL

-----------------------------------------------------------------------------
(* MemoryManager: the big chunks.                                          *)

USE DEF Null, Garbage, HeaderSize, FastbinThreshold

\* Where the big chunks start, behind the fast bin.
LEMMA BigChunksBehindBin ==
  BinSize \in Nat /\ BinSize > 0 /\ BigChunks \in Nat /\ BigChunks = 68 * BinSize
BY MemoryManagerAssumption DEF BigChunks, FastChunkSize

-----------------------------------------------------------------------------
(* The inductive invariant.  h is a map of headers, p a sequence of        *)
(* addresses, L a set of big blocks in use.                                *)

Typed(h) ==
  /\ BigChunks \in DOMAIN h /\ DOMAIN h \subseteq Nat /\ IsFiniteSet(DOMAIN h)
  /\ h = [c \in DOMAIN h |-> h[c]]
  /\ \A c \in DOMAIN h :
        h[c] \in [prev : DOMAIN h \cup {Null}, next : DOMAIN h \cup {Null},
                  size : Nat \cup {Garbage}, used : BOOLEAN]

\* The chunks in p ascend from the first one.
Ascending(p) ==
  /\ p \in Seq(Nat) /\ Len(p) > 0 /\ p[1] = BigChunks
  /\ \A i, j \in 1 .. Len(p) : i < j => p[i] < p[j]

(***************************************************************************)
(* The next pointers lead along p.  A prev pointer leads back one place,   *)
(* or is null behind a first chunk that was absorbed: that one stays on    *)
(* the list.  Chunks in use are on the list.                               *)
(***************************************************************************)
Linked(h, p) ==
  /\ \A i \in 1 .. Len(p) : p[i] \in DOMAIN h
  /\ \A i \in 1 .. Len(p) : h[p[i]].next = IF i = Len(p) THEN Null ELSE p[i + 1]
  /\ \A i \in 1 .. Len(p) : h[p[i]].prev # Null => i > 1 /\ h[p[i]].prev = p[i - 1]
  /\ \A c \in DOMAIN h : h[c].used => \E i \in 1 .. Len(p) : p[i] = c

\* The chunks in use are the blocks in use.
Owned(h, L) ==
  /\ \A b \in L : b[1] \in Nat /\ b[2] \in Nat
  /\ \A b \in L : b[1] - HeaderSize \in DOMAIN h /\ h[b[1] - HeaderSize].used
  /\ \A a, b \in L : a[1] = b[1] => a = b
  /\ \A c \in DOMAIN h : h[c].used => \E b \in L : b[1] = c + HeaderSize

Listed(h, p, L) == Typed(h) /\ Ascending(p) /\ Linked(h, p) /\ Owned(h, L)

\* A block in use ends before the next chunk, or where the last one's size says.
Fits(h, p, L) ==
  \A b \in L : \A i \in 1 .. Len(p) : p[i] = b[1] - HeaderSize =>
     IF i = Len(p) THEN h[p[i]].size \in Nat /\ b[1] + b[2] <= p[i] + h[p[i]].size
                   ELSE b[1] + b[2] <= p[i + 1]

\* No chunk has size 0, so that a chunk appended is not placed on the last one.
Sized(h) == \A c \in DOMAIN h : h[c].size # 0

\* No big chunk was ever allocated.
Fresh == allocated = 0 /\ hdr = [c \in {BigChunks} |-> Header(Null, Null, 0, FALSE)]

\* The fast bin's table and the small blocks in use.
FastOwned ==
  /\ fastBin \subseteq 0 .. BinSize - 1
  /\ \A b \in live \ BigLive : b[2] <= FastbinThreshold /\ \E i \in fastBin : b[1] = i * FastbinThreshold
  /\ \A i \in fastBin : \E b \in live : b[1] = i * FastbinThreshold
  /\ \A a, b \in live \ BigLive : a[1] = b[1] => a = b

Counted ==
  /\ IsFiniteSet(live) /\ live \subseteq Nat \X Sizes
  /\ allocated = Cardinality(BigLive)
  /\ wild \in BOOLEAN /\ drained \in BOOLEAN /\ calls \in 0 .. MaxCalls

BigOK(p) ==
  /\ Listed(hdr, p, BigLive)
  /\ Fresh \/ Sized(hdr)
  /\ ~drained => Fits(hdr, p, BigLive) /\ (allocated = 0 => Fresh)

MemoryInv == FastOwned /\ Counted /\ \E p : BigOK(p)

-----------------------------------------------------------------------------
(* The list.                                                               *)

\* Every set of naturals has a least element.
LEMMA LeastExists ==
  ASSUME NEW T \in SUBSET Nat, T # {}
  PROVE  \E m \in T : \A n \in T : m <= n
<1>1. IsWellFoundedOn(OpToRel(<, Nat), Nat)
  BY NatLessThanWellFounded
<1>2. PICK m \in T : \A n \in T : ~(<<n, m>> \in OpToRel(<, Nat))
  BY <1>1, WFMin
<1>3. \A n \in T : ~(n < m)
  BY <1>2 DEF OpToRel
<1> QED
  BY <1>3

\* Basic facts about ascending sequences.
LEMMA AscendingFacts ==
  ASSUME NEW p, Ascending(p)
  PROVE  /\ Len(p) \in Nat /\ Len(p) > 0 /\ DOMAIN p = 1 .. Len(p) /\ p[1] = BigChunks
         /\ \A i \in 1 .. Len(p) : p[i] \in Nat /\ p[i] >= BigChunks
         /\ \A i, j \in 1 .. Len(p) : p[i] = p[j] => i = j
         /\ \A i, j \in 1 .. Len(p) : p[i] < p[j] => i < j
<1>1. Len(p) \in Nat /\ Len(p) > 0 /\ DOMAIN p = 1 .. Len(p) /\ p[1] = BigChunks
      /\ \A i \in 1 .. Len(p) : p[i] \in Nat
  BY LenProperties, ElementOfSeq DEF Ascending
<1>2. \A i, j \in 1 .. Len(p) : i < j => p[i] < p[j]
  BY DEF Ascending
<1>3. \A i \in 1 .. Len(p) : p[i] >= BigChunks
  <2>1. ASSUME NEW i \in 1 .. Len(p) PROVE p[i] >= BigChunks
    <3>1. CASE i = 1
      BY <1>1, <3>1, BigChunksBehindBin
    <3>2. CASE i > 1
      <4>1. 1 \in 1 .. Len(p)
        BY <1>1
      <4> QED
        BY <1>1, <1>2, <3>2, <4>1, BigChunksBehindBin
    <3> QED
      BY <1>1, <3>1, <3>2
  <2> QED
    BY <2>1
<1>4. \A i, j \in 1 .. Len(p) : i = j \/ i < j \/ j < i
  BY <1>1
<1>5. \A i, j \in 1 .. Len(p) : p[i] = p[j] => i = j
  BY <1>1, <1>2, <1>4
<1>6. \A i, j \in 1 .. Len(p) : p[i] < p[j] => i < j
  BY <1>1, <1>2, <1>4
<1> QED
  BY <1>1, <1>3, <1>5, <1>6

(***************************************************************************)
(* Walking k steps from the first chunk leads to place k + 1 of the list.  *)
(***************************************************************************)
LEMMA WalkLeadsAlong ==
  ASSUME NEW p, NEW L, Listed(hdr, p, L), NEW k \in Nat
  PROVE  Walk(k) = IF k < Len(p) THEN p[k + 1] ELSE Null
<1> DEFINE F(f) == [n \in 0 .. k |->
                      IF n = 0 THEN BigChunks
                      ELSE IF f[n - 1] = Null THEN Null ELSE hdr[f[n - 1]].next]
           g == [n \in 0 .. k |-> IF n < Len(p) THEN p[n + 1] ELSE Null]
           s == CHOOSE f : f = F(f)
<1>1. /\ Len(p) \in Nat /\ Len(p) > 0 /\ p[1] = BigChunks
      /\ \A i \in 1 .. Len(p) : p[i] \in Nat
  BY AscendingFacts DEF Listed
<1>2. \A i \in 1 .. Len(p) : hdr[p[i]].next = IF i = Len(p) THEN Null ELSE p[i + 1]
  BY DEF Listed, Linked
<1>3. ASSUME NEW n \in 1 .. k
      PROVE  g[n] = IF g[n - 1] = Null THEN Null ELSE hdr[g[n - 1]].next
  <2>1. n - 1 \in 0 .. k /\ n \in 0 .. k
    BY <1>3
  <2>2. CASE n - 1 < Len(p)
    <3>1. n \in 1 .. Len(p)
      BY <1>1, <1>3, <2>2
    <3>2. g[n - 1] = p[n]
      BY <2>1, <2>2
    <3>3. g[n - 1] # Null
      BY <1>1, <3>1, <3>2
    <3>4. g[n] = IF n = Len(p) THEN Null ELSE p[n + 1]
      BY <1>1, <2>1, <3>1
    <3> QED
      BY <1>2, <3>1, <3>2, <3>3, <3>4
  <2>3. CASE n - 1 >= Len(p)
    BY <1>1, <2>1, <2>3
  <2> QED
    BY <1>1, <1>3, <2>2, <2>3
<1>4. g[0] = BigChunks
  BY <1>1
<1>5. g = F(g)
  <2>1. \A n \in 0 .. k : g[n] = F(g)[n]
    <3>1. ASSUME NEW n \in 0 .. k PROVE g[n] = F(g)[n]
      <4>1. CASE n = 0
        BY <1>4, <4>1
      <4>2. CASE n \in 1 .. k
        <5> HIDE DEF g
        <5> QED
          BY <1>3, <4>2
      <4> QED
        BY <4>1, <4>2
    <3> QED
      BY <3>1
  <2> QED
    BY <2>1
<1>6. s = F(s)
  <2> HIDE DEF g, F
  <2> QED
    BY <1>5
<1>7. s[0] = BigChunks /\ \A n \in 1 .. k : s[n] = IF s[n - 1] = Null THEN Null ELSE hdr[s[n - 1]].next
  <2> HIDE DEF s
  <2>1. 0 \in 0 .. k /\ \A n \in 1 .. k : n \in 0 .. k /\ n # 0
    OBVIOUS
  <2>2. s[0] = BigChunks
    BY <1>6, <2>1
  <2>3. \A n \in 1 .. k : s[n] = IF s[n - 1] = Null THEN Null ELSE hdr[s[n - 1]].next
    BY <1>6, <2>1
  <2> QED
    BY <2>2, <2>3
<1> HIDE DEF s, F, g
<1>8. \A n \in 0 .. k : s[n] = g[n]
  <2> DEFINE T == {n \in 0 .. k : s[n] # g[n]}
  <2>1. SUFFICES ASSUME T # {} PROVE FALSE
    OBVIOUS
  <2>2. T \in SUBSET Nat
    OBVIOUS
  <2>3. PICK m \in T : \A n \in T : m <= n
    BY <2>1, <2>2, LeastExists
  <2>4. m # 0
    BY <1>4, <1>7, <2>3
  <2>5. m \in 1 .. k /\ m - 1 \in 0 .. k /\ m - 1 \notin T
    BY <2>3, <2>4
  <2>6. s[m - 1] = g[m - 1]
    BY <2>5
  <2> QED
    BY <1>3, <1>7, <2>3, <2>5, <2>6
<1>9. Walk(k) = s[k]
  BY DEF Walk, s, F
<1>10. g[k] = IF k < Len(p) THEN p[k + 1] ELSE Null
  BY DEF g
<1> QED
  BY <1>8, <1>9, <1>10

\* List is the sequence that the pointers lead along.
LEMMA ListIsPath ==
  ASSUME NEW p, NEW L, Listed(hdr, p, L)
  PROVE  List = p
<1>1. /\ Len(p) \in Nat /\ Len(p) > 0 /\ DOMAIN p = 1 .. Len(p)
      /\ \A i \in 1 .. Len(p) : p[i] \in Nat
      /\ \A i, j \in 1 .. Len(p) : p[i] = p[j] => i = j
  BY AscendingFacts DEF Listed
<1>2. \A i \in 1 .. Len(p) : p[i] \in DOMAIN hdr
      /\ hdr[p[i]].next = IF i = Len(p) THEN Null ELSE p[i + 1]
  BY DEF Listed, Linked
<1>3. Cardinality(DOMAIN hdr) \in Nat /\ Len(p) <= Cardinality(DOMAIN hdr)
  <2>1. IsFiniteSet(DOMAIN hdr)
    BY DEF Listed, Typed
  <2>2. p \in Injection(1 .. Len(p), DOMAIN hdr)
    <3>1. p = [i \in 1 .. Len(p) |-> p[i]]
      BY <1>1, LenProperties DEF Listed, Ascending
    <3>2. p \in [1 .. Len(p) -> DOMAIN hdr]
      BY <1>2, <3>1
    <3> QED
      BY <1>1, <3>2 DEF Injection, IsInjective
  <2>4. Cardinality(1 .. Len(p)) <= Cardinality(DOMAIN hdr)
    BY <2>1, <2>2, FS_Injection
  <2>5. Cardinality(1 .. Len(p)) = Len(p)
    BY SMTT(30), <1>1, FS_Interval
  <2> QED
    BY <2>1, <2>4, <2>5, FS_CardinalityType
<1>a. PICK l \in Nat : l = Len(p) /\ l > 0
  BY <1>1
<1> DEFINE Q(n) == Walk(n) # Null /\ hdr[Walk(n)].next = Null
           len == CHOOSE n \in 0 .. Cardinality(DOMAIN hdr) : Q(n)
<1> HIDE DEF len
<1>4. \A n \in Nat : Q(n) <=> n = l - 1
  <2>1. ASSUME NEW n \in Nat PROVE Q(n) <=> n = l - 1
    <3>1. PICK w : w = Walk(n)
      OBVIOUS
    <3>2. w = IF n < l THEN p[n + 1] ELSE Null
      BY <1>a, <3>1, WalkLeadsAlong
    <3>3. Q(n) <=> w # Null /\ hdr[w].next = Null
      BY <3>1
    <3> HIDE DEF Q
    <3>4. CASE n >= l
      BY <1>a, <3>2, <3>3, <3>4
    <3>5. CASE n + 1 = l
      <4>1. n + 1 \in 1 .. Len(p) /\ w = p[n + 1]
        BY SMTT(30), <1>a, <3>2, <3>5
      <4>2. w \in Nat /\ hdr[w].next = Null
        BY <1>1, <1>2, <1>a, <3>5, <4>1
      <4> QED
        BY <1>a, <3>3, <3>5, <4>2
    <3>6. CASE n + 1 < l
      <4>1. n + 1 \in 1 .. Len(p) /\ n + 2 \in 1 .. Len(p) /\ (n + 1) + 1 = n + 2 /\ n + 1 # Len(p)
        BY <1>a, <3>6
      <4>2. w = p[n + 1]
        BY SMTT(30), <3>2, <3>6
      <4>3. hdr[w].next = p[n + 2] /\ p[n + 2] \in Nat
        BY <1>1, <1>2, <4>1, <4>2
      <4> QED
        BY <3>3, <3>6, <4>3
    <3> QED
      BY <3>4, <3>5, <3>6, <1>a
  <2> QED
    BY <2>1
<1> HIDE DEF Q
<1>5. l - 1 \in 0 .. Cardinality(DOMAIN hdr) /\ l - 1 \in Nat
  BY <1>a, <1>3
<1>6. len \in 0 .. Cardinality(DOMAIN hdr) /\ Q(len)
  <2>1. \E n \in 0 .. Cardinality(DOMAIN hdr) : Q(n)
    BY <1>4, <1>5
  <2> QED
    BY <2>1, Zenon DEF len
<1>7. len = l - 1
  BY <1>3, <1>4, <1>6
<1>8. List = [k \in 1 .. len + 1 |-> Walk(k - 1)]
  BY DEF List, Q, len
<1>9. List = [k \in 1 .. Len(p) |-> Walk(k - 1)]
  BY <1>a, <1>7, <1>8
<1>10. ASSUME NEW k \in 1 .. Len(p) PROVE Walk(k - 1) = p[k]
  <2>1. k - 1 \in Nat /\ k - 1 < Len(p)
    BY <1>1
  <2> QED
    BY <2>1, WalkLeadsAlong
<1>11. p = [k \in 1 .. Len(p) |-> p[k]]
  BY LenProperties DEF Listed, Ascending
<1> QED
  BY <1>9, <1>10, <1>11

-----------------------------------------------------------------------------
(* What the operations do to the list.                                     *)

(***************************************************************************)
(* The list stays as it is while nothing happens to the next pointers and  *)
(* to the sizes of chunks in use, and prev pointers are at most cut.       *)
(***************************************************************************)
LEMMA ListKept ==
  ASSUME NEW h, NEW h2, NEW p, NEW L, Listed(h, p, L), Typed(h2), DOMAIN h2 = DOMAIN h,
         \A c \in DOMAIN h : /\ h2[c].used = h[c].used
                             /\ h2[c].next = h[c].next
                             /\ h2[c].prev \in {h[c].prev, Null}
                             /\ h[c].used => h2[c].size = h[c].size
  PROVE  Listed(h2, p, L) /\ (Fits(h, p, L) => Fits(h2, p, L))
<1>1. \A i \in 1 .. Len(p) : p[i] \in DOMAIN h
  BY DEF Listed, Linked
<1>2. Linked(h2, p)
  <2>1. \A i \in 1 .. Len(p) : h2[p[i]].next = IF i = Len(p) THEN Null ELSE p[i + 1]
    BY <1>1 DEF Listed, Linked
  <2>2. \A i \in 1 .. Len(p) : h2[p[i]].prev # Null => i > 1 /\ h2[p[i]].prev = p[i - 1]
    BY <1>1 DEF Listed, Linked
  <2>3. \A c \in DOMAIN h2 : h2[c].used => \E i \in 1 .. Len(p) : p[i] = c
    BY DEF Listed, Linked
  <2> QED
    BY <1>1, <2>1, <2>2, <2>3 DEF Linked
<1>3. Owned(h2, L)
  BY DEF Listed, Owned
<1>4. ASSUME Fits(h, p, L) PROVE Fits(h2, p, L)
  <2>1. \A b \in L : h[b[1] - HeaderSize].used
    BY DEF Listed, Owned
  <2>2. \A b \in L : \A i \in 1 .. Len(p) : p[i] = b[1] - HeaderSize => h2[p[i]].size = h[p[i]].size
    BY <1>1, <2>1
  <2> QED
    BY <1>4, <2>2 DEF Fits
<1> QED
  BY <1>2, <1>3, <1>4 DEF Listed

\* The list p without place k.
Without(p, k) == [m \in 1 .. Len(p) - 1 |-> p[IF m < k THEN m ELSE m + 1]]

(***************************************************************************)
(* An ascending list stays one without a place that is not the first.      *)
(***************************************************************************)
LEMMA WithoutAscends ==
  ASSUME NEW p, Ascending(p), NEW k \in 2 .. Len(p)
  PROVE  /\ Ascending(Without(p, k)) /\ Len(Without(p, k)) = Len(p) - 1
         /\ \A m \in 1 .. Len(p) - 1 : Without(p, k)[m] = p[IF m < k THEN m ELSE m + 1]
<1>1. PICK l \in Nat : l = Len(p) /\ l > 0
  BY AscendingFacts
<1>2. k \in 2 .. l /\ l - 1 \in Nat
  BY <1>1
<1>3. PICK q : q = Without(p, k)
  OBVIOUS
<1>4. q = [m \in 1 .. l - 1 |-> p[IF m < k THEN m ELSE m + 1]]
  BY <1>1, <1>3 DEF Without
<1>5. \A i \in 1 .. l : p[i] \in Nat
  BY <1>1, AscendingFacts
<1>6. \A m \in 1 .. l - 1 : (IF m < k THEN m ELSE m + 1) \in 1 .. l
  BY <1>1
<1>7. q \in [1 .. l - 1 -> Nat]
  BY <1>4, <1>5, <1>6
<1>8. q \in Seq(Nat) /\ Len(q) = l - 1
  BY <1>2, <1>7
<1>9. q[1] = BigChunks
  BY <1>1, <1>2, <1>4, AscendingFacts
<1>10. \A i, j \in 1 .. l - 1 : i < j => q[i] < q[j]
  <2>1. \A i, j \in 1 .. l : i < j => p[i] < p[j]
    BY <1>1 DEF Ascending
  <2>2. ASSUME NEW i \in 1 .. l - 1, NEW j \in 1 .. l - 1, i < j
        PROVE  q[i] < q[j]
    <3>1. (IF i < k THEN i ELSE i + 1) < (IF j < k THEN j ELSE j + 1)
      BY <1>2, <2>2
    <3> QED
      BY <1>4, <1>6, <2>1, <3>1
  <2> QED
    BY <2>2
<1> QED
  BY <1>1, <1>2, <1>3, <1>4, <1>8, <1>9, <1>10 DEF Ascending

(***************************************************************************)
(* A chunk that is not in use leaves the list when the pointers of its     *)
(* neighbours are led past it.                                             *)
(***************************************************************************)
LEMMA ListWithout ==
  ASSUME NEW h, NEW h2, NEW p, NEW L, Listed(h, p, L), Typed(h2), DOMAIN h2 = DOMAIN h,
         NEW k \in 2 .. Len(p), ~h[p[k]].used, k = Len(p) => ~h[p[k - 1]].used,
         \A c \in DOMAIN h : /\ h2[c].used = h[c].used
                             /\ h[c].used => h2[c].size = h[c].size,
         \A m \in 1 .. Len(p) : m # k =>
            /\ h2[p[m]].next = IF m = k - 1 THEN h[p[k]].next ELSE h[p[m]].next
            /\ h2[p[m]].prev \in {Null, IF m = k + 1 THEN p[k - 1] ELSE h[p[m]].prev}
  PROVE  /\ Listed(h2, Without(p, k), L)
         /\ Fits(h, p, L) => Fits(h2, Without(p, k), L)
<1>1. PICK l \in Nat : l = Len(p) /\ l > 0
  BY AscendingFacts DEF Listed
<1>2. PICK q : q = Without(p, k)
  OBVIOUS
<1>3. /\ Ascending(q) /\ Len(q) = l - 1
      /\ \A m \in 1 .. l - 1 : q[m] = p[IF m < k THEN m ELSE m + 1]
  BY <1>1, <1>2, WithoutAscends DEF Listed
<1>4. k \in 2 .. l /\ l - 1 \in Nat
  BY <1>1
<1>5. /\ \A i \in 1 .. l : p[i] \in Nat
      /\ \A i, j \in 1 .. l : p[i] = p[j] => i = j
  BY <1>1, AscendingFacts DEF Listed
<1>6. /\ \A i \in 1 .. l : p[i] \in DOMAIN h
      /\ \A i \in 1 .. l : h[p[i]].next = IF i = l THEN Null ELSE p[i + 1]
      /\ \A i \in 1 .. l : h[p[i]].prev # Null => i > 1 /\ h[p[i]].prev = p[i - 1]
      /\ \A c \in DOMAIN h : h[c].used => \E i \in 1 .. l : p[i] = c
  BY <1>1 DEF Listed, Linked
<1>7. ASSUME NEW m \in 1 .. l - 1
      PROVE  /\ q[m] \in DOMAIN h
             /\ h2[q[m]].next = IF m = l - 1 THEN Null ELSE q[m + 1]
             /\ h2[q[m]].prev # Null => m > 1 /\ h2[q[m]].prev = q[m - 1]
  <2>1. CASE m < k - 1
    <3>1. m \in 1 .. l /\ m + 1 \in 1 .. l - 1 /\ m # k /\ m # k - 1 /\ m # k + 1 /\ m # l /\ m # l - 1
      BY <1>4, <2>1
    <3>2. q[m] = p[m] /\ q[m + 1] = p[m + 1] /\ (m > 1 => q[m - 1] = p[m - 1])
      BY <1>3, <1>4, <2>1, <3>1
    <3>3. h2[p[m]].next = h[p[m]].next /\ h2[p[m]].prev \in {Null, h[p[m]].prev}
      BY <1>1, <3>1
    <3> QED
      BY <1>6, <3>1, <3>2, <3>3
  <2>2. CASE m = k - 1
    <3>1. m \in 1 .. l /\ k \in 1 .. l /\ m # k /\ m # k + 1 /\ (m = l - 1 <=> k = l)
      BY <1>4, <2>2
    <3>2. q[m] = p[m] /\ (m > 1 => q[m - 1] = p[m - 1])
      BY <1>3, <1>4, <2>2
    <3>3. k # l => q[m + 1] = p[k + 1]
      <4>1. k # l => m + 1 \in 1 .. l - 1 /\ m + 1 = k
        BY <1>4, <2>2
      <4> QED
        BY <1>3, <4>1, <1>4
    <3>4. h2[p[m]].next = h[p[k]].next /\ h2[p[m]].prev \in {Null, h[p[m]].prev}
      BY <1>1, <2>2, <3>1
    <3>5. h[p[k]].next = IF k = l THEN Null ELSE p[k + 1]
      BY <1>6, <3>1
    <3> QED
      BY <1>6, <3>1, <3>2, <3>3, <3>4, <3>5
  <2>3. CASE m = k
    <3>1. m + 1 \in 1 .. l /\ m + 1 # k /\ m + 1 # k - 1 /\ m + 1 = k + 1 /\ m - 1 \in 1 .. l - 1 /\ m > 1
          /\ (m + 1 = l <=> m = l - 1)
      BY <1>4, <2>3
    <3>2. q[m] = p[m + 1] /\ q[m - 1] = p[k - 1]
      BY <1>3, <1>4, <2>3, <3>1
    <3>3. m # l - 1 => q[m + 1] = p[(m + 1) + 1]
      BY <1>3, <1>4, <2>3
    <3>4. h2[p[m + 1]].next = h[p[m + 1]].next /\ h2[p[m + 1]].prev \in {Null, p[k - 1]}
      BY <1>1, <3>1
    <3> QED
      BY <1>6, <3>1, <3>2, <3>3, <3>4
  <2>4. CASE m > k
    <3>1. m + 1 \in 1 .. l /\ m + 1 # k /\ m + 1 # k - 1 /\ m + 1 # k + 1 /\ m - 1 \in 1 .. l - 1 /\ m > 1
          /\ (m + 1 = l <=> m = l - 1)
      BY <1>4, <2>4
    <3>2. q[m] = p[m + 1] /\ q[m - 1] = p[(m + 1) - 1]
      BY <1>3, <1>4, <2>4, <3>1
    <3>3. m # l - 1 => q[m + 1] = p[(m + 1) + 1]
      BY <1>3, <1>4, <2>4
    <3>4. h2[p[m + 1]].next = h[p[m + 1]].next /\ h2[p[m + 1]].prev \in {Null, h[p[m + 1]].prev}
      BY <1>1, <3>1
    <3> QED
      BY <1>6, <3>1, <3>2, <3>3, <3>4
  <2> QED
    BY <1>4, <2>1, <2>2, <2>3, <2>4
<1>8. ASSUME NEW c \in DOMAIN h, h[c].used PROVE \E m \in 1 .. l - 1 : q[m] = c
  <2>1. PICK i \in 1 .. l : p[i] = c
    BY <1>6, <1>8
  <2>2. i # k
    BY <1>8, <2>1
  <2>3. CASE i < k
    <3>1. i \in 1 .. l - 1
      BY <1>4, <2>3
    <3> QED
      BY <1>3, <2>1, <2>3, <3>1
  <2>4. CASE i > k
    <3>1. i - 1 \in 1 .. l - 1 /\ ~(i - 1 < k) /\ (i - 1) + 1 = i
      BY <1>4, <2>4
    <3> QED
      BY <1>3, <2>1, <3>1
  <2> QED
    BY <1>4, <2>2, <2>3, <2>4
<1>9. Linked(h2, q)
  BY <1>3, <1>7, <1>8 DEF Linked
<1>10. Owned(h2, L)
  BY DEF Listed, Owned
<1>11. ASSUME Fits(h, p, L) PROVE Fits(h2, q, L)
  <2>1. ASSUME NEW b \in L, NEW m \in 1 .. l - 1, q[m] = b[1] - HeaderSize
        PROVE  IF m = l - 1 THEN h2[q[m]].size \in Nat /\ b[1] + b[2] <= q[m] + h2[q[m]].size
                            ELSE b[1] + b[2] <= q[m + 1]
    <3> DEFINE i == IF m < k THEN m ELSE m + 1
    <3>1. i \in 1 .. l /\ q[m] = p[i] /\ i # k
      BY <1>3, <1>4
    <3>2. h[p[i]].used /\ h2[p[i]].size = h[p[i]].size
      BY SMTT(30), <1>6, <2>1, <3>1 DEF Listed, Owned
    <3>3. IF i = l THEN h[p[i]].size \in Nat /\ b[1] + b[2] <= p[i] + h[p[i]].size
                   ELSE b[1] + b[2] <= p[i + 1]
      BY <1>1, <1>11, <2>1, <3>1 DEF Fits
    <3>4. CASE m = k - 1
      <4>1. i = m /\ i # l /\ i + 1 = k
        BY <1>4, <3>4
      <4>2. b[1] + b[2] <= p[k]
        BY <3>3, <4>1
      <4>3. k # l
        BY <1>1, <3>2, <3>4, <4>1
      <4>4. k \in 1 .. l /\ k + 1 \in 1 .. l /\ m # l - 1 /\ m + 1 = k /\ m + 1 \in 1 .. l - 1
        BY <1>4, <3>4, <4>3
      <4>5. q[m + 1] = p[k + 1]
        BY <1>3, <1>4, <4>4
      <4>6. p[k] < p[k + 1] /\ p[k] \in Nat /\ p[k + 1] \in Nat
        BY <1>1, <1>4, <1>5, <4>4 DEF Listed, Ascending
      <4>7. b[1] + b[2] \in Nat
        BY DEF Listed, Owned
      <4> QED
        BY <4>2, <4>4, <4>5, <4>6, <4>7
    <3>5. CASE m # k - 1
      <4>1. (i = l <=> m = l - 1) /\ (m # l - 1 => q[m + 1] = p[i + 1])
        <5>1. i = l <=> m = l - 1
          BY <1>4, <3>5
        <5>2. ASSUME m # l - 1 PROVE q[m + 1] = p[i + 1]
          <6>1. m + 1 \in 1 .. l - 1
            BY <1>4, <5>2
          <6>2. q[m + 1] = p[IF m + 1 < k THEN m + 1 ELSE (m + 1) + 1]
            BY <1>3, <6>1
          <6>3. (IF m + 1 < k THEN m + 1 ELSE (m + 1) + 1) = i + 1
            BY <1>4, <3>5
          <6> QED
            BY <6>2, <6>3
        <5> QED
          BY <5>1, <5>2
      <4> QED
        BY <3>1, <3>2, <3>3, <4>1
    <3> QED
      BY <3>4, <3>5
  <2> QED
    BY <1>3, <2>1 DEF Fits
<1> QED
  BY <1>2, <1>3, <1>9, <1>10, <1>11 DEF Listed

\* A chunk joined to another has the size of neither, and not 0.
LEMMA JoinedSizeType ==
  ASSUME NEW s \in Nat \cup {Garbage}, NEW t \in Nat \cup {Garbage}
  PROVE  JoinedSize(s, t) \in Nat \cup {Garbage} /\ JoinedSize(s, t) # 0
BY DEF JoinedSize

(***************************************************************************)
(* ConsolidatedForwards keeps the list, whether it absorbs a chunk or not. *)
(***************************************************************************)
LEMMA ForwardsKeepsList ==
  ASSUME NEW h, NEW p, NEW L, Listed(h, p, L), NEW i \in 1 .. Len(p), ~h[p[i]].used
  PROVE  LET h2 == ConsolidatedForwards(h, p[i]) IN
         /\ \E q : Listed(h2, q, L) /\ (Fits(h, p, L) => Fits(h2, q, L)) /\ \E j \in 1 .. Len(q) : q[j] = p[i]
         /\ ~h2[p[i]].used
         /\ Sized(h) => Sized(h2)
<1> DEFINE c == p[i]
           n == h[c].next
           h2 == ConsolidatedForwards(h, c)
<1>1. PICK l \in Nat : l = Len(p) /\ l > 0
  BY AscendingFacts DEF Listed
<1>2. /\ c \in DOMAIN h /\ i \in 1 .. l
      /\ n = IF i = l THEN Null ELSE p[i + 1]
  BY <1>1 DEF Listed, Linked
<1>3. CASE h2 = h
  <2>1. Listed(h2, p, L) /\ (Fits(h, p, L) => Fits(h2, p, L)) /\ (Sized(h) => Sized(h2)) /\ ~h2[c].used
    BY <1>3
  <2> HIDE DEF c, h2
  <2> QED
    BY <2>1 DEF c, h2
<1>4. CASE h2 # h
  <2>1. n # Null /\ ~h[n].used
        /\ h2 = [a \in DOMAIN h |->
                   IF a = c THEN [h[c] EXCEPT !.next = h[n].next, !.size = JoinedSize(@, h[n].size)]
                   ELSE IF a = h[n].next THEN [h[a] EXCEPT !.prev = c]
                   ELSE h[a]]
    BY <1>4 DEF ConsolidatedForwards
  <2>2. i # l /\ i + 1 \in 2 .. l /\ n = p[i + 1] /\ n \in DOMAIN h
    BY <1>1, <1>2, <2>1 DEF Listed, Linked
  <2>3. \A a \in DOMAIN h : h[a] \in [prev : DOMAIN h \cup {Null}, next : DOMAIN h \cup {Null},
                                       size : Nat \cup {Garbage}, used : BOOLEAN]
    BY DEF Listed, Typed
  <2>4. /\ \A a, b \in 1 .. l : p[a] = p[b] => a = b
        /\ \A a \in 1 .. l : p[a] \in DOMAIN h /\ p[a] \in Nat
    <3>1. Ascending(p) /\ \A a \in 1 .. l : p[a] \in DOMAIN h
      BY <1>1 DEF Listed, Linked
    <3> QED
      BY <1>1, <3>1, AscendingFacts
  <2>5. h[n].next = IF i + 1 = l THEN Null ELSE p[i + 2]
    <3>1. i + 1 \in 1 .. Len(p) /\ (i + 1) + 1 = i + 2
      BY <1>1, <2>2
    <3> QED
      BY <1>1, <2>2, <3>1 DEF Listed, Linked
  <2> HIDE DEF c, n, h2
  <2>6. /\ h2[c] = [prev |-> h[c].prev, next |-> h[n].next,
                    size |-> JoinedSize(h[c].size, h[n].size), used |-> h[c].used]
        /\ \A a \in DOMAIN h : a # c /\ a = h[n].next =>
              h2[a] = [prev |-> c, next |-> h[a].next, size |-> h[a].size, used |-> h[a].used]
        /\ \A a \in DOMAIN h : a # c /\ a # h[n].next => h2[a] = h[a]
    BY <1>2, <2>1, <2>3
  <2>7. DOMAIN h2 = DOMAIN h /\ h2 = [a \in DOMAIN h2 |-> h2[a]]
    BY <2>1
  <2>8. JoinedSize(h[c].size, h[n].size) \in Nat \cup {Garbage} /\ JoinedSize(h[c].size, h[n].size) # 0
    BY <1>2, <2>2, <2>3, JoinedSizeType
  <2>9. \A a \in DOMAIN h : h2[a] \in [prev : DOMAIN h \cup {Null}, next : DOMAIN h \cup {Null},
                                       size : Nat \cup {Garbage}, used : BOOLEAN]
    <3>1. h2[c] \in [prev : DOMAIN h \cup {Null}, next : DOMAIN h \cup {Null},
                     size : Nat \cup {Garbage}, used : BOOLEAN]
      BY <1>2, <2>2, <2>3, <2>6, <2>8
    <3>2. ASSUME NEW a \in DOMAIN h, a # c, a = h[n].next
          PROVE  h2[a] \in [prev : DOMAIN h \cup {Null}, next : DOMAIN h \cup {Null},
                            size : Nat \cup {Garbage}, used : BOOLEAN]
      <4>1. h2[a] = [prev |-> c, next |-> h[a].next, size |-> h[a].size, used |-> h[a].used]
        BY <2>6, <3>2
      <4> QED
        BY <1>2, <2>3, <4>1
    <3>3. ASSUME NEW a \in DOMAIN h, a # c, a # h[n].next
          PROVE  h2[a] \in [prev : DOMAIN h \cup {Null}, next : DOMAIN h \cup {Null},
                            size : Nat \cup {Garbage}, used : BOOLEAN]
      BY <2>3, <2>6, <3>3
    <3> QED
      BY <3>1, <3>2, <3>3
  <2>10. Typed(h2)
    BY <2>7, <2>9 DEF Listed, Typed
  <2>11. \A a \in DOMAIN h : /\ h2[a].used = h[a].used
                             /\ h[a].used => h2[a].size = h[a].size
    <3>1. ~h[c].used
      BY DEF c
    <3>2. h2[c].used = h[c].used
      BY <2>6
    <3>3. ASSUME NEW a \in DOMAIN h, a # c
          PROVE  h2[a].used = h[a].used /\ h2[a].size = h[a].size
      <4>1. CASE a = h[n].next
        <5>1. h2[a] = [prev |-> c, next |-> h[a].next, size |-> h[a].size, used |-> h[a].used]
          BY <2>6, <3>3, <4>1
        <5> QED
          BY <5>1
      <4>2. CASE a # h[n].next
        BY <2>6, <3>3, <4>2
      <4> QED
        BY <4>1, <4>2
    <3> QED
      BY <3>1, <3>2, <3>3
  <2>12. ASSUME NEW m \in 1 .. l, m # i + 1
         PROVE  /\ h2[p[m]].next = IF m = (i + 1) - 1 THEN h[p[i + 1]].next ELSE h[p[m]].next
                /\ h2[p[m]].prev \in {Null, IF m = (i + 1) + 1 THEN p[(i + 1) - 1] ELSE h[p[m]].prev}
    <3>1. (i + 1) - 1 = i /\ (i + 1) + 1 = i + 2 /\ p[i] = c
      BY <1>2, <2>2 DEF c
    <3>2. p[m] \in DOMAIN h
      BY <2>4
    <3>3. CASE m = i
      <4>1. m # i + 2 /\ p[m] = c
        BY <1>2, <3>3 DEF c
      <4> QED
        BY <2>2, <2>6, <3>1, <3>3, <4>1
    <3>4. CASE m = i + 2
      <4>1. m # i /\ p[m] # c /\ i + 1 # l
        BY <1>2, <2>4, <3>4 DEF c
      <4>2. p[m] = h[n].next
        BY <2>5, <3>4, <4>1
      <4>3. h2[p[m]].next = h[p[m]].next /\ h2[p[m]].prev = c
        <5>1. h2[p[m]] = [prev |-> c, next |-> h[p[m]].next, size |-> h[p[m]].size, used |-> h[p[m]].used]
          BY <2>6, <3>2, <4>1, <4>2
        <5> QED
          BY <5>1
      <4> QED
        BY <3>1, <3>4, <4>1, <4>3
    <3>5. CASE m # i /\ m # i + 2
      <4>1. p[m] # c
        BY <1>2, <2>4, <3>5 DEF c
      <4>2. p[m] # h[n].next
        <5>1. CASE i + 1 = l
          BY <2>4, <2>5, <5>1
        <5>2. CASE i + 1 # l
          <6>1. i + 2 \in 1 .. l
            BY <2>2, <5>2
          <6> QED
            BY <2>4, <2>5, <3>5, <5>2, <6>1
        <5> QED
          BY <5>1, <5>2
      <4> QED
        BY <2>6, <3>1, <3>2, <3>5, <4>1, <4>2
    <3> QED
      BY <3>3, <3>4, <3>5
  <2>13. /\ Listed(h2, Without(p, i + 1), L)
         /\ Fits(h, p, L) => Fits(h2, Without(p, i + 1), L)
    <3>1. i + 1 \in 2 .. Len(p) /\ ~h[p[i + 1]].used /\ ~h[p[(i + 1) - 1]].used
      BY <1>1, <1>2, <2>1, <2>2
    <3> QED
      BY <1>1, <2>7, <2>10, <2>11, <2>12, <3>1, ListWithout
  <2>14. i \in 1 .. Len(Without(p, i + 1)) /\ Without(p, i + 1)[i] = c
    <3>1. i + 1 \in 2 .. Len(p) /\ i \in 1 .. Len(p) - 1 /\ i < i + 1
      BY <1>1, <1>2, <2>2
    <3> QED
      BY <3>1, WithoutAscends DEF Listed, c
  <2>15. ~h2[c].used
    BY <1>2, <2>11 DEF c
  <2>16. ASSUME Sized(h) PROVE Sized(h2)
    BY <2>6, <2>7, <2>8, <2>16 DEF Sized
  <2> QED
    BY <2>13, <2>14, <2>15, <2>16 DEF c, h2
<1> QED
  BY <1>3, <1>4

(***************************************************************************)
(* ConsolidatedBackwards keeps the list: chunk n leaves it, unless n was   *)
(* the first, or one that the first one's null pointer made look like it.  *)
(***************************************************************************)
LEMMA BackwardsKeepsList ==
  ASSUME NEW h, NEW p, NEW L, Listed(h, p, L), NEW i \in 1 .. Len(p), ~h[p[i]].used
  PROVE  LET h2 == ConsolidatedBackwards(h, p[i]) IN
         /\ \E q : Listed(h2, q, L) /\ (Fits(h, p, L) => Fits(h2, q, L))
         /\ Sized(h) => Sized(h2)
<1> DEFINE c == p[i]
           n == h[c].prev
           h2 == ConsolidatedBackwards(h, c)
<1>1. PICK l \in Nat : l = Len(p) /\ l > 0
  BY AscendingFacts DEF Listed
<1>2. /\ c \in DOMAIN h /\ i \in 1 .. l
      /\ n # Null => i > 1 /\ n = p[i - 1]
  BY <1>1 DEF Listed, Linked
<1>3. CASE h2 = h
  <2>1. Listed(h2, p, L) /\ (Fits(h, p, L) => Fits(h2, p, L)) /\ (Sized(h) => Sized(h2)) /\ ~h2[c].used
    BY <1>3
  <2> HIDE DEF c, h2
  <2> QED
    BY <2>1 DEF c, h2
<1>4. CASE h2 # h
  <2>1. n # Null /\ ~h[n].used
        /\ h2 = [a \in DOMAIN h |->
                   IF a = c THEN [h[c] EXCEPT !.prev = h[n].prev, !.size = JoinedSize(@, h[n].size)]
                   ELSE IF a = h[n].prev THEN [h[a] EXCEPT !.next = c]
                   ELSE h[a]]
    BY <1>4 DEF ConsolidatedBackwards
  <2>2. i > 1 /\ i - 1 \in 1 .. l /\ n = p[i - 1] /\ n \in DOMAIN h
    BY <1>1, <1>2, <2>1 DEF Listed, Linked
  <2>3. \A a \in DOMAIN h : h[a] \in [prev : DOMAIN h \cup {Null}, next : DOMAIN h \cup {Null},
                                       size : Nat \cup {Garbage}, used : BOOLEAN]
    BY DEF Listed, Typed
  <2>4. /\ \A a, b \in 1 .. l : p[a] = p[b] => a = b
        /\ \A a \in 1 .. l : p[a] \in DOMAIN h /\ p[a] \in Nat
    <3>1. Ascending(p) /\ \A a \in 1 .. l : p[a] \in DOMAIN h
      BY <1>1 DEF Listed, Linked
    <3> QED
      BY <1>1, <3>1, AscendingFacts
  <2>5. h[n].prev # Null => i - 1 > 1 /\ h[n].prev = p[(i - 1) - 1]
    BY <1>1, <2>2 DEF Listed, Linked
  <2>6. h[n].next = c
    <3>1. i - 1 \in 1 .. Len(p) /\ i - 1 # Len(p) /\ (i - 1) + 1 = i
      BY <1>1, <1>2, <2>2
    <3> QED
      BY <2>2, <3>1 DEF Listed, Linked
  <2> HIDE DEF c, n, h2
  <2>7. c # h[n].prev
    <3>1. CASE h[n].prev = Null
      BY <1>2, <2>4, <3>1 DEF c
    <3>2. CASE h[n].prev # Null
      <4>1. (i - 1) - 1 \in 1 .. l /\ (i - 1) - 1 # i
        BY <1>2, <2>2, <2>5, <3>2
      <4> QED
        BY <1>2, <2>4, <2>5, <3>2, <4>1 DEF c
    <3> QED
      BY <3>1, <3>2
  <2>8. /\ h2[c] = [prev |-> h[n].prev, next |-> h[c].next,
                    size |-> JoinedSize(h[c].size, h[n].size), used |-> h[c].used]
        /\ \A a \in DOMAIN h : a # c /\ a = h[n].prev =>
              h2[a] = [prev |-> h[a].prev, next |-> c, size |-> h[a].size, used |-> h[a].used]
        /\ \A a \in DOMAIN h : a # c /\ a # h[n].prev => h2[a] = h[a]
    BY <1>2, <2>1, <2>3
  <2>9. DOMAIN h2 = DOMAIN h /\ h2 = [a \in DOMAIN h2 |-> h2[a]]
    BY <2>1
  <2>10. JoinedSize(h[c].size, h[n].size) \in Nat \cup {Garbage} /\ JoinedSize(h[c].size, h[n].size) # 0
    BY <1>2, <2>2, <2>3, JoinedSizeType
  <2>11. \A a \in DOMAIN h : h2[a] \in [prev : DOMAIN h \cup {Null}, next : DOMAIN h \cup {Null},
                                       size : Nat \cup {Garbage}, used : BOOLEAN]
    <3>1. h2[c] \in [prev : DOMAIN h \cup {Null}, next : DOMAIN h \cup {Null},
                     size : Nat \cup {Garbage}, used : BOOLEAN]
      BY <1>2, <2>2, <2>3, <2>8, <2>10
    <3>2. ASSUME NEW a \in DOMAIN h, a # c, a = h[n].prev
          PROVE  h2[a] \in [prev : DOMAIN h \cup {Null}, next : DOMAIN h \cup {Null},
                            size : Nat \cup {Garbage}, used : BOOLEAN]
      <4>1. h2[a] = [prev |-> h[a].prev, next |-> c, size |-> h[a].size, used |-> h[a].used]
        BY <2>8, <3>2
      <4> QED
        BY <1>2, <2>3, <4>1
    <3>3. ASSUME NEW a \in DOMAIN h, a # c, a # h[n].prev
          PROVE  h2[a] \in [prev : DOMAIN h \cup {Null}, next : DOMAIN h \cup {Null},
                            size : Nat \cup {Garbage}, used : BOOLEAN]
      BY <2>3, <2>8, <3>3
    <3> QED
      BY <3>1, <3>2, <3>3
  <2>12. Typed(h2)
    BY <2>9, <2>11 DEF Listed, Typed
  <2>13. \A a \in DOMAIN h : /\ h2[a].used = h[a].used
                             /\ h[a].used => h2[a].size = h[a].size
    <3>1. ~h[c].used
      BY DEF c
    <3>2. h2[c].used = h[c].used
      BY <2>8
    <3>3. ASSUME NEW a \in DOMAIN h, a # c
          PROVE  h2[a].used = h[a].used /\ h2[a].size = h[a].size
      <4>1. CASE a = h[n].prev
        <5>1. h2[a] = [prev |-> h[a].prev, next |-> c, size |-> h[a].size, used |-> h[a].used]
          BY <2>8, <3>3, <4>1
        <5> QED
          BY <5>1
      <4>2. CASE a # h[n].prev
        BY <2>8, <3>3, <4>2
      <4> QED
        BY <4>1, <4>2
    <3> QED
      BY <3>1, <3>2, <3>3
  <2>14. ASSUME Sized(h) PROVE Sized(h2)
    BY <2>8, <2>9, <2>10, <2>14 DEF Sized
  <2>15. CASE h[n].prev = Null
    <3>1. \A a \in DOMAIN h : h2[a].next = h[a].next /\ h2[a].prev \in {h[a].prev, Null}
      <4>1. \A a \in DOMAIN h : a # Null
        BY DEF Listed, Typed
      <4> QED
        BY <2>8, <2>15, <4>1
    <3>2. Listed(h2, p, L) /\ (Fits(h, p, L) => Fits(h2, p, L))
      BY <2>9, <2>12, <2>13, <3>1, ListKept
    <3> QED
      BY <2>14, <3>2 DEF c, h2
  <2>16. CASE h[n].prev # Null
    <3>1. /\ i - 1 \in 2 .. Len(p) /\ i - 1 \in 1 .. l /\ i - 1 # Len(p)
          /\ (i - 1) - 1 \in 1 .. l /\ (i - 1) - 1 = i - 2 /\ (i - 1) + 1 = i
          /\ h[n].prev = p[i - 2]
      BY <1>1, <1>2, <2>2, <2>5, <2>16
    <3>2. ASSUME NEW m \in 1 .. l, m # i - 1
          PROVE  /\ h2[p[m]].next = IF m = (i - 1) - 1 THEN h[p[i - 1]].next ELSE h[p[m]].next
                 /\ h2[p[m]].prev \in {Null, IF m = (i - 1) + 1 THEN p[(i - 1) - 1] ELSE h[p[m]].prev}
      <4>1. p[m] \in DOMAIN h
        BY <2>4
      <4>2. CASE m = i
        <5>1. m # i - 2 /\ p[m] = c
          BY <1>2, <4>2 DEF c
        <5> QED
          BY <2>8, <3>1, <4>2, <5>1
      <4>3. CASE m = i - 2
        <5>1. m # i /\ p[m] # c
          BY <1>2, <2>4, <4>3 DEF c
        <5>2. p[m] = h[n].prev
          BY <3>1, <4>3
        <5>3. h2[p[m]].next = c /\ h2[p[m]].prev = h[p[m]].prev
          <6>1. h2[p[m]] = [prev |-> h[p[m]].prev, next |-> c, size |-> h[p[m]].size, used |-> h[p[m]].used]
            BY <2>8, <4>1, <5>1, <5>2
          <6> QED
            BY <6>1
        <5>4. h[p[i - 1]].next = c
          BY <2>2, <2>6
        <5> QED
          BY <3>1, <4>3, <5>1, <5>3, <5>4
      <4>4. CASE m # i /\ m # i - 2
        <5>1. p[m] # c
          BY <1>2, <2>4, <4>4 DEF c
        <5>2. p[m] # h[n].prev
          BY <2>4, <3>1, <4>4
        <5> QED
          BY <2>8, <3>1, <4>1, <4>4, <5>1, <5>2
      <4> QED
        BY <4>2, <4>3, <4>4
    <3>3. /\ Listed(h2, Without(p, i - 1), L)
          /\ Fits(h, p, L) => Fits(h2, Without(p, i - 1), L)
      <4>1. ~h[p[i - 1]].used
        BY <2>1, <2>2
      <4> QED
        BY <1>1, <2>9, <2>12, <2>13, <3>1, <3>2, <4>1, ListWithout
    <3> QED
      BY <2>14, <3>3 DEF c, h2
  <2> QED
    BY SMTT(30), <2>15, <2>16
<1> QED
  BY <1>3, <1>4

\* From h to h2, chunk c gets size s and is used.
Taken(h, h2, c, s) ==
  /\ DOMAIN h2 = DOMAIN h /\ h2 = [a \in DOMAIN h2 |-> h2[a]]
  /\ h2[c] = [prev |-> h[c].prev, next |-> h[c].next, size |-> s, used |-> TRUE]
  /\ \A a \in DOMAIN h : a # c => h2[a] = h[a]

(***************************************************************************)
(* A chunk of the list that nobody uses becomes a new block.               *)
(***************************************************************************)
LEMMA ListWithBlock ==
  ASSUME NEW h, NEW h2, NEW p, NEW L, Listed(h, p, L), NEW i \in 1 .. Len(p), ~h[p[i]].used,
         NEW size \in Nat, NEW s \in Nat \cup {Garbage},
         Taken(h, h2, p[i], s)
  PROVE  LET b == <<p[i] + HeaderSize, size>> IN
         /\ b \notin L /\ Listed(h2, p, L \cup {b})
         /\ Sized(h) /\ s # 0 => Sized(h2)
         /\ Fits(h, p, L) /\ (IF i = Len(p) THEN s \in Nat /\ size + HeaderSize <= s
                              ELSE p[i] + HeaderSize + size <= p[i + 1]) => Fits(h2, p, L \cup {b})
<1> DEFINE c == p[i]
           b == <<c + HeaderSize, size>>
           M == L \cup {b}
<1>1. PICK l \in Nat : l = Len(p) /\ l > 0
  BY AscendingFacts DEF Listed
<1>2. i \in 1 .. l /\ c \in DOMAIN h /\ c \in Nat
  BY <1>1, AscendingFacts DEF Listed, Linked
<1>3. \A m \in 1 .. l : p[m] \in DOMAIN h /\ p[m] \in Nat
  <2>1. Ascending(p) /\ \A a \in 1 .. l : p[a] \in DOMAIN h
    BY <1>1 DEF Listed, Linked
  <2> QED
    BY <1>1, <2>1, AscendingFacts
<1>4. \A a \in DOMAIN h : h[a] \in [prev : DOMAIN h \cup {Null}, next : DOMAIN h \cup {Null},
                                    size : Nat \cup {Garbage}, used : BOOLEAN]
  BY DEF Listed, Typed
<1> HIDE DEF c
<1>6. /\ DOMAIN h2 = DOMAIN h /\ h2 = [a \in DOMAIN h2 |-> h2[a]]
      /\ h2[c] = [prev |-> h[c].prev, next |-> h[c].next, size |-> s, used |-> TRUE]
      /\ \A a \in DOMAIN h : a # c => h2[a] = h[a]
  BY DEF c, Taken
<1>7. /\ \A a \in DOMAIN h : h2[a].next = h[a].next /\ h2[a].prev = h[a].prev
      /\ h2[c].used /\ h2[c].size = s
  BY <1>2, <1>6
<1>8. Typed(h2)
  <2>1. h2[c] \in [prev : DOMAIN h \cup {Null}, next : DOMAIN h \cup {Null},
                   size : Nat \cup {Garbage}, used : BOOLEAN]
    BY <1>2, <1>4, <1>6
  <2>2. \A a \in DOMAIN h2 : h2[a] \in [prev : DOMAIN h2 \cup {Null}, next : DOMAIN h2 \cup {Null},
                                        size : Nat \cup {Garbage}, used : BOOLEAN]
    BY <1>4, <1>6, <2>1
  <2> QED
    BY <1>6, <2>2 DEF Listed, Typed
<1>9. Linked(h2, p)
  <2>1. \A m \in 1 .. Len(p) : /\ h2[p[m]].next = IF m = Len(p) THEN Null ELSE p[m + 1]
                               /\ h2[p[m]].prev # Null => m > 1 /\ h2[p[m]].prev = p[m - 1]
    BY <1>1, <1>3, <1>7 DEF Listed, Linked
  <2>2. \A a \in DOMAIN h2 : h2[a].used => \E m \in 1 .. Len(p) : p[m] = a
    <3>1. c \in {p[m] : m \in 1 .. Len(p)}
      BY DEF c
    <3> QED
      BY <1>6, <3>1 DEF Listed, Linked
  <2> QED
    BY <1>1, <1>3, <1>6, <2>1, <2>2 DEF Linked
<1>10. /\ b[1] = c + HeaderSize /\ b[2] = size /\ b[1] - HeaderSize = c
       /\ b[1] \in Nat /\ b[2] \in Nat
  BY <1>2
<1>11. \A a \in L : a[1] - HeaderSize # c /\ a[1] # b[1]
  <2>1. ~h[c].used
    BY DEF c
  <2>2. \A a \in L : a[1] - HeaderSize # c
    BY <2>1 DEF Listed, Owned
  <2> QED
    BY <1>10, <2>2
<1> HIDE DEF b
<1>12. Owned(h2, M)
  <2>1. \A a \in M : a[1] \in Nat /\ a[2] \in Nat
    BY <1>10 DEF Listed, Owned
  <2>2. \A a \in M : a[1] - HeaderSize \in DOMAIN h2 /\ h2[a[1] - HeaderSize].used
    BY <1>2, <1>6, <1>7, <1>10, <1>11 DEF Listed, Owned
  <2>3. \A a, d \in M : a[1] = d[1] => a = d
    BY <1>11 DEF Listed, Owned
  <2>4. \A a \in DOMAIN h2 : h2[a].used => \E d \in M : d[1] = a + HeaderSize
    <3>1. ASSUME NEW a \in DOMAIN h2, h2[a].used PROVE \E d \in M : d[1] = a + HeaderSize
      <4>1. CASE a = c
        BY <1>10, <4>1
      <4>2. CASE a # c
        <5>1. h[a].used /\ a \in DOMAIN h
          BY <1>6, <3>1, <4>2
        <5> QED
          BY <5>1 DEF Listed, Owned
      <4> QED
        BY <4>1, <4>2
    <3> QED
      BY <3>1
  <2> QED
    BY <2>1, <2>2, <2>3, <2>4 DEF Owned
<1>13. ASSUME Sized(h), s # 0 PROVE Sized(h2)
  BY <1>6, <1>7, <1>13 DEF Sized
<1>14. ASSUME Fits(h, p, L),
              IF i = Len(p) THEN s \in Nat /\ size + HeaderSize <= s
                            ELSE p[i] + HeaderSize + size <= p[i + 1]
       PROVE  Fits(h2, p, M)
  <2>1. ASSUME NEW a \in M, NEW m \in 1 .. Len(p), p[m] = a[1] - HeaderSize
        PROVE  IF m = Len(p) THEN h2[p[m]].size \in Nat /\ a[1] + a[2] <= p[m] + h2[p[m]].size
                             ELSE a[1] + a[2] <= p[m + 1]
    <3>1. CASE a \in L
      <4>1. p[m] # c /\ p[m] \in DOMAIN h
        BY <1>1, <1>3, <1>11, <2>1, <3>1
      <4>2. h2[p[m]] = h[p[m]]
        BY <1>6, <4>1
      <4> QED
        BY <1>14, <2>1, <3>1, <4>2 DEF Fits
    <3>2. CASE a = b
      <4>1. p[m] = c
        BY <1>10, <2>1, <3>2
      <4>2. m = i
        <5>1. Ascending(p) /\ m \in 1 .. Len(p) /\ i \in 1 .. Len(p) /\ p[m] = p[i]
          BY <2>1, <4>1 DEF Listed, c
        <5> QED
          BY <5>1, AscendingFacts
      <4>3. a[1] = c + HeaderSize /\ a[2] = size /\ p[i] = c /\ h2[p[m]].size = s
        BY <1>7, <1>10, <3>2, <4>1 DEF c
      <4>4. CASE i = Len(p)
        <5>1. s \in Nat /\ size + HeaderSize <= s
          BY <1>14, <4>4
        <5> QED
          BY <1>2, <4>1, <4>2, <4>3, <4>4, <5>1
      <4>5. CASE i # Len(p)
        <5>1. c + HeaderSize + size <= p[i + 1]
          BY <1>14, <4>3, <4>5
        <5> QED
          BY <4>2, <4>3, <4>5, <5>1
      <4> QED
        BY <4>4, <4>5
    <3> QED
      BY <3>1, <3>2
  <2> QED
    BY <2>1 DEF Fits
<1>15. b \notin L
  BY <1>11
<1>16. Listed(h2, p, M)
  BY <1>8, <1>9, <1>12 DEF Listed
<1> QED
  BY <1>13, <1>14, <1>15, <1>16 DEF b, c

(***************************************************************************)
(* A block that is freed leaves the list as it is.                         *)
(***************************************************************************)
LEMMA ListWithoutBlock ==
  ASSUME NEW h, NEW p, NEW L, Listed(h, p, L), NEW b \in L
  PROVE  LET c == b[1] - HeaderSize
             h2 == [h EXCEPT ![c].used = FALSE] IN
         /\ Listed(h2, p, L \ {b})
         /\ Sized(h) => Sized(h2)
         /\ Fits(h, p, L) => Fits(h2, p, L \ {b})
         /\ ~h2[c].used
         /\ \E i \in 1 .. Len(p) : p[i] = c
<1> DEFINE c == b[1] - HeaderSize
           h2 == [h EXCEPT ![c].used = FALSE]
           M == L \ {b}
<1>1. c \in DOMAIN h /\ h[c].used /\ b[1] \in Nat
  BY DEF Listed, Owned
<1>2. \A a \in DOMAIN h : h[a] \in [prev : DOMAIN h \cup {Null}, next : DOMAIN h \cup {Null},
                                    size : Nat \cup {Garbage}, used : BOOLEAN]
  BY DEF Listed, Typed
<1> HIDE DEF c
<1>3. /\ DOMAIN h2 = DOMAIN h /\ h2 = [a \in DOMAIN h2 |-> h2[a]]
      /\ h2[c] = [prev |-> h[c].prev, next |-> h[c].next, size |-> h[c].size, used |-> FALSE]
      /\ \A a \in DOMAIN h : a # c => h2[a] = h[a]
  BY <1>1, <1>2
<1> HIDE DEF h2
<1>4. /\ \A a \in DOMAIN h : h2[a].next = h[a].next /\ h2[a].prev = h[a].prev /\ h2[a].size = h[a].size
      /\ ~h2[c].used
  BY <1>1, <1>3
<1>5. Typed(h2)
  <2>1. h2[c] \in [prev : DOMAIN h \cup {Null}, next : DOMAIN h \cup {Null},
                   size : Nat \cup {Garbage}, used : BOOLEAN]
    BY <1>1, <1>2, <1>3
  <2>2. \A a \in DOMAIN h2 : h2[a] \in [prev : DOMAIN h2 \cup {Null}, next : DOMAIN h2 \cup {Null},
                                        size : Nat \cup {Garbage}, used : BOOLEAN]
    BY <1>2, <1>3, <2>1
  <2> QED
    BY <1>3, <2>2 DEF Listed, Typed
<1>6. \A a \in DOMAIN h : h2[a].used => h[a].used /\ a # c
  BY <1>3, <1>4
<1>7. \A m \in 1 .. Len(p) : p[m] \in DOMAIN h
  BY DEF Listed, Linked
<1>8. Linked(h2, p)
  <2>1. \A m \in 1 .. Len(p) : /\ h2[p[m]].next = IF m = Len(p) THEN Null ELSE p[m + 1]
                               /\ h2[p[m]].prev # Null => m > 1 /\ h2[p[m]].prev = p[m - 1]
    BY <1>4, <1>7 DEF Listed, Linked
  <2>2. \A a \in DOMAIN h2 : h2[a].used => \E m \in 1 .. Len(p) : p[m] = a
    BY <1>3, <1>6 DEF Listed, Linked
  <2> QED
    BY <1>3, <1>7, <2>1, <2>2 DEF Linked
<1>9. \A a \in M : a[1] - HeaderSize # c
  <2>1. ASSUME NEW a \in M, a[1] - HeaderSize = c PROVE FALSE
    <3>1. a[1] \in Nat /\ b[1] \in Nat
      BY DEF Listed, Owned
    <3>2. a[1] = b[1]
      BY <2>1, <3>1 DEF c
    <3> QED
      BY <3>2 DEF Listed, Owned
  <2> QED
    BY <2>1
<1>10. Owned(h2, M)
  <2>1. \A a \in M : a[1] \in Nat /\ a[2] \in Nat
    BY DEF Listed, Owned
  <2>2. \A a \in M : a[1] - HeaderSize \in DOMAIN h2 /\ h2[a[1] - HeaderSize].used
    <3>1. ASSUME NEW a \in M
          PROVE  a[1] - HeaderSize \in DOMAIN h2 /\ h2[a[1] - HeaderSize].used
      <4>1. a[1] - HeaderSize \in DOMAIN h /\ h[a[1] - HeaderSize].used
        BY DEF Listed, Owned
      <4>2. h2[a[1] - HeaderSize] = h[a[1] - HeaderSize]
        BY <1>3, <1>9, <4>1
      <4> QED
        BY <1>3, <4>1, <4>2
    <3> QED
      BY <3>1
  <2>3. \A a, d \in M : a[1] = d[1] => a = d
    BY DEF Listed, Owned
  <2>4. ASSUME NEW a \in DOMAIN h2, h2[a].used PROVE \E d \in M : d[1] = a + HeaderSize
    <3>1. a \in DOMAIN h /\ h[a].used /\ a # c /\ a \in Nat
      BY <1>3, <1>6, <2>4 DEF Listed, Typed
    <3>2. PICK d \in L : d[1] = a + HeaderSize
      BY <3>1 DEF Listed, Owned
    <3>3. d # b
      BY <3>1, <3>2 DEF c
    <3> QED
      BY <3>2, <3>3
  <2> QED
    BY <2>1, <2>2, <2>3, <2>4 DEF Owned
<1>11. ASSUME Sized(h) PROVE Sized(h2)
  BY <1>3, <1>4, <1>11 DEF Sized
<1>12. ASSUME Fits(h, p, L) PROVE Fits(h2, p, M)
  BY <1>4, <1>7, <1>12 DEF Fits
<1>13. \E i \in 1 .. Len(p) : p[i] = c
  BY <1>1 DEF Listed, Linked
<1>14. Listed(h2, p, M)
  BY <1>5, <1>8, <1>10 DEF Listed
<1> QED
  BY <1>4, <1>11, <1>12, <1>13, <1>14 DEF h2, c

\* The size stored for a request covers the request and the header.
LEMMA AlignedSizeCovers ==
  ASSUME NEW size \in Nat
  PROVE  AlignedSize(size) \in Nat /\ AlignedSize(size) >= size + HeaderSize
<1>1. PICK n \in Nat : n = size + HeaderSize + ChunkSizeAlign - 1
  BY DEF ChunkSizeAlign
<1>2. n \in Nat /\ n = size + 20
  BY <1>1 DEF ChunkSizeAlign
<1>3. PICK d : d = n \div 8
  OBVIOUS
<1>4. d \in Nat /\ 8 * d <= n /\ n < 8 * d + 8
  BY <1>2, <1>3
<1>5. AlignedSize(size) = d * 8
  BY <1>1, <1>3 DEF AlignedSize, ChunkSizeAlign
<1> QED
  BY <1>2, <1>4, <1>5

\* From h to h2, a used chunk of size s is linked behind the last one.
Appended(h, h2, p, last, new, s) ==
  /\ last = p[Len(p)] /\ new = last + h[last].size
  /\ h[last].size # Garbage /\ h[last].size # 0
  /\ DOMAIN h2 = DOMAIN h \cup {new} /\ h2 = [a \in DOMAIN h2 |-> h2[a]]
  /\ h2[new] = [prev |-> last, next |-> Null, size |-> s, used |-> TRUE]
  /\ h2[last] = [prev |-> h[last].prev, next |-> new, size |-> h[last].size, used |-> h[last].used]
  /\ \A c \in DOMAIN h : c # new /\ c # last => h2[c] = h[c]

(***************************************************************************)
(* A new block is appended to the list, behind what the last one's size    *)
(* says, where no chunk in use is.                                         *)
(***************************************************************************)
LEMMA ListWithLast ==
  ASSUME NEW h, NEW h2, NEW p, NEW L, Listed(h, p, L),
         NEW size \in Nat, NEW last, NEW new, Appended(h, h2, p, last, new, AlignedSize(size))
  PROVE  LET b == <<new + HeaderSize, size>> IN
         /\ b \notin L /\ \E q : Listed(h2, q, L \cup {b}) /\ (Fits(h, p, L) => Fits(h2, q, L \cup {b}))
         /\ Sized(h) => Sized(h2)
         /\ new \in Nat /\ new >= BigChunks
<1> DEFINE b == <<new + HeaderSize, size>>
           M == L \cup {b}
           q == Append(p, new)
<1>1. PICK l \in Nat : l = Len(p) /\ l > 0
  BY AscendingFacts DEF Listed
<1>2. \A m \in 1 .. l : p[m] \in DOMAIN h /\ p[m] \in Nat /\ p[m] >= BigChunks
  <2>1. Ascending(p) /\ \A a \in 1 .. l : p[a] \in DOMAIN h
    BY <1>1 DEF Listed, Linked
  <2> QED
    BY <1>1, <2>1, AscendingFacts
<1>3. \A a \in DOMAIN h : a \in Nat /\ h[a] \in [prev : DOMAIN h \cup {Null}, next : DOMAIN h \cup {Null},
                                    size : Nat \cup {Garbage}, used : BOOLEAN]
  BY DEF Listed, Typed
<1>4. l \in 1 .. l /\ last = p[l] /\ last \in DOMAIN h /\ last \in Nat /\ last >= BigChunks
  BY <1>1, <1>2 DEF Appended
<1>5. h[last].size \in Nat /\ h[last].size > 0 /\ new \in Nat /\ new > last /\ new >= BigChunks
  BY <1>3, <1>4, BigChunksBehindBin DEF Appended
<1>6. \A m \in 1 .. l : p[m] < new /\ (m # l => p[m] < last)
  <2>1. \A m \in 1 .. l : m # l => p[m] < p[l]
    BY <1>1, <1>4 DEF Listed, Ascending
  <2> QED
    BY <1>2, <1>4, <1>5, <2>1
<1>7. AlignedSize(size) \in Nat /\ AlignedSize(size) >= size + HeaderSize
  BY AlignedSizeCovers
<1>8. /\ q \in Seq(Nat) /\ Len(q) = l + 1 /\ q[l + 1] = new
      /\ \A m \in 1 .. l : q[m] = p[m]
  <2>1. p \in Seq(Nat) /\ new \in Nat
    BY <1>5 DEF Listed, Ascending
  <2> QED
    BY <1>1, <2>1, AppendProperties
<1> HIDE DEF q
<1>9. /\ DOMAIN h2 = DOMAIN h \cup {new} /\ h2 = [a \in DOMAIN h2 |-> h2[a]]
      /\ h2[new] = [prev |-> last, next |-> Null, size |-> AlignedSize(size), used |-> TRUE]
      /\ h2[last] = [prev |-> h[last].prev, next |-> new, size |-> h[last].size, used |-> h[last].used]
      /\ \A a \in DOMAIN h : a # new /\ a # last => h2[a] = h[a]
  BY DEF Appended
<1>10. /\ \A a \in DOMAIN h : a # new => /\ h2[a].prev = h[a].prev /\ h2[a].size = h[a].size
                                         /\ h2[a].used = h[a].used
                                         /\ a # last => h2[a].next = h[a].next
       /\ h2[new].used /\ h2[new].prev = last /\ h2[new].next = Null
       /\ h2[new].size = AlignedSize(size) /\ h2[last].next = new
  <2>1. /\ h2[new].used /\ h2[new].prev = last /\ h2[new].next = Null
        /\ h2[new].size = AlignedSize(size) /\ h2[last].next = new
    BY <1>9
  <2>2. ASSUME NEW a \in DOMAIN h, a # new
        PROVE  /\ h2[a].prev = h[a].prev /\ h2[a].size = h[a].size /\ h2[a].used = h[a].used
               /\ a # last => h2[a].next = h[a].next
    <3>1. CASE a = last
      BY <1>9, <3>1
    <3>2. CASE a # last
      BY <1>9, <2>2, <3>2
    <3> QED
      BY <3>1, <3>2
  <2> QED
    BY <2>1, <2>2
<1>11. Typed(h2)
  <2> DEFINE D == DOMAIN h \cup {new}
             H == [prev : D \cup {Null}, next : D \cup {Null}, size : Nat \cup {Garbage}, used : BOOLEAN]
  <2>1. h2[new] \in H
    <3>1. PICK s \in Nat : s = AlignedSize(size)
      BY <1>7
    <3>2. last \in D \cup {Null} /\ Null \in D \cup {Null} /\ s \in Nat \cup {Garbage} /\ TRUE \in BOOLEAN
      BY <1>4
    <3>3. h2[new] = [prev |-> last, next |-> Null, size |-> s, used |-> TRUE]
      BY <1>9, <3>1
    <3> HIDE DEF D
    <3> QED
      BY <3>2, <3>3
  <2>2. h2[last] \in H
    <3>1. /\ h[last].prev \in DOMAIN h \cup {Null} /\ h[last].size \in Nat \cup {Garbage}
          /\ h[last].used \in BOOLEAN
      BY <1>3, <1>4
    <3> QED
      BY <1>9, <3>1
  <2>3. \A a \in DOMAIN h : a # new /\ a # last => h2[a] \in H
    BY <1>3, <1>9
  <2>4. \A a \in DOMAIN h2 : h2[a] \in H
    BY <1>9, <2>1, <2>2, <2>3
  <2>5. IsFiniteSet(D)
    BY FS_AddElement DEF Listed, Typed
  <2> QED
    BY <1>5, <1>9, <2>4, <2>5 DEF Listed, Typed
<1>12. \A a \in DOMAIN h2 : h2[a].used => a = new \/ (a \in DOMAIN h /\ a # new /\ h[a].used)
  BY <1>9, <1>10
<1>13. Ascending(q)
  <2>1. \A m \in 1 .. l + 1 : m \in 1 .. l \/ m = l + 1
    OBVIOUS
  <2>2. \A i, j \in 1 .. l : i < j => p[i] < p[j]
    BY <1>1 DEF Listed, Ascending
  <2>3. \A i, j \in 1 .. l + 1 : i < j => q[i] < q[j]
    <3>1. ASSUME NEW i \in 1 .. l + 1, NEW j \in 1 .. l + 1, i < j PROVE q[i] < q[j]
      <4>1. CASE j = l + 1
        <5>1. i \in 1 .. l
          BY <3>1, <4>1
        <5> QED
          BY <1>6, <1>8, <4>1, <5>1
      <4>2. CASE j # l + 1
        <5>1. i \in 1 .. l /\ j \in 1 .. l
          BY <3>1, <4>2
        <5> QED
          BY <1>8, <2>2, <3>1, <5>1
      <4> QED
        BY <4>1, <4>2
    <3> QED
      BY <3>1
  <2>4. q[1] = BigChunks
    <3>1. 1 \in 1 .. l
      BY <1>1
    <3> QED
      BY <1>8, <3>1 DEF Listed, Ascending
  <2>5. q \in Seq(Nat) /\ Len(q) = l + 1 /\ l + 1 > 0
    BY <1>1, <1>8
  <2> QED
    BY <2>3, <2>4, <2>5 DEF Ascending
<1>14. Linked(h2, q)
  <2>1. \A i \in 1 .. l : h[p[i]].next = IF i = l THEN Null ELSE p[i + 1]
    BY <1>1 DEF Listed, Linked
  <2>2. \A i \in 1 .. l : h[p[i]].prev # Null => i > 1 /\ h[p[i]].prev = p[i - 1]
    BY <1>1 DEF Listed, Linked
  <2>3. ASSUME NEW i \in 1 .. l + 1
        PROVE  /\ q[i] \in DOMAIN h2
               /\ h2[q[i]].next = IF i = l + 1 THEN Null ELSE q[i + 1]
               /\ h2[q[i]].prev # Null => i > 1 /\ h2[q[i]].prev = q[i - 1]
    <3>1. CASE i = l + 1
      <4>1. i > 1 /\ i - 1 = l /\ q[i - 1] = last /\ q[i] = new
        BY <1>1, <1>4, <1>8, <3>1
      <4> QED
        BY <1>9, <1>10, <3>1, <4>1
    <3>2. CASE i = l
      <4>1. i \in 1 .. l /\ q[i] = last /\ p[i] = last /\ q[i + 1] = new /\ last # new
        BY <1>4, <1>5, <1>8, <3>2
      <4>2. h2[q[i]].prev # Null => i > 1 /\ h2[q[i]].prev = p[i - 1]
        BY <1>4, <1>10, <2>2, <4>1
      <4>3. i > 1 => q[i - 1] = p[i - 1]
        <5>1. i > 1 => i - 1 \in 1 .. l
          BY <1>1, <3>2
        <5> QED
          BY <1>8, <5>1
      <4> QED
        BY <1>1, <1>4, <1>9, <1>10, <3>2, <4>1, <4>2, <4>3
    <3>3. CASE i \in 1 .. l /\ i # l
      <4>1. i + 1 \in 1 .. l /\ (i > 1 => i - 1 \in 1 .. l) /\ i # l + 1
        BY <3>3
      <4>2. /\ q[i] = p[i] /\ q[i + 1] = p[i + 1] /\ (i > 1 => q[i - 1] = p[i - 1])
            /\ p[i] # new /\ p[i] # last /\ p[i] \in DOMAIN h
        <5>1. q[i] = p[i] /\ q[i + 1] = p[i + 1] /\ (i > 1 => q[i - 1] = p[i - 1])
          BY <1>8, <3>3, <4>1
        <5>2. p[i] < new /\ p[i] < last /\ p[i] \in DOMAIN h /\ p[i] \in Nat
          BY <1>2, <1>6, <3>3
        <5> QED
          BY <1>4, <1>5, <5>1, <5>2
      <4> QED
        BY <1>9, <1>10, <2>1, <2>2, <3>3, <4>1, <4>2
    <3> QED
      BY <3>1, <3>2, <3>3
  <2>4. ASSUME NEW a \in DOMAIN h2, h2[a].used PROVE \E i \in 1 .. l + 1 : q[i] = a
    <3>1. CASE a = new
      <4>1. l + 1 \in 1 .. l + 1
        OBVIOUS
      <4> QED
        BY <1>8, <3>1, <4>1
    <3>2. CASE a \in DOMAIN h /\ h[a].used
      <4>1. PICK i \in 1 .. l : p[i] = a
        BY <1>1, <3>2 DEF Listed, Linked
      <4> QED
        BY <1>8, <4>1
    <3> QED
      BY <1>12, <2>4, <3>1, <3>2
  <2> QED
    BY <1>8, <2>3, <2>4 DEF Linked
<1>15. b[1] = new + HeaderSize /\ b[2] = size /\ b[1] \in Nat /\ b[1] - HeaderSize = new
  BY <1>5
<1> HIDE DEF b
<1>16. \A a \in L : a[1] - HeaderSize \in DOMAIN h /\ a[1] - HeaderSize # new /\ a[1] # b[1]
  <2>1. ASSUME NEW a \in L PROVE a[1] - HeaderSize \in DOMAIN h /\ a[1] - HeaderSize # new
    <3>1. a[1] - HeaderSize \in DOMAIN h /\ h[a[1] - HeaderSize].used
      BY DEF Listed, Owned
    <3>2. PICK i \in 1 .. l : p[i] = a[1] - HeaderSize
      BY <1>1, <3>1 DEF Listed, Linked
    <3> QED
      BY <1>2, <1>5, <1>6, <3>1, <3>2
  <2> QED
    BY <1>15, <2>1
<1>17. Owned(h2, M)
  <2>1. \A a \in M : a[1] \in Nat /\ a[2] \in Nat
    BY <1>15 DEF Listed, Owned
  <2>2. \A a \in M : a[1] - HeaderSize \in DOMAIN h2 /\ h2[a[1] - HeaderSize].used
    BY <1>9, <1>10, <1>15, <1>16 DEF Listed, Owned
  <2>3. \A a, d \in M : a[1] = d[1] => a = d
    BY <1>16 DEF Listed, Owned
  <2>4. ASSUME NEW a \in DOMAIN h2, h2[a].used PROVE \E d \in M : d[1] = a + HeaderSize
    <3>1. CASE a = new
      BY <1>15, <3>1
    <3>2. CASE a \in DOMAIN h /\ h[a].used
      BY <3>2 DEF Listed, Owned
    <3> QED
      BY <1>12, <2>4, <3>1, <3>2
  <2> QED
    BY <2>1, <2>2, <2>3, <2>4 DEF Owned
<1>18. ASSUME Sized(h) PROVE Sized(h2)
  BY <1>7, <1>9, <1>10, <1>18 DEF Sized
<1>19. ASSUME Fits(h, p, L) PROVE Fits(h2, q, M)
  <2>1. ASSUME NEW a \in M, NEW m \in 1 .. l + 1, q[m] = a[1] - HeaderSize
        PROVE  IF m = l + 1 THEN h2[q[m]].size \in Nat /\ a[1] + a[2] <= q[m] + h2[q[m]].size
                            ELSE a[1] + a[2] <= q[m + 1]
    <3>1. CASE m = l + 1
      <4>1. a = b
        BY <1>8, <1>16, <2>1, <3>1
      <4>2. q[m] = new /\ h2[q[m]].size = AlignedSize(size)
        BY <1>8, <1>10, <3>1
      <4>3. a[1] = new + HeaderSize /\ a[2] = size
        BY <1>15, <4>1
      <4> QED
        BY <1>5, <1>7, <3>1, <4>2, <4>3
    <3>2. CASE m \in 1 .. l
      <4>1. q[m] = p[m] /\ p[m] # new
        <5>1. p[m] < new /\ p[m] \in Nat
          BY <1>2, <1>6, <3>2
        <5> QED
          BY <1>5, <1>8, <3>2, <5>1
      <4>2. a \in L
        BY <1>15, <2>1, <4>1
      <4>3. IF m = l THEN h[p[m]].size \in Nat /\ a[1] + a[2] <= p[m] + h[p[m]].size
                     ELSE a[1] + a[2] <= p[m + 1]
        BY <1>1, <1>19, <2>1, <3>2, <4>1, <4>2 DEF Fits
      <4>4. CASE m = l
        <5>1. q[m + 1] = new /\ m # l + 1
          BY <1>8, <4>4
        <5>2. new = last + h[last].size
          BY DEF Appended
        <5> QED
          BY <1>4, <4>3, <4>4, <5>1, <5>2
      <4>5. CASE m # l
        <5>1. m + 1 \in 1 .. l /\ m # l + 1
          BY <3>2, <4>5
        <5> QED
          BY <1>8, <4>3, <4>5, <5>1
      <4> QED
        BY <4>4, <4>5
    <3> QED
      BY <3>1, <3>2
  <2> QED
    BY <1>8, <2>1 DEF Fits
<1>20. b \notin L
  BY <1>16
<1>21. Listed(h2, q, M)
  BY <1>11, <1>13, <1>14, <1>17 DEF Listed
<1> QED
  BY <1>5, <1>18, <1>19, <1>20, <1>21 DEF b

-----------------------------------------------------------------------------
(* The steps.                                                              *)

\* Every block is of one kind, and a block behind the bin is a big one.
LEMMA KindsOfBlocks ==
  ASSUME MemoryInv
  PROVE  /\ IsFiniteSet(BigLive) /\ allocated \in Nat /\ (allocated = 0 <=> BigLive = {})
         /\ \A b : b \in BigLive <=> b \in live /\ ~IsFast(b)
         /\ \A b \in live : b = <<b[1], b[2]>> /\ b[1] \in Nat /\ b[2] \in Sizes /\ b[2] \in Nat /\ b[2] > 0
<1>1. BigLive \subseteq live /\ IsFiniteSet(live) /\ allocated = Cardinality(BigLive)
  BY DEF MemoryInv, Counted, BigLive
<1>2. IsFiniteSet(BigLive)
  BY <1>1, FS_Subset
<1>3. allocated \in Nat /\ (allocated = 0 <=> BigLive = {})
  BY <1>1, <1>2, FS_CardinalityType, FS_EmptySet
<1>4. \A b : b \in BigLive <=> b \in live /\ ~IsFast(b)
  BY DEF BigLive
<1>5. \A b \in live : b = <<b[1], b[2]>> /\ b[1] \in Nat /\ b[2] \in Sizes /\ b[2] \in Nat /\ b[2] > 0
  <2>1. live \subseteq Nat \X Sizes
    BY DEF MemoryInv, Counted
  <2>2. \A x \in Nat \X Sizes : x = <<x[1], x[2]>> /\ x[1] \in Nat /\ x[2] \in Sizes
    OBVIOUS
  <2>3. \A s \in Sizes : s \in Nat /\ s > 0
    BY MemoryManagerAssumption
  <2> QED
    BY <2>1, <2>2, <2>3
<1> QED
  BY <1>2, <1>3, <1>4, <1>5

(***************************************************************************)
(* At first the big chunks are one free chunk without a size               *)
(* (kmm.cpp:63-83), alone on its list.                                     *)
(***************************************************************************)
LEMMA MemoryInvInit == Init => MemoryInv
<1> SUFFICES ASSUME Init PROVE MemoryInv
  OBVIOUS
<1>1. live = {} /\ BigLive = {} /\ allocated = 0 /\ fastBin = {} /\ ~drained
  BY DEF Init, BigLive
<1>2. FastOwned
  BY <1>1 DEF FastOwned
<1>3. Counted
  <2>1. IsFiniteSet({}) /\ Cardinality({}) = 0
    BY FS_EmptySet
  <2>2. wild \in BOOLEAN /\ drained \in BOOLEAN /\ calls \in 0 .. MaxCalls
    <3>1. wild = FALSE /\ drained = FALSE /\ calls = 0
      BY DEF Init
    <3>2. MaxCalls \in Nat
      BY MemoryManagerAssumption
    <3>3. 0 \in 0 .. MaxCalls
      BY <3>2
    <3> QED
      BY <3>1, <3>3, Zenon
  <2> QED
    BY <1>1, <2>1, <2>2 DEF Counted
<1>4. hdr = [c \in {BigChunks} |-> Header(Null, Null, 0, FALSE)]
  BY DEF Init
<1>5. PICK p : p = <<BigChunks>>
  OBVIOUS
<1>6. p \in Seq(Nat) /\ Len(p) = 1 /\ p[1] = BigChunks
  BY <1>5, BigChunksBehindBin
<1>7. hdr[BigChunks] = [prev |-> Null, next |-> Null, size |-> 0, used |-> FALSE] /\ DOMAIN hdr = {BigChunks}
  BY <1>4 DEF Header
<1>8. Typed(hdr)
  <2>1. IsFiniteSet({BigChunks})
    BY FS_Singleton
  <2>2. hdr = [c \in DOMAIN hdr |-> hdr[c]]
    BY <1>4
  <2>3. hdr[BigChunks] \in [prev : DOMAIN hdr \cup {Null}, next : DOMAIN hdr \cup {Null},
                            size : Nat \cup {Garbage}, used : BOOLEAN]
    BY <1>7
  <2>4. BigChunks \in DOMAIN hdr /\ DOMAIN hdr \subseteq Nat /\ IsFiniteSet(DOMAIN hdr)
    BY <1>7, <2>1, BigChunksBehindBin
  <2>5. \A c \in DOMAIN hdr : c = BigChunks
    BY <1>7
  <2> QED
    BY <2>2, <2>3, <2>4, <2>5 DEF Typed
<1>9. Ascending(p)
  BY <1>6 DEF Ascending
<1>10. Linked(hdr, p)
  BY <1>6, <1>7 DEF Linked
<1>11. Owned(hdr, BigLive)
  BY <1>1, <1>7 DEF Owned
<1>12. Fits(hdr, p, BigLive) /\ Fresh
  BY <1>1, <1>4 DEF Fits, Fresh
<1> QED
  BY <1>2, <1>3, <1>8, <1>9, <1>10, <1>11, <1>12 DEF MemoryInv, BigOK, Listed

(***************************************************************************)
(* A small block is taken from the first free chunk of the table.          *)
(***************************************************************************)
LEMMA FastbinKeeps ==
  ASSUME MemoryInv, NEW size \in Sizes, MallocFastbin(size)
  PROVE  MemoryInv'
<1>1. /\ UNCHANGED <<hdr, allocated, wild, drained>> /\ calls' = calls + 1 /\ calls < MaxCalls
      /\ size <= FastbinThreshold
  BY DEF MallocFastbin, Requested
<1>2. calls' \in 0 .. MaxCalls
  BY <1>1, MemoryManagerAssumption DEF MemoryInv, Counted
<1>3. CASE UNCHANGED <<fastBin, live>>
  <2>1. BigLive' = BigLive
    BY <1>3 DEF BigLive
  <2>2. FastOwned'
    BY <1>3, <2>1 DEF MemoryInv, FastOwned
  <2>3. Counted'
    BY <1>1, <1>2, <1>3, <2>1 DEF MemoryInv, Counted
  <2>4. \A p : BigOK(p) => BigOK(p)'
    BY <1>1, <1>3, <2>1 DEF BigOK, Fresh
  <2> QED
    BY <2>2, <2>3, <2>4 DEF MemoryInv
<1>4. CASE ~(UNCHANGED <<fastBin, live>>)
  <2> DEFINE free == (0 .. BinSize - 1) \ fastBin
             i == CHOOSE n \in free : \A m \in free : n <= m
  <2>1. /\ fastBin # 0 .. BinSize - 1
        /\ fastBin' = fastBin \cup {i} /\ live' = live \cup {<<i * FastbinThreshold, size>>}
    BY <1>4 DEF MallocFastbin
  <2>2. free # {} /\ free \in SUBSET Nat
    <3>1. fastBin \subseteq 0 .. BinSize - 1
      BY DEF MemoryInv, FastOwned
    <3>2. free # {}
      BY <2>1, <3>1, Zenon DEF free
    <3> QED
      BY <3>2, BigChunksBehindBin
  <2>3. \E n \in free : \A m \in free : n <= m
    <3> HIDE DEF free
    <3> QED
      BY <2>2, LeastExists
  <2>4. i \in free
    <3> HIDE DEF free
    <3> QED
      BY <2>3
  <2> HIDE DEF i
  <2>5. i \in 0 .. BinSize - 1 /\ i \notin fastBin /\ i \in Nat
    BY <2>4
  <2>6. PICK b : b = <<i * FastbinThreshold, size>>
    OBVIOUS
  <2>7. b[1] = i * FastbinThreshold /\ b[2] = size /\ IsFast(b)
    BY <2>5, <2>6, BigChunksBehindBin DEF IsFast
  <2>8. BigLive' = BigLive
    BY <2>1, <2>6, <2>7 DEF BigLive
  <2>9. live' \ BigLive' = (live \ BigLive) \cup {b}
    BY <2>1, <2>6, <2>7, <2>8 DEF BigLive
  <2>10. \A d \in live \ BigLive : d[1] # i * FastbinThreshold
    <3>1. ASSUME NEW d \in live \ BigLive, d[1] = i * FastbinThreshold PROVE FALSE
      <4>1. PICK j \in fastBin : d[1] = j * FastbinThreshold
        BY DEF MemoryInv, FastOwned
      <4>2. j \in Nat
        BY <4>1 DEF MemoryInv, FastOwned
      <4> QED
        BY <2>5, <3>1, <4>1, <4>2
    <3> QED
      BY <3>1
  <2>11. FastOwned'
    <3>1. fastBin' \subseteq 0 .. BinSize - 1
      BY <2>1, <2>5 DEF MemoryInv, FastOwned
    <3>2. \A d \in live' \ BigLive' : d[2] <= FastbinThreshold /\ \E j \in fastBin' : d[1] = j * FastbinThreshold
      <4>1. ASSUME NEW d \in live \ BigLive
            PROVE  d[2] <= FastbinThreshold /\ \E j \in fastBin' : d[1] = j * FastbinThreshold
        BY <2>1 DEF MemoryInv, FastOwned
      <4>2. b[2] <= FastbinThreshold /\ i \in fastBin' /\ b[1] = i * FastbinThreshold
        BY <1>1, <2>1, <2>7
      <4> QED
        BY <2>9, <4>1, <4>2
    <3>3. \A j \in fastBin' : \E d \in live' : d[1] = j * FastbinThreshold
      BY <2>1, <2>6, <2>7 DEF MemoryInv, FastOwned
    <3>4. \A a, d \in live' \ BigLive' : a[1] = d[1] => a = d
      BY <2>7, <2>9, <2>10 DEF MemoryInv, FastOwned
    <3> QED
      BY <3>1, <3>2, <3>3, <3>4 DEF FastOwned
  <2>12. Counted'
    <3>1. b \in Nat \X Sizes
      BY <2>5, <2>6
    <3>2. IsFiniteSet(live')
      BY <2>1, FS_AddElement DEF MemoryInv, Counted
    <3>3. live' \subseteq Nat \X Sizes
      BY <2>1, <2>6, <3>1 DEF MemoryInv, Counted
    <3> QED
      BY <1>1, <1>2, <2>8, <3>2, <3>3 DEF MemoryInv, Counted
  <2>13. \A p : BigOK(p) => BigOK(p)'
    BY <1>1, <2>8 DEF BigOK, Fresh
  <2> QED
    BY <2>11, <2>12, <2>13 DEF MemoryInv
<1> QED
  BY <1>3, <1>4

(***************************************************************************)
(* A big block leaves the fast bin as it is, and is counted.               *)
(***************************************************************************)
LEMMA GrantKeeps ==
  ASSUME MemoryInv, NEW size \in Sizes, Requested(size), NEW c \in Nat, c >= BigChunks,
         Grant(c, size), <<c + HeaderSize, size>> \notin BigLive
  PROVE  /\ FastOwned' /\ Counted' /\ BigLive' = BigLive \cup {<<c + HeaderSize, size>>}
         /\ allocated' # 0 /\ drained' = drained
<1>1. PICK b : b = <<c + HeaderSize, size>>
  OBVIOUS
<1>2. /\ live' = live \cup {b} /\ allocated' = allocated + 1 /\ UNCHANGED <<fastBin, wild, drained>>
      /\ calls' = calls + 1 /\ calls < MaxCalls
  BY <1>1 DEF Grant, Requested, BIGCHUNK_DATA_BEGIN
<1>3. b[1] = c + HeaderSize /\ ~IsFast(b) /\ b \in Nat \X Sizes
  BY <1>1, BigChunksBehindBin DEF IsFast
<1>4. BigLive' = BigLive \cup {b} /\ live' \ BigLive' = live \ BigLive /\ b \notin BigLive
  BY <1>1, <1>2, <1>3 DEF BigLive
<1>5. IsFiniteSet(BigLive) /\ allocated \in Nat
  BY KindsOfBlocks
<1>6. Cardinality(BigLive') = Cardinality(BigLive) + 1
  BY <1>4, <1>5, FS_AddElement
<1>7. IsFiniteSet(live')
  BY <1>2, FS_AddElement DEF MemoryInv, Counted
<1>8. calls' \in 0 .. MaxCalls
  BY <1>2, MemoryManagerAssumption DEF MemoryInv, Counted
<1>9. Counted'
  BY <1>2, <1>3, <1>6, <1>7, <1>8 DEF MemoryInv, Counted
<1>10. FastOwned'
  BY <1>2, <1>4 DEF MemoryInv, FastOwned
<1> QED
  BY <1>1, <1>2, <1>4, <1>5, <1>9, <1>10

\* The header of one chunk is assigned.
LEMMA TakenByAssignment ==
  ASSUME NEW h, Typed(h), NEW c \in DOMAIN h, NEW s
  PROVE  Taken(h, [h EXCEPT ![c] = Header(@.prev, @.next, s, TRUE)], c, s)
<1>1. h = [a \in DOMAIN h |-> h[a]]
  BY DEF Typed
<1> QED
  BY <1>1 DEF Taken, Header

(***************************************************************************)
(* The first chunk is taken as it is: nobody uses it, as no chunk is       *)
(* allocated.                                                              *)
(***************************************************************************)
LEMMA FirstKeeps ==
  ASSUME MemoryInv, NEW size \in Sizes, MallocFirst(size)
  PROVE  MemoryInv'
<1>1. /\ Requested(size) /\ allocated = 0 /\ Grant(BigChunks, size)
      /\ hdr' = [hdr EXCEPT ![BigChunks] = Header(@.prev, @.next, AlignedSize(size), TRUE)]
  BY DEF MallocFirst
<1>2. PICK p : BigOK(p)
  BY DEF MemoryInv
<1>3. PICK s \in Nat : s = AlignedSize(size) /\ s >= size + HeaderSize /\ size \in Nat /\ s # 0
  <2>1. size \in Nat
    BY MemoryManagerAssumption
  <2> QED
    BY <2>1, AlignedSizeCovers
<1>4. BigLive = {}
  BY <1>1, KindsOfBlocks
<1>5. PICK l \in Nat : l = Len(p) /\ l > 0
  BY <1>2, AscendingFacts DEF BigOK, Listed
<1>a. PICK i \in 1 .. Len(p) : i = 1
  BY <1>5
<1>6. i \in 1 .. Len(p) /\ p[i] = BigChunks /\ BigChunks \in DOMAIN hdr /\ ~hdr[BigChunks].used
  <2>1. ~hdr[BigChunks].used
    BY <1>2, <1>4 DEF BigOK, Listed, Owned, Typed
  <2> QED
    BY <1>2, <1>5, <1>a, <2>1 DEF BigOK, Listed, Ascending, Typed
<1>7. Taken(hdr, hdr', p[i], s)
  <2>1. Typed(hdr)
    BY <1>2 DEF BigOK, Listed
  <2> QED
    BY <1>1, <1>3, <1>6, <2>1, TakenByAssignment
<1> DEFINE b == <<BigChunks + HeaderSize, size>>
<1>8. /\ Listed(hdr', p, BigLive \cup {b})
      /\ Sized(hdr) => Sized(hdr')
      /\ Fits(hdr, p, BigLive) /\ (IF i = Len(p) THEN s \in Nat /\ size + HeaderSize <= s
                                   ELSE p[i] + HeaderSize + size <= p[i + 1])
            => Fits(hdr', p, BigLive \cup {b})
  <2>1. Listed(hdr, p, BigLive)
    BY <1>2 DEF BigOK
  <2>2. size \in Nat /\ s \in Nat \cup {Garbage} /\ i \in 1 .. Len(p) /\ ~hdr[p[i]].used
    BY <1>3, <1>6
  <2>3. LET d == <<p[i] + HeaderSize, size>> IN
         /\ d \notin BigLive /\ Listed(hdr', p, BigLive \cup {d})
         /\ Sized(hdr) /\ s # 0 => Sized(hdr')
         /\ Fits(hdr, p, BigLive) /\ (IF i = Len(p) THEN s \in Nat /\ size + HeaderSize <= s
                              ELSE p[i] + HeaderSize + size <= p[i + 1]) => Fits(hdr', p, BigLive \cup {d})
    BY <1>7, <2>1, <2>2, ListWithBlock
  <2>4. <<p[i] + HeaderSize, size>> = b
    BY <1>6
  <2> QED
    BY <1>3, <2>3, <2>4
<1>9. /\ FastOwned' /\ Counted' /\ BigLive' = BigLive \cup {b}
      /\ allocated' # 0 /\ drained' = drained
  BY <1>1, <1>4, BigChunksBehindBin, GrantKeeps
<1>10. Sized(hdr')
  <2>1. CASE Fresh
    <3>1. DOMAIN hdr' = {BigChunks} /\ hdr'[BigChunks].size = s
      BY <1>6, <1>7, <2>1 DEF Fresh, Taken
    <3> QED
      BY <1>3, <3>1 DEF Sized
  <2> QED
    BY <1>2, <1>8, <2>1 DEF BigOK
<1>11. ASSUME ~drained PROVE Fits(hdr', p, BigLive \cup {b})
  <2>1. Fresh /\ Fits(hdr, p, BigLive)
    BY <1>1, <1>2, <1>11 DEF BigOK
  <2>2. hdr[BigChunks].next = Null
    BY <1>6, <2>1 DEF Fresh, Header
  <2>3. i = Len(p)
    <3>1. ASSUME i # Len(p) PROVE FALSE
      <4>1. hdr[p[i]].next = p[i + 1] /\ i + 1 \in 1 .. Len(p)
        BY <1>2, <1>5, <1>6, <3>1 DEF BigOK, Listed, Linked
      <4>2. p[i + 1] \in Nat
        BY <1>2, <4>1, AscendingFacts DEF BigOK, Listed
      <4> QED
        BY <1>6, <2>2, <4>1, <4>2
    <3> QED
      BY <3>1
  <2>4. size + HeaderSize <= s
    BY <1>3
  <2> QED
    BY <1>3, <1>8, <2>1, <2>3, <2>4
<1>12. BigOK(p)'
  BY <1>8, <1>9, <1>10, <1>11 DEF BigOK
<1> QED
  BY <1>9, <1>12 DEF MemoryInv

(***************************************************************************)
(* A hole is reused: the distance to the next chunk is enough for it, and  *)
(* the size that is stored, whatever it is, is not 0.                      *)
(***************************************************************************)
LEMMA ReuseKeeps ==
  ASSUME MemoryInv, NEW size \in Sizes, MallocReuse(size)
  PROVE  MemoryInv'
<1>1. /\ Requested(size) /\ size > FastbinThreshold /\ allocated # 0
      /\ \E k \in Holes(AlignedSize(size)) :
            /\ hdr' = [hdr EXCEPT ![List[k]] = Header(@.prev, @.next, ReusedSize(List[k]), TRUE)]
            /\ Grant(List[k], size)
  BY DEF MallocReuse
<1>2. PICK p : BigOK(p)
  BY DEF MemoryInv
<1>3. List = p /\ Listed(hdr, p, BigLive)
  BY <1>2, ListIsPath DEF BigOK
<1>4. PICK a \in Nat : a = AlignedSize(size) /\ a >= size + HeaderSize /\ size \in Nat
  <2>1. size \in Nat
    BY MemoryManagerAssumption
  <2> QED
    BY <2>1, AlignedSizeCovers
<1>5. PICK k \in Holes(a) :
            /\ hdr' = [hdr EXCEPT ![p[k]] = Header(@.prev, @.next, ReusedSize(p[k]), TRUE)]
            /\ Grant(p[k], size)
  BY <1>1, <1>3, <1>4
<1>6. k \in 1 .. Len(p) /\ hdr[p[k]].next # Null /\ ~hdr[p[k]].used /\ Distance(p[k]) >= a
  BY <1>3, <1>5 DEF Holes, HasRoom
<1>7. PICK l \in Nat : l = Len(p) /\ l > 0
  BY <1>3, AscendingFacts DEF Listed
<1>8. k # l /\ k + 1 \in 1 .. l /\ hdr[p[k]].next = p[k + 1]
  <2>1. hdr[p[k]].next = IF k = l THEN Null ELSE p[k + 1]
    BY <1>3, <1>6, <1>7 DEF Listed, Linked
  <2> QED
    BY <1>6, <1>7, <2>1
<1>9. p[k] \in Nat /\ p[k] >= BigChunks /\ p[k + 1] \in Nat
  BY <1>3, <1>6, <1>7, <1>8, AscendingFacts DEF Listed
<1>10. PICK d \in Int : d = Distance(p[k]) /\ d = p[k + 1] - p[k] /\ d >= a
  BY <1>6, <1>8, <1>9 DEF Distance
<1>11. PICK s \in Nat \cup {Garbage} : s = ReusedSize(p[k]) /\ s # 0
  <2>1. d >= 78
    BY <1>1, <1>4, <1>10
  <2>2. CASE d % HeaderSize = 0
    <3>1. ReusedSize(p[k]) = d \div HeaderSize - 1
      BY <1>10, <2>2 DEF ReusedSize
    <3>2. d \div HeaderSize >= 6 /\ d \div HeaderSize \in Int
      BY <2>1
    <3>3. d \div HeaderSize - 1 \in Nat /\ d \div HeaderSize - 1 # 0
      BY <3>2
    <3> QED
      BY <3>1, <3>3
  <2>3. CASE d % HeaderSize # 0
    <3>1. ReusedSize(p[k]) = Garbage
      BY <1>10, <2>3 DEF ReusedSize
    <3> QED
      BY <3>1
  <2> QED
    BY <2>2, <2>3
<1>12. Taken(hdr, hdr', p[k], s)
  <2>1. Typed(hdr) /\ p[k] \in DOMAIN hdr
    BY <1>3, <1>6 DEF Listed, Linked
  <2> QED
    BY <1>5, <1>11, <2>1, TakenByAssignment
<1> DEFINE b == <<p[k] + HeaderSize, size>>
<1>13. /\ b \notin BigLive /\ Listed(hdr', p, BigLive \cup {b})
       /\ Sized(hdr) /\ s # 0 => Sized(hdr')
       /\ Fits(hdr, p, BigLive) /\ (IF k = Len(p) THEN s \in Nat /\ size + HeaderSize <= s
                                   ELSE p[k] + HeaderSize + size <= p[k + 1])
            => Fits(hdr', p, BigLive \cup {b})
  BY <1>3, <1>4, <1>6, <1>11, <1>12, ListWithBlock
<1>14. /\ FastOwned' /\ Counted' /\ BigLive' = BigLive \cup {b}
       /\ allocated' # 0 /\ drained' = drained
  BY <1>1, <1>5, <1>9, <1>13, GrantKeeps
<1>15. p[k] + HeaderSize + size <= p[k + 1]
  BY <1>4, <1>9, <1>10
<1>16. BigOK(p)'
  <2>1. Sized(hdr')
    BY <1>1, <1>2, <1>11, <1>13 DEF BigOK, Fresh
  <2>2. ~drained => Fits(hdr', p, BigLive \cup {b})
    BY <1>2, <1>7, <1>8, <1>13, <1>15 DEF BigOK
  <2> QED
    BY <1>13, <1>14, <2>1, <2>2 DEF BigOK
<1> QED
  BY <1>14, <1>16 DEF MemoryInv

(***************************************************************************)
(* A block is appended, or a garbage size makes the next step wild.        *)
(***************************************************************************)
LEMMA AppendKeeps ==
  ASSUME MemoryInv, NEW size \in Sizes, MallocAppend(size)
  PROVE  MemoryInv'
<1>1. PICK p : BigOK(p)
  BY DEF MemoryInv
<1>2. List = p /\ Listed(hdr, p, BigLive)
  BY <1>1, ListIsPath DEF BigOK
<1> DEFINE last == p[Len(p)]
           new == last + hdr[last].size
<1>3. /\ Requested(size) /\ allocated # 0
      /\ IF hdr[last].size = Garbage
             THEN wild' = TRUE /\ UNCHANGED <<fastBin, hdr, allocated, live>>
             ELSE /\ hdr' = [c \in DOMAIN hdr \cup {new} |->
                                IF c = new THEN Header(last, Null, AlignedSize(size), TRUE)
                                ELSE IF c = last THEN [hdr[c] EXCEPT !.next = new]
                                ELSE hdr[c]]
                  /\ Grant(new, size)
  BY <1>2 DEF MallocAppend
<1>4. PICK l \in Nat : l = Len(p) /\ l > 0
  BY <1>2, AscendingFacts DEF Listed
<1>5. last \in DOMAIN hdr /\ last \in Nat
  <2>1. Len(p) \in 1 .. Len(p)
    BY <1>4
  <2> QED
    BY <1>2, <2>1 DEF Listed, Linked, Typed
<1> HIDE DEF last
<1>6. CASE hdr[last].size = Garbage
  <2>1. UNCHANGED <<fastBin, hdr, allocated, live, drained>> /\ wild' = TRUE
        /\ calls' = calls + 1 /\ calls < MaxCalls
    BY <1>3, <1>6 DEF Requested
  <2>2. BigLive' = BigLive
    BY <2>1 DEF BigLive
  <2>3. calls' \in 0 .. MaxCalls
    BY <2>1, MemoryManagerAssumption DEF MemoryInv, Counted
  <2>4. FastOwned' /\ Counted'
    BY <2>1, <2>2, <2>3 DEF MemoryInv, FastOwned, Counted
  <2>5. BigOK(p)'
    BY <1>1, <2>1, <2>2 DEF BigOK, Fresh
  <2> QED
    BY <2>4, <2>5 DEF MemoryInv
<1>7. CASE hdr[last].size # Garbage
  <2> HIDE DEF new
  <2>1. Grant(new, size)
        /\ hdr' = [c \in DOMAIN hdr \cup {new} |->
                     IF c = new THEN Header(last, Null, AlignedSize(size), TRUE)
                     ELSE IF c = last THEN [hdr[c] EXCEPT !.next = new]
                     ELSE hdr[c]]
    BY <1>3, <1>7
  <2>2. Sized(hdr) /\ hdr[last].size # 0 /\ hdr[last].size \in Nat
    <3>1. Sized(hdr)
      BY <1>1, <1>3 DEF BigOK, Fresh
    <3> QED
      BY <1>2, <1>5, <1>7, <3>1 DEF Sized, Listed, Typed
  <2>3. new = last + hdr[last].size /\ last # new
    BY <1>5, <2>2 DEF new
  <2>4. /\ DOMAIN hdr' = DOMAIN hdr \cup {new} /\ hdr' = [c \in DOMAIN hdr' |-> hdr'[c]]
        /\ hdr'[new] = [prev |-> last, next |-> Null, size |-> AlignedSize(size), used |-> TRUE]
        /\ \A c \in DOMAIN hdr : c # new /\ c # last => hdr'[c] = hdr[c]
    BY <2>1 DEF Header
  <2>5. hdr'[last] = [prev |-> hdr[last].prev, next |-> new, size |-> hdr[last].size, used |-> hdr[last].used]
    <3>1. hdr'[last] = [hdr[last] EXCEPT !.next = new]
      BY <1>5, <2>1, <2>3
    <3>2. hdr[last] \in [prev : DOMAIN hdr \cup {Null}, next : DOMAIN hdr \cup {Null},
                         size : Nat \cup {Garbage}, used : BOOLEAN]
      BY <1>2, <1>5 DEF Listed, Typed
    <3> QED
      BY <3>1, <3>2
  <2>a. Appended(hdr, hdr', p, last, new, AlignedSize(size))
    BY <1>7, <2>2, <2>3, <2>4, <2>5 DEF last, Appended
  <2>6. size \in Nat
    BY MemoryManagerAssumption
  <2>7. PICK b : b = <<new + HeaderSize, size>>
    OBVIOUS
  <2>8. /\ b \notin BigLive
        /\ \E q : Listed(hdr', q, BigLive \cup {b})
                  /\ (Fits(hdr, p, BigLive) => Fits(hdr', q, BigLive \cup {b}))
        /\ Sized(hdr) => Sized(hdr')
        /\ new \in Nat /\ new >= BigChunks
    BY <1>2, <2>6, <2>7, <2>a, ListWithLast
  <2>9. /\ FastOwned' /\ Counted' /\ BigLive' = BigLive \cup {b}
        /\ allocated' # 0 /\ drained' = drained
    BY <1>3, <2>1, <2>7, <2>8, GrantKeeps
  <2>10. PICK q : Listed(hdr', q, BigLive \cup {b})
                  /\ (Fits(hdr, p, BigLive) => Fits(hdr', q, BigLive \cup {b}))
    BY <2>8
  <2>11. BigOK(q)'
    BY <1>1, <2>2, <2>8, <2>9, <2>10 DEF BigOK
  <2> QED
    BY <2>9, <2>11 DEF MemoryInv
<1> QED
  BY <1>6, <1>7

(***************************************************************************)
(* A small block is freed: its place in the table is its own.              *)
(***************************************************************************)
LEMMA FreeFastbinKeeps ==
  ASSUME MemoryInv, NEW b \in live, Free(b), FreeFastbin(b)
  PROVE  MemoryInv'
<1>1. /\ UNCHANGED <<hdr, allocated, wild, drained, calls>> /\ live' = live \ {b} /\ IsFast(b)
      /\ fastBin' = fastBin \ {b[1] \div FastbinThreshold}
  BY DEF Free, FreeFastbin
<1>2. BigLive' = BigLive /\ b \in live \ BigLive
  BY <1>1 DEF BigLive
<1>3. PICK i \in fastBin : b[1] = i * FastbinThreshold
  BY <1>2 DEF MemoryInv, FastOwned
<1>4. \A j \in fastBin : j \in Nat
  BY DEF MemoryInv, FastOwned
<1>5. b[1] \div FastbinThreshold = i
  <2>1. (i * 64) \div 64 = i
    BY <1>4
  <2> QED
    BY <1>3, <2>1
<1>6. FastOwned'
  <2>1. fastBin' = fastBin \ {i}
    BY <1>1, <1>5
  <2>2. fastBin' \subseteq 0 .. BinSize - 1
    BY <2>1 DEF MemoryInv, FastOwned
  <2>3. ASSUME NEW d \in live' \ BigLive'
        PROVE  d[2] <= FastbinThreshold /\ \E j \in fastBin' : d[1] = j * FastbinThreshold
    <3>1. d \in live \ BigLive /\ d # b
      BY <1>1, <1>2, <2>3
    <3>2. d[1] # b[1] /\ d[2] <= FastbinThreshold
      BY <1>2, <3>1 DEF MemoryInv, FastOwned
    <3>3. PICK j \in fastBin : d[1] = j * FastbinThreshold
      BY <3>1 DEF MemoryInv, FastOwned
    <3>4. j # i
      BY <1>3, <3>2, <3>3
    <3> QED
      BY <2>1, <3>2, <3>3, <3>4
  <2>4. ASSUME NEW j \in fastBin' PROVE \E d \in live' : d[1] = j * FastbinThreshold
    <3>1. j \in fastBin /\ j # i
      BY <2>1
    <3>2. PICK d \in live : d[1] = j * FastbinThreshold
      BY <3>1 DEF MemoryInv, FastOwned
    <3>3. d # b
      BY <1>3, <1>4, <3>1, <3>2
    <3> QED
      BY <1>1, <3>2, <3>3
  <2>5. \A a, d \in live' \ BigLive' : a[1] = d[1] => a = d
    BY <1>1, <1>2 DEF MemoryInv, FastOwned
  <2> QED
    BY <2>2, <2>3, <2>4, <2>5 DEF FastOwned
<1>7. Counted'
  <2>1. IsFiniteSet(live')
    BY <1>1, FS_RemoveElement DEF MemoryInv, Counted
  <2> QED
    BY <1>1, <1>2, <2>1 DEF MemoryInv, Counted
<1>8. \A p : BigOK(p) => BigOK(p)'
  BY <1>1, <1>2 DEF BigOK, Fresh
<1> QED
  BY <1>6, <1>7, <1>8 DEF MemoryInv

(***************************************************************************)
(* A big block is freed and its chunk joined to its neighbours.            *)
(***************************************************************************)
LEMMA FreeBigKeeps ==
  ASSUME MemoryInv, NEW b \in live, Free(b), FreeBig(b)
  PROVE  MemoryInv'
<1> DEFINE c == b[1] - HeaderSize
           unused == [hdr EXCEPT ![c].used = FALSE]
           fwd == ConsolidatedForwards(unused, c)
<1>1. /\ UNCHANGED <<fastBin, wild, calls>> /\ live' = live \ {b} /\ ~IsFast(b)
      /\ allocated' = allocated - 1 /\ drained' = (drained \/ allocated' = 0)
      /\ hdr' = ConsolidatedBackwards(fwd, c)
  BY DEF Free, FreeBig
<1> HIDE DEF c, unused, fwd
<1>2. /\ b \in BigLive /\ BigLive' = BigLive \ {b}
      /\ live' \ BigLive' = live \ BigLive
  BY <1>1 DEF BigLive
<1>3. PICK p : BigOK(p)
  BY DEF MemoryInv
<1>4. IsFiniteSet(BigLive) /\ allocated \in Nat /\ allocated # 0
  BY <1>2, KindsOfBlocks
<1>5. Sized(hdr) /\ Listed(hdr, p, BigLive)
  BY <1>3, <1>4 DEF BigOK, Fresh
<1>6. /\ Listed(unused, p, BigLive') /\ Sized(unused)
      /\ Fits(hdr, p, BigLive) => Fits(unused, p, BigLive')
      /\ ~unused[c].used
      /\ \E i \in 1 .. Len(p) : p[i] = c
  BY <1>2, <1>5, ListWithoutBlock DEF c, unused
<1>7. PICK i \in 1 .. Len(p) : p[i] = c
  BY <1>6
<1>8. /\ \E q : Listed(fwd, q, BigLive') /\ (Fits(unused, p, BigLive') => Fits(fwd, q, BigLive'))
                /\ \E j \in 1 .. Len(q) : q[j] = c
      /\ ~fwd[c].used
      /\ Sized(unused) => Sized(fwd)
  <2>1. ~unused[p[i]].used
    BY <1>6, <1>7
  <2> QED
    BY <1>6, <1>7, <2>1, ForwardsKeepsList DEF fwd
<1>9. PICK q : /\ Listed(fwd, q, BigLive') /\ (Fits(unused, p, BigLive') => Fits(fwd, q, BigLive'))
               /\ \E j \in 1 .. Len(q) : q[j] = c
  BY <1>8
<1>10. PICK j \in 1 .. Len(q) : q[j] = c
  BY <1>9
<1>11. /\ \E r : Listed(hdr', r, BigLive') /\ (Fits(fwd, q, BigLive') => Fits(hdr', r, BigLive'))
       /\ Sized(fwd) => Sized(hdr')
  <2>1. ~fwd[q[j]].used
    BY <1>8, <1>10
  <2> QED
    BY <1>1, <1>9, <1>10, <2>1, BackwardsKeepsList
<1>12. PICK r : Listed(hdr', r, BigLive') /\ (Fits(fwd, q, BigLive') => Fits(hdr', r, BigLive'))
  BY <1>11
<1>13. BigOK(r)'
  <2>1. ~drained' => ~drained /\ allocated' # 0
    BY <1>1
  <2>2. ~drained' => Fits(hdr', r, BigLive')
    BY <1>3, <1>6, <1>9, <1>12, <2>1 DEF BigOK
  <2> QED
    BY <1>6, <1>8, <1>11, <1>12, <2>1, <2>2 DEF BigOK
<1>14. FastOwned'
  <2>1. \A d \in live : d[1] # b[1] => d \in live'
    BY <1>1
  <2>2. \A k \in fastBin : k * FastbinThreshold # b[1]
    <3>1. \A k \in fastBin : k \in 0 .. BinSize - 1
      BY DEF MemoryInv, FastOwned
    <3>2. b[1] \in Nat /\ b[1] > BigChunks
      BY <1>1, KindsOfBlocks, BigChunksBehindBin DEF IsFast
    <3> QED
      BY <3>1, <3>2, BigChunksBehindBin
  <2>3. \A k \in fastBin : \E d \in live' : d[1] = k * FastbinThreshold
    BY <2>1, <2>2 DEF MemoryInv, FastOwned
  <2> QED
    BY <1>1, <1>2, <2>3 DEF MemoryInv, FastOwned
<1>15. Counted'
  <2>1. IsFiniteSet(live')
    BY <1>1, FS_RemoveElement DEF MemoryInv, Counted
  <2>2. Cardinality(BigLive') = Cardinality(BigLive) - 1
    BY <1>2, <1>4, FS_RemoveElement
  <2>3. drained' \in BOOLEAN
    BY <1>1 DEF MemoryInv, Counted
  <2> QED
    BY <1>1, <2>1, <2>2, <2>3 DEF MemoryInv, Counted
<1> QED
  BY <1>13, <1>14, <1>15 DEF MemoryInv

(***************************************************************************)
(* Every allocation and every free keeps the invariant (kmm.cpp:103-328).  *)
(***************************************************************************)
LEMMA MemoryInvNext == MemoryInv /\ [Next]_vars => MemoryInv'
<1> SUFFICES ASSUME MemoryInv, [Next]_vars PROVE MemoryInv'
  OBVIOUS
<1>1. ASSUME NEW size \in Sizes, Malloc(size) PROVE MemoryInv'
  BY <1>1, FastbinKeeps, FirstKeeps, ReuseKeeps, AppendKeeps DEF Malloc
<1>2. ASSUME NEW b \in live, Free(b) PROVE MemoryInv'
  <2>1. FreeFastbin(b) \/ FreeBig(b)
    BY <1>2 DEF Free
  <2> QED
    BY <1>2, <2>1, FreeFastbinKeeps, FreeBigKeeps
<1>3. CASE UNCHANGED vars
  <2>1. UNCHANGED <<fastBin, hdr, allocated, wild, live, drained, calls>>
    BY <1>3 DEF vars
  <2>2. BigLive' = BigLive
    BY <2>1 DEF BigLive
  <2>3. FastOwned' /\ Counted'
    BY <2>1, <2>2 DEF MemoryInv, FastOwned, Counted
  <2>4. \A p : BigOK(p) => BigOK(p)'
    BY <2>1, <2>2 DEF BigOK, Fresh
  <2> QED
    BY <2>3, <2>4 DEF MemoryInv
<1> QED
  BY <1>1, <1>2, <1>3 DEF Next, Stopped

-----------------------------------------------------------------------------
(* What the invariant means.                                               *)

(***************************************************************************)
(* Until all big chunks were free at once, no two blocks in use overlap:   *)
(* big ones lie in the order of the list, small ones in their places, and  *)
(* the bin ends before the first chunk.                                    *)
(***************************************************************************)
LEMMA DisjointWhileFitting ==
  ASSUME MemoryInv, ~drained
  PROVE  NoOverlap
<1>1. PICK p : BigOK(p)
  BY DEF MemoryInv
<1>2. PICK l \in Nat : l = Len(p) /\ l > 0
  BY <1>1, AscendingFacts DEF BigOK, Listed
<1>3. /\ \A i \in 1 .. l : p[i] \in Nat /\ p[i] >= BigChunks
      /\ \A i, j \in 1 .. l : i < j => p[i] < p[j]
  BY <1>1, <1>2, AscendingFacts DEF BigOK, Listed, Ascending
<1>4. \A b \in live : b[1] \in Nat /\ b[2] \in Nat /\ (b \in BigLive <=> ~IsFast(b))
  BY KindsOfBlocks
<1>5. ASSUME NEW b \in BigLive
      PROVE  \E i \in 1 .. l : /\ p[i] = b[1] - HeaderSize
                               /\ i # l => b[1] + b[2] <= p[i + 1]
  <2>1. PICK i \in 1 .. l : p[i] = b[1] - HeaderSize
    BY <1>1, <1>2 DEF BigOK, Listed, Owned, Linked
  <2>2. i # l => b[1] + b[2] <= p[i + 1]
    BY <1>1, <1>2, <2>1 DEF BigOK, Fits
  <2> QED
    BY <2>1, <2>2
<1>6. ASSUME NEW b \in live \ BigLive
      PROVE  \E i \in 0 .. BinSize - 1 : b[1] = i * 64 /\ b[2] <= 64
  BY DEF MemoryInv, FastOwned
<1>7. ASSUME NEW a \in live, NEW b \in live, a # b, Overlap(Footprint(a), Footprint(b))
      PROVE  FALSE
  <2>1. CASE a \in BigLive /\ b \in BigLive
    <3>1. Footprint(a) = <<a[1] - HeaderSize, a[2] + HeaderSize>>
          /\ Footprint(b) = <<b[1] - HeaderSize, b[2] + HeaderSize>>
      BY <1>4, <2>1 DEF Footprint
    <3>2. b[1] - HeaderSize < a[1] + a[2] /\ a[1] - HeaderSize < b[1] + b[2]
      BY <1>4, <1>7, <3>1 DEF Overlap
    <3>3. PICK i \in 1 .. l : p[i] = a[1] - HeaderSize /\ (i # l => a[1] + a[2] <= p[i + 1])
      BY <1>5, <2>1
    <3>4. PICK j \in 1 .. l : p[j] = b[1] - HeaderSize /\ (j # l => b[1] + b[2] <= p[j + 1])
      BY <1>5, <2>1
    <3>5. a[1] # b[1]
      BY <1>1, <1>7, <2>1 DEF BigOK, Listed, Owned
    <3>6. CASE i < j
      <4>1. i + 1 \in 1 .. l /\ i # l /\ (i + 1 = j \/ i + 1 < j)
        BY <1>2, <3>6
      <4>2. p[i + 1] <= p[j] /\ p[j] \in Nat /\ p[i + 1] \in Nat
        BY <1>3, <4>1
      <4> QED
        BY <1>4, <3>2, <3>3, <3>4, <4>1, <4>2
    <3>7. CASE j < i
      <4>1. j + 1 \in 1 .. l /\ j # l /\ (j + 1 = i \/ j + 1 < i)
        BY <1>2, <3>7
      <4>2. p[j + 1] <= p[i] /\ p[i] \in Nat /\ p[j + 1] \in Nat
        BY <1>3, <4>1
      <4> QED
        BY <1>4, <3>2, <3>3, <3>4, <4>1, <4>2
    <3>8. i # j
      BY <1>4, <3>3, <3>4, <3>5
    <3> QED
      BY <3>6, <3>7, <3>8
  <2>2. ASSUME NEW x \in live, NEW y \in live, x \in BigLive, y \notin BigLive
        PROVE  ~(Footprint(x)[1] < Footprint(y)[1] + Footprint(y)[2])
    <3>1. Footprint(x) = <<x[1] - HeaderSize, x[2] + HeaderSize>> /\ Footprint(y) = y
      BY <1>4, <2>2 DEF Footprint
    <3>2. x[1] - HeaderSize >= BigChunks
      BY <1>3, <1>5, <2>2
    <3>3. PICK i \in 0 .. BinSize - 1 : y[1] = i * 64 /\ y[2] <= 64
      BY <1>6, <2>2
    <3> QED
      BY <1>4, <3>1, <3>2, <3>3, BigChunksBehindBin
  <2>3. CASE a \in BigLive /\ b \notin BigLive
    BY <1>7, <2>2, <2>3 DEF Overlap
  <2>4. CASE a \notin BigLive /\ b \in BigLive
    BY <1>7, <2>2, <2>4 DEF Overlap
  <2>5. CASE a \notin BigLive /\ b \notin BigLive
    <3>1. Footprint(a) = a /\ Footprint(b) = b
      BY <1>4, <2>5 DEF Footprint
    <3>2. PICK i \in 0 .. BinSize - 1 : a[1] = i * 64 /\ a[2] <= 64
      BY <1>6, <2>5
    <3>3. PICK j \in 0 .. BinSize - 1 : b[1] = j * 64 /\ b[2] <= 64
      BY <1>6, <2>5
    <3>4. a[1] # b[1]
      BY <1>7, <2>5 DEF MemoryInv, FastOwned
    <3>5. a[1] < b[1] + b[2] /\ b[1] < a[1] + a[2]
      BY <1>7, <3>1 DEF Overlap
    <3> QED
      BY <1>4, <3>2, <3>3, <3>4, <3>5, BigChunksBehindBin
  <2> QED
    BY <2>1, <2>3, <2>4, <2>5
<1> QED
  BY <1>7 DEF NoOverlap

(***************************************************************************)
(* The path is the list the code walks, so the invariant gives both        *)
(* properties.                                                             *)
(***************************************************************************)
LEMMA MemoryInvMeans == MemoryInv => DisjointUntilDrained /\ BlocksStayListed
<1> SUFFICES ASSUME MemoryInv PROVE DisjointUntilDrained /\ BlocksStayListed
  OBVIOUS
<1>1. PICK p : BigOK(p)
  BY DEF MemoryInv
<1>2. TypeOK
  <2>1. fastBin \subseteq 0 .. BinSize - 1
    BY DEF MemoryInv, FastOwned
  <2>2. /\ BigChunks \in DOMAIN hdr
        /\ \A c \in DOMAIN hdr :
              hdr[c] \in [prev : DOMAIN hdr \cup {Null}, next : DOMAIN hdr \cup {Null},
                          size : Nat \cup {Garbage}, used : BOOLEAN]
    BY <1>1 DEF BigOK, Listed, Typed
  <2>3. fastBin = {b[1] \div FastbinThreshold : b \in live \ BigLive}
    <3>1. \A i \in fastBin : i \in Nat /\ (i * 64) \div 64 = i /\ i * 64 <= BigChunks
      BY <2>1, BigChunksBehindBin
    <3>2. ASSUME NEW i \in fastBin PROVE \E b \in live \ BigLive : b[1] \div 64 = i
      <4>1. PICK b \in live : b[1] = i * 64
        BY DEF MemoryInv, FastOwned
      <4>2. IsFast(b)
        BY <3>1, <4>1 DEF IsFast
      <4>3. b \notin BigLive
        BY <4>2 DEF BigLive
      <4> QED
        BY <3>1, <4>1, <4>3
    <3>3. ASSUME NEW b \in live \ BigLive PROVE b[1] \div 64 \in fastBin
      <4>1. PICK i \in fastBin : b[1] = i * 64
        BY DEF MemoryInv, FastOwned
      <4> QED
        BY <3>1, <4>1
    <3> QED
      BY <3>2, <3>3
  <2> QED
    BY <2>1, <2>2, <2>3 DEF TypeOK, MemoryInv, Counted
<1>3. DisjointUntilDrained
  BY <1>2, DisjointWhileFitting DEF DisjointUntilDrained
<1>4. BlocksStayListed
  <2>1. List = p
    BY <1>1, ListIsPath DEF BigOK
  <2>2. ASSUME NEW b \in BigLive
        PROVE  \E k \in 1 .. Len(p) : p[k] = b[1] - HeaderSize /\ hdr[p[k]].used
    <3>1. b[1] - HeaderSize \in DOMAIN hdr /\ hdr[b[1] - HeaderSize].used
      BY <1>1 DEF BigOK, Listed, Owned
    <3>2. PICK k \in 1 .. Len(p) : p[k] = b[1] - HeaderSize
      BY <1>1, <3>1 DEF BigOK, Listed, Linked
    <3> QED
      BY <3>1, <3>2
  <2> QED
    BY <2>1, <2>2 DEF BlocksStayListed
<1> QED
  BY <1>3, <1>4

(***************************************************************************)
(* The invariant holds in every reachable state.                           *)
(***************************************************************************)
LEMMA MemoryInvHolds == Spec => []MemoryInv
BY MemoryInvInit, MemoryInvNext, PTL DEF Spec

(***************************************************************************)
(* Through any sequence of calls of malloc and free the variables keep     *)
(* their types, the counts are right, and as long as the big chunks were   *)
(* never all free at once the blocks in use are disjoint, headers included *)
(* (kmm.cpp:133-328), for every size of the fast bin and every request.    *)
(***************************************************************************)
THEOREM BlocksAreDisjointUntilDrained == Spec => []DisjointUntilDrained
BY MemoryInvHolds, MemoryInvMeans, PTL

(***************************************************************************)
(* Every big block in use is on the list of chunks and marked used,        *)
(* whatever was joined to what (kmm.cpp:271-328): the list is always one   *)
(* ascending chain from the first chunk, although the first chunk is never *)
(* taken off it.                                                           *)
(***************************************************************************)
THEOREM BlocksAlwaysStayListed == Spec => []BlocksStayListed
BY MemoryInvHolds, MemoryInvMeans, PTL
=============================================================================
