---------------------------- MODULE KernelProofs ----------------------------
(***************************************************************************)
(* Proofs about Scheduler and, on top of them, about Kernel.               *)
(*                                                                         *)
(* The first part is about the scheduler, for every set of processes: its  *)
(* type invariant, that its queues partition the live processes, that it   *)
(* implements the safety part of AbstractScheduler and, with MCScheduler's *)
(* history variable, that its round robin bounds the wait of a process.    *)
(*                                                                         *)
(* The second is about the kernel, for every bound on the keys typed and   *)
(* every value the shell's uninitialized last_pid may have: what the       *)
(* scheduler, the cached process, cr3 and the CPU agree on, that a process *)
(* goes on where it was interrupted, in which ways the machine can be      *)
(* lost, and that the kernel uses the scheduler as Scheduler lets it.      *)
(***************************************************************************)
EXTENDS Kernel, MCScheduler, SequenceTheorems, TLAPS


(***************************************************************************)
(* What _FindProcess leaves of a queue q after popping k processes: the    *)
(* rest, one place further to the front, and the chosen one at the back.   *)
(***************************************************************************)
LEMMA RequeuedShape ==
  ASSUME NEW S, NEW q \in Seq(S), NEW k \in 0 .. Len(q), k < Len(q)
  PROVE  /\ Requeued(q, k) \in Seq(S)
         /\ Len(Requeued(q, k)) = Len(q) - k
         /\ \A i \in 1 .. Len(q) - k - 1 : Requeued(q, k)[i] = q[k + 1 + i]
         /\ Requeued(q, k)[Len(q) - k] = q[k + 1]
<1> DEFINE t == SubSeq(q, k + 2, Len(q))
<1>1. /\ Len(q) \in Nat /\ k \in Nat
      /\ \A i \in 1 .. Len(q) : q[i] \in S
  BY LenProperties, ElementOfSeq
<1>2. /\ t \in Seq(S)
      /\ Len(t) = Len(q) - k - 1
      /\ \A i \in 1 .. Len(q) - k - 1 : t[i] = q[k + 1 + i]
  <2>1. \A i \in k + 2 .. Len(q) : q[i] \in S
    BY <1>1
  <2>2. k + 2 \in Int /\ Len(q) \in Int
    BY <1>1
  <2>3. /\ t \in Seq(S)
        /\ Len(t) = IF k + 2 <= Len(q) THEN Len(q) - (k + 2) + 1 ELSE 0
        /\ \A i \in 1 .. Len(q) - (k + 2) + 1 : t[i] = q[(k + 2) + i - 1]
    BY <2>1, <2>2, SubSeqProperties
  <2> QED
    BY <1>1, <2>3
<1> HIDE DEF t
<1>3. Requeued(q, k) = Append(t, q[k + 1])
  BY DEF Requeued, t
<1>4. q[k + 1] \in S
  BY <1>1
<1>5. /\ Append(t, q[k + 1]) \in Seq(S)
      /\ Len(Append(t, q[k + 1])) = Len(t) + 1
      /\ \A i \in 1 .. Len(t) : Append(t, q[k + 1])[i] = t[i]
      /\ Append(t, q[k + 1])[Len(t) + 1] = q[k + 1]
  BY <1>2, <1>4, AppendProperties
<1> QED
  BY <1>1, <1>2, <1>3, <1>5

(***************************************************************************)
(* Popping canceled processes and rotating keeps a queue free of           *)
(* duplicates and drops canceled processes only.                           *)
(***************************************************************************)
LEMMA RequeuedKeeps ==
  ASSUME NEW S, NEW q \in Seq(S), NEW k \in CanceledPrefix(q)
  PROVE  /\ Requeued(q, k) \in Seq(S)
         /\ NoDuplicates(q) => NoDuplicates(Requeued(q, k))
         /\ Range(Requeued(q, k)) \subseteq Range(q)
         /\ Range(q) \ Range(Requeued(q, k)) \subseteq canceled
<1>1. /\ Len(q) \in Nat /\ k \in 0 .. Len(q)
      /\ \A i \in 1 .. k : q[i] \in canceled
  BY LenProperties DEF CanceledPrefix
<1>2. Range(q) = {q[i] : i \in 1 .. Len(q)}
  BY RangeEquality
<1>3. CASE k < Len(q)
  <2> DEFINE r == Requeued(q, k)
  <2>1. /\ r \in Seq(S)
        /\ Len(r) = Len(q) - k
        /\ \A i \in 1 .. Len(q) - k - 1 : r[i] = q[k + 1 + i]
        /\ r[Len(q) - k] = q[k + 1]
    BY <1>1, <1>3, RequeuedShape
  <2>2. Range(r) = {r[i] : i \in 1 .. Len(r)}
    BY <2>1, RangeEquality
  <2> HIDE DEF r
  <2> DEFINE src(n) == IF n < Len(r) THEN k + 1 + n ELSE k + 1
  <2>3. ASSUME NEW n \in 1 .. Len(r)
        PROVE  src(n) \in 1 .. Len(q) /\ r[n] = q[src(n)]
    <3>1. CASE n < Len(r)
      <4>1. n \in 1 .. Len(q) - k - 1 /\ k + 1 + n \in 1 .. Len(q)
        BY <1>1, <1>3, <2>1, <3>1
      <4> QED
        BY <2>1, <3>1, <4>1
    <3>2. CASE ~(n < Len(r))
      <4>1. n = Len(r)
        <5>1. Len(r) \in Nat
          BY <2>1, LenProperties
        <5> QED
          BY <2>3, <3>2, <5>1
      <4>2. n = Len(q) - k /\ k + 1 \in 1 .. Len(q)
        BY <1>1, <1>3, <2>1, <4>1
      <4> QED
        BY <2>1, <3>2, <4>1, <4>2
    <3> QED
      BY <3>1, <3>2
  <2>4. NoDuplicates(q) => NoDuplicates(r)
    <3> SUFFICES ASSUME NoDuplicates(q),
                        NEW i \in 1 .. Len(r), NEW j \in 1 .. Len(r), r[i] = r[j]
                 PROVE  i = j
      BY DEF NoDuplicates
    <3>1. src(i) \in 1 .. Len(q) /\ src(j) \in 1 .. Len(q) /\ q[src(i)] = q[src(j)]
      BY <2>3
    <3>2. src(i) = src(j)
      BY <3>1 DEF NoDuplicates
    <3> QED
      BY <1>1, <1>3, <2>1, <3>2
  <2>5. \A i \in 1 .. Len(r) : r[i] \in Range(q)
    BY <1>2, <2>3
  <2>6. \A i \in k + 1 .. Len(q) : q[i] \in Range(r)
    <3> SUFFICES ASSUME NEW i \in k + 1 .. Len(q)
                 PROVE  \E j \in 1 .. Len(r) : r[j] = q[i]
      BY <2>2
    <3>1. CASE i = k + 1
      BY <1>1, <1>3, <2>1, <3>1
    <3>2. CASE i # k + 1
      <4>1. i - k - 1 \in 1 .. Len(q) - k - 1 /\ k + 1 + (i - k - 1) = i
        BY <1>1, <3>2
      <4>2. r[i - k - 1] = q[i]
        BY <2>1, <4>1
      <4> QED
        BY <1>1, <2>1, <4>1, <4>2
    <3> QED
      BY <3>1, <3>2
  <2>7. \A i \in 1 .. Len(q) : q[i] \in Range(r) \/ q[i] \in canceled
    BY <1>1, <2>6
  <2> QED
    BY <1>2, <2>1, <2>2, <2>4, <2>5, <2>7 DEF r
<1>4. CASE ~(k < Len(q))
  <2>1. Requeued(q, k) = <<>> /\ k = Len(q)
    BY <1>1, <1>4 DEF Requeued
  <2>2. Range(<<>>) = {}
    BY EmptySeq DEF Range
  <2> QED
    BY <1>1, <1>2, <2>1, <2>2, EmptySeq DEF NoDuplicates
<1> QED
  BY <1>3, <1>4

(***************************************************************************)
(* Appending a process to a queue it is not in keeps the queue free of     *)
(* duplicates and adds just that process.                                  *)
(***************************************************************************)
LEMMA AppendKeeps ==
  ASSUME NEW S, NEW q \in Seq(S), NEW p \in S
  PROVE  /\ Append(q, p) \in Seq(S)
         /\ Range(Append(q, p)) = Range(q) \cup {p}
         /\ NoDuplicates(q) /\ p \notin Range(q) => NoDuplicates(Append(q, p))
<1> DEFINE r == Append(q, p)
<1>1. /\ Len(q) \in Nat
      /\ r \in Seq(S) /\ Len(r) = Len(q) + 1
      /\ \A i \in 1 .. Len(q) : r[i] = q[i]
      /\ r[Len(q) + 1] = p
  BY LenProperties, AppendProperties
<1>2. Range(q) = {q[i] : i \in 1 .. Len(q)} /\ Range(r) = {r[i] : i \in 1 .. Len(r)}
  BY <1>1, RangeEquality
<1> HIDE DEF r
<1>3. Range(r) = Range(q) \cup {p}
  BY <1>1, <1>2
<1>4. NoDuplicates(q) /\ p \notin Range(q) => NoDuplicates(r)
  BY <1>1, <1>2 DEF NoDuplicates
<1> QED
  BY <1>1, <1>3, <1>4 DEF r

-----------------------------------------------------------------------------

\* The inductive invariant: what the queues hold, and of which type.
SchedIInv == SchedTypeOK /\ QueuesPartitionLive

\* The queues are empty before the first AddItem.
LEMMA SchedInitIInv == SchedInit => SchedIInv
<1> SUFFICES ASSUME SchedInit PROVE SchedIInv
  OBVIOUS
<1>1. Range(sysQ) = {} /\ Range(regQ) = {} /\ Len(sysQ) = 0 /\ Len(regQ) = 0
  BY EmptySeq DEF SchedInit, Range
<1> QED
  BY <1>1, EmptySeq DEF SchedInit, SchedIInv, SchedTypeOK, QueuesPartitionLive, NoDuplicates

\* A launch keeps the inductive invariant.
LEMMA AddItemIInv ==
  ASSUME SchedIInv, NEW p \in Pid, AddItem(p)
  PROVE  SchedIInv'
<1>1. p \notin Range(sysQ) /\ p \notin Range(regQ)
  BY DEF SchedIInv, QueuesPartitionLive, AddItem
<1>2. CASE p \in SystemPid
  <2>1. /\ sysQ' \in Seq(Pid) /\ NoDuplicates(sysQ')
        /\ Range(sysQ') = Range(sysQ) \cup {p}
        /\ regQ' = regQ
    <3>1. sysQ \in Seq(Pid) /\ NoDuplicates(sysQ)
      BY DEF SchedIInv, SchedTypeOK, QueuesPartitionLive
    <3>2. sysQ' = Append(sysQ, p) /\ regQ' = regQ
      BY <1>2 DEF AddItem
    <3>3. /\ Append(sysQ, p) \in Seq(Pid) /\ NoDuplicates(Append(sysQ, p))
          /\ Range(Append(sysQ, p)) = Range(sysQ) \cup {p}
      BY <1>1, <3>1, AppendKeeps
    <3> QED
      BY <3>2, <3>3
  <2> QED
    BY <1>2, <2>1 DEF SchedIInv, SchedTypeOK, QueuesPartitionLive, AddItem, NoDuplicates
<1>3. CASE p \notin SystemPid
  <2>1. /\ regQ' \in Seq(Pid) /\ NoDuplicates(regQ')
        /\ Range(regQ') = Range(regQ) \cup {p}
        /\ sysQ' = sysQ
    <3>1. regQ \in Seq(Pid) /\ NoDuplicates(regQ)
      BY DEF SchedIInv, SchedTypeOK, QueuesPartitionLive
    <3>2. regQ' = Append(regQ, p) /\ sysQ' = sysQ
      BY <1>3 DEF AddItem
    <3>3. /\ Append(regQ, p) \in Seq(Pid) /\ NoDuplicates(Append(regQ, p))
          /\ Range(Append(regQ, p)) = Range(regQ) \cup {p}
      BY <1>1, <3>1, AppendKeeps
    <3> QED
      BY <3>2, <3>3
  <2> QED
    BY <1>3, <2>1 DEF SchedIInv, SchedTypeOK, QueuesPartitionLive, AddItem, NoDuplicates
<1> QED
  BY <1>2, <1>3

\* What a decision does to the two queues, in terms of sets.
LEMMA CalculateNextKeeps ==
  ASSUME SchedIInv, CalculateNext
  PROVE  /\ sysQ' \in Seq(Pid) /\ NoDuplicates(sysQ')
         /\ regQ' \in Seq(Pid) /\ NoDuplicates(regQ')
         /\ Range(sysQ') \subseteq Range(sysQ) /\ Range(sysQ) \ Range(sysQ') \subseteq canceled
         /\ Range(regQ') \subseteq Range(regQ) /\ Range(regQ) \ Range(regQ') \subseteq canceled
<1>1. sysQ \in Seq(Pid) /\ regQ \in Seq(Pid) /\ NoDuplicates(sysQ) /\ NoDuplicates(regQ)
  BY DEF SchedIInv, SchedTypeOK, QueuesPartitionLive
<1>2. PICK k \in CanceledPrefix(sysQ) :
            /\ sysQ' = Requeued(sysQ, k)
            /\ \/ regQ' = regQ
               \/ \E j \in CanceledPrefix(regQ) : regQ' = Requeued(regQ, j)
  BY DEF CalculateNext
<1>3. /\ sysQ' \in Seq(Pid) /\ NoDuplicates(sysQ')
      /\ Range(sysQ') \subseteq Range(sysQ) /\ Range(sysQ) \ Range(sysQ') \subseteq canceled
  BY <1>1, <1>2, RequeuedKeeps
<1>4. CASE regQ' = regQ
  BY <1>1, <1>3, <1>4
<1>5. CASE \E j \in CanceledPrefix(regQ) : regQ' = Requeued(regQ, j)
  BY <1>1, <1>3, <1>5, RequeuedKeeps
<1> QED
  BY <1>2, <1>4, <1>5

(***************************************************************************)
(* A decision chooses an eligible process: a live System one if there is   *)
(* one, else a live one, else none.                                        *)
(***************************************************************************)
LEMMA CalculateNextChooses ==
  ASSUME SchedIInv, CalculateNext
  PROVE  IF Live = {} THEN current' = NoProc ELSE current' \in Abs!Eligible(Live)
<1>1. /\ sysQ \in Seq(Pid) /\ regQ \in Seq(Pid)
      /\ Range(sysQ) \subseteq SystemPid /\ Range(regQ) \cap SystemPid = {}
  BY DEF SchedIInv, SchedTypeOK, QueuesPartitionLive
<1>2. /\ Range(sysQ) = {sysQ[i] : i \in 1 .. Len(sysQ)} /\ Len(sysQ) \in Nat
      /\ Range(regQ) = {regQ[i] : i \in 1 .. Len(regQ)} /\ Len(regQ) \in Nat
  BY <1>1, RangeEquality, LenProperties
<1>3. PICK k \in CanceledPrefix(sysQ) :
            \/ k < Len(sysQ) /\ current' = Found(sysQ, k)
            \/ /\ k = Len(sysQ)
               /\ \E j \in CanceledPrefix(regQ) : current' = Found(regQ, j)
  BY DEF CalculateNext
<1>4. CASE k < Len(sysQ) /\ current' = Found(sysQ, k)
  <2>1. k + 1 \in 1 .. Len(sysQ) /\ sysQ[k + 1] \notin canceled /\ current' = sysQ[k + 1]
    BY <1>2, <1>4 DEF CanceledPrefix, Found
  <2>2. current' \in Live \cap SystemPid
    BY <1>1, <1>2, <2>1 DEF Live
  <2> QED
    BY <2>2 DEF Abs!Eligible
<1>5. CASE k = Len(sysQ) /\ \E j \in CanceledPrefix(regQ) : current' = Found(regQ, j)
  <2>1. Range(sysQ) \subseteq canceled
    BY <1>2, <1>5 DEF CanceledPrefix
  <2>2. Live = Range(regQ) \ canceled /\ Live \cap SystemPid = {}
    BY <1>1, <2>1 DEF Live
  <2>3. PICK j \in CanceledPrefix(regQ) : current' = Found(regQ, j)
    BY <1>5
  <2>4. CASE j < Len(regQ)
    <3>1. j + 1 \in 1 .. Len(regQ) /\ regQ[j + 1] \notin canceled /\ current' = regQ[j + 1]
      BY <1>2, <2>3, <2>4 DEF CanceledPrefix, Found
    <3> QED
      BY <1>2, <2>2, <3>1 DEF Abs!Eligible
  <2>5. CASE ~(j < Len(regQ))
    <3>1. j = Len(regQ) /\ current' = NoProc
      BY <1>2, <2>3, <2>5 DEF CanceledPrefix, Found
    <3>2. Range(regQ) \subseteq canceled
      BY <1>2, <3>1 DEF CanceledPrefix
    <3> QED
      BY <2>2, <3>1, <3>2
  <2> QED
    BY <2>4, <2>5
<1> QED
  BY <1>3, <1>4, <1>5

\* A decision keeps the inductive invariant.
LEMMA CalculateNextIInv ==
  ASSUME SchedIInv, CalculateNext
  PROVE  SchedIInv'
<1>1. Live \subseteq Pid /\ Abs!Eligible(Live) \subseteq Live
  <2>1. Range(sysQ) \subseteq Pid /\ Range(regQ) \subseteq Pid
    BY DEF SchedIInv, SchedTypeOK, QueuesPartitionLive
  <2> QED
    BY <2>1 DEF Live, Abs!Eligible
<1>2. current' \in Pid \cup {NoProc}
  BY <1>1, CalculateNextChooses
<1>3. added' = added /\ canceled' = canceled
  BY DEF CalculateNext
<1> QED
  BY <1>2, <1>3, CalculateNextKeeps
  DEF SchedIInv, SchedTypeOK, QueuesPartitionLive, NoDuplicates

\* AddItem, SignalEnd and CalculateNext keep the invariant
\* (schedualer.cpp:18-80).
LEMMA SchedNextIInv == SchedIInv /\ [SchedNext]_schedVars => SchedIInv'
<1> SUFFICES ASSUME SchedIInv, [SchedNext]_schedVars PROVE SchedIInv'
  OBVIOUS
<1>1. CASE CalculateNext
  BY <1>1, CalculateNextIInv
<1>2. ASSUME NEW p \in Pid, AddItem(p) PROVE SchedIInv'
  BY <1>2, AddItemIInv
<1>3. ASSUME NEW p \in Pid, SignalEnd(p) PROVE SchedIInv'
  BY <1>3 DEF SchedIInv, SchedTypeOK, QueuesPartitionLive, SignalEnd, NoDuplicates
<1>4. CASE UNCHANGED schedVars
  BY <1>4 DEF SchedIInv, SchedTypeOK, QueuesPartitionLive, schedVars, NoDuplicates
<1> QED
  BY <1>1, <1>2, <1>3, <1>4 DEF SchedNext

(***************************************************************************)
(* The scheduler's state stays well typed.                                 *)
(***************************************************************************)
THEOREM SchedTypeCorrect == SchedSpec => []SchedTypeOK
<1>1. SchedIInv => SchedTypeOK
  BY DEF SchedIInv
<1> QED
  BY <1>1, SchedInitIInv, SchedNextIInv, PTL DEF SchedSpec

(***************************************************************************)
(* No launch, tick or termination, in any order, loses or doubles a        *)
(* process: the two queues of schedualer.cpp always partition the          *)
(* processes that were added and not terminated.                           *)
(***************************************************************************)
THEOREM NoProcessLost == SchedSpec => []QueuesPartitionLive
<1>1. SchedIInv => QueuesPartitionLive
  BY DEF SchedIInv
<1> QED
  BY <1>1, SchedInitIInv, SchedNextIInv, PTL DEF SchedSpec

-----------------------------------------------------------------------------

\* Every step of the two queues is a step of the abstract scheduler, or none.
LEMMA AbsStep ==
  ASSUME SchedIInv, SchedIInv', [SchedNext]_schedVars
  PROVE  [Abs!AbsNext]_(Abs!absVars)
<1>1. CASE CalculateNext
  <2>1. canceled' = canceled
    BY <1>1 DEF CalculateNext
  <2>2. Live' = Live
    BY <1>1, <2>1, CalculateNextKeeps DEF Live
  <2>3. Abs!Dispatch
    BY <1>1, <2>1, <2>2, CalculateNextChooses DEF Abs!Dispatch
  <2> QED
    BY <2>3 DEF Abs!AbsNext
<1>2. ASSUME NEW p \in Pid, AddItem(p) PROVE Abs!AbsNext
  <2>1. p \notin Live
    BY <1>2 DEF AddItem, Live, SchedIInv, QueuesPartitionLive
  <2>2. Range(sysQ') \cup Range(regQ') = Range(sysQ) \cup Range(regQ) \cup {p}
    <3>1. /\ Range(Append(sysQ, p)) = Range(sysQ) \cup {p}
          /\ Range(Append(regQ, p)) = Range(regQ) \cup {p}
      BY AppendKeeps DEF SchedIInv, SchedTypeOK
    <3>2. \/ sysQ' = Append(sysQ, p) /\ regQ' = regQ
          \/ regQ' = Append(regQ, p) /\ sysQ' = sysQ
      BY <1>2 DEF AddItem
    <3> QED
      BY <3>1, <3>2
  <2>3. canceled' = canceled /\ current' = current
    BY <1>2 DEF AddItem
  <2>4. Abs!Admit(p)
    BY <2>1, <2>2, <2>3 DEF Abs!Admit, Live
  <2> QED
    BY <2>4 DEF Abs!AbsNext
<1>3. ASSUME NEW p \in Pid, SignalEnd(p) PROVE Abs!AbsNext
  <2>1. Abs!Retire(p)
    BY <1>3 DEF SignalEnd, Live, Abs!Retire
  <2> QED
    BY <2>1 DEF Abs!AbsNext
<1>4. CASE UNCHANGED schedVars
  BY <1>4 DEF schedVars, Live, Abs!absVars
<1> QED
  BY <1>1, <1>2, <1>3, <1>4 DEF SchedNext

(***************************************************************************)
(* The queues implement the abstract scheduler (its safety part): a        *)
(* terminated process is never chosen, a regular process only when no      *)
(* System process is live, and the tick finds no process only when none    *)
(* is left.                                                                *)
(***************************************************************************)
THEOREM SchedulerRefines == SchedSpec => ImplementsAbstract
<1>1. SchedInit => Abs!AbsInit
  <2> SUFFICES ASSUME SchedInit PROVE Abs!AbsInit
    OBVIOUS
  <2>1. Range(sysQ) = {} /\ Range(regQ) = {}
    BY EmptySeq DEF SchedInit, Range
  <2> QED
    BY <2>1 DEF SchedInit, Abs!AbsInit, Live
<1> QED
  BY <1>1, SchedInitIInv, SchedNextIInv, AbsStep, PTL DEF SchedSpec, ImplementsAbstract, Abs!AbsSpec

-----------------------------------------------------------------------------
(* Bounded waiting: while a process waits, no other of its queue is chosen *)
(* twice.                                                                  *)

(***************************************************************************)
(* A live process that has overtaken another stands behind it in the       *)
(* queue, and so cannot do so again before the other has had its turn.     *)
(***************************************************************************)
InTurn(q) ==
  \A i, j \in 1 .. Len(q) : q[i] \notin canceled /\ q[j] \notin canceled =>
     overtaken[q[i]][q[j]] <= IF i < j THEN 1 ELSE 0

\* The type of the history variable.
Counts(o) == o \in [Pid -> [Pid -> Nat]]

OvertakingInv ==
  /\ SchedIInv
  /\ Counts(overtaken)
  /\ \A p \in Pid \ added : \A q \in Pid : overtaken[p][q] = 0 /\ overtaken[q][p] = 0
  /\ InTurn(sysQ) /\ InTurn(regQ)

-----------------------------------------------------------------------------

(***************************************************************************)
(* A queue from which nobody is chosen keeps its counts.                   *)
(***************************************************************************)
LEMMA OthersKeepTheirTurn ==
  ASSUME NEW q \in Seq(Pid), Counts(overtaken), InTurn(q), MCCalculateNext,
         \A i \in 1 .. Len(q) : q[i] # current' /\ (q[i] \in Live \/ q[i] \in canceled)
  PROVE  \A i, j \in 1 .. Len(q) : q[i] \notin canceled /\ q[j] \notin canceled =>
            overtaken'[q[i]][q[j]] <= IF i < j THEN 1 ELSE 0
<1>1. SUFFICES ASSUME NEW i \in 1 .. Len(q), NEW j \in 1 .. Len(q),
                      q[i] \notin canceled, q[j] \notin canceled
               PROVE  overtaken'[q[i]][q[j]] <= IF i < j THEN 1 ELSE 0
  OBVIOUS
<1>2. PICK a \in Pid, b \in Pid : a = q[i] /\ b = q[j]
  <2>1. q[i] \in Pid /\ q[j] \in Pid
    OBVIOUS
  <2> QED
    BY <2>1
<1>3. a # current' /\ b # current' /\ a \in Live
  BY <1>1, <1>2
<1>4. overtaken'[a][b] = overtaken[a][b]
  BY <1>3 DEF MCCalculateNext
<1>5. overtaken[q[i]][q[j]] <= IF i < j THEN 1 ELSE 0
  BY <1>1 DEF InTurn
<1> QED
  BY <1>2, <1>4, <1>5

(***************************************************************************)
(* The chosen process goes behind everyone it overtakes, and nobody has    *)
(* overtaken it since (schedualer.cpp:50-52).                              *)
(***************************************************************************)
LEMMA ChosenGoesBehind ==
  ASSUME NEW q \in Seq(Pid), Counts(overtaken), InTurn(q), NoDuplicates(q), MCCalculateNext,
         NEW k \in CanceledPrefix(q), k < Len(q), current' = q[k + 1],
         \A i \in 1 .. Len(q) : q[i] \in Live \/ q[i] \in canceled
  PROVE  \A i, j \in 1 .. Len(Requeued(q, k)) :
            Requeued(q, k)[i] \notin canceled /\ Requeued(q, k)[j] \notin canceled =>
            overtaken'[Requeued(q, k)[i]][Requeued(q, k)[j]] <= IF i < j THEN 1 ELSE 0
<1>1. PICK r \in Seq(Pid) :
        /\ r = Requeued(q, k) /\ Len(r) = Len(q) - k
        /\ \A n \in 1 .. Len(q) - k - 1 : r[n] = q[k + 1 + n]
        /\ r[Len(q) - k] = q[k + 1]
  <2>1. k \in 0 .. Len(q)
    BY DEF CanceledPrefix
  <2> QED
    BY <2>1, RequeuedShape
<1>2. PICK l \in Nat, m \in Nat : l = Len(q) /\ m = Len(r) /\ m = l - k /\ k \in Nat /\ m >= 1
  <2>1. Len(q) \in Nat /\ k \in 0 .. Len(q)
    BY DEF CanceledPrefix
  <2> QED
    BY <1>1, <2>1
<1>3. SUFFICES ASSUME NEW i \in 1 .. m, NEW j \in 1 .. m, r[i] \notin canceled, r[j] \notin canceled
               PROVE  overtaken'[r[i]][r[j]] <= IF i < j THEN 1 ELSE 0
  BY <1>1, <1>2
<1>4. PICK a \in Pid, b \in Pid : a = r[i] /\ b = r[j]
  <2>1. i \in 1 .. Len(r) /\ j \in 1 .. Len(r)
    BY <1>2
  <2>2. r[i] \in Pid /\ r[j] \in Pid
    BY <2>1, ElementOfSeq
  <2> QED
    BY <2>2
<1>5. k + 1 \in 1 .. l
  BY <1>2
<1>6. ASSUME NEW n \in 1 .. m, n < m
      PROVE  k + 1 + n \in 1 .. l /\ r[n] = q[k + 1 + n] /\ r[n] # current'
  <2>1. n \in 1 .. l - k - 1 /\ k + 1 + n \in 1 .. l /\ k + 1 + n # k + 1
    BY <1>2, <1>6
  <2>2. r[n] = q[k + 1 + n]
    BY <1>1, <1>2, <2>1
  <2>3. q[k + 1 + n] # q[k + 1]
    BY <1>2, <1>5, <2>1 DEF NoDuplicates
  <2> QED
    BY <2>1, <2>2, <2>3
<1>7. CASE i = m
  <2>1. a = current'
    BY <1>1, <1>2, <1>4, <1>7
  <2>2. overtaken'[a][b] = 0
    BY <2>1 DEF MCCalculateNext
  <2> QED
    BY <1>4, <2>2
<1>8. CASE i < m
  <2>1. k + 1 + i \in 1 .. l /\ a = q[k + 1 + i] /\ a # current' /\ a \notin canceled
    BY <1>3, <1>4, <1>6, <1>8
  <2>2. a \in Live
    BY <1>2, <2>1
  <2>3. CASE j = m
    <3>1. b = q[k + 1] /\ b = current' /\ b \notin canceled
      BY <1>1, <1>2, <1>3, <1>4, <2>3
    <3>2. overtaken[a][b] <= 0
      <4>1. overtaken[q[k + 1 + i]][q[k + 1]] <= IF k + 1 + i < k + 1 THEN 1 ELSE 0
        BY <1>2, <1>5, <2>1, <3>1 DEF InTurn
      <4>2. ~(k + 1 + i < k + 1)
        BY <1>2
      <4> QED
        BY <2>1, <3>1, <4>1, <4>2
    <3>3. overtaken'[a][b] = Count(overtaken[a][b])
      BY <2>1, <2>2, <3>1 DEF MCCalculateNext
    <3>4. overtaken[a][b] = 0
      BY <3>2 DEF Counts
    <3>5. overtaken'[a][b] = 1
      BY <3>3, <3>4 DEF Count, OvertakenCap
    <3> QED
      BY <1>4, <1>8, <2>3, <3>5
  <2>4. CASE j < m
    <3>1. k + 1 + j \in 1 .. l /\ b = q[k + 1 + j] /\ b # current' /\ b \notin canceled
      BY <1>3, <1>4, <1>6, <2>4
    <3>2. overtaken'[a][b] = overtaken[a][b]
      BY <2>1, <2>2, <3>1 DEF MCCalculateNext
    <3>3. overtaken[q[k + 1 + i]][q[k + 1 + j]] <= IF k + 1 + i < k + 1 + j THEN 1 ELSE 0
      BY <1>2, <2>1, <3>1 DEF InTurn
    <3>4. k + 1 + i < k + 1 + j <=> i < j
      BY <1>2
    <3> QED
      BY <1>4, <2>1, <3>1, <3>2, <3>3, <3>4
  <2> QED
    BY <1>2, <2>3, <2>4
<1> QED
  BY <1>2, <1>7, <1>8

-----------------------------------------------------------------------------

\* No process was chosen yet.
LEMMA OvertakingInit ==
  ASSUME MCInit
  PROVE  OvertakingInv
<1>1. SchedIInv
  BY SchedInitIInv DEF MCInit
<1>2. Counts(overtaken) /\ \A p, q \in Pid : overtaken[p][q] = 0
  BY DEF MCInit, Counts
<1>3. Len(sysQ) = 0 /\ Len(regQ) = 0
  BY EmptySeq DEF MCInit, SchedInit
<1> QED
  BY <1>1, <1>2, <1>3 DEF OvertakingInv, InTurn

(***************************************************************************)
(* A launch puts a process, which nobody has overtaken yet, at the end of  *)
(* its queue.                                                              *)
(***************************************************************************)
LEMMA NewcomerIsLast ==
  ASSUME NEW q \in Seq(Pid), Counts(overtaken), InTurn(q), NEW p \in Pid,
         \A b \in Pid : overtaken[p][b] = 0,
         \A a \in Pid : overtaken[a][p] <= 1
  PROVE  InTurn(Append(q, p))
<1>1. PICK r \in Seq(Pid), l \in Nat :
        /\ r = Append(q, p) /\ l = Len(q) /\ Len(r) = l + 1 /\ r[l + 1] = p
        /\ \A n \in 1 .. l : r[n] = q[n]
  <2>1. /\ Append(q, p) \in Seq(Pid) /\ Len(Append(q, p)) = Len(q) + 1
        /\ Append(q, p)[Len(q) + 1] = p /\ Len(q) \in Nat
        /\ \A n \in 1 .. Len(q) : Append(q, p)[n] = q[n]
    BY AppendProperties
  <2> QED
    BY <2>1
<1>2. SUFFICES ASSUME NEW i \in 1 .. l + 1, NEW j \in 1 .. l + 1,
                      r[i] \notin canceled, r[j] \notin canceled
               PROVE  overtaken[r[i]][r[j]] <= IF i < j THEN 1 ELSE 0
  BY <1>1 DEF InTurn
<1>3. r[i] \in Pid /\ r[j] \in Pid
  BY <1>1, ElementOfSeq
<1>4. CASE i = l + 1
  <2>1. overtaken[r[i]][r[j]] = 0
    BY <1>1, <1>3, <1>4
  <2> QED
    BY <2>1
<1>5. CASE i # l + 1 /\ j = l + 1
  <2>1. overtaken[r[i]][r[j]] <= 1 /\ i < j
    BY <1>1, <1>3, <1>5
  <2> QED
    BY <2>1
<1>6. CASE i # l + 1 /\ j # l + 1
  <2>1. i \in 1 .. l /\ j \in 1 .. l
    BY <1>6
  <2> QED
    BY <1>1, <1>2, <2>1 DEF InTurn
<1> QED
  BY <1>4, <1>5, <1>6

\* A launch keeps the invariant (schedualer.cpp:59-70).
LEMMA OvertakingAdd ==
  ASSUME OvertakingInv, NEW p \in Pid, AddItem(p), UNCHANGED overtaken
  PROVE  OvertakingInv'
<1>1. SchedIInv'
  BY AddItemIInv DEF OvertakingInv
<1>2. /\ sysQ \in Seq(Pid) /\ regQ \in Seq(Pid) /\ Counts(overtaken) /\ Counts(overtaken')
      /\ InTurn(sysQ) /\ InTurn(regQ)
  BY DEF OvertakingInv, SchedIInv, SchedTypeOK, Counts
<1>3. \A b \in Pid : overtaken[p][b] = 0 /\ overtaken[b][p] <= 1
  BY DEF OvertakingInv, AddItem
<1>4. InTurn(Append(sysQ, p)) /\ InTurn(Append(regQ, p))
  BY <1>2, <1>3, NewcomerIsLast
<1>5. PICK s, r : s = sysQ' /\ r = regQ'
  OBVIOUS
<1>6. InTurn(s) /\ InTurn(r)
  BY <1>2, <1>4, <1>5 DEF AddItem
<1>7. canceled' = canceled /\ overtaken' = overtaken /\ added \subseteq added'
  BY DEF AddItem
<1>8. InTurn(sysQ)' /\ InTurn(regQ)'
  BY <1>5, <1>6, <1>7 DEF InTurn
<1>9. \A a \in Pid \ added' : \A b \in Pid : overtaken'[a][b] = 0 /\ overtaken'[b][a] = 0
  BY <1>7 DEF OvertakingInv
<1> QED
  BY <1>1, <1>2, <1>8, <1>9 DEF OvertakingInv

\* A termination makes fewer processes live (schedualer.cpp:83-86).
LEMMA OvertakingEnd ==
  ASSUME OvertakingInv, NEW p \in Pid, SignalEnd(p), UNCHANGED overtaken
  PROVE  OvertakingInv'
<1>1. SchedIInv'
  BY DEF OvertakingInv, SchedIInv, SchedTypeOK, QueuesPartitionLive, SignalEnd, NoDuplicates
<1>2. /\ sysQ' = sysQ /\ regQ' = regQ /\ canceled \subseteq canceled' /\ added' = added
      /\ overtaken' = overtaken
  BY DEF SignalEnd
<1>3. InTurn(sysQ)' /\ InTurn(regQ)'
  BY <1>2 DEF OvertakingInv, InTurn
<1> QED
  BY <1>1, <1>2, <1>3 DEF OvertakingInv, Counts

\* A decision keeps the invariant (schedualer.cpp:35-81).
LEMMA OvertakingDecision ==
  ASSUME OvertakingInv, MCCalculateNext
  PROVE  OvertakingInv'
<1>1. /\ sysQ \in Seq(Pid) /\ regQ \in Seq(Pid) /\ Counts(overtaken)
      /\ NoDuplicates(sysQ) /\ NoDuplicates(regQ) /\ InTurn(sysQ) /\ InTurn(regQ)
      /\ Range(sysQ) \subseteq added \cap SystemPid /\ Range(regQ) \subseteq added \ SystemPid
  BY DEF OvertakingInv, SchedIInv, SchedTypeOK, QueuesPartitionLive
<1>2. CalculateNext /\ canceled' = canceled /\ added' = added
  BY DEF MCCalculateNext, CalculateNext
<1>3. SchedIInv'
  BY <1>2, CalculateNextIInv DEF OvertakingInv
<1>4. Counts(overtaken')
  BY <1>1 DEF MCCalculateNext, Counts, Count
<1>5. current' \in added \cup {NoProc}
  <2>1. IF Live = {} THEN current' = NoProc ELSE current' \in Abs!Eligible(Live)
    BY <1>2, CalculateNextChooses DEF OvertakingInv
  <2>2. Live \subseteq added
    BY <1>1 DEF Live
  <2>3. Abs!Eligible(Live) \subseteq Live
    BY DEF Abs!Eligible
  <2> QED
    BY <2>1, <2>2, <2>3
<1>6. \A a \in Pid \ added' : \A b \in Pid : overtaken'[a][b] = 0 /\ overtaken'[b][a] = 0
  <2>1. SUFFICES ASSUME NEW a \in Pid, a \notin added, NEW b \in Pid
                 PROVE  overtaken'[a][b] = 0 /\ overtaken'[b][a] = 0
    BY <1>2
  <2>2. overtaken[a][b] = 0 /\ overtaken[b][a] = 0
    BY <2>1 DEF OvertakingInv
  <2>3. a \notin Live /\ a # current'
    BY <1>1, <1>5, <2>1, SchedulerAssumption DEF Live
  <2> QED
    BY <2>2, <2>3 DEF MCCalculateNext
<1>7. InTurn(sysQ)' /\ InTurn(regQ)'
  <2>1. PICK k \in CanceledPrefix(sysQ) :
          /\ sysQ' = Requeued(sysQ, k)
          /\ \/ k < Len(sysQ) /\ current' = Found(sysQ, k) /\ regQ' = regQ
             \/ /\ k = Len(sysQ)
                /\ \E j \in CanceledPrefix(regQ) :
                      regQ' = Requeued(regQ, j) /\ current' = Found(regQ, j)
    BY <1>2 DEF CalculateNext
  <2>2. /\ \A i \in 1 .. Len(sysQ) : sysQ[i] \in Range(sysQ)
        /\ \A i \in 1 .. Len(regQ) : regQ[i] \in Range(regQ)
    BY <1>1, RangeEquality
  <2>3. /\ \A i \in 1 .. Len(sysQ) : sysQ[i] \in Live \/ sysQ[i] \in canceled
        /\ \A i \in 1 .. Len(regQ) : regQ[i] \in Live \/ regQ[i] \in canceled
    BY <2>2 DEF Live
  <2>4. CASE k < Len(sysQ) /\ current' = Found(sysQ, k) /\ regQ' = regQ
    <3>1. current' = sysQ[k + 1] /\ k \in 0 .. Len(sysQ) /\ Len(sysQ) \in Nat
      BY <1>1, <2>4 DEF Found, CanceledPrefix
    <3>2. InTurn(sysQ)'
      BY <1>1, <1>2, <2>1, <2>3, <2>4, <3>1, ChosenGoesBehind DEF InTurn
    <3>3. current' \in SystemPid
      <4>1. k + 1 \in 1 .. Len(sysQ)
        BY <2>4, <3>1
      <4> QED
        BY <1>1, <2>2, <3>1, <4>1
    <3>4. \A i \in 1 .. Len(regQ) : regQ[i] # current'
      BY <1>1, <2>2, <3>3
    <3>5. InTurn(regQ)'
      BY <1>1, <1>2, <2>3, <2>4, <3>4, OthersKeepTheirTurn DEF InTurn
    <3> QED
      BY <3>2, <3>5
  <2>5. CASE /\ k = Len(sysQ)
             /\ \E j \in CanceledPrefix(regQ) :
                   regQ' = Requeued(regQ, j) /\ current' = Found(regQ, j)
    <3>1. PICK j \in CanceledPrefix(regQ) : regQ' = Requeued(regQ, j) /\ current' = Found(regQ, j)
      BY <2>5
    <3>2. Len(sysQ') = 0
      BY <1>1, <2>1, <2>5, EmptySeq DEF Requeued
    <3>3. InTurn(sysQ)'
      BY <3>2 DEF InTurn
    <3>4. CASE j < Len(regQ)
      <4>1. current' = regQ[j + 1]
        BY <3>1, <3>4 DEF Found
      <4> QED
        BY <1>1, <1>2, <2>3, <3>1, <3>3, <3>4, <4>1, ChosenGoesBehind DEF InTurn
    <3>5. CASE ~(j < Len(regQ))
      <4>1. Len(regQ') = 0
        BY <3>1, <3>5, EmptySeq DEF Requeued
      <4> QED
        BY <3>3, <4>1 DEF InTurn
    <3> QED
      BY <3>4, <3>5
  <2> QED
    BY <2>1, <2>4, <2>5
<1> QED
  BY <1>3, <1>4, <1>6, <1>7 DEF OvertakingInv

(***************************************************************************)
(* Bounded waiting, for every set of processes: whatever is added or       *)
(* terminated meanwhile, a waiting process sees no other process of its    *)
(* queue chosen twice (round robin, schedualer.cpp:45-56).                 *)
(***************************************************************************)
THEOREM WaitingIsBounded == MCSpec => []OvertakenAtMostOnce
<1>1. MCInit => OvertakingInv
  BY OvertakingInit
<1>2. OvertakingInv /\ [MCNext]_mcVars => OvertakingInv'
  <2>1. SUFFICES ASSUME OvertakingInv, [MCNext]_mcVars
                 PROVE  OvertakingInv'
    OBVIOUS
  <2>2. CASE MCCalculateNext
    BY <2>1, <2>2, OvertakingDecision
  <2>3. CASE \E p \in Pid : (AddItem(p) \/ SignalEnd(p)) /\ UNCHANGED overtaken
    BY <2>1, <2>3, OvertakingAdd, OvertakingEnd
  <2>4. CASE UNCHANGED mcVars
    BY <2>1, <2>4
    DEF mcVars, schedVars, OvertakingInv, SchedIInv, SchedTypeOK, QueuesPartitionLive, NoDuplicates,
        Counts, InTurn
  <2> QED
    BY <2>1, <2>2, <2>3, <2>4 DEF MCNext
<1>3. ASSUME OvertakingInv
      PROVE  OvertakenAtMostOnce
  <2>1. /\ sysQ \in Seq(Pid) /\ regQ \in Seq(Pid) /\ InTurn(sysQ) /\ InTurn(regQ)
        /\ Range(sysQ) \subseteq SystemPid /\ Range(regQ) \cap SystemPid = {}
    BY <1>3 DEF OvertakingInv, SchedIInv, SchedTypeOK, QueuesPartitionLive
  <2>2. /\ Range(sysQ) = {sysQ[i] : i \in 1 .. Len(sysQ)}
        /\ Range(regQ) = {regQ[i] : i \in 1 .. Len(regQ)}
    BY <2>1, RangeEquality
  <2>3. SUFFICES ASSUME NEW p \in Live, NEW q \in Live, p \in SystemPid <=> q \in SystemPid
                 PROVE  overtaken[p][q] <= 1
    BY DEF OvertakenAtMostOnce
  <2>4. p \notin canceled /\ q \notin canceled
    BY DEF Live
  <2>5. CASE p \in SystemPid
    <3>1. p \in Range(sysQ) /\ q \in Range(sysQ)
      BY <2>1, <2>3, <2>5 DEF Live
    <3>2. PICK i \in 1 .. Len(sysQ), j \in 1 .. Len(sysQ) : p = sysQ[i] /\ q = sysQ[j]
      BY <2>2, <3>1
    <3>3. overtaken[p][q] <= IF i < j THEN 1 ELSE 0
      BY <2>1, <2>4, <3>2 DEF InTurn
    <3>4. p \in Pid /\ q \in Pid
      BY <2>1, <3>2, ElementOfSeq
    <3>5. overtaken[p][q] \in Nat
      BY <1>3, <3>4 DEF OvertakingInv, Counts
    <3> QED
      BY <3>3, <3>5
  <2>6. CASE p \notin SystemPid
    <3>1. p \in Range(regQ) /\ q \in Range(regQ)
      BY <2>1, <2>3, <2>6 DEF Live
    <3>2. PICK i \in 1 .. Len(regQ), j \in 1 .. Len(regQ) : p = regQ[i] /\ q = regQ[j]
      BY <2>2, <3>1
    <3>3. overtaken[p][q] <= IF i < j THEN 1 ELSE 0
      BY <2>1, <2>4, <3>2 DEF InTurn
    <3>4. p \in Pid /\ q \in Pid
      BY <2>1, <3>2, ElementOfSeq
    <3>5. overtaken[p][q] \in Nat
      BY <1>3, <3>4 DEF OvertakingInv, Counts
    <3> QED
      BY <3>3, <3>5
  <2> QED
    BY <2>5, <2>6
<1> QED
  BY <1>1, <1>2, <1>3, PTL DEF MCSpec
-----------------------------------------------------------------------------
(***************************************************************************)
(* The kernel.                                                             *)
(***************************************************************************)


USE DEF KernelPid, ShellPid, KernelDir, MaxPid

-----------------------------------------------------------------------------
(* The inductive invariant.                                                *)

\* The steps a program takes with the interrupts off.
Guarded ==
    {"register", "start_switch", "start_create", "start_restore", "end_switch",
     "end_signal", "end_restore", "sti"}

\* Those of them it takes under the kernel's page directory.
InStart == {"start_create", "start_restore"}
InEnd == {"end_signal", "end_restore"}

\* kernel_stage_2 before and after it has created the shell.
BeforeShell == {"init", "cli", "register", "start_switch", "start_create"}
AfterShell ==
    {"start_restore", "end_switch", "end_signal", "end_restore", "sti", "finish", "returned"}

\* kernel_stage_2 once it has ended itself.
Ended == {"end_restore", "sti", "finish", "returned"}

BootSteps == {"processing", "interrupts", "keyboard", "timer", "hlt"}
ShellSteps ==
    {"init", "read", "cli", "start_switch", "start_create", "start_restore",
     "end_switch", "end_signal", "end_restore", "sti", "report"}

\* The program of a process, and the steps it has.
Program(p) ==
    IF p = 0 THEN "boot" ELSE IF p = 1 THEN "stage2" ELSE IF p = 2 THEN "shell" ELSE "loop2"
Steps(p) ==
    IF p = 0 THEN BootSteps
    ELSE IF p = 1 THEN BeforeShell \cup AfterShell
    ELSE IF p = 2 THEN ShellSteps
    ELSE {"loop"}

\* The processes created so far, and kernel_main, execute their own programs.
Points ==
    /\ cpu < pidSeq /\ pc = at[cpu]
    /\ \A p \in Pid :
          IF p < pidSeq THEN at[p][1] = Program(p) /\ at[p][2] \in Steps(p)
                        ELSE at[p] = <<"none", "none">>

\* How far the start of the system is: kernel_main, then kernel_stage_2 alone,
\* then, once that has ended itself, the shell and what it starts.
Phases ==
    /\ pidSeq = 1 <=> at[0][2] = "processing"
    /\ pidSeq = 1 => handlers = {}
    /\ cpu = 0 => pidSeq <= 2 /\ intr /\ current = NoProc
    /\ pidSeq = 2 => at[1][2] \in BeforeShell
    /\ pidSeq > 2 => at[1][2] \in AfterShell
    /\ at[1][2] \in Ended => 1 \in canceled
    /\ pidSeq <= 2 => canceled = {}
    /\ IF cpu \in {0, 1} THEN canceled \subseteq {1} ELSE 1 \in canceled

\* The names the programs start are registered when they do.
Names ==
    pidSeq > 2 \/ at[1][2] \in {"start_switch", "start_create"} => registered = {"shell", "loop2"}

\* The process on the CPU, whether the interrupts are on or off.
OnCpu ==
    /\ cached = cpu
    /\ current # NoProc => current = cpu
    /\ current = NoProc => cpu = 0 \/ cpu \in canceled
    /\ intr <=> pc[2] \notin Guarded
    /\ cr3 = (IF cpu = 0 \/ pc[2] \in InStart \cup InEnd THEN KernelDir ELSE cpu)
    /\ cpu \in {0, 1} => kstack = "intact"

\* What Start::Process and End::Process keep in their static locals.
Statics ==
    /\ pc[2] \in InStart => statics.dir = cpu
    /\ pc[2] \in InEnd /\ cpu # 1 => statics.tempDir = cpu
    /\ pc[2] = "end_signal" /\ cpu = 1 => statics.tempPid = 1

\* A process that waits was not interrupted with the interrupts off, and its
\* registers are where it was, unless it will not run again.
OffCpu ==
    \A p \in Pid : p < pidSeq /\ p # cpu =>
        /\ at[p][2] \notin Guarded
        /\ p # 0 /\ p \notin canceled => saved[p] = at[p]

\* The lines the shell has not read, and whether it is about to start a process.
Queued == IF inbuf[2] = NoBuf THEN 0 ELSE Len(inbuf[2])
Pending ==
    IF at[2][2] \in {"cli", "start_switch", "start_create"} /\ cmd = "START" THEN 1 ELSE 0

\* Every process but the first two takes a line, so there are pids for all.
Launches ==
    /\ at[2][1] = "shell" /\ at[2][2] # "init" => inbuf[2] # NoBuf
    /\ at[2][1] # "shell" => inbuf[2] = NoBuf
    /\ at[2][2] \in {"start_switch", "start_create"} => cmd = "START"
    /\ pidSeq + Queued + Pending <= 3 + typed

RunInv == Points /\ Phases /\ Names /\ OnCpu /\ Statics /\ OffCpu /\ Launches

KInv ==
    /\ SchedIInv /\ KernelTypeOK /\ LostOnlyInKnownWays
    /\ pidSeq \in Nat /\ added = 1 .. pidSeq - 1
    /\ mode = "run" => RunInv

-----------------------------------------------------------------------------
(* Facts the steps share.                                                  *)

\* The constants as the proofs use them.
LEMMA Pids ==
  /\ MaxKeys \in Nat /\ Pid = 0 .. 2 + MaxKeys
  /\ 0 \in Pid /\ 1 \in Pid /\ 2 \in Pid
  /\ 1 \in SystemPid /\ 2 \notin SystemPid /\ NoProc \notin Pid
  BY KernelAssumption, SchedulerAssumption

\* A program point is a pair, and the points of the two programs that take steps.
LEMMA PointPairs ==
  /\ \A x \in Point : x = <<x[1], x[2]>>
  /\ \A s \in BeforeShell \cup AfterShell : <<"stage2", s>> \in Point
  /\ \A s \in ShellSteps : <<"shell", s>> \in Point
  /\ \A s \in BootSteps : <<"boot", s>> \in Point
  /\ <<"none", "none">> \in Point /\ <<"loop2", "loop">> \in Point
<1>1. \A A, B : \A x \in A \X B : x = <<x[1], x[2]>>
  OBVIOUS
<1>2. ASSUME NEW x \in Point PROVE x = <<x[1], x[2]>>
  <2>1. CASE x = <<"none", "none">>
    BY <2>1
  <2>2. CASE x = <<"loop2", "loop">>
    BY <2>2
  <2>3. CASE x \in {"boot"} \X {"processing", "interrupts", "keyboard", "timer", "hlt"}
    BY <1>1, <2>3
  <2>4. CASE x \in {"stage2", "shell"} \X
                   {"init", "cli", "register", "start_switch", "start_create",
                    "start_restore", "end_switch", "end_signal", "end_restore", "sti",
                    "finish", "returned", "read", "report"}
    BY <1>1, <2>4
  <2> QED
    BY <2>1, <2>2, <2>3, <2>4 DEF Point
<1>3. \A s \in BeforeShell \cup AfterShell : <<"stage2", s>> \in Point
  BY DEF Point, BeforeShell, AfterShell
<1>4. \A s \in ShellSteps : <<"shell", s>> \in Point
  BY DEF Point, ShellSteps
<1>5. \A s \in BootSteps : <<"boot", s>> \in Point
  BY DEF Point, BootSteps
<1>6. <<"none", "none">> \in Point /\ <<"loop2", "loop">> \in Point
  BY DEF Point
<1> QED
  BY <1>2, <1>3, <1>4, <1>5, <1>6

(***************************************************************************)
(* KernelInit, the state in which kernel_main calls Processing::Initialize *)
(* (kernel.cpp:158), satisfies the invariant.                              *)
(***************************************************************************)
LEMMA InitKInv == KernelInit => KInv
<1> SUFFICES ASSUME KernelInit PROVE KInv
  OBVIOUS
<1>1. SchedIInv
  BY SchedInitIInv DEF KernelInit
<1>2. SchedTypeOK /\ canceled = {} /\ current = NoProc /\ added = {}
  BY <1>1 DEF SchedIInv, KernelInit, SchedInit
<1>3. /\ pc = <<"boot", "processing">> /\ at[0] = pc
      /\ \A p \in Pid : p # 0 => at[p] = <<"none", "none">>
      /\ at \in [Pid -> Point] /\ pc \in Point
  BY Pids, PointPairs DEF KernelInit, BootSteps
<1>4. saved \in [Pid -> Point] /\ inbuf \in [Pid -> Seq(Commands) \cup {NoBuf}]
  BY PointPairs DEF KernelInit
<1>5. KernelTypeOK
  <2>1. /\ timesRan \in [Pid -> 0 .. TimesRanCap]
        /\ statics \in [dir : Pid, newPid : Pid, tempDir : Pid, tempPid : Pid]
    BY Pids DEF KernelInit, TimesRanCap
  <2>2. running \in 0 .. WordSize - 1 /\ typed \in 0 .. MaxKeys /\ pidSeq \in Pid
    BY Pids, KernelAssumption DEF KernelInit
  <2>3. cpu \in Pid /\ cached \in Pid /\ lastPid \in Pid /\ cr3 \in Pid
    BY Pids, KernelAssumption DEF KernelInit
  <2>4. /\ mode = "run" /\ cmd \in Commands /\ kstack = "intact"
        /\ handlers = {} /\ registered = {}
    BY DEF KernelInit, Commands
  <2>5. intr \in BOOLEAN
    BY DEF KernelInit
  <2> QED
    BY <1>2, <1>3, <1>4, <2>1, <2>2, <2>3, <2>4, <2>5 DEF KernelTypeOK
<1>6. LostOnlyInKnownWays
  BY DEF KernelInit, LostOnlyInKnownWays
<1>7. Points /\ Phases /\ Names
  BY <1>2, <1>3, Pids DEF KernelInit, Points, Phases, Names, Program, Steps, BootSteps, Ended
<1>8. OnCpu /\ Statics /\ OffCpu
  BY <1>2, <1>3, Pids DEF KernelInit, OnCpu, Statics, OffCpu, Guarded, InStart, InEnd
<1>9. Launches
  BY <1>3, Pids DEF KernelInit, Launches, Queued, Pending
<1> QED
  BY <1>1, <1>2, <1>5, <1>6, <1>7, <1>8, <1>9 DEF KInv, RunInv, KernelInit

\* The running program went on to step s, and what this leaves of the invariant.
Local(s) ==
    /\ pc' = <<pc[1], s>> /\ pc'[1] = pc[1] /\ pc'[2] = s /\ pc' \in Point
    /\ at' \in [Pid -> Point] /\ at'[cpu] = pc'
    /\ \A p \in Pid : p # cpu => at'[p] = at[p]
    /\ cpu' = cpu /\ mode' = "run"
    /\ SchedIInv' /\ SchedTypeOK' /\ LostOnlyInKnownWays'
    /\ pidSeq' \in Nat /\ added' = 1 .. pidSeq' - 1
    /\ Points' /\ Phases' /\ OffCpu'

(***************************************************************************)
(* A step of kernel_stage_2 or of the shell that stays in its program,     *)
(* creates and ends no process and leaves the registers of the others      *)
(* alone.                                                                  *)
(***************************************************************************)
LEMMA LocalStep ==
  ASSUME KInv, mode = "run", NEW s, Goto(s),
         \/ cpu = 1 /\ s \in AfterShell /\ pc[2] \in AfterShell
         \/ cpu = 1 /\ s \in BeforeShell /\ pc[2] \in BeforeShell
         \/ cpu = 2 /\ s \in ShellSteps,
         cpu = 1 /\ s \in Ended => pc[2] \in Ended,
         UNCHANGED <<schedVars, saved, timesRan, pidSeq, handlers, cached>>
  PROVE  Local(s)
<1>1. /\ Points /\ Phases /\ OffCpu /\ SchedIInv /\ pidSeq \in Nat
      /\ pc \in Point /\ cpu \in Pid /\ at \in [Pid -> Point] /\ added = 1 .. pidSeq - 1
  BY DEF KInv, RunInv, KernelTypeOK
<1>2. pc[1] = Program(cpu)
  BY <1>1 DEF Points
<1>3. /\ pc' = <<pc[1], s>> /\ at' = [at EXCEPT ![cpu] = pc']
      /\ cpu' = cpu /\ mode' = "run"
  BY DEF Goto
<1>4. pc' \in Point /\ s \in Steps(cpu)
  BY <1>2, <1>3, PointPairs DEF Program, Steps
<1>5. /\ at' \in [Pid -> Point] /\ at'[cpu] = pc'
      /\ \A p \in Pid : p # cpu => at'[p] = at[p]
  BY <1>1, <1>3, <1>4
<1>6. SchedIInv' /\ SchedTypeOK' /\ added' = added /\ canceled' = canceled /\ current' = current
  BY <1>1, SchedNextIInv DEF schedVars, SchedIInv
<1>7. LostOnlyInKnownWays'
  BY <1>3 DEF LostOnlyInKnownWays
<1>8. pc'[1] = pc[1] /\ pc'[2] = s
  BY <1>3
<1>9. Points'
  BY <1>1, <1>2, <1>3, <1>4, <1>5, <1>8 DEF Points
<1>10. Phases'
  <2>1. at'[0] = at[0] /\ cpu' # 0
    BY <1>3, <1>5, Pids
  <2>2. /\ pidSeq = 2 => at'[1][2] \in BeforeShell
        /\ pidSeq > 2 => at'[1][2] \in AfterShell
        /\ at'[1][2] \in Ended => 1 \in canceled
    <3>1. CASE cpu = 1
      BY <1>1, <1>5, <1>8, <3>1 DEF Points, Phases, BeforeShell, AfterShell
    <3>2. CASE cpu = 2
      BY <1>1, <1>5, <3>2, Pids DEF Phases
    <3> QED
      BY <3>1, <3>2
  <2> QED
    BY <1>1, <1>3, <1>6, <2>1, <2>2 DEF Phases
<1>11. OffCpu'
  BY <1>1, <1>3, <1>5, <1>6 DEF OffCpu
<1> QED
  BY <1>1, <1>3, <1>4, <1>5, <1>6, <1>7, <1>8, <1>9, <1>10, <1>11 DEF Local

-----------------------------------------------------------------------------
(* The steps of the programs, one lemma for each (kernel.cpp, process.cpp). *)

\* Whose code runs, from the program that runs.
LEMMA WhoRuns ==
  ASSUME KInv, mode = "run"
  PROVE  /\ pc[1] = "boot" => cpu = 0 /\ pc[2] \in BootSteps
         /\ pc[1] = "stage2" => cpu = 1 /\ pc[2] \in BeforeShell \cup AfterShell
         /\ pc[1] = "shell" => cpu = 2 /\ pc[2] \in ShellSteps
         /\ cpu = 2 => pidSeq > 2 /\ pc[1] = "shell"
         /\ cpu = 1 => pidSeq > 1 /\ pc[1] = "stage2"
         /\ pc = at[cpu] /\ pc = <<pc[1], pc[2]>> /\ cpu \in Pid
<1>1. Points /\ cpu \in Pid /\ pc \in Point /\ pidSeq \in Nat
  BY DEF KInv, RunInv, KernelTypeOK
<1>2. pc[1] = Program(cpu) /\ pc[2] \in Steps(cpu) /\ cpu < pidSeq /\ pc = at[cpu]
  BY <1>1 DEF Points
<1> QED
  BY <1>1, <1>2, Pids, PointPairs DEF Program, Steps

\* self_process::Init.
LEMMA SelfProcessInitKInv ==
  ASSUME KInv, NEW s, SelfProcessInit(s), (cpu = 1 /\ s = "cli") \/ (cpu = 2 /\ s = "read")
  PROVE  KInv'
<1> USE DEF SelfProcessInit, AtStep, procVars, shellVars
<1>1. Local(s)
  BY LocalStep DEF BeforeShell, ShellSteps, Ended
<1>2. /\ Names /\ OnCpu /\ Statics /\ Launches /\ KernelTypeOK
      /\ pc = at[cpu] /\ cpu \in Pid
  BY WhoRuns DEF KInv, RunInv
<1>3. inbuf' \in [Pid -> Seq(Commands) \cup {NoBuf}]
  BY <1>2, EmptySeq DEF KernelTypeOK
<1>4. KernelTypeOK'
  BY <1>1, <1>2, <1>3 DEF KernelTypeOK, Local
<1>5. Names' /\ Statics'
  BY <1>1, <1>2, Pids DEF Local, Names, Statics, InStart, InEnd
<1>6. OnCpu'
  BY <1>1, <1>2 DEF Local, OnCpu, Guarded, InStart, InEnd, schedVars
<1>7. Launches'
  <2>1. CASE cpu = 1
    <3>1. inbuf'[2] = inbuf[2] /\ at'[2] = at[2]
      BY <1>1, <1>2, <2>1, Pids DEF Local, OnCpu, KernelTypeOK
    <3>2. Queued' = Queued /\ Pending' = Pending
      BY <3>1 DEF Queued, Pending
    <3> QED
      BY <1>2, <3>1, <3>2 DEF Launches
  <2>2. CASE cpu = 2
    <3>1. /\ inbuf'[2] = <<>> /\ at[2][2] = "init"
          /\ at'[2][1] = "shell" /\ at'[2][2] = "read"
      BY <1>1, <1>2, <2>2, WhoRuns, Pids DEF Local, OnCpu, KernelTypeOK
    <3>2. Queued \in Nat /\ Pending = 0
      BY <1>2, <3>1, Pids, LenProperties DEF Queued, Pending, KernelTypeOK
    <3>3. Queued' = 0 /\ Pending' = 0 /\ inbuf'[2] # NoBuf
      BY <3>1, EmptySeq DEF Queued, Pending, NoBuf
    <3> QED
      BY <1>2, <3>1, <3>2, <3>3, Pids DEF Launches, KernelTypeOK
  <2> QED
    BY <2>1, <2>2
<1> QED
  BY <1>1, <1>4, <1>5, <1>6, <1>7 DEF KInv, RunInv, Local

\* The shell's input is untouched by a step of another program, and by steps of
\* its own that neither read nor start.
LEMMA LaunchesKept ==
  ASSUME Launches, UNCHANGED <<inbuf, cmd, pidSeq, typed>>, at'[2][1] = at[2][1],
         at'[2][2] # "init" => at[2][2] # "init",
         at'[2][2] \in {"cli", "start_switch", "start_create"} =>
            at[2][2] \in {"cli", "start_switch", "start_create"},
         at'[2][2] \in {"start_switch", "start_create"} => cmd = "START",
         pidSeq \in Nat, typed \in Nat, inbuf[2] = NoBuf \/ inbuf[2] \in Seq(Commands)
  PROVE  Launches'
<1>1. Queued' = Queued /\ Queued \in Nat
  BY LenProperties DEF Queued
<1>2. Pending \in {0, 1} /\ Pending' \in {0, 1} /\ (Pending' = 1 => Pending = 1)
  BY DEF Pending
<1>3. Pending' <= Pending
  BY <1>2
<1>4. pidSeq + Queued + Pending <= 3 + typed
  BY DEF Launches
<1>5. pidSeq + Queued + Pending' <= 3 + typed
  <2>1. PICK q \in Nat, u \in Nat, v \in Nat : q = Queued /\ u = Pending /\ v = Pending'
    BY <1>1, <1>2
  <2>2. v <= u /\ pidSeq + q + u <= 3 + typed
    BY <1>3, <1>4, <2>1
  <2>3. pidSeq + q + v <= 3 + typed
    BY <2>2
  <2> QED
    BY <2>1, <2>3
<1> QED
  BY <1>1, <1>5 DEF Launches

\* What the invariant says of a state in which a program takes a step.
LEMMA RunFacts ==
  ASSUME KInv, mode = "run"
  PROVE  /\ Points /\ Phases /\ Names /\ OnCpu /\ Statics /\ OffCpu /\ Launches
         /\ KernelTypeOK /\ SchedIInv /\ added = 1 .. pidSeq - 1
         /\ cpu \in Pid /\ pidSeq \in Nat /\ typed \in Nat
         /\ inbuf[2] = NoBuf \/ inbuf[2] \in Seq(Commands)
         /\ at \in [Pid -> Point] /\ at[cpu] = pc
<1>1. /\ Points /\ Phases /\ Names /\ OnCpu /\ Statics /\ OffCpu /\ Launches
      /\ KernelTypeOK /\ SchedIInv /\ added = 1 .. pidSeq - 1 /\ pidSeq \in Nat
  BY DEF KInv, RunInv
<1>2. cpu \in Pid /\ typed \in Nat /\ at \in [Pid -> Point]
  BY <1>1, Pids DEF KernelTypeOK
<1>3. inbuf[2] = NoBuf \/ inbuf[2] \in Seq(Commands)
  BY <1>1, Pids DEF KernelTypeOK
<1> QED
  BY <1>1, <1>2, <1>3 DEF Points

\* cli.
LEMMA DisableInterruptsKInv ==
  ASSUME KInv, NEW s, DisableInterrupts(s),
         \/ cpu = 1 /\ s = "register"
         \/ cpu = 2 /\ s = IF cmd = "START" THEN "start_switch" ELSE "end_switch"
  PROVE  KInv'
<1> USE DEF DisableInterrupts, SetInterrupts, AtStep, procVars, shellVars, inputVars
<1>1. Local(s)
  BY LocalStep DEF BeforeShell, ShellSteps, Ended
<1>2. KernelTypeOK'
  BY <1>1, RunFacts DEF KernelTypeOK, Local
<1>3. Names' /\ Statics'
  BY <1>1, RunFacts, Pids DEF Local, Names, Statics, InStart, InEnd
<1>4. OnCpu'
  BY <1>1, RunFacts DEF Local, OnCpu, Guarded, InStart, InEnd, schedVars
<1>5. Launches'
  BY <1>1, RunFacts, LaunchesKept, Pids DEF Local, Launches
<1> QED
  BY <1>1, <1>2, <1>3, <1>4, <1>5 DEF KInv, RunInv, Local

\* sti.
LEMMA EnableInterruptsKInv ==
  ASSUME KInv, NEW s, EnableInterrupts(s),
         (cpu = 1 /\ s = "finish") \/ (cpu = 2 /\ s = "report")
  PROVE  KInv'
<1> USE DEF EnableInterrupts, SetInterrupts, AtStep, procVars, shellVars, inputVars
<1>1. Local(s)
  BY LocalStep DEF AfterShell, ShellSteps, Ended
<1>2. KernelTypeOK'
  BY <1>1, RunFacts DEF KernelTypeOK, Local
<1>3. Names' /\ Statics'
  BY <1>1, RunFacts, Pids DEF Local, Names, Statics, InStart, InEnd
<1>4. OnCpu'
  BY <1>1, RunFacts DEF Local, OnCpu, Guarded, InStart, InEnd, schedVars
<1>5. Launches'
  BY <1>1, RunFacts, LaunchesKept, Pids DEF Local, Launches
<1> QED
  BY <1>1, <1>2, <1>3, <1>4, <1>5 DEF KInv, RunInv, Local

\* RegisterProcess for the two programs kernel_stage_2 names.
LEMMA RegisterProcessesKInv ==
  ASSUME KInv, RegisterProcesses, cpu = 1
  PROVE  KInv'
<1> USE DEF RegisterProcesses, AtStep, shellVars, inputVars
<1>1. Local("start_switch")
  BY LocalStep DEF BeforeShell, Ended
<1>2. KernelTypeOK'
  BY <1>1, RunFacts DEF KernelTypeOK, Local
<1>3. Names' /\ Statics'
  BY <1>1, RunFacts, Pids DEF Local, Names, Statics, InStart, InEnd, KernelTypeOK
<1>4. OnCpu'
  BY <1>1, RunFacts DEF Local, OnCpu, Guarded, InStart, InEnd, schedVars
<1>5. Launches'
  BY <1>1, RunFacts, LaunchesKept, Pids DEF Local, Launches
<1> QED
  BY <1>1, <1>2, <1>3, <1>4, <1>5 DEF KInv, RunInv, Local

\* The return of kernel_stage_2.
LEMMA ReturnKInv ==
  ASSUME KInv, Return, cpu = 1
  PROVE  KInv'
<1> USE DEF Return, AtStep, procVars, shellVars, inputVars
<1>1. Local("returned")
  BY LocalStep DEF AfterShell, Ended
<1>2. KernelTypeOK'
  BY <1>1, RunFacts DEF KernelTypeOK, Local
<1>3. Names' /\ Statics'
  BY <1>1, RunFacts, Pids DEF Local, Names, Statics, InStart, InEnd
<1>4. OnCpu'
  BY <1>1, RunFacts DEF Local, OnCpu, Guarded, InStart, InEnd, schedVars
<1>5. Launches'
  BY <1>1, RunFacts, LaunchesKept, Pids DEF Local, Launches
<1> QED
  BY <1>1, <1>2, <1>3, <1>4, <1>5 DEF KInv, RunInv, Local

\* Start::Process goes to the kernel's directory.
LEMMA StartSwitchKInv ==
  ASSUME KInv, StartSwitch, cpu \in {1, 2}
  PROVE  KInv'
<1> USE DEF StartSwitch, AtStep, procVars, shellVars, inputVars
<1>1. Local("start_create")
  BY LocalStep DEF BeforeShell, ShellSteps, Ended
<1>2. /\ statics' = [statics EXCEPT !.dir = cpu] /\ cr3' = 1
      /\ kstack' \in {"intact", "scratch"} /\ (cpu = 1 => kstack' = "intact")
  BY <1>1, RunFacts DEF OnCpu, BorrowedStack, KernelTypeOK, Guarded, InStart, InEnd
<1>3. /\ statics'.dir = cpu
      /\ statics' \in [dir : Pid, newPid : Pid, tempDir : Pid, tempPid : Pid]
  BY <1>2, RunFacts DEF KernelTypeOK
<1>4. KernelTypeOK'
  <2>1. KernelTypeOK /\ cr3' \in Pid /\ kstack' \in {"intact", "scratch"}
    BY <1>2, RunFacts, Pids
  <2>2. /\ SchedTypeOK' /\ pc' \in Point /\ at' \in [Pid -> Point] /\ mode' = "run" /\ cpu' = cpu
        /\ statics' \in [dir : Pid, newPid : Pid, tempDir : Pid, tempPid : Pid]
    BY <1>1, <1>3 DEF Local
  <2>3. UNCHANGED <<saved, timesRan, pidSeq, registered, cmd, lastPid, inbuf, typed>>
    OBVIOUS
  <2>4. UNCHANGED <<running, intr, handlers, cached>>
    BY DEF Goto, Executing
  <2> HIDE DEF StartSwitch
  <2> QED
    BY <2>1, <2>2, <2>3, <2>4 DEF KernelTypeOK
<1>5. Names' /\ Statics'
  BY <1>1, <1>3, RunFacts, Pids DEF Local, Names, Statics, InStart, InEnd
<1>6. OnCpu'
  BY <1>1, <1>2, RunFacts DEF Local, OnCpu, Guarded, InStart, InEnd, schedVars
<1>7. Launches'
  BY <1>1, RunFacts, LaunchesKept, Pids DEF Local, Launches
<1> QED
  BY <1>1, <1>4, <1>5, <1>6, <1>7 DEF KInv, RunInv, Local

\* Start::Process goes back to the caller's directory.
LEMMA StartRestoreKInv ==
  ASSUME KInv, NEW s, StartRestore(s),
         (cpu = 1 /\ s = "end_switch") \/ (cpu = 2 /\ s = "sti")
  PROVE  KInv'
<1> USE DEF StartRestore, AtStep, procVars, inputVars
<1>1. Local(s)
  BY LocalStep DEF AfterShell, ShellSteps, Ended
<1>2. cr3' = cpu /\ lastPid' \in Pid
  <2>1. statics.newPid \in Pid /\ lastPid \in Pid
    BY RunFacts DEF KernelTypeOK
  <2> QED
    BY <2>1, RunFacts DEF OnCpu, Statics, InStart
<1>3. KernelTypeOK'
  BY <1>1, <1>2, RunFacts DEF KernelTypeOK, Local
<1>4. Names' /\ Statics'
  BY <1>1, RunFacts, Pids DEF Local, Names, Statics, InStart, InEnd
<1>5. OnCpu'
  BY <1>1, <1>2, RunFacts DEF Local, OnCpu, Guarded, InStart, InEnd, schedVars
<1>6. Launches'
  BY <1>1, RunFacts, LaunchesKept, Pids DEF Local, Launches
<1> QED
  BY <1>1, <1>3, <1>4, <1>5, <1>6 DEF KInv, RunInv, Local

\* End::Process goes to the kernel's directory, unless it is the kernel that ends
\* one; kernel_stage_2 ends itself.
LEMMA EndSwitchKInv ==
  ASSUME KInv, NEW p \in Pid, EndSwitch(p), (cpu = 1 /\ p = 1) \/ cpu = 2
  PROVE  KInv'
<1> USE DEF EndSwitch, AtStep, procVars, shellVars, inputVars
<1>1. Local("end_signal")
  BY LocalStep DEF AfterShell, ShellSteps, Ended
<1>2. /\ statics' = [statics EXCEPT !.tempPid = p, !.tempDir = IF cpu # 1 THEN cpu ELSE 0]
      /\ cr3' = 1
      /\ kstack' \in {"intact", "scratch"} /\ (cpu = 1 => kstack' = "intact")
  <2>1. cached = cpu /\ cr3 = cpu
    BY RunFacts DEF OnCpu, InStart, InEnd
  <2>2. kstack \in {"intact", "scratch"} /\ (cpu = 1 => kstack = "intact")
    BY RunFacts DEF OnCpu, KernelTypeOK
  <2> QED
    BY <2>1, <2>2 DEF BorrowedStack
<1>3. /\ statics'.tempPid = p /\ (cpu # 1 => statics'.tempDir = cpu)
      /\ statics' \in [dir : Pid, newPid : Pid, tempDir : Pid, tempPid : Pid]
  BY <1>2, RunFacts, Pids DEF KernelTypeOK
<1>4. KernelTypeOK'
  <2>1. KernelTypeOK /\ cr3' \in Pid /\ kstack' \in {"intact", "scratch"}
    BY <1>2, RunFacts, Pids
  <2>2. /\ SchedTypeOK' /\ pc' \in Point /\ at' \in [Pid -> Point] /\ mode' = "run" /\ cpu' = cpu
        /\ statics' \in [dir : Pid, newPid : Pid, tempDir : Pid, tempPid : Pid]
    BY <1>1, <1>3 DEF Local
  <2>3. UNCHANGED <<saved, timesRan, pidSeq, registered, cmd, lastPid, inbuf, typed>>
    OBVIOUS
  <2>4. UNCHANGED <<running, intr, handlers, cached>>
    BY DEF Goto, Executing
  <2> HIDE DEF EndSwitch
  <2> QED
    BY <2>1, <2>2, <2>3, <2>4 DEF KernelTypeOK
<1>5. Names' /\ Statics'
  BY <1>1, <1>3, RunFacts, Pids DEF Local, Names, Statics, InStart, InEnd
<1>6. OnCpu'
  BY <1>1, <1>2, RunFacts DEF Local, OnCpu, Guarded, InStart, InEnd, schedVars
<1>7. Launches'
  BY <1>1, RunFacts, LaunchesKept, Pids DEF Local, Launches
<1> QED
  BY <1>1, <1>4, <1>5, <1>6, <1>7 DEF KInv, RunInv, Local

\* End::Process goes back to the caller's directory.
LEMMA EndRestoreKInv ==
  ASSUME KInv, EndRestore("sti"), cpu \in {1, 2}
  PROVE  KInv'
<1> USE DEF EndRestore, AtStep, procVars, shellVars, inputVars
<1>1. Local("sti")
  BY LocalStep DEF AfterShell, ShellSteps, Ended
<1>2. cr3' = cpu
  BY RunFacts DEF OnCpu, Statics, InEnd
<1>3. KernelTypeOK'
  BY <1>1, <1>2, RunFacts DEF KernelTypeOK, Local
<1>4. Names' /\ Statics'
  BY <1>1, RunFacts, Pids DEF Local, Names, Statics, InStart, InEnd
<1>5. OnCpu'
  BY <1>1, <1>2, RunFacts DEF Local, OnCpu, Guarded, InStart, InEnd, schedVars
<1>6. Launches'
  BY <1>1, RunFacts, LaunchesKept, Pids DEF Local, Launches
<1> QED
  BY <1>1, <1>3, <1>4, <1>5, <1>6 DEF KInv, RunInv, Local

\* The shell counts its processes.
LEMMA ReportKInv ==
  ASSUME KInv, Report, cpu = 2
  PROVE  KInv'
<1> USE DEF Report, AtStep, procVars, inputVars
<1>1. Local("read")
  BY LocalStep DEF ShellSteps, Ended
<1>2. running' \in 0 .. WordSize - 1
  <2>1. \A n \in Nat, w \in Nat \ {0} : n % w \in 0 .. w - 1
    OBVIOUS
  <2>2. running \in Nat /\ WordSize \in Nat \ {0}
    BY RunFacts, KernelAssumption DEF KernelTypeOK
  <2>3. running + 1 \in Nat /\ running + WordSize - 1 \in Nat
    BY <2>2
  <2> QED
    BY <2>1, <2>2, <2>3 DEF Counted
<1>3. KernelTypeOK'
  BY <1>1, <1>2, RunFacts DEF KernelTypeOK, Local
<1>4. Names' /\ Statics'
  BY <1>1, RunFacts, Pids DEF Local, Names, Statics, InStart, InEnd
<1>5. OnCpu'
  BY <1>1, RunFacts DEF Local, OnCpu, Guarded, InStart, InEnd, schedVars
<1>6. Launches'
  BY <1>1, RunFacts, LaunchesKept, Pids DEF Local, Launches
<1> QED
  BY <1>1, <1>3, <1>4, <1>5, <1>6 DEF KInv, RunInv, Local

\* A null input_buffer is not a sequence of lines.
LEMMA NoBufIsNoInput == NoBuf \notin Seq(Commands)
<1> SUFFICES ASSUME NoBuf \in Seq(Commands) PROVE FALSE
  OBVIOUS
<1>1. Len(NoBuf) = 1 /\ NoBuf[1] = "null"
  BY DEF NoBuf
<1>2. NoBuf[1] \in Commands
  BY <1>1, ElementOfSeq
<1> QED
  BY <1>1, <1>2 DEF Commands

\* The shell reads a line.
LEMMA ReadCommandKInv ==
  ASSUME KInv, ReadCommand, cpu = 2
  PROVE  KInv'
<1> USE DEF ReadCommand, AtStep, procVars
<1> DEFINE s == IF cmd' = "OTHER" THEN "read" ELSE "cli"
<1>1. Local(s)
  BY LocalStep DEF ShellSteps, Ended
<1>2. inbuf[2] \in Seq(Commands) /\ inbuf[2] # <<>> /\ inbuf[2] # NoBuf
  BY RunFacts, WhoRuns DEF Launches, OnCpu, GetInputBuffer
<1>3. /\ inbuf' = [inbuf EXCEPT ![2] = Tail(inbuf[2])] /\ cmd' = Head(inbuf[2])
      /\ Tail(inbuf[2]) \in Seq(Commands) /\ Head(inbuf[2]) \in Commands
      /\ Len(Tail(inbuf[2])) = Len(inbuf[2]) - 1 /\ Len(inbuf[2]) \in Nat \ {0}
  BY <1>2, RunFacts, HeadTailProperties, LenProperties, EmptySeq DEF OnCpu, GetInputBuffer
<1>4. inbuf' \in [Pid -> Seq(Commands) \cup {NoBuf}] /\ inbuf'[2] = Tail(inbuf[2])
  <2>1. inbuf \in [Pid -> Seq(Commands) \cup {NoBuf}]
    BY RunFacts DEF KernelTypeOK
  <2> QED
    BY <1>3, <2>1, Pids
<1>5. KernelTypeOK'
  BY <1>1, <1>3, <1>4, RunFacts DEF KernelTypeOK, Local
<1>6. Names' /\ Statics'
  BY <1>1, RunFacts, Pids DEF Local, Names, Statics, InStart, InEnd
<1>7. OnCpu'
  BY <1>1, RunFacts DEF Local, OnCpu, Guarded, InStart, InEnd, schedVars
<1>8. Launches'
  <2>1. /\ at'[2][1] = "shell" /\ at'[2][2] = s /\ at[2][2] = "read"
        /\ Tail(inbuf[2]) # NoBuf
    BY <1>1, <1>3, RunFacts, WhoRuns, NoBufIsNoInput DEF Local
  <2>2. Queued' = Queued - 1 /\ Queued \in Nat \ {0}
    BY <1>2, <1>3, <1>4, <2>1 DEF Queued
  <2>3. Pending = 0 /\ Pending' \in {0, 1}
    BY <2>1 DEF Pending
  <2>4. pidSeq' = pidSeq /\ typed' = typed
    OBVIOUS
  <2> QED
    BY <1>4, <2>1, <2>2, <2>3, <2>4, RunFacts, SMTT(30) DEF Launches
<1> QED
  BY <1>1, <1>5, <1>6, <1>7, <1>8 DEF KInv, RunInv, Local

\* End::Process hands the pid to the scheduler.
LEMMA EndSignalKInv ==
  ASSUME KInv, EndSignal, cpu \in {1, 2}
  PROVE  KInv'
<1> USE DEF EndSignal, AtStep, SignalEnd, procVars, shellVars, inputVars
<1> DEFINE t == statics.tempPid
<1>1. t \in Pid /\ pc[2] = "end_signal" /\ pc \in Point
  BY RunFacts DEF KernelTypeOK
<1>2. /\ pc' = <<pc[1], "end_restore">> /\ at' = [at EXCEPT ![cpu] = pc']
      /\ cpu' = cpu /\ mode' = "run" /\ canceled' = canceled \cup {t}
  BY DEF Goto
<1>3. /\ pc'[1] = pc[1] /\ pc'[2] = "end_restore" /\ pc' \in Point
      /\ at' \in [Pid -> Point] /\ at'[cpu] = pc'
      /\ \A p \in Pid : p # cpu => at'[p] = at[p]
  BY <1>2, RunFacts, WhoRuns, PointPairs DEF AfterShell, ShellSteps
<1>4. SchedIInv'
  BY <1>1, RunFacts, SchedNextIInv DEF SchedNext
<1>5. KernelTypeOK'
  BY <1>2, <1>3, <1>4, RunFacts DEF KernelTypeOK, SchedIInv
<1>6. LostOnlyInKnownWays'
  BY <1>2 DEF LostOnlyInKnownWays
<1>7. Points'
  BY <1>2, <1>3, RunFacts, Pids DEF Points, Steps, Program, AfterShell, ShellSteps
<1>8. /\ cpu = 1 => t = 1
      /\ pidSeq > 2
  BY <1>1, RunFacts, WhoRuns, Pids DEF Statics, Phases, BeforeShell
<1>9. Phases'
  <2>1. at'[0] = at[0] /\ cpu' # 0
    BY <1>2, <1>3, Pids
  <2>2. at'[1][2] \in AfterShell
    BY <1>3, <1>8, RunFacts, Pids DEF Phases, AfterShell
  <2>3. IF cpu = 1 THEN canceled' \subseteq {1} ELSE 1 \in canceled'
    BY <1>2, <1>8, RunFacts DEF Phases
  <2>4. 1 \in canceled'
    BY <1>2, <1>8, RunFacts, Pids DEF Phases
  <2> QED
    BY <1>2, <1>8, <2>1, <2>2, <2>3, <2>4, RunFacts DEF Phases
<1>10. Names' /\ Statics'
  BY <1>2, <1>3, <1>8, RunFacts, Pids DEF Names, Statics, InStart, InEnd
<1>11. OnCpu'
  BY <1>2, <1>3, RunFacts DEF OnCpu, Guarded, InStart, InEnd
<1>12. OffCpu'
  BY <1>2, <1>3, RunFacts DEF OffCpu
<1>13. Launches'
  BY <1>2, <1>3, RunFacts, LaunchesKept, Pids DEF Launches
<1> QED
  BY <1>2, <1>4, <1>5, <1>6, <1>7, <1>9, <1>10, <1>11, <1>12, <1>13, RunFacts DEF KInv, RunInv

(***************************************************************************)
(* Start::Process finds the name and makes a process for the next pid,     *)
(* which is in range.                                                      *)
(***************************************************************************)
LEMMA StartCreateFinds ==
  ASSUME KInv, NEW name, StartCreate(name),
         (cpu = 1 /\ name = "shell") \/ (cpu = 2 /\ name = "loop2")
  PROVE  /\ name \in registered
         /\ cpu = 1 => pidSeq = 2
         /\ cpu = 2 => pidSeq > 2 /\ cmd = "START" /\ pidSeq + Queued + 1 <= 3 + typed
         /\ pidSeq \in Pid /\ Queued \in Nat
<1> USE DEF StartCreate, AtStep
<1>1. pc = at[cpu] /\ pc[2] = "start_create"
  BY RunFacts
<1>2. cpu = 1 => pidSeq = 2
  BY <1>1, RunFacts, WhoRuns DEF Phases, AfterShell
<1>3. Queued \in Nat
  BY RunFacts, LenProperties DEF Queued
<1>4. cpu = 2 => pidSeq > 2 /\ cmd = "START" /\ Pending = 1
  BY <1>1, RunFacts, WhoRuns DEF Launches, Pending
<1>5. cpu = 2 => pidSeq + Queued + 1 <= 3 + typed
  BY <1>4, RunFacts DEF Launches
<1>6. typed <= MaxKeys
  BY RunFacts, Pids DEF KernelTypeOK
<1>7. name \in registered
  BY <1>1, <1>4, RunFacts DEF Names
<1> QED
  BY <1>2, <1>3, <1>4, <1>5, <1>6, <1>7, RunFacts, Pids

\* Start::Process, making the process and handing it to the scheduler, keeps
\* the invariant (process.cpp:173-188).
LEMMA StartCreateKInv ==
  ASSUME KInv, NEW name, StartCreate(name),
         (cpu = 1 /\ name = "shell") \/ (cpu = 2 /\ name = "loop2")
  PROVE  KInv'
<1> USE DEF AtStep, NewProcess, KernelProcess, shellVars, inputVars
<1> DEFINE start == ProgramOf(name)
<1>1. /\ name \in registered
      /\ cpu = 1 => pidSeq = 2
      /\ cpu = 2 => pidSeq > 2 /\ cmd = "START" /\ pidSeq + Queued + 1 <= 3 + typed
      /\ pidSeq \in Pid /\ Queued \in Nat
  BY StartCreateFinds
<1>2. /\ mode = "run" /\ pc[2] = "start_create" /\ mode' = "run"
      /\ pidSeq' = pidSeq + 1 /\ saved' = [saved EXCEPT ![pidSeq] = start]
      /\ AddItem(pidSeq)
      /\ statics' = [statics EXCEPT !.newPid = pidSeq]
      /\ pc' = <<pc[1], "start_restore">>
      /\ at' = [at EXCEPT ![pidSeq] = start, ![cpu] = pc']
      /\ UNCHANGED <<timesRan, registered, cmd, lastPid, running, inbuf, typed, intr, cpu,
                     cr3, kstack, handlers, cached>>
  BY <1>1 DEF StartCreate
<1>3. /\ cpu = 1 => start = <<"shell", "init">>
      /\ cpu = 2 => start = <<"loop2", "loop">>
      /\ start \in Point
  BY PointPairs DEF ProgramOf, ShellSteps
<1>4. /\ pc'[1] = pc[1] /\ pc'[2] = "start_restore" /\ pc' \in Point
      /\ cpu < pidSeq
      /\ at' \in [Pid -> Point] /\ at'[cpu] = pc' /\ at'[pidSeq] = start
      /\ \A p \in Pid : p # cpu /\ p # pidSeq => at'[p] = at[p]
  <2>1. pc' \in Point
    BY <1>2, WhoRuns, PointPairs DEF AfterShell, ShellSteps
  <2>2. cpu < pidSeq /\ cpu # pidSeq /\ cpu \in Pid
    BY <1>1, <1>2, RunFacts, Pids DEF Points
  <2> QED
    BY <1>1, <1>2, <1>3, <2>1, <2>2, RunFacts
<1>5. /\ saved' \in [Pid -> Point] /\ saved'[pidSeq] = start
      /\ \A p \in Pid : p # pidSeq => saved'[p] = saved[p]
  BY <1>1, <1>2, <1>3, RunFacts DEF KernelTypeOK
<1>6. SchedIInv'
  BY <1>1, <1>2, RunFacts, AddItemIInv
<1>7. /\ added' = 1 .. pidSeq' - 1 /\ canceled' = canceled /\ current' = current
      /\ pidSeq' \in Nat
  BY <1>1, <1>2, RunFacts, Pids, SMTT(30) DEF AddItem
<1>8. /\ statics' \in [dir : Pid, newPid : Pid, tempDir : Pid, tempPid : Pid]
      /\ statics'.dir = statics.dir
  BY <1>1, <1>2, RunFacts DEF KernelTypeOK
<1>9. KernelTypeOK'
  <2>1. pidSeq' \in Pid \cup {MaxPid + 1}
    BY <1>1, <1>2, Pids
  <2> QED
    BY <1>2, <1>4, <1>5, <1>6, <1>8, <2>1, RunFacts DEF KernelTypeOK, SchedIInv
<1>10. LostOnlyInKnownWays'
  BY <1>2 DEF LostOnlyInKnownWays
<1>11. Points'
  <2>1. ASSUME NEW p \in Pid
        PROVE  IF p < pidSeq' THEN at'[p][1] = Program(p) /\ at'[p][2] \in Steps(p)
                              ELSE at'[p] = <<"none", "none">>
    <3>1. CASE p = cpu
      BY <1>2, <1>4, <3>1, RunFacts, Pids DEF Points, Program, Steps, AfterShell, ShellSteps
    <3>2. CASE p = pidSeq
      BY <1>1, <1>2, <1>3, <1>4, <3>2, RunFacts, Pids DEF Program, Steps, ShellSteps
    <3>3. CASE p # cpu /\ p # pidSeq
      BY <1>2, <1>4, <3>3, RunFacts, Pids DEF Points
    <3> QED
      BY <3>1, <3>2, <3>3
  <2>2. cpu' < pidSeq' /\ pc' = at'[cpu']
    BY <1>2, <1>4, RunFacts, Pids
  <2> QED
    BY <2>1, <2>2 DEF Points
<1>12. Phases'
  <2>1. pidSeq # 0 /\ pidSeq # 1 /\ pidSeq' > 2 /\ pidSeq' # 1
    BY <1>1, <1>2, RunFacts
  <2>2. at'[0] = at[0] /\ cpu' # 0
    BY <1>2, <1>4, <2>1, Pids
  <2>3. at'[1][2] \in AfterShell /\ (at'[1][2] \in Ended => 1 \in canceled)
    <3>1. CASE cpu = 1
      BY <1>4, <3>1 DEF AfterShell, Ended
    <3>2. CASE cpu = 2
      BY <1>1, <1>2, <1>4, <2>1, <3>2, RunFacts, Pids DEF Phases
    <3> QED
      BY <3>1, <3>2
  <2> QED
    BY <1>2, <1>7, <2>1, <2>2, <2>3, RunFacts DEF Phases
<1>13. Names' /\ Statics'
  BY <1>1, <1>2, <1>4, <1>8, RunFacts DEF Names, Statics, InStart, InEnd
<1>14. OnCpu'
  BY <1>2, <1>4, <1>7, RunFacts DEF OnCpu, Guarded, InStart, InEnd
<1>15. OffCpu'
  <2>1. ASSUME NEW p \in Pid, p < pidSeq', p # cpu
        PROVE  /\ at'[p][2] \notin Guarded
               /\ p # 0 /\ p \notin canceled => saved'[p] = at'[p]
    <3>1. CASE p = pidSeq
      BY <1>3, <1>4, <1>5, <3>1 DEF Guarded
    <3>2. CASE p # pidSeq
      BY <1>2, <1>4, <1>5, <2>1, <3>2, RunFacts, Pids DEF OffCpu
    <3> QED
      BY <3>1, <3>2
  <2> QED
    BY <1>2, <1>7, <2>1 DEF OffCpu
<1>16. Launches'
  <2>1. Queued' = Queued
    BY <1>2 DEF Queued
  <2>2. CASE cpu = 1
    <3>1. /\ pidSeq = 2 /\ at[2] = <<"none", "none">>
          /\ at'[2][1] = "shell" /\ at'[2][2] = "init"
      <4>1. pidSeq = 2 /\ ~(2 < pidSeq)
        BY <1>1, <2>2
      <4>2. at[2] = <<"none", "none">>
        BY <1>2, <4>1, RunFacts, Pids DEF Points
      <4> QED
        BY <1>3, <1>4, <2>2, <4>1, <4>2
    <3>2. Pending' = 0
      BY <3>1 DEF Pending
    <3>3. Queued' = 0
      BY <1>2, <2>1, <3>1, RunFacts DEF Launches, Queued
    <3> QED
      BY <1>2, <3>1, <3>2, <3>3, RunFacts DEF Launches
  <2>3. CASE cpu = 2
    <3>1. at'[2][1] = at[2][1] /\ at'[2][2] = "start_restore" /\ at[2][2] = "start_create"
      BY <1>2, <1>4, <2>3, RunFacts
    <3>2. Pending' = 0
      BY <3>1 DEF Pending
    <3> QED
      BY <1>1, <1>2, <2>1, <2>3, <3>1, <3>2, RunFacts DEF Launches
  <2> QED
    BY <2>2, <2>3
<1> QED
  BY <1>6, <1>7, <1>9, <1>10, <1>11, <1>12, <1>13, <1>14, <1>15, <1>16 DEF KInv, RunInv

-----------------------------------------------------------------------------
(* The end of kernel_main.                                                 *)

\* Processing::Initialize makes the kernel process.
LEMMA ProcessingInitializeKInv ==
  ASSUME KInv, ProcessingInitialize
  PROVE  KInv'
<1> USE DEF NewProcess, KernelProcess, shellVars, inputVars
<1>1. mode = "run" /\ pc = <<"boot", "processing">> /\ cpu = 0 /\ pidSeq = 1
  BY WhoRuns, RunFacts DEF ProcessingInitialize, Executing, Phases
<1>2. /\ mode' = "run" /\ pidSeq' = 2 /\ saved' = [saved EXCEPT ![1] = <<"stage2", "init">>]
      /\ AddItem(1) /\ pc' = <<"boot", "interrupts">>
      /\ at' = [at EXCEPT ![1] = <<"stage2", "init">>, ![0] = pc']
      /\ UNCHANGED <<timesRan, registered, cmd, lastPid, running, inbuf, typed, intr, cpu,
                     cr3, kstack, handlers, cached, statics>>
  BY <1>1 DEF ProcessingInitialize
<1>3. /\ pc' \in Point /\ <<"stage2", "init">> \in Point
  BY <1>2, PointPairs DEF BootSteps, BeforeShell
<1>4. /\ at' \in [Pid -> Point] /\ at'[0] = pc' /\ at'[1] = <<"stage2", "init">>
      /\ \A p \in Pid : p # 0 /\ p # 1 => at'[p] = at[p]
      /\ saved' \in [Pid -> Point] /\ saved'[1] = <<"stage2", "init">>
  <2>1. saved \in [Pid -> Point] /\ at \in [Pid -> Point]
    BY <1>1, RunFacts DEF KernelTypeOK
  <2>2. saved' \in [Pid -> Point] /\ saved'[1] = <<"stage2", "init">>
    BY <1>2, <1>3, <2>1, Pids
  <2>3. /\ at' \in [Pid -> Point] /\ at'[0] = pc' /\ at'[1] = <<"stage2", "init">>
        /\ \A p \in Pid : p # 0 /\ p # 1 => at'[p] = at[p]
    <3>1. at' = [at EXCEPT ![1] = <<"stage2", "init">>, ![0] = pc']
      BY <1>2
    <3>2. pc' \in Point /\ <<"stage2", "init">> \in Point /\ 0 \in Pid /\ 1 \in Pid
      BY <1>3, Pids
    <3> QED
      BY <2>1, <3>1, <3>2
  <2> QED
    BY <2>2, <2>3
<1>5. SchedIInv'
  BY <1>1, <1>2, RunFacts, AddItemIInv, Pids
<1>6. /\ added' = 1 .. pidSeq' - 1 /\ canceled' = canceled /\ current' = current
  BY <1>1, <1>2, RunFacts DEF AddItem
<1>7. KernelTypeOK'
  BY <1>1, <1>2, <1>3, <1>4, <1>5, RunFacts, Pids DEF KernelTypeOK, SchedIInv
<1>8. LostOnlyInKnownWays'
  BY <1>2 DEF LostOnlyInKnownWays
<1>9. Points'
  BY <1>1, <1>2, <1>4, RunFacts, Pids DEF Points, Program, Steps, BootSteps, BeforeShell
<1>10. Phases' /\ Names'
  BY <1>1, <1>2, <1>4, <1>6, RunFacts DEF Phases, Names, BeforeShell, Ended
<1>11. OnCpu' /\ Statics'
  BY <1>1, <1>2, <1>6, RunFacts DEF OnCpu, Statics, Guarded, InStart, InEnd
<1>12. OffCpu'
  <2>1. ASSUME NEW p \in Pid, p < pidSeq', p # cpu'
        PROVE  at'[p][2] \notin Guarded /\ saved'[p] = at'[p]
    <3>1. p = 1
      BY <1>1, <1>2, <2>1, Pids
    <3> QED
      BY <1>4, <3>1 DEF Guarded
  <2> QED
    BY <2>1 DEF OffCpu
<1>13. Launches'
  <2>1. at[2] = <<"none", "none">> /\ at'[2] = at[2]
    <3>1. ~(2 < pidSeq)
      BY <1>1
    <3> QED
      BY <1>1, <1>4, <3>1, RunFacts, Pids DEF Points
  <2>2. at[2][1] = "none" /\ at'[2][1] = "none" /\ at'[2][2] = "none"
    BY <2>1
  <2>3. inbuf'[2] = NoBuf
    BY <1>1, <1>2, <2>2, RunFacts DEF Launches
  <2>4. Queued' = 0 /\ Pending' = 0
    BY <2>2, <2>3 DEF Queued, Pending
  <2> QED
    BY <1>1, <1>2, <2>2, <2>3, <2>4, RunFacts DEF Launches
<1> QED
  BY <1>2, <1>5, <1>6, <1>7, <1>8, <1>9, <1>10, <1>11, <1>12, <1>13 DEF KInv, RunInv

\* The rest of kernel_main.
LEMMA BootStepKInv ==
  ASSUME KInv, NEW from, NEW to, NEW handled, BootStep(from, to, handled),
         from # "processing", to \in BootSteps \ {"processing"},
         handled \subseteq {Timer, Keyboard}
  PROVE  KInv'
<1> USE DEF BootStep, procVars, shellVars, inputVars
<1>1. /\ mode = "run" /\ pc = <<"boot", from>> /\ cpu = 0
      /\ pc' = <<pc[1], to>> /\ at' = [at EXCEPT ![cpu] = pc'] /\ cpu' = cpu
      /\ mode' = "run" /\ handlers' = handled
      /\ UNCHANGED <<schedVars, saved, timesRan, pidSeq, registered, cmd, lastPid, running,
                     inbuf, typed, intr, cr3, kstack, cached, statics>>
  BY WhoRuns DEF Executing, Goto
<1>2. at[0][2] = from /\ pidSeq # 1 /\ pc[1] = "boot" /\ pc[2] = from
  BY <1>1, RunFacts DEF Phases
<1>3. /\ pc'[1] = "boot" /\ pc'[2] = to /\ pc' \in Point
      /\ at' \in [Pid -> Point] /\ at'[0] = pc'
      /\ \A p \in Pid : p # 0 => at'[p] = at[p]
  <2>1. pc' = <<"boot", to>> /\ pc' \in Point
    BY <1>1, PointPairs
  <2> QED
    BY <1>1, <2>1, RunFacts
<1>4. SchedIInv' /\ canceled' = canceled /\ current' = current /\ added' = added
  BY <1>1, RunFacts, SchedNextIInv DEF schedVars
<1>5. KernelTypeOK'
  <2>1. KernelTypeOK
    BY <1>1, RunFacts
  <2> HIDE DEF BootStep
  <2> QED
    BY <1>1, <1>3, <1>4, <2>1 DEF KernelTypeOK, SchedIInv
<1>6. LostOnlyInKnownWays'
  BY <1>1 DEF LostOnlyInKnownWays
<1>7. Points'
  BY <1>1, <1>3, RunFacts, Pids DEF Points, Steps, Program
<1>8. at'[1] = at[1] /\ at'[2] = at[2]
  BY <1>3, Pids
<1>9. Phases' /\ Names' /\ Statics'
  BY <1>1, <1>2, <1>3, <1>4, <1>8, RunFacts
  DEF Phases, Names, Statics, InStart, InEnd, BootSteps
<1>10. OnCpu'
  BY <1>1, <1>2, <1>3, <1>4, RunFacts DEF OnCpu, Guarded, InStart, InEnd, BootSteps, Phases
<1>11. OffCpu'
  BY <1>1, <1>3, <1>4, RunFacts DEF OffCpu
<1>12. Launches'
  BY <1>1, <1>8, RunFacts, LaunchesKept DEF Launches
<1> QED
  BY <1>1, <1>4, <1>5, <1>6, <1>7, <1>9, <1>10, <1>11, <1>12, RunFacts DEF KInv, RunInv

-----------------------------------------------------------------------------
(* The timer tick.                                                         *)

\* The live processes are among those that were created.
LEMMA LiveAreCreated ==
  ASSUME SchedIInv
  PROVE  /\ Live \subseteq added \ canceled /\ added \ canceled \subseteq Live
         /\ Abs!Eligible(Live) \subseteq Live
  BY DEF SchedIInv, QueuesPartitionLive, Live, Abs!Eligible

(***************************************************************************)
(* What a tick may rely on: there are processes, the one that was running  *)
(* is where its registers will say, and only a shell that ended itself     *)
(* leaves the scheduler without a process.                                 *)
(***************************************************************************)
LEMMA TickFacts ==
  ASSUME KInv, Tick
  PROVE  /\ mode = "run" /\ intr /\ pidSeq > 1 /\ SchedIInv'
         /\ canceled' = canceled /\ added' = added /\ Live' = Live
         /\ pc[2] \notin Guarded
         /\ Live = {} => current' = NoProc /\ 1 \in canceled /\ 2 \in canceled
         /\ Live # {} => /\ current' \in Pid /\ current' \notin canceled
                         /\ 0 < current' /\ current' < pidSeq
                         /\ current' = 1 => canceled = {}
                         /\ current' # 1 => 1 \in canceled
<1>1. /\ mode = "run" /\ intr /\ handlers # {} /\ CalculateNext
      /\ SchedIInv /\ added = 1 .. pidSeq - 1 /\ Phases /\ OnCpu /\ pidSeq \in Nat
      /\ cpu < pidSeq /\ cpu \in Pid
  BY RunFacts DEF Tick, Points
<1>2. pidSeq > 1 /\ 1 \in added
  BY <1>1, Pids DEF Phases
<1>3. SchedIInv' /\ canceled' = canceled /\ added' = added
  BY <1>1, CalculateNextIInv DEF CalculateNext
<1>4. Live' = Live
  BY <1>1, <1>3, CalculateNextKeeps DEF Live
<1>5. pc[2] \notin Guarded
  BY <1>1 DEF OnCpu
<1>6. Live = added \ canceled
  BY <1>1, LiveAreCreated
<1>7. ASSUME Live = {}
      PROVE  current' = NoProc /\ 1 \in canceled /\ 2 \in canceled
  <2>1. current' = NoProc
    BY <1>1, <1>7, CalculateNextChooses
  <2>2. added \subseteq canceled /\ canceled # {}
    BY <1>2, <1>6, <1>7
  <2>3. pidSeq > 2
    BY <1>1, <1>2, <2>2 DEF Phases
  <2>4. 2 \in added
    BY <1>1, <2>3
  <2> QED
    BY <1>2, <2>1, <2>2, <2>4
<1>8. ASSUME Live # {}
      PROVE  /\ current' \in Pid /\ current' \notin canceled
             /\ 0 < current' /\ current' < pidSeq
             /\ current' = 1 => canceled = {}
             /\ current' # 1 => 1 \in canceled
  <2>1. current' \in Abs!Eligible(Live)
    BY <1>1, <1>8, CalculateNextChooses
  <2>2. current' \in added /\ current' \notin canceled
    BY <1>1, <1>6, <2>1, LiveAreCreated
  <2>3. current' \in Pid /\ 0 < current' /\ current' < pidSeq
    <3>1. added \subseteq Pid
      BY <1>1 DEF SchedIInv, SchedTypeOK
    <3>2. \A p \in 1 .. pidSeq - 1 : 0 < p /\ p < pidSeq
      BY <1>1
    <3> QED
      BY <1>1, <2>2, <3>1, <3>2
  <2>4. current' # 1 => 1 \in canceled
    <3>1. 1 \notin canceled => Live \cap SystemPid = {1}
      <4>1. SUFFICES ASSUME 1 \notin canceled PROVE Live \subseteq {1, 2} /\ 1 \in Live
        BY Pids
      <4>2. pidSeq <= 2
        BY <1>1, <1>2, <4>1, RunFacts DEF Phases, OnCpu, Points, AfterShell, Guarded, Ended
      <4> QED
        BY <1>1, <1>2, <1>6, <4>1, <4>2
    <3> QED
      BY <2>1, <3>1 DEF Abs!Eligible
  <2>5. current' = 1 => canceled = {}
    BY <1>1, <2>2, Pids DEF Phases
  <2> QED
    BY <2>2, <2>3, <2>4, <2>5
<1> QED
  BY <1>1, <1>2, <1>3, <1>4, <1>5, <1>7, <1>8

\* The tick that found no process.
LEMMA NoNextProcessKInv ==
  ASSUME KInv, Tick, NoNextProcess
  PROVE  KInv'
<1> USE DEF NoNextProcess, Lost, procVars, shellVars, inputVars, cpuVars
<1>1. /\ mode = "run" /\ intr /\ pidSeq > 1 /\ SchedIInv'
      /\ canceled' = canceled /\ added' = added /\ Live' = Live
      /\ pc[2] \notin Guarded
  BY TickFacts
<1>2. Live = {} /\ 1 \in canceled /\ 2 \in canceled /\ current' = NoProc
  BY TickFacts, Pids
<1>3. CASE current = NoProc
  <2>1. KernelTypeOK' /\ pidSeq' \in Nat /\ added' = 1 .. pidSeq' - 1
    BY <1>1, <1>3, RunFacts DEF KernelTypeOK, SchedIInv
  <2>2. LostOnlyInKnownWays' /\ mode' # "run"
    BY <1>1, <1>2, <1>3 DEF LostOnlyInKnownWays
  <2> QED
    BY <1>1, <2>1, <2>2 DEF KInv
<1>4. CASE current # NoProc
  <2>1. /\ current = cpu /\ cr3' = cpu /\ cpu' = cpu /\ pc' = pc /\ at' = at /\ mode' = mode
        /\ kstack' = BorrowedStack
        /\ UNCHANGED <<saved, timesRan, pidSeq, registered, cmd, lastPid, running, inbuf,
                       typed, intr, handlers, cached, statics>>
    BY <1>1, <1>4, RunFacts DEF OnCpu
  <2>2. /\ kstack' \in {"intact", "scratch"}
        /\ cpu \in {0, 1} => kstack' = "intact"
    BY <1>1, <2>1, RunFacts DEF OnCpu, BorrowedStack, KernelTypeOK
  <2>3. KernelTypeOK'
    BY <1>1, <2>1, <2>2, RunFacts DEF KernelTypeOK, SchedIInv
  <2>4. LostOnlyInKnownWays'
    BY <1>1, <2>1 DEF LostOnlyInKnownWays
  <2>5. Points' /\ Names' /\ Statics'
    BY <1>1, <2>1, RunFacts DEF Points, Names, Statics
  <2>6. Phases'
    BY <1>1, <1>2, <2>1, RunFacts DEF Phases
  <2>7. cpu # 0 /\ cpu \in canceled
    <3>1. cpu # 0
      BY <1>1, <1>4, RunFacts DEF Phases
    <3>2. cpu \in added
      BY <1>1, <3>1, RunFacts, Pids DEF Points
    <3> QED
      BY <1>1, <1>2, <3>1, <3>2, RunFacts, LiveAreCreated
  <2>8. OnCpu'
    BY <1>1, <1>2, <2>1, <2>2, <2>7, RunFacts DEF OnCpu, InStart, InEnd, Guarded
  <2>9. OffCpu'
    BY <1>1, <2>1, RunFacts DEF OffCpu
  <2>10. Launches'
    BY <1>1, <2>1, RunFacts, LaunchesKept DEF Launches
  <2> QED
    BY <1>1, <2>1, <2>3, <2>4, <2>5, <2>6, <2>8, <2>9, <2>10, RunFacts DEF KInv, RunInv
<1> QED
  BY <1>3, <1>4

\* The tick that switches to another process, or back to the one it interrupted.
LEMMA SwitchToNextKInv ==
  ASSUME KInv, Tick, SwitchToNext
  PROVE  KInv'
<1> USE DEF shellVars, inputVars
<1> DEFINE next == current'
<1>1. /\ mode = "run" /\ intr /\ pidSeq > 1 /\ SchedIInv'
      /\ canceled' = canceled /\ added' = added /\ Live' = Live
      /\ pc[2] \notin Guarded
  BY TickFacts
<1>2. next # NoProc
  BY DEF SwitchToNext
<1>3. /\ next \in Pid /\ next \notin canceled /\ 0 < next /\ next < pidSeq
      /\ next = 1 => canceled = {}
      /\ next # 1 => 1 \in canceled
  BY <1>2, TickFacts
<1>4. /\ saved' = SavedContext(next) /\ cached' = next /\ cpu' = next /\ cr3' = next
      /\ kstack' = BorrowedStack /\ pc' = saved'[next] /\ intr' = TRUE
      /\ UNCHANGED <<pidSeq, registered, cmd, lastPid, running, inbuf, typed, at, handlers,
                     statics>>
  BY DEF SwitchToNext
<1>5. timesRan' \in [Pid -> 0 .. TimesRanCap] /\ mode' = "run"
  <2>1. timesRan \in [Pid -> 0 .. 2] /\ timesRan[next] \in 0 .. 2
    BY <1>1, <1>3, RunFacts DEF KernelTypeOK, TimesRanCap
  <2>2. /\ FindProcessIncrement(timesRan[next]) \in 1 .. 2
        /\ Bump(FindProcessIncrement(timesRan[next])) \in 0 .. 2
    BY <2>1 DEF FindProcessIncrement, Bump, TimesRanCap
  <2> QED
    BY <1>3, <2>1, <2>2 DEF SwitchToNext, TimesRanCap
<1>6. \A p \in Pid : p < pidSeq /\ p # 0 /\ p \notin canceled => saved'[p] = at[p]
  <2> SUFFICES ASSUME NEW p \in Pid, p < pidSeq, p # 0, p \notin canceled
               PROVE  saved'[p] = at[p]
    OBVIOUS
  <2>1. saved \in [Pid -> Point] /\ pc = at[cpu] /\ OffCpu /\ OnCpu
    BY <1>1, RunFacts DEF KernelTypeOK
  <2>2. CASE p = cpu
    <3>1. current = cpu
      BY <2>1, <2>2 DEF OnCpu
    <3> QED
      BY <1>1, <1>4, <2>1, <2>2, <3>1, RunFacts, Pids DEF SavedContext
  <2>3. CASE p # cpu
    <3>1. saved[p] = at[p]
      BY <2>1, <2>3 DEF OffCpu
    <3>2. current = NoProc \/ current = cpu
      BY <2>1 DEF OnCpu
    <3> QED
      BY <1>4, <2>1, <2>3, <3>1, <3>2 DEF SavedContext
  <2> QED
    BY <2>2, <2>3
<1>7. saved' \in [Pid -> Point]
  BY <1>1, <1>4, RunFacts DEF SavedContext, KernelTypeOK
<1>8. pc' = at[next] /\ pc' \in Point
  BY <1>1, <1>3, <1>4, <1>6, RunFacts
<1>9. \A p \in Pid : p < pidSeq => at[p][2] \notin Guarded
  BY <1>1, RunFacts DEF OffCpu
<1>10. /\ kstack' \in {"intact", "scratch"}
       /\ next = 1 => cpu \in {0, 1} /\ kstack' = "intact"
  <2>1. next = 1 => cpu \in {0, 1}
    BY <1>1, <1>3, RunFacts DEF Phases
  <2> QED
    BY <1>1, <1>4, <2>1, RunFacts DEF OnCpu, KernelTypeOK, BorrowedStack
<1>11. KernelTypeOK'
  BY <1>1, <1>3, <1>4, <1>5, <1>7, <1>8, <1>10, RunFacts DEF KernelTypeOK, SchedIInv
<1>12. LostOnlyInKnownWays'
  BY <1>5 DEF LostOnlyInKnownWays
<1>13. Points' /\ Names'
  BY <1>1, <1>3, <1>4, <1>8, RunFacts DEF Points, Names
<1>14. Phases'
  BY <1>1, <1>3, <1>4, RunFacts DEF Phases
<1>15. pc'[2] \notin Guarded
  BY <1>3, <1>8, <1>9
<1>16. OnCpu' /\ Statics'
  BY <1>2, <1>3, <1>4, <1>10, <1>15 DEF OnCpu, Statics, InStart, InEnd, Guarded
<1>17. OffCpu'
  BY <1>1, <1>4, <1>6, <1>9 DEF OffCpu
<1>18. Launches'
  BY <1>1, <1>4, RunFacts, LaunchesKept DEF Launches
<1> QED
  BY <1>1, <1>4, <1>5, <1>11, <1>12, <1>13, <1>14, <1>16, <1>17, <1>18, RunFacts DEF KInv, RunInv

\* The tick keeps the invariant, whether or not there is a next process
\* (timer.cpp:50-125).
LEMMA TickKInv ==
  ASSUME KInv, Tick
  PROVE  KInv'
  BY NoNextProcessKInv, SwitchToNextKInv DEF Tick

-----------------------------------------------------------------------------

(***************************************************************************)
(* The keyboard interrupt: a line goes to the process on the CPU, or is    *)
(* lost with the machine when there is none yet.                           *)
(***************************************************************************)
LEMMA KeyboardHandlerKInv ==
  ASSUME KInv, NEW key \in Commands, KeyboardHandler(key)
  PROVE  KInv'
<1> USE DEF procVars, shellVars, cpuVars, inputVars
<1>1. /\ mode = "run" /\ handlers # {} /\ typed < MaxKeys /\ UNCHANGED schedVars
      /\ cached = cpu
  BY RunFacts DEF KeyboardHandler, OnCpu
<1>2. /\ SchedIInv' /\ canceled' = canceled /\ current' = current /\ added' = added
      /\ Live' = Live
  BY <1>1, RunFacts, SchedNextIInv DEF schedVars, Live
<1>3. CASE cached = 0 /\ Lost("null_input_buffer_ptr")
  <2>1. KernelTypeOK' /\ pidSeq' \in Nat /\ added' = 1 .. pidSeq' - 1
    BY <1>1, <1>2, <1>3, RunFacts DEF KernelTypeOK, SchedIInv, Lost
  <2>2. current = NoProc /\ pidSeq = 2 /\ canceled = {}
    BY <1>1, <1>3, RunFacts, Pids DEF Phases, Points
  <2>3. 1 \in Live
    BY <1>1, <2>2, RunFacts, LiveAreCreated
  <2>4. LostOnlyInKnownWays' /\ mode' # "run"
    BY <1>2, <1>3, <2>2, <2>3 DEF LostOnlyInKnownWays, Lost
  <2> QED
    BY <1>2, <2>1, <2>4 DEF KInv
<1>4. CASE /\ cached # 0 /\ GetInputBuffer # NoBuf
           /\ inbuf' = [inbuf EXCEPT ![cached] = Append(@, key)]
           /\ typed' = typed + 1
           /\ UNCHANGED <<procVars, shellVars, cpuVars, mode, handlers, cached, statics>>
  <2>1. /\ inbuf[cpu] \in Seq(Commands) /\ inbuf \in [Pid -> Seq(Commands) \cup {NoBuf}]
        /\ inbuf' = [inbuf EXCEPT ![cpu] = Append(inbuf[cpu], key)]
    BY <1>1, <1>4, RunFacts DEF KernelTypeOK, GetInputBuffer
  <2>2. /\ Append(inbuf[cpu], key) \in Seq(Commands)
        /\ Len(Append(inbuf[cpu], key)) = Len(inbuf[cpu]) + 1 /\ Len(inbuf[cpu]) \in Nat
    BY <2>1, AppendProperties, LenProperties
  <2>3. /\ inbuf' \in [Pid -> Seq(Commands) \cup {NoBuf}]
        /\ inbuf'[cpu] = Append(inbuf[cpu], key)
        /\ \A p \in Pid : p # cpu => inbuf'[p] = inbuf[p]
    BY <1>1, <2>1, <2>2, RunFacts
  <2>4. typed' \in 0 .. MaxKeys
    BY <1>1, <1>4, RunFacts, Pids
  <2>5. KernelTypeOK'
    BY <1>2, <1>4, <2>3, <2>4, <1>1, RunFacts DEF KernelTypeOK, SchedIInv
  <2>6. LostOnlyInKnownWays'
    BY <1>1, <1>4 DEF LostOnlyInKnownWays
  <2>7. Points' /\ Phases' /\ Names' /\ Statics'
    BY <1>1, <1>2, <1>4, RunFacts DEF Points, Phases, Names, Statics
  <2>8. OnCpu' /\ OffCpu'
    BY <1>1, <1>2, <1>4, RunFacts DEF OnCpu, OffCpu
  <2>9. Launches'
    <3>1. /\ Queued \in Nat /\ Queued' <= Queued + 1 /\ Queued' \in Nat
          /\ inbuf[2] = NoBuf => inbuf'[2] = NoBuf
          /\ inbuf[2] # NoBuf => inbuf'[2] # NoBuf
      <4>1. CASE cpu = 2
        <5>1. inbuf[2] \in Seq(Commands) /\ Len(inbuf[2]) \in Nat
          BY <2>1, <2>2, <4>1
        <5>2. inbuf'[2] \in Seq(Commands) /\ Len(inbuf'[2]) = Len(inbuf[2]) + 1
          BY <2>2, <2>3, <4>1
        <5>3. inbuf[2] # NoBuf /\ inbuf'[2] # NoBuf
          BY <5>1, <5>2, NoBufIsNoInput
        <5>4. Queued \in Nat /\ Queued' <= Queued + 1 /\ Queued' \in Nat
          BY <1>1, <5>1, <5>2, <5>3, RunFacts DEF Queued
        <5> QED
          BY <5>3, <5>4
      <4>2. CASE cpu # 2
        <5>1. inbuf'[2] = inbuf[2]
          BY <2>3, <4>2, Pids
        <5>2. Queued' = Queued /\ Queued \in Nat
          BY <1>1, <5>1, RunFacts, LenProperties DEF Queued
        <5> QED
          BY <5>1, <5>2
      <4> QED
        BY <4>1, <4>2
    <3>2. Pending' = Pending /\ Pending \in {0, 1}
      BY <1>4 DEF Pending
    <3>3. UNCHANGED <<at, cmd, pidSeq>> /\ typed' = typed + 1
      BY <1>4
    <3>4. pidSeq + Queued' + Pending' <= 3 + (typed + 1)
      <4>1. pidSeq + Queued + Pending <= 3 + typed
        BY <1>1, RunFacts DEF Launches
      <4> QED
        BY <1>1, <3>1, <3>2, <4>1, RunFacts, SMTT(30)
    <3> QED
      BY <1>1, <3>1, <3>3, <3>4, RunFacts DEF Launches
  <2> QED
    BY <1>1, <1>2, <1>4, <2>5, <2>6, <2>7, <2>8, <2>9, RunFacts DEF KInv, RunInv
<1> QED
  BY <1>3, <1>4 DEF KeyboardHandler

(***************************************************************************)
(* Every step keeps the invariant.                                         *)
(***************************************************************************)
LEMMA NextKInv == KInv /\ [Next]_vars => KInv'
<1> SUFFICES ASSUME KInv, [Next]_vars PROVE KInv'
  OBVIOUS
<1>1. CASE Boot
  <2>1. CASE ProcessingInitialize
    BY <2>1, ProcessingInitializeKInv
  <2>2. CASE InterruptsInitialize
    BY <2>2, BootStepKInv DEF InterruptsInitialize, BootSteps
  <2>3. CASE InitializeKeyboard
    <3>1. handlers \subseteq {Timer, Keyboard}
      BY DEF KInv, KernelTypeOK
    <3> QED
      BY <2>3, <3>1, BootStepKInv DEF InitializeKeyboard, BootSteps
  <2>4. CASE TimerStart
    <3>1. handlers \subseteq {Timer, Keyboard}
      BY DEF KInv, KernelTypeOK
    <3> QED
      BY <2>4, <3>1, BootStepKInv DEF TimerStart, BootSteps
  <2> QED
    BY <1>1, <2>1, <2>2, <2>3, <2>4 DEF Boot
<1>2. CASE Tick
  BY <1>2, TickKInv
<1>3. CASE \E key \in Commands : KeyboardHandler(key)
  BY <1>3, KeyboardHandlerKInv
<1>4. CASE KernelStage2
  <2>1. mode = "run" => cpu = 1
    BY <1>4, WhoRuns DEF KernelStage2
  <2>2. CASE SelfProcessInit("cli")
    BY <2>1, <2>2, SelfProcessInitKInv DEF SelfProcessInit, AtStep
  <2>3. CASE DisableInterrupts("register")
    BY <2>1, <2>3, DisableInterruptsKInv DEF DisableInterrupts, SetInterrupts, AtStep
  <2>4. CASE RegisterProcesses
    BY <2>1, <2>4, RegisterProcessesKInv DEF RegisterProcesses, AtStep
  <2>5. CASE StartSwitch
    BY <2>1, <2>5, StartSwitchKInv DEF StartSwitch, AtStep
  <2>6. CASE StartCreate("shell")
    BY <2>1, <2>6, StartCreateKInv DEF StartCreate, AtStep
  <2>7. CASE StartRestore("end_switch")
    BY <2>1, <2>7, StartRestoreKInv DEF StartRestore, AtStep
  <2>8. CASE EndSwitch(GetPid)
    <3>1. mode = "run" /\ cpu = 1
      BY <2>1, <2>8 DEF EndSwitch, AtStep
    <3>2. GetPid = 1
      BY <3>1, RunFacts DEF OnCpu, GetPid
    <3> QED
      BY <2>8, <3>1, <3>2, EndSwitchKInv, Pids
  <2>9. CASE EndSignal
    BY <2>1, <2>9, EndSignalKInv DEF EndSignal, AtStep
  <2>10. CASE EndRestore("sti")
    BY <2>1, <2>10, EndRestoreKInv DEF EndRestore, AtStep
  <2>11. CASE EnableInterrupts("finish")
    BY <2>1, <2>11, EnableInterruptsKInv DEF EnableInterrupts, SetInterrupts, AtStep
  <2>12. CASE Return
    BY <2>1, <2>12, ReturnKInv DEF Return, AtStep
  <2>13. CASE RunWild
    <3>1. /\ mode = "run" /\ mode' = "wild_return"
          /\ UNCHANGED <<schedVars, procVars, shellVars, inputVars, cpuVars, statics, handlers,
                         cached>>
      BY <2>13 DEF RunWild, AtStep
    <3>2. SchedIInv' /\ added' = added
      BY <3>1, RunFacts, SchedNextIInv DEF schedVars
    <3>3. KernelTypeOK' /\ LostOnlyInKnownWays'
      BY <3>1, <3>2, RunFacts
      DEF KernelTypeOK, SchedIInv, LostOnlyInKnownWays, procVars, shellVars, inputVars, cpuVars
    <3> QED
      BY <3>1, <3>2, <3>3, RunFacts DEF KInv, procVars
  <2> QED
    BY <1>4, <2>2, <2>3, <2>4, <2>5, <2>6, <2>7, <2>8, <2>9, <2>10, <2>11, <2>12, <2>13
    DEF KernelStage2
<1>5. CASE Shell
  <2>1. mode = "run" => cpu = 2
    BY <1>5, WhoRuns DEF Shell
  <2>2. CASE SelfProcessInit("read")
    BY <2>1, <2>2, SelfProcessInitKInv DEF SelfProcessInit, AtStep
  <2>3. CASE ReadCommand
    BY <2>1, <2>3, ReadCommandKInv DEF ReadCommand, AtStep
  <2>4. CASE DisableInterrupts(IF cmd = "START" THEN "start_switch" ELSE "end_switch")
    BY <2>1, <2>4, DisableInterruptsKInv DEF DisableInterrupts, SetInterrupts, AtStep
  <2>5. CASE StartSwitch
    BY <2>1, <2>5, StartSwitchKInv DEF StartSwitch, AtStep
  <2>6. CASE StartCreate("loop2")
    BY <2>1, <2>6, StartCreateKInv DEF StartCreate, AtStep
  <2>7. CASE StartRestore("sti")
    BY <2>1, <2>7, StartRestoreKInv DEF StartRestore, AtStep
  <2>8. CASE EndSwitch(lastPid)
    <3>1. lastPid \in Pid
      BY DEF KInv, KernelTypeOK
    <3> QED
      BY <2>1, <2>8, <3>1, EndSwitchKInv DEF EndSwitch, AtStep
  <2>9. CASE EndSignal
    BY <2>1, <2>9, EndSignalKInv DEF EndSignal, AtStep
  <2>10. CASE EndRestore("sti")
    BY <2>1, <2>10, EndRestoreKInv DEF EndRestore, AtStep
  <2>11. CASE EnableInterrupts("report")
    BY <2>1, <2>11, EnableInterruptsKInv DEF EnableInterrupts, SetInterrupts, AtStep
  <2>12. CASE Report
    BY <2>1, <2>12, ReportKInv DEF Report, AtStep
  <2> QED
    BY <1>5, <2>2, <2>3, <2>4, <2>5, <2>6, <2>7, <2>8, <2>9, <2>10, <2>11, <2>12 DEF Shell
<1>6. CASE UNCHANGED vars
  <2>1. SchedIInv' /\ KernelTypeOK' /\ LostOnlyInKnownWays'
    <3>1. SchedIInv' /\ UNCHANGED schedVars
      BY <1>6, SchedNextIInv DEF KInv, vars
    <3> QED
      BY <1>6, <3>1
      DEF KInv, KernelTypeOK, SchedIInv, LostOnlyInKnownWays, Live, vars, schedVars, procVars,
          shellVars, inputVars, cpuVars
  <2>2. RunInv => RunInv'
    BY <1>6
    DEF RunInv, Points, Phases, Names, OnCpu, Statics, OffCpu, Launches, Queued, Pending, vars,
        schedVars, procVars, shellVars, inputVars, cpuVars
  <2> QED
    BY <1>6, <2>1, <2>2 DEF KInv, vars, schedVars, procVars
<1>7. CASE Stopped
  BY <1>6, <1>7 DEF Stopped
<1> QED
  BY <1>1, <1>2, <1>3, <1>4, <1>5, <1>6, <1>7 DEF Next

-----------------------------------------------------------------------------

(***************************************************************************)
(* Whenever an interrupt can look at them, the scheduler's current         *)
(* process, the cached process information, cr3 and the code on the CPU    *)
(* agree (timer.cpp:90-138), and all variables are well typed.             *)
(***************************************************************************)
THEOREM CpuStaysCoherent == Spec => []CpuAgrees
<1>1. KInv => CpuAgrees
  BY DEF KInv, RunInv, CpuAgrees, OnCpu, InStart, InEnd, Guarded
<1> QED
  BY <1>1, InitKInv, NextKInv, PTL DEF Spec

(***************************************************************************)
(* However often a process loses the CPU, it goes on where it was          *)
(* interrupted (timer.cpp:90-138).                                         *)
(***************************************************************************)
THEOREM InterruptedCodeResumes == Spec => []ResumesWhereInterrupted
<1>1. KInv => ResumesWhereInterrupted
  BY DEF KInv, RunInv, ResumesWhereInterrupted, Points
<1> QED
  BY <1>1, InitKInv, NextKInv, PTL DEF Spec

(***************************************************************************)
(* The three ways in which the machine is lost are all there are, whatever *)
(* is typed: Start::Process always finds its name (process.cpp:186-199)    *)
(* and no switch falls through its jmp (timer.cpp:127).                    *)
(***************************************************************************)
THEOREM OnlyKnownLosses == Spec => []LostOnlyInKnownWays
<1>1. KInv => LostOnlyInKnownWays
  BY DEF KInv
<1> QED
  BY <1>1, InitKInv, NextKInv, PTL DEF Spec

(***************************************************************************)
(* The kernel uses the scheduler as Scheduler lets its clients: it adds a  *)
(* process once (process.cpp:16-17, 199) and ends pids only.               *)
(***************************************************************************)
LEMMA KernelStep ==
  ASSUME KInv, [Next]_vars
  PROVE  [SchedNext]_schedVars
<1>1. statics.tempPid \in Pid
  BY DEF KInv, KernelTypeOK
<1>2. CASE Boot
  BY <1>2, WhoRuns, RunFacts, Pids
  DEF Boot, ProcessingInitialize, InterruptsInitialize, InitializeKeyboard, TimerStart, BootStep,
      Executing, Phases, SchedNext
<1>3. CASE Tick
  BY <1>3 DEF Tick, SchedNext
<1>4. CASE \E key \in Commands : KeyboardHandler(key)
  BY <1>4 DEF KeyboardHandler
<1>5. CASE KernelStage2
  <2>1. CASE StartCreate("shell")
    <3>1. mode = "run" /\ cpu = 1
      BY <1>5, <2>1, WhoRuns DEF KernelStage2, StartCreate, AtStep
    <3>2. AddItem(pidSeq) /\ pidSeq \in Pid
      BY <2>1, <3>1, StartCreateFinds DEF StartCreate
    <3> QED
      BY <3>2 DEF SchedNext
  <2>2. CASE EndSignal
    BY <1>1, <2>2 DEF EndSignal, SchedNext
  <2>3. CASE ~StartCreate("shell") /\ ~EndSignal
    BY <1>5, <2>3
    DEF KernelStage2, SelfProcessInit, DisableInterrupts, SetInterrupts, RegisterProcesses,
        StartSwitch, StartRestore, EndSwitch, EndRestore, EnableInterrupts, Return, RunWild
  <2> QED
    BY <2>1, <2>2, <2>3
<1>6. CASE Shell
  <2>1. CASE StartCreate("loop2")
    <3>1. mode = "run" /\ cpu = 2
      BY <1>6, <2>1, WhoRuns DEF Shell, StartCreate, AtStep
    <3>2. AddItem(pidSeq) /\ pidSeq \in Pid
      BY <2>1, <3>1, StartCreateFinds DEF StartCreate
    <3> QED
      BY <3>2 DEF SchedNext
  <2>2. CASE EndSignal
    BY <1>1, <2>2 DEF EndSignal, SchedNext
  <2>3. CASE ~StartCreate("loop2") /\ ~EndSignal
    BY <1>6, <2>3
    DEF Shell, SelfProcessInit, ReadCommand, DisableInterrupts, SetInterrupts, StartSwitch,
        StartRestore, EndSwitch, EndRestore, EnableInterrupts, Report
  <2> QED
    BY <2>1, <2>2, <2>3
<1>7. CASE Stopped \/ UNCHANGED vars
  BY <1>7 DEF Stopped, vars
<1> QED
  BY <1>2, <1>3, <1>4, <1>5, <1>6, <1>7 DEF Next

\* Seen through the scheduler's variables, the kernel is one of its clients.
THEOREM KernelImplementsScheduler == Spec => SchedSpec
<1>1. KernelInit => SchedInit
  BY DEF KernelInit
<1> QED
  BY <1>1, InitKInv, NextKInv, KernelStep, PTL DEF Spec, SchedSpec

(***************************************************************************)
(* So what is proved of the scheduler for any client holds in the kernel:  *)
(* it schedules as the abstract scheduler does (schedualer.cpp:35-81).     *)
(***************************************************************************)
THEOREM KernelSchedulesAsPromised == Spec => ImplementsAbstract /\ []QueuesPartitionLive
  BY KernelImplementsScheduler, SchedulerRefines, NoProcessLost
=============================================================================
