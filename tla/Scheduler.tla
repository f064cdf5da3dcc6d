----------------------------- MODULE Scheduler -----------------------------
(***************************************************************************)
(* The process scheduler, kernel/kernel/schedualer.cpp: two FIFO queues of *)
(* processes, one for Priority::System and one for every other priority,   *)
(* the list of terminated process identifiers, and the process chosen by   *)
(* the last decision (_CurrentProcess).                                    *)
(*                                                                         *)
(* A process object is named by its pid.  The list of terminated           *)
(* identifiers is only searched, so it is a set.  times_ran, a field of    *)
(* the process that CalculateNext also increments, is kept with the other  *)
(* process fields in module Kernel.                                        *)
(*                                                                         *)
(* The environment of this module is any client: it adds each process once *)
(* and may terminate any identifier at any time, one that was never        *)
(* allocated or was terminated before included.                            *)
(***************************************************************************)
EXTENDS Naturals, Sequences, Functions

CONSTANTS
    Pid,        \* the process identifiers (KernelProcess::ID)
    SystemPid,  \* those whose process has Priority::System
    NoProc      \* the null KernelProcess*

ASSUME SchedulerAssumption ==
    /\ SystemPid \subseteq Pid
    /\ NoProc \notin Pid

VARIABLES
    sysQ,      \* _system_processes
    regQ,      \* _regular_processes
    canceled,  \* _canceled_processes
    current,   \* _CurrentProcess
    added      \* processes that were handed to AddItem

schedVars == <<sysQ, regQ, canceled, current, added>>

SchedInit ==
    /\ sysQ = <<>>
    /\ regQ = <<>>
    /\ canceled = {}
    /\ current = NoProc
    /\ added = {}

-----------------------------------------------------------------------------

AddItem(p) ==
    /\ p \notin added
    /\ added' = added \cup {p}
    /\ IF p \in SystemPid
         THEN sysQ' = Append(sysQ, p) /\ regQ' = regQ
         ELSE regQ' = Append(regQ, p) /\ sysQ' = sysQ
    /\ UNCHANGED <<canceled, current>>

\* Mutant of CanceledPrefix: stops at the front, canceled or not.
NothingPopped(q) == {0}

\* Mutant of CanceledPrefix: recognizes System processes as canceled only.
SystemPrefix(q) ==
    { k \in 0 .. Len(q) : /\ \A i \in 1 .. k : q[i] \in canceled \cap SystemPid
                          /\ k < Len(q) => q[k + 1] \notin canceled \cap SystemPid }

(***************************************************************************)
(* _FindProcess pops canceled processes off the front of a queue until the *)
(* front one is not canceled.  The result is the number popped: the only   *)
(* k such that the first k are canceled and the next one is not.           *)
(***************************************************************************)
CanceledPrefix(q) ==
    { k \in 0 .. Len(q) : /\ \A i \in 1 .. k : q[i] \in canceled
                          /\ k < Len(q) => q[k + 1] \notin canceled }

\* Mutant of Found: a queue without a live process yields 0 instead of null.
FoundOrZero(q, k) == IF k < Len(q) THEN q[k + 1] ELSE 0

\* The process _FindProcess returns after popping k.
Found(q, k) == IF k < Len(q) THEN q[k + 1] ELSE NoProc

\* Mutant of Requeued: the chosen process is not enqueued again.
NotRequeued(q, k) == SubSeq(q, k + 2, Len(q))

\* Mutant of Requeued: the chosen process stays at the front.
KeptInFront(q, k) == SubSeq(q, k + 1, Len(q))

\* The queue _FindProcess leaves: the chosen process went to the back.
Requeued(q, k) ==
    IF k < Len(q) THEN Append(SubSeq(q, k + 2, Len(q)), q[k + 1]) ELSE <<>>

CalculateNext ==
    /\ \E k \in CanceledPrefix(sysQ) :
          /\ sysQ' = Requeued(sysQ, k)
          /\ \/ /\ k < Len(sysQ)
                /\ current' = Found(sysQ, k)
                /\ regQ' = regQ
             \/ /\ k = Len(sysQ)
                /\ \E j \in CanceledPrefix(regQ) :
                      /\ regQ' = Requeued(regQ, j)
                      /\ current' = Found(regQ, j)
    /\ UNCHANGED <<canceled, added>>

SignalEnd(pid) ==
    /\ canceled' = canceled \cup {pid}
    /\ UNCHANGED <<sysQ, regQ, current, added>>

SchedNext ==
    \/ CalculateNext
    \/ \E p \in Pid : AddItem(p) \/ SignalEnd(p)

SchedSpec == SchedInit /\ [][SchedNext]_schedVars

\* The timer calls CalculateNext on every tick.
SchedFairSpec == SchedSpec /\ WF_schedVars(CalculateNext)

-----------------------------------------------------------------------------

SchedTypeOK ==
    /\ sysQ \in Seq(Pid)
    /\ regQ \in Seq(Pid)
    /\ canceled \subseteq Pid
    /\ current \in Pid \cup {NoProc}
    /\ added \subseteq Pid

NoDuplicates(q) == \A i, j \in 1 .. Len(q) : q[i] = q[j] => i = j

\* The processes that were added and not terminated.
Live == (Range(sysQ) \cup Range(regQ)) \ canceled

(***************************************************************************)
(* However ticks, launches and terminations interleave, no process is lost *)
(* or doubled: a queue never holds a process twice nor one of the other    *)
(* queue's priority, and a process is missing from its queue only if it    *)
(* was terminated (_FindProcess drops only canceled ones, and puts the one *)
(* it chose back, schedualer.cpp:35-57).                                   *)
(***************************************************************************)
QueuesPartitionLive ==
    /\ NoDuplicates(sysQ) /\ NoDuplicates(regQ)
    /\ Range(sysQ) \subseteq added \cap SystemPid
    /\ Range(regQ) \subseteq added \ SystemPid
    /\ added \ canceled \subseteq Range(sysQ) \cup Range(regQ)

Abs == INSTANCE AbstractScheduler WITH live <- Live, ended <- canceled, cur <- current

(***************************************************************************)
(* The queues implement the abstract scheduler: popping canceled heads and *)
(* rotating changes no client-visible set, a canceled process is never     *)
(* chosen, a regular process is chosen only when no System process is      *)
(* live, and none is chosen only when none is live                         *)
(* (schedualer.cpp:35-81).                                                 *)
(***************************************************************************)
ImplementsAbstract == Abs!AbsSpec

(***************************************************************************)
(* No process starves that stays eligible, however many are launched and   *)
(* terminated around it (round robin, schedualer.cpp:45-56).               *)
(***************************************************************************)
EligibleProcessesRun == Abs!NoStarvation
=============================================================================
