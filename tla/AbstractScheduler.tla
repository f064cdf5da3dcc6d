------------------------- MODULE AbstractScheduler -------------------------
(***************************************************************************)
(* What the kernel's process scheduler promises its clients, without the   *)
(* queues it is built from: a set of live processes, the identifiers that  *)
(* were terminated, and the process the last scheduling decision chose.    *)
(*                                                                         *)
(*  - a process becomes live when it is added, unless its identifier was   *)
(*    terminated already;                                                  *)
(*  - a terminated process is never chosen again;                          *)
(*  - a decision chooses a live System process if there is one, otherwise  *)
(*    a live process, otherwise no process;                                *)
(*  - a process that stays eligible is chosen again and again.             *)
(***************************************************************************)
CONSTANTS
    Pid,        \* the process identifiers (KernelProcess::ID)
    SystemPid,  \* those whose process has Priority::System
    NoProc      \* the null KernelProcess*

VARIABLES
    live,   \* processes that were added and not terminated
    ended,  \* identifiers that were terminated
    cur     \* the process chosen last

absVars == <<live, ended, cur>>

\* The processes a decision may choose among.
Eligible(S) == IF S \cap SystemPid # {} THEN S \cap SystemPid ELSE S

AbsInit ==
    /\ live = {}
    /\ ended = {}
    /\ cur = NoProc

Admit(p) ==
    /\ p \notin live
    /\ live' = live \cup ({p} \ ended)
    /\ UNCHANGED <<ended, cur>>

Retire(p) ==
    /\ ended' = ended \cup {p}
    /\ live' = live \ {p}
    /\ UNCHANGED cur

Dispatch ==
    /\ IF live = {} THEN cur' = NoProc ELSE cur' \in Eligible(live)
    /\ UNCHANGED <<live, ended>>

AbsNext ==
    \/ Dispatch
    \/ \E p \in Pid : Admit(p) \/ Retire(p)

AbsSpec == AbsInit /\ [][AbsNext]_absVars

\* No eligible process waits for ever.
NoStarvation == \A p \in Pid : []<>(cur = p \/ p \notin Eligible(live))
=============================================================================
