---------------------------- MODULE MCScheduler ----------------------------
(***************************************************************************)
(* Model checking of Scheduler with a history variable: overtaken[p][q] is *)
(* how often q was chosen since p was added or last chosen (capped).       *)
(***************************************************************************)
EXTENDS Scheduler

CONSTANTS s1, s2, r1, r2, r3

VARIABLE overtaken

mcVars == <<schedVars, overtaken>>

MCInit == SchedInit /\ overtaken = [p \in Pid |-> [q \in Pid |-> 0]]

OvertakenCap == 2

Count(n) == IF n < OvertakenCap THEN n + 1 ELSE n

MCCalculateNext ==
    /\ CalculateNext
    /\ overtaken' = [p \in Pid |-> [q \in Pid |->
                        IF p = current' \/ p \notin Live THEN 0
                        ELSE IF q = current' THEN Count(overtaken[p][q])
                        ELSE overtaken[p][q]]]

MCNext ==
    \/ MCCalculateNext
    \/ \E p \in Pid : /\ AddItem(p) \/ SignalEnd(p)
                      /\ UNCHANGED overtaken

MCSpec == MCInit /\ [][MCNext]_mcVars

\* The timer calls CalculateNext on every tick.
MCFairSpec == MCSpec /\ WF_schedVars(CalculateNext)

(***************************************************************************)
(* Bounded waiting: while a process waits for its turn, no other process   *)
(* of the same queue is chosen twice (round robin of                       *)
(* schedualer.cpp:50-52), whatever is added or terminated meanwhile.       *)
(***************************************************************************)
OvertakenAtMostOnce ==
    \A p, q \in Live : (p \in SystemPid <=> q \in SystemPid) => overtaken[p][q] <= 1

MCPid == {s1, s2, r1, r2, r3}
MCSystemPid == {s1, s2}
=============================================================================
