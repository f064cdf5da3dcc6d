------------------------------- MODULE Kernel -------------------------------
(***************************************************************************)
(* One CPU multiplexed between the kernel's processes: the end of          *)
(* kernel_main, the timer tick that switches contexts (timer.cpp),         *)
(* Processing::Start/End (process.cpp), the keyboard interrupt             *)
(* (keyboard.cpp) and the code of the three programs, kernel_stage_2,      *)
(* shell and loop2 (kernel.cpp).  The run queues are module Scheduler's.   *)
(*                                                                         *)
(* What is kept of the machine:                                            *)
(*  - the interrupt flag: a tick or a key is taken only while it is set,   *)
(*    so a handler, entered through an interrupt gate, is one step;        *)
(*  - the instruction pointer, as a program point <<program, step>>.  The  *)
(*    saved esp and ebp go with the saved eip and are not kept apart;      *)
(*  - cr3, as the pid of the process whose page directory is loaded.  The  *)
(*    kernel process uses the kernel's own directory (process.cpp:113-115).*)
(*                                                                         *)
(* The kernel stack and the stack of every other process are at the same   *)
(* virtual address (KERNEL_STACK_BEGIN), so kernel code that loads the     *)
(* kernel's directory while it runs on the stack of another process uses   *)
(* the kernel process's stack frames as its own: kstack records that.      *)
(*                                                                         *)
(* A line typed at the keyboard is one key, named after the command it     *)
(* compares equal to; the keys of a line and the queue they pass through   *)
(* are module InputBuffer's, the run queues' memory is module FastBin's.   *)
(* A frame of memory that was never written holds zeros, except for the    *)
(* uninitialized last_pid of the shell, which is any pid (UninitPid).      *)
(***************************************************************************)
EXTENDS Scheduler, FiniteSets

CONSTANTS
    MaxKeys,    \* bound: lines accepted from the keyboard
    UninitPid,  \* values the uninitialized last_pid of shell() may have
    WordSize    \* number of values of a uint32_t (2^32 in the code)

KernelPid == 1  \* first value of _pid_seq
ShellPid == 2   \* the second process that is created
MaxPid == ShellPid + MaxKeys
KernelDir == KernelPid

Timer == 32     \* TIMER_PORT
Keyboard == 33
Commands == {"START", "END", "OTHER"}
NoBuf == <<"null">>  \* a null input_buffer

ASSUME KernelAssumption ==
    /\ MaxKeys \in Nat
    /\ WordSize \in Nat \ {0}
    /\ Pid = 0 .. MaxPid
    /\ KernelPid \in SystemPid /\ ShellPid \notin SystemPid
    /\ UninitPid \subseteq Pid

VARIABLES
    mode,        \* "run", or why the machine is lost
    intr,        \* the CPU's interrupt flag
    cpu,         \* whose code runs: a pid, or 0 for kernel_main
    pc,          \* where: <<program, step>>
    cr3,         \* whose page directory is loaded
    handlers,    \* interrupt numbers that have a handler
    cached,      \* _current_process_cached_info.pid (0 before the first tick)
    saved,       \* KernelProcess::registers
    timesRan,    \* KernelProcess::times_ran, up to TimesRanCap
    pidSeq,      \* KernelProcess::_pid_seq
    registered,  \* _registered_processes
    statics,     \* static locals of Start::Process and End::Process
    inbuf,       \* KernelProcess::input_buffer
    cmd,         \* str of shell()
    lastPid,     \* last_pid of shell()
    running,     \* processes_running of shell()
    kstack,      \* the kernel process's stack frames: "intact" or "scratch"
    typed,       \* history: lines accepted from the keyboard
    at           \* history: where each process really is

procVars == <<saved, timesRan, pidSeq, registered>>
shellVars == <<cmd, lastPid, running>>
inputVars == <<inbuf, typed>>
cpuVars == <<intr, cpu, pc, cr3, kstack, at>>
vars == <<schedVars, procVars, shellVars, inputVars, cpuVars, mode, handlers, cached, statics>>

KernelInit ==
    /\ SchedInit
    /\ mode = "run" /\ intr = TRUE /\ cpu = 0 /\ cr3 = KernelDir
    /\ pc = <<"boot", "processing">>
    /\ handlers = {}
    /\ cached = 0
    /\ saved = [p \in Pid |-> <<"none", "none">>]
    /\ timesRan = [p \in Pid |-> 0]
    /\ pidSeq = 1
    /\ registered = {}
    /\ statics = [dir |-> 0, newPid |-> 0, tempDir |-> 0, tempPid |-> 0]
    /\ inbuf = [p \in Pid |-> NoBuf]
    /\ cmd = "OTHER" /\ lastPid \in UninitPid /\ running = 0
    /\ kstack = "intact"
    /\ typed = 0
    /\ at = [p \in Pid |-> IF p = 0 THEN pc ELSE <<"none", "none">>]

-----------------------------------------------------------------------------
(* The processor.                                                          *)

GetPid == cached
GetInputBuffer == inbuf[cached]

Executing(program, step) == mode = "run" /\ pc = <<program, step>>

\* Control goes on to another step of the running program.
Goto(step) ==
    /\ pc' = <<pc[1], step>>
    /\ at' = [at EXCEPT ![cpu] = pc']
    /\ UNCHANGED <<cpu, mode>>

\* The kernel's stack frames once kernel code that was entered on the stack of
\* process cpu has worked under the kernel's directory.
BorrowedStack == IF cpu \in {0, KernelPid} THEN kstack ELSE "scratch"

\* Nothing the code does from here on is defined.
Lost(why) ==
    /\ mode' = why
    /\ UNCHANGED <<procVars, shellVars, inputVars, cpuVars, handlers, cached, statics>>

-----------------------------------------------------------------------------
(* The end of kernel_main.                                                 *)

\* The constructor takes the next pid.  The priority is what SystemPid says: System
\* for the kernel, High for the shell, and for what the shell launches any, because
\* Start::Process reads its argument from its caller's stack when the kernel's
\* directory, in which another stack is at that address, is already loaded.
KernelProcess == pidSeq' = pidSeq + 1

\* new KernelProcess, entered at start.
NewProcess(start) == KernelProcess /\ saved' = [saved EXCEPT ![pidSeq] = start]

ProcessingInitialize ==
    /\ Executing("boot", "processing")
    /\ NewProcess(<<"stage2", "init">>) /\ AddItem(pidSeq)
    /\ pc' = <<"boot", "interrupts">>
    /\ at' = [at EXCEPT ![pidSeq] = <<"stage2", "init">>, ![cpu] = pc']
    /\ UNCHANGED <<timesRan, registered, shellVars, inputVars, intr, cpu, cr3, kstack,
                   mode, handlers, cached, statics>>

BootStep(from, to, handled) ==
    /\ Executing("boot", from)
    /\ Goto(to)
    /\ handlers' = handled
    /\ UNCHANGED <<schedVars, procVars, shellVars, inputVars, intr, cr3, kstack,
                   cached, statics>>

InterruptsInitialize == BootStep("interrupts", "keyboard", {})
InitializeKeyboard == BootStep("keyboard", "timer", handlers \cup {Keyboard})
TimerStart == BootStep("timer", "hlt", handlers \cup {Timer})

Boot == ProcessingInitialize \/ InterruptsInitialize \/ InitializeKeyboard \/ TimerStart

-----------------------------------------------------------------------------
(* The timer tick.                                                         *)

TimesRanCap == 2
Bump(n) == IF n < TimesRanCap THEN n + 1 ELSE n

\* Mutant of FindProcessIncrement: times_ran is left to the tick.
NotIncremented(n) == n

\* times_ran++ of _FindProcess.
FindProcessIncrement(n) == Bump(n)

\* There was nothing to choose: the interrupted code goes on in its own space.
NoNextProcess ==
    /\ current' = NoProc
    /\ IF current = NoProc
         THEN Lost("null_directory")
         ELSE /\ cr3' = current
              /\ kstack' = BorrowedStack
              /\ UNCHANGED <<procVars, shellVars, inputVars, intr, cpu, pc, at, mode,
                             handlers, cached, statics>>

\* Mutant of SavedContext: the registers go to the process chosen, not the one left.
SavedInNextProcess(next) == [saved EXCEPT ![next] = pc]

\* The registers of the process that was running, if one was.
SavedContext(next) == IF current = NoProc THEN saved ELSE [saved EXCEPT ![current] = pc]

SwitchToNext ==
    LET next == current'
        ran == FindProcessIncrement(timesRan[next])
    IN  /\ next # NoProc
        /\ timesRan' = [timesRan EXCEPT ![next] = Bump(ran)]
        /\ saved' = SavedContext(next)
        /\ cached' = next
        /\ cpu' = next
        /\ cr3' = next
        /\ kstack' = BorrowedStack
        /\ pc' = saved'[next]
        /\ intr' = TRUE
        /\ mode' = IF ran > 0 THEN "run" ELSE "returned_on_a_foreign_stack"
        /\ UNCHANGED <<pidSeq, registered, shellVars, inputVars, at, handlers, statics>>

Tick ==
    /\ mode = "run" /\ intr /\ Timer \in handlers
    /\ CalculateNext
    /\ NoNextProcess \/ SwitchToNext

-----------------------------------------------------------------------------
(* The keyboard interrupt.  A line for a process without an input buffer   *)
(* is dropped, which changes nothing.                                      *)

KeyboardHandler(key) ==
    /\ mode = "run" /\ intr /\ Keyboard \in handlers
    /\ typed < MaxKeys
    /\ \/ /\ cached = 0  \* input_buffer_ptr is still null
          /\ Lost("null_input_buffer_ptr")
       \/ /\ cached # 0 /\ GetInputBuffer # NoBuf
          /\ inbuf' = [inbuf EXCEPT ![cached] = Append(@, key)]
          /\ typed' = typed + 1
          /\ UNCHANGED <<procVars, shellVars, cpuVars, mode, handlers, cached, statics>>
    /\ UNCHANGED schedVars

-----------------------------------------------------------------------------
(* Code the programs share; `next' is the step of the caller that follows. *)

\* A step of a program: no program changes the handlers or the cached process.
AtStep(step) ==
    /\ mode = "run" /\ pc[2] = step
    /\ UNCHANGED <<handlers, cached>>

SelfProcessInit(next) ==
    /\ AtStep("init")
    /\ inbuf' = [inbuf EXCEPT ![cached] = <<>>]
    /\ Goto(next)
    /\ UNCHANGED <<schedVars, procVars, shellVars, typed, intr, cr3, kstack, statics>>

SetInterrupts(step, value, next) ==
    /\ AtStep(step)
    /\ intr' = value
    /\ Goto(next)
    /\ UNCHANGED <<schedVars, procVars, shellVars, inputVars, cr3, kstack, statics>>

\* Mutant of DisableInterrupts: the cli is missing.
ForgottenCli(next) == SetInterrupts("cli", intr, next)

DisableInterrupts(next) == SetInterrupts("cli", FALSE, next)
EnableInterrupts(next) == SetInterrupts("sti", TRUE, next)

\* Start::Process up to the switch to the kernel's directory.
StartSwitch ==
    /\ AtStep("start_switch")
    /\ statics' = [statics EXCEPT !.dir = IF cached # 0 THEN cr3 ELSE 0]
    /\ cr3' = IF cached # 0 THEN KernelDir ELSE cr3
    /\ kstack' = IF cached # 0 THEN BorrowedStack ELSE kstack
    /\ Goto("start_create")
    /\ UNCHANGED <<schedVars, procVars, shellVars, inputVars, intr>>

ProgramOf(name) == IF name = "shell" THEN <<"shell", "init">> ELSE <<"loop2", "loop">>

\* Look the name up, create the process, hand it to the scheduler.  A name that
\* is not registered makes find_if return end(), which is dereferenced.
StartCreate(name) ==
    /\ AtStep("start_create")
    /\ IF name \notin registered
         THEN mode' = "unregistered_name"
              /\ UNCHANGED <<schedVars, procVars, shellVars, inputVars, cpuVars, statics>>
         ELSE /\ NewProcess(ProgramOf(name)) /\ AddItem(pidSeq)
              /\ statics' = [statics EXCEPT !.newPid = pidSeq]
              /\ pc' = <<pc[1], "start_restore">>
              /\ at' = [at EXCEPT ![pidSeq] = ProgramOf(name), ![cpu] = pc']
              /\ UNCHANGED <<timesRan, registered, shellVars, inputVars, intr, cpu, cr3,
                             kstack, mode>>

\* Back to the caller's directory; the result is the new pid.
StartRestore(next) ==
    /\ AtStep("start_restore")
    /\ cr3' = IF cached # 0 THEN statics.dir ELSE cr3
    /\ lastPid' = IF pc[1] = "shell" THEN statics.newPid ELSE lastPid
    /\ Goto(next)
    /\ UNCHANGED <<schedVars, procVars, cmd, running, inputVars, intr, kstack, statics>>

\* End::Process up to the switch to the kernel's directory.
EndSwitch(pid) ==
    /\ AtStep("end_switch")
    /\ statics' = [statics EXCEPT !.tempPid = pid,
                                  !.tempDir = IF cached # KernelPid THEN cr3 ELSE 0]
    /\ cr3' = IF cached # KernelPid THEN KernelDir ELSE cr3
    /\ kstack' = IF cached # KernelPid THEN BorrowedStack ELSE kstack
    /\ Goto("end_signal")
    /\ UNCHANGED <<schedVars, procVars, shellVars, inputVars, intr>>

EndSignal ==
    /\ AtStep("end_signal")
    /\ SignalEnd(statics.tempPid)
    /\ Goto("end_restore")
    /\ UNCHANGED <<procVars, shellVars, inputVars, intr, cr3, kstack, statics>>

EndRestore(next) ==
    /\ AtStep("end_restore")
    /\ cr3' = IF cached # KernelPid THEN statics.tempDir ELSE cr3
    /\ Goto(next)
    /\ UNCHANGED <<schedVars, procVars, shellVars, inputVars, intr, kstack, statics>>

-----------------------------------------------------------------------------
(* kernel_stage_2, the program of the kernel process.  It has no caller:   *)
(* its return goes to whatever word its stack begins with.                 *)

RegisterProcesses ==
    /\ AtStep("register")
    /\ registered' = registered \cup {"shell", "loop2"}
    /\ Goto("start_switch")
    /\ UNCHANGED <<schedVars, saved, timesRan, pidSeq, shellVars, inputVars, intr, cr3,
                   kstack, statics>>

Return ==
    /\ AtStep("finish")
    /\ Goto("returned")
    /\ UNCHANGED <<schedVars, procVars, shellVars, inputVars, intr, cr3, kstack, statics>>

\* What runs after the return is undefined: it may be harmless until the next
\* tick takes the CPU away for good, or not.
RunWild ==
    /\ AtStep("returned")
    /\ mode' = "wild_return"
    /\ UNCHANGED <<schedVars, procVars, shellVars, inputVars, cpuVars, statics>>

KernelStage2 ==
    /\ pc[1] = "stage2"
    /\ \/ SelfProcessInit("cli")
       \/ DisableInterrupts("register")
       \/ RegisterProcesses
       \/ StartSwitch
       \/ StartCreate("shell")
       \/ StartRestore("end_switch")
       \/ EndSwitch(GetPid)
       \/ EndSignal
       \/ EndRestore("sti")
       \/ EnableInterrupts("finish")
       \/ Return
       \/ RunWild

-----------------------------------------------------------------------------
(* shell.  loop2 spins (its counter never reaches 100): it has no step.    *)

\* Mutant of ReadCommand: the line is looked at and stays in the buffer.
PeekedCommand ==
    /\ AtStep("read")
    /\ GetInputBuffer # <<>>
    /\ cmd' = Head(GetInputBuffer)
    /\ Goto(IF cmd' = "OTHER" THEN "read" ELSE "cli")
    /\ UNCHANGED <<schedVars, procVars, lastPid, running, inputVars, intr, cr3, kstack, statics>>

\* GetString returned a line.
ReadCommand ==
    /\ AtStep("read")
    /\ GetInputBuffer # <<>>
    /\ cmd' = Head(GetInputBuffer)
    /\ inbuf' = [inbuf EXCEPT ![cached] = Tail(@)]
    /\ Goto(IF cmd' = "OTHER" THEN "read" ELSE "cli")
    /\ UNCHANGED <<schedVars, procVars, lastPid, running, typed, intr, cr3, kstack, statics>>

\* processes_running++ or --, a uint32_t.
Counted(n) == (IF cmd = "START" THEN n + 1 ELSE n + WordSize - 1) % WordSize

Report ==
    /\ AtStep("report")
    /\ running' = Counted(running)
    /\ Goto("read")
    /\ UNCHANGED <<schedVars, procVars, cmd, lastPid, inputVars, intr, cr3, kstack, statics>>

Shell ==
    /\ pc[1] = "shell"
    /\ \/ SelfProcessInit("read")
       \/ ReadCommand
       \/ DisableInterrupts(IF cmd = "START" THEN "start_switch" ELSE "end_switch")
       \/ StartSwitch
       \/ StartCreate("loop2")
       \/ StartRestore("sti")
       \/ EndSwitch(lastPid)
       \/ EndSignal
       \/ EndRestore("sti")
       \/ EnableInterrupts("report")
       \/ Report

-----------------------------------------------------------------------------

Stopped == mode # "run" /\ UNCHANGED vars

Next ==
    \/ Boot
    \/ Tick
    \/ \E key \in Commands : KeyboardHandler(key)
    \/ KernelStage2
    \/ Shell
    \/ Stopped

Spec == KernelInit /\ [][Next]_vars

(***************************************************************************)
(* Fairness.  The CPU executes instructions; the PIT ticks for ever and    *)
(* the PIC keeps a tick pending until interrupts are enabled; a time slice *)
(* (1/20 s) is long enough for a program to take a step in it.             *)
(***************************************************************************)
Fairness ==
    /\ WF_vars(Boot)
    /\ SF_vars(Tick)
    /\ SF_vars(KernelStage2)
    /\ SF_vars(Shell)

FairSpec == Spec /\ Fairness

-----------------------------------------------------------------------------

Point ==
    {<<"none", "none">>, <<"loop2", "loop">>}
    \cup {"boot"} \X {"processing", "interrupts", "keyboard", "timer", "hlt"}
    \cup {"stage2", "shell"} \X
         {"init", "cli", "register", "start_switch", "start_create", "start_restore",
          "end_switch", "end_signal", "end_restore", "sti", "finish", "returned",
          "read", "report"}

\* The variables of the kernel and of its programs have values of their types.
KernelTypeOK ==
    /\ SchedTypeOK
    /\ mode \in {"run", "null_input_buffer_ptr", "null_directory", "wild_return",
                 "unregistered_name", "returned_on_a_foreign_stack"}
    /\ intr \in BOOLEAN
    /\ cpu \in Pid /\ cached \in Pid /\ lastPid \in Pid
    /\ cr3 \in Pid
    /\ pc \in Point
    /\ handlers \subseteq {Timer, Keyboard}
    /\ saved \in [Pid -> Point] /\ at \in [Pid -> Point]
    /\ timesRan \in [Pid -> 0 .. TimesRanCap]
    /\ pidSeq \in Pid \cup {MaxPid + 1}
    /\ registered \subseteq {"shell", "loop2"}
    /\ statics \in [dir : Pid, newPid : Pid, tempDir : Pid, tempPid : Pid]
    /\ inbuf \in [Pid -> Seq(Commands) \cup {NoBuf}]
    /\ cmd \in Commands
    /\ running \in 0 .. WordSize - 1
    /\ kstack \in {"intact", "scratch"}
    /\ typed \in 0 .. MaxKeys

(***************************************************************************)
(* The scheduler's idea of what runs, the cached process information, the  *)
(* loaded page directory and the code on the CPU agree whenever an         *)
(* interrupt can look at them.  Start::Process and End::Process change cr3 *)
(* under the feet of their caller, and a switch saves no cr3               *)
(* (timer.cpp:91-124), so this rests on every caller's cli.  The kernel    *)
(* process in particular never gets the CPU back once its stack frames     *)
(* have served as scratch space for another process.  Besides, all         *)
(* variables have values of their types.                                   *)
(***************************************************************************)
CpuAgrees ==
    /\ KernelTypeOK
    /\ mode = "run" =>
          /\ current # NoProc => current = cpu
          /\ cached = cpu
          /\ intr => cr3 = (IF cpu = 0 THEN KernelDir ELSE cpu)
          /\ cpu = KernelPid => kstack = "intact"

(***************************************************************************)
(* A process goes on exactly where it was interrupted, however often it    *)
(* lost the CPU in between: the tick stores the registers of the process   *)
(* it leaves before it loads those of the next (timer.cpp:90-138).         *)
(***************************************************************************)
ResumesWhereInterrupted == mode = "run" => pc = at[cpu]

(***************************************************************************)
(* The machine is lost only in three ways: a key arrives before the first  *)
(* tick has set input_buffer_ptr; a tick finds neither a current nor a     *)
(* next process, which takes a shell that ended itself; kernel_stage_2     *)
(* returns.  No lookup fails and no switch falls through its jmp           *)
(* (timer.cpp:127).                                                        *)
(***************************************************************************)
LostOnlyInKnownWays ==
    /\ mode \in {"run", "null_input_buffer_ptr", "null_directory", "wild_return"}
    /\ mode = "null_input_buffer_ptr" => current = NoProc /\ KernelPid \in Live
    /\ mode = "null_directory" => ShellPid \in canceled /\ Live = {}

\* A launched process got Priority::System, and p did not.
Starves(p) == p \notin SystemPid /\ (Live \cap SystemPid) \ {KernelPid} # {}

(***************************************************************************)
(* A terminated process gives the CPU up for good (End::Process,           *)
(* process.cpp:219-240), even if the tick that follows has nothing else to *)
(* run and returns to it once more (timer.cpp:82-88).                      *)
(***************************************************************************)
TerminatedStops ==
    \A p \in Pid : [](p \in canceled => <>[](cpu # p \/ mode # "run"))

(***************************************************************************)
(* Every live process gets the CPU again and again once kernel_stage_2 has *)
(* ended itself, which it does (kernel.cpp:93-116, timer.cpp:50-138), but  *)
(* for those that wait for a launched process of Priority::System.         *)
(***************************************************************************)
LiveProcessesRun ==
    \A p \in Pid : []<>(cpu = p \/ p \notin Live \/ Starves(p) \/ mode # "run")

(***************************************************************************)
(* A line that reached the shell's input buffer is read and carried out    *)
(* unless the shell was ended or a process it launched got                 *)
(* Priority::System (kernel.cpp:64-89, schedualer.cpp:59-71).              *)
(***************************************************************************)
ShellServesInput ==
    []<>(\/ mode # "run" \/ ShellPid \in canceled \/ Starves(ShellPid)
         \/ inbuf[ShellPid] \in {NoBuf, <<>>} /\ saved[ShellPid] = <<"shell", "read">>)
=============================================================================
