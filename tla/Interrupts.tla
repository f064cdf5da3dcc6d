----------------------------- MODULE Interrupts -----------------------------
(***************************************************************************)
(* From the reset of the machine to the running kernel as interrupts see   *)
(* it: the steps of kernel_main that touch the IDT, the PIC and the table  *)
(* of handlers (idt.cpp, pic.cpp, interrupts.cpp), the stubs every         *)
(* interrupt enters and leaves by (common_stubs.S), and two devices, the   *)
(* timer and the keyboard, that may raise a request at any time.           *)
(*                                                                         *)
(* The stack of the interrupted code is a sequence of words, the top       *)
(* first: what the CPU pushes, then what the stub pushes.  Interrupted     *)
(* code is "code"; its eip, cs and flags are the words it is resumed by.   *)
(***************************************************************************)
EXTENDS Naturals, Sequences, FiniteSets

Timer == 0       \* IRQ lines of the master PIC
Keyboard == 1
Irq == {Timer, Keyboard}

DivideByZero == 0
PageFault == 14
Exception == {DivideByZero, PageFault}
ErrorCode == {8, 10, 11, 12, 13, 14, 17}  \* exceptions the CPU pushes a code for

\* PIC_ACK and PIC_IS_SLAVE know the vectors the PIC was remapped to.
Base == 32
Vector == Exception \cup {Base + irq : irq \in Irq}

VARIABLES
    pc,        \* the next step of kernel_main
    flag,      \* the interrupt flag of the CPU
    gates,     \* vectors with an entry in idt_entries
    idtr,      \* the CPU knows the table
    masks,     \* lines the PIC masks
    irr,       \* requests the PIC has seen
    isr,       \* requests in service: taken by the CPU, not acknowledged
    handlers,  \* interrupt_handlers
    stack,     \* words pushed for the interrupt that is served
    cpu,       \* what the CPU executes
    unhandled  \* history: pc and vector when last an interrupt had no handler

vars == <<pc, flag, gates, idtr, masks, irr, isr, handlers, stack, cpu, unhandled>>

Init ==
    /\ pc = "gdt"
    /\ flag = FALSE  \* the boot loader leaves interrupts disabled
    /\ gates = {} /\ idtr = FALSE
    /\ masks = {} /\ irr = {} /\ isr = {}
    /\ handlers = [v \in Vector |-> "null"]
    /\ stack = <<>> /\ cpu = "code"
    /\ unhandled = <<"none", 0>>

-----------------------------------------------------------------------------
(* kernel_main, Idt::_Init and Pic::Initialize, in the order of the code.  *)

Step(from, to) == cpu = "code" /\ pc = from /\ pc' = to

GdtInitialize ==
    /\ Step("gdt", "remap")
    /\ UNCHANGED <<flag, gates, idtr, masks, irr, isr, handlers, stack, cpu, unhandled>>

\* ICW1 to ICW4 clear what the PIC has seen; the masks are restored.
PicRemap ==
    /\ Step("remap", "enable")
    /\ irr' = {} /\ isr' = {}
    /\ UNCHANGED <<flag, gates, idtr, masks, handlers, stack, cpu, unhandled>>

\* 0xfc leaves the timer and the keyboard enabled; then sti.
EnableDevices ==
    /\ Step("enable", "irqs")
    /\ masks' = 2 .. 15 /\ flag' = TRUE
    /\ UNCHANGED <<gates, idtr, irr, isr, handlers, stack, cpu, unhandled>>

\* Idt::EditEntry, for several entries.
EditEntry(vectors) == gates' = gates \cup vectors

AddToInterruptTable ==
    /\ Step("irqs", "isrs")
    /\ EditEntry(Base .. Base + 15)
    /\ UNCHANGED <<flag, idtr, masks, irr, isr, handlers, stack, cpu, unhandled>>

set_all_interrupts ==
    /\ Step("isrs", "lidt")
    /\ EditEntry(0 .. 31)
    /\ UNCHANGED <<flag, idtr, masks, irr, isr, handlers, stack, cpu, unhandled>>

idt_dump ==
    /\ Step("lidt", "paging")
    /\ idtr' = TRUE
    /\ UNCHANGED <<flag, gates, masks, irr, isr, handlers, stack, cpu, unhandled>>

\* Interrupts::set_handler.
set_handler(v, handler) == handlers' = [handlers EXCEPT ![v] = handler]

\* Steps that only change the table of handlers.
Handlers(from, to) ==
    /\ Step(from, to)
    /\ UNCHANGED <<flag, gates, idtr, masks, irr, isr, stack, cpu, unhandled>>

PagingInitialize == Handlers("paging", "interrupts") /\ set_handler(PageFault, "page_fault_handler")

\* Interrupts::Initialize: no interrupt has a handler.
InterruptsInitialize ==
    Handlers("interrupts", "keyboard") /\ handlers' = [v \in Vector |-> "null"]

InitializeKeyboard == Handlers("keyboard", "timer") /\ set_handler(Base + Keyboard, "KeyboardHandler")

TimerStart == Handlers("timer", "run") /\ set_handler(Base + Timer, "tick_handler")

Boot ==
    \/ GdtInitialize \/ PicRemap \/ EnableDevices \/ AddToInterruptTable
    \/ set_all_interrupts \/ idt_dump
    \/ PagingInitialize \/ InterruptsInitialize \/ InitializeKeyboard \/ TimerStart

\* DISABLE_HARDWARE_INTERRUPTS and ENABLE_HARDWARE_INTERRUPTS of the programs.
Toggle ==
    /\ cpu = "code" /\ pc = "run"
    /\ flag' = ~flag
    /\ UNCHANGED <<pc, gates, idtr, masks, irr, isr, handlers, stack, cpu, unhandled>>

-----------------------------------------------------------------------------
(* The hardware.                                                           *)

Raise(irq) ==
    /\ irq \notin irr /\ cpu \in {"code", "stub"}
    /\ irr' = irr \cup {irq}
    /\ UNCHANGED <<pc, flag, gates, idtr, masks, isr, handlers, stack, cpu, unhandled>>

\* What the CPU pushes on entry, in front of what the interrupted code is
\* resumed by.
Pushed(v) ==
    (IF v \in ErrorCode THEN <<"error">> ELSE <<>>) \o <<"eip", "cs", flag>>

\* Mutant of Stubbed: irq stubs do not push a word for the error code.
OneWordStub(v) == IF v >= Base THEN <<"ds", "regs", v>> ELSE <<"ds", "regs", v, 0>>

\* isr_noerr, irq and the common stubs: the words pushed before the handler is
\* called, as registers32_t names them: ds, the registers, int_no, err_code.
Stubbed(v) == <<"ds", "regs", v, 0>>

\* The gates are interrupt gates.  Without a table the machine resets.
Enter(v) ==
    IF idtr /\ v \in gates
      THEN cpu' = "stub" /\ flag' = FALSE /\ stack' = Stubbed(v) \o Pushed(v)
      ELSE cpu' = "triple_fault" /\ UNCHANGED <<flag, stack>>

\* No request of the same or of a higher priority may be in service.
Interrupt(irq) ==
    /\ cpu = "code" /\ flag
    /\ irq \in irr \ masks /\ \A s \in isr : irq < s
    /\ irr' = irr \ {irq} /\ isr' = isr \cup {irq}
    /\ Enter(Base + irq)
    /\ UNCHANGED <<pc, gates, idtr, masks, handlers, unhandled>>

\* Code after paging::Initialize divides by zero or touches a page that is not
\* mapped.
Except(v) ==
    /\ cpu = "code" /\ pc \in {"interrupts", "keyboard", "timer", "run"}
    /\ Enter(v)
    /\ UNCHANGED <<pc, gates, idtr, masks, irr, isr, handlers, unhandled>>

-----------------------------------------------------------------------------
(* irq_handler and isr_handler.                                            *)

int_no == stack[3]
err_code == stack[4]

\* Mutant of Acknowledged: only when the handler returns.
AcknowledgedOnReturn(returns) == IF returns THEN isr \ {int_no - Base} ELSE isr

\* PIC_ACK_MASTER comes before the handler, which may never return.
Acknowledged(returns) == IF int_no >= Base THEN isr \ {int_no - Base} ELSE isr

\* _go_to_interrupt, for handlers that return.
GoToInterrupt ==
    \/ handlers[int_no] = "null" /\ unhandled' = <<pc, int_no>>
    \/ handlers[int_no] \in {"KeyboardHandler", "tick_handler"} /\ UNCHANGED unhandled

\* The rest of the common stubs.
Return ==
    /\ cpu = "stub"
    /\ GoToInterrupt
    /\ isr' = Acknowledged(TRUE)
    /\ LET words == SubSeq(stack, 5, Len(stack))  \* pop, popa, add esp, 8
       IN  \* iret: eip, cs, eflags
           IF words[1] = "eip"
             THEN cpu' = "code" /\ flag' = words[3]
             ELSE cpu' = "wild" /\ UNCHANGED flag
    /\ stack' = SubSeq(stack, 8, Len(stack))
    /\ UNCHANGED <<pc, gates, idtr, masks, irr, handlers>>

\* __tick_handler leaves by a jump to another process, on its stack.
Switch ==
    /\ cpu = "stub" /\ handlers[int_no] = "tick_handler"
    /\ isr' = Acknowledged(FALSE)
    /\ cpu' = "code" /\ flag' = TRUE /\ stack' = <<>>
    /\ UNCHANGED <<pc, gates, idtr, masks, irr, handlers, unhandled>>

\* page_fault_handler while it is installed: the page counts as absent,
\* (err_code & 1) is 0, but there is no process yet.
PageFaultPanics ==
    /\ cpu = "stub" /\ handlers[int_no] = "page_fault_handler" /\ err_code = 0
    /\ cpu' = "panic"
    /\ UNCHANGED <<pc, flag, gates, idtr, masks, irr, isr, handlers, stack, unhandled>>

Dead == cpu \in {"triple_fault", "wild", "panic"}
Stopped == Dead /\ UNCHANGED vars

Next ==
    \/ Boot \/ Toggle
    \/ \E irq \in Irq : Raise(irq) \/ Interrupt(irq)
    \/ \E v \in Exception : Except(v)
    \/ Return \/ Switch \/ PageFaultPanics
    \/ Stopped

\* Handlers go on, and so does the code between two interrupts, which enables
\* them in the end; the CPU then takes a request that the PIC offers.
Fairness ==
    /\ SF_vars(Boot)
    /\ WF_vars(Return \/ Switch \/ PageFaultPanics)
    /\ SF_vars(Toggle /\ flag')
    /\ \A irq \in Irq : SF_vars(Interrupt(irq))

Spec == Init /\ [][Next]_vars /\ Fairness

-----------------------------------------------------------------------------

\* The variables have values of their types.
TypeOK ==
    LET steps == {"gdt", "remap", "enable", "irqs", "isrs", "lidt", "paging", "interrupts",
                  "keyboard", "timer", "run"}
    IN
    /\ pc \in steps /\ unhandled \in (steps \cup {"none"}) \X (Vector \cup {0})
    /\ flag \in BOOLEAN /\ idtr \in BOOLEAN
    /\ gates \subseteq 0 .. 255 /\ masks \subseteq 0 .. 15
    /\ irr \subseteq Irq /\ isr \subseteq Irq
    /\ handlers \in [Vector -> {"null", "page_fault_handler", "KeyboardHandler", "tick_handler"}]
    /\ cpu \in {"code", "stub", "triple_fault", "wild", "panic"}
    /\ cpu = "stub" => Len(stack) \in {7, 8} /\ int_no \in Vector

(***************************************************************************)
(* The machine dies in three ways only: by an interrupt between the sti of *)
(* the PIC's initialization and the lidt after it (pic.cpp:17,             *)
(* idt.cpp:21-27), by the return from an exception with an error code,     *)
(* which the stubs take for the address to return to (common_stubs.S:9),   *)
(* and by a page fault before Interrupts::Initialize.  Once the kernel     *)
(* runs no request of the timer or of the keyboard is dropped for want of  *)
(* a handler (interrupts.cpp:32-47, kernel.cpp:136-156).  Besides, all     *)
(* variables have values of their types.                                   *)
(***************************************************************************)
DiesInKnownWays ==
    /\ TypeOK
    /\ cpu = "triple_fault" => pc \in {"irqs", "isrs", "lidt"} /\ isr # {}
    /\ cpu = "wild" => unhandled[2] \in ErrorCode
    /\ cpu = "panic" => pc = "interrupts"
    /\ unhandled[1] = "run" => unhandled[2] < Base

(***************************************************************************)
(* A request is served: the CPU takes it, unless the machine died first.   *)
(* This needs every request to be acknowledged before its handler is       *)
(* called, since the tick's never returns (interrupts.cpp:69-84).          *)
(***************************************************************************)
RequestsServed == \A irq \in Irq : irq \in irr ~> (irq \notin irr \/ Dead)
=============================================================================
