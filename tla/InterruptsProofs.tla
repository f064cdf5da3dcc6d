------------------------- MODULE InterruptsProofs -------------------------
(***************************************************************************)
(* Proofs about Interrupts: the three ways the machine can die are the     *)
(* only ones, whatever interrupts come and when.                           *)
(***************************************************************************)
EXTENDS Interrupts, TLAPS

(***************************************************************************)
(* DiesInKnownWays speaks of the moment the machine dies.  What led there  *)
(* is what the boot has done so far: which gates there are and which       *)
(* handlers are installed follows from pc, interrupts are enabled only     *)
(* after sti, and the words a stub has pushed are those of its vector      *)
(* (idt.cpp:21-27, kernel.cpp:97-156, common_stubs.S).                     *)
(***************************************************************************)
BeforeSti == pc \in {"gdt", "remap", "enable"}

GatesInv ==
  /\ pc \notin {"gdt", "remap", "enable", "irqs"} => 32 .. 47 \subseteq gates
  /\ pc \notin {"gdt", "remap", "enable", "irqs", "isrs"} => 0 .. 31 \subseteq gates
  /\ pc \notin {"gdt", "remap", "enable", "irqs", "isrs", "lidt"} => idtr
  /\ BeforeSti => ~flag /\ cpu = "code"

HandlersInv ==
  /\ \A v \in Exception : handlers[v] \in {"null", "page_fault_handler"}
  /\ \A v \in Vector : handlers[v] = "page_fault_handler" => pc = "interrupts"
  /\ pc \in {"timer", "run"} => handlers[33] = "KeyboardHandler"
  /\ pc = "run" => handlers[32] = "tick_handler"

StackInv ==
  cpu = "stub" =>
     /\ stack[3] \in Vector /\ stack[4] = 0
     /\ stack[3] = 14 => Len(stack) = 8 /\ stack[5] = "error"
     /\ stack[3] # 14 => Len(stack) = 7 /\ stack[5] = "eip" /\ stack[7] \in BOOLEAN

BootInv == DiesInKnownWays /\ GatesInv /\ HandlersInv /\ StackInv

(***************************************************************************)
(* The vectors that occur: two exceptions and two lines of the PIC.        *)
(***************************************************************************)
LEMMA Vectors ==
  /\ Vector = {0, 14, 32, 33} /\ Exception = {0, 14} /\ Irq = {0, 1}
  /\ \A v \in Vector : (v \in ErrorCode <=> v = 14) /\ (v >= Base <=> v \in {32, 33})
  /\ \A irq \in Irq : Base + irq \in {32, 33}
  BY DEF Vector, Exception, Irq, ErrorCode, Base, DivideByZero, PageFault, Timer, Keyboard

(***************************************************************************)
(* Nothing is installed at the reset.                                      *)
(***************************************************************************)
LEMMA BootInvInit == Init => BootInv
<1>1. SUFFICES ASSUME Init
               PROVE  BootInv
  OBVIOUS
<1>2. TypeOK
  <2>1. unhandled \in {"none"} \X {0} /\ cpu = "code"
    BY <1>1 DEF Init
  <2>2. handlers \in [Vector -> {"null", "page_fault_handler", "KeyboardHandler", "tick_handler"}]
    BY <1>1 DEF Init
  <2> QED
    BY <1>1, <2>1, <2>2 DEF Init, TypeOK
<1>3. DiesInKnownWays
  BY <1>1, <1>2 DEF Init, DiesInKnownWays
<1>4. GatesInv /\ HandlersInv /\ StackInv
  BY <1>1, Vectors DEF Init, GatesInv, HandlersInv, StackInv, BeforeSti
<1> QED
  BY <1>3, <1>4 DEF BootInv

(***************************************************************************)
(* The steps of kernel_main, in their order.                               *)
(***************************************************************************)
LEMMA BootKeepsInv ==
  ASSUME BootInv, Boot
  PROVE  BootInv'
<1>1. /\ TypeOK /\ GatesInv /\ HandlersInv
      /\ cpu = "code" /\ cpu' = "code" /\ UNCHANGED <<stack, unhandled>>
      /\ unhandled[1] = "run" => unhandled[2] < Base
  BY DEF BootInv, DiesInKnownWays, Boot, GdtInitialize, PicRemap, EnableDevices, AddToInterruptTable,
         set_all_interrupts, idt_dump, Handlers, PagingInitialize, InterruptsInitialize,
         InitializeKeyboard, TimerStart, Step
<1>2. StackInv'
  BY <1>1 DEF StackInv
<1>3. TypeOK' => DiesInKnownWays'
  BY <1>1 DEF DiesInKnownWays
<1>4. CASE GdtInitialize \/ PicRemap \/ EnableDevices
  <2>1. /\ UNCHANGED <<gates, idtr, handlers>>
        /\ pc \in {"gdt", "remap", "enable"} /\ pc' \in {"remap", "enable", "irqs"}
        /\ flag' \in {flag, TRUE} /\ masks' \in {masks, 2 .. 15}
        /\ irr' \in {irr, {}} /\ isr' \in {isr, {}}
        /\ pc' # "irqs" => flag' = flag
    BY <1>4 DEF GdtInitialize, PicRemap, EnableDevices, Step
  <2>2. masks' \subseteq 0 .. 15 /\ irr' \subseteq Irq /\ isr' \subseteq Irq
    BY <1>1, <2>1 DEF TypeOK
  <2>3. flag' \in BOOLEAN
    BY <1>1, <2>1 DEF TypeOK
  <2>4. TypeOK'
    BY <1>1, <2>1, <2>2, <2>3 DEF TypeOK
  <2>5. GatesInv' /\ HandlersInv'
    BY <1>1, <2>1 DEF GatesInv, HandlersInv, BeforeSti
  <2> QED
    BY <1>2, <1>3, <2>4, <2>5 DEF BootInv
<1>5. CASE AddToInterruptTable \/ set_all_interrupts \/ idt_dump
  <2>1. /\ UNCHANGED <<flag, masks, irr, isr, handlers>>
        /\ pc \in {"irqs", "isrs", "lidt"} /\ pc' \in {"isrs", "lidt", "paging"}
        /\ gates \subseteq gates' /\ gates' \subseteq gates \cup (0 .. 47)
        /\ idtr' = idtr \/ idtr' = TRUE
        /\ pc' = "isrs" => pc = "irqs" /\ 32 .. 47 \subseteq gates'
        /\ pc' = "lidt" => pc = "isrs" /\ 0 .. 31 \subseteq gates'
        /\ pc' = "paging" => pc = "lidt" /\ idtr'
    <3>1. CASE AddToInterruptTable
      BY <3>1 DEF AddToInterruptTable, Step, EditEntry, Base
    <3>2. CASE set_all_interrupts
      BY <3>2 DEF set_all_interrupts, Step, EditEntry
    <3>3. CASE idt_dump
      BY <3>3 DEF idt_dump, Step
    <3> QED
      BY <1>5, <3>1, <3>2, <3>3
  <2>2. gates' \subseteq 0 .. 255
    BY <1>1, <2>1 DEF TypeOK
  <2>3. idtr' \in BOOLEAN
    BY <1>1, <2>1 DEF TypeOK
  <2>4. TypeOK'
    BY <1>1, <2>1, <2>2, <2>3 DEF TypeOK
  <2>5. GatesInv' /\ HandlersInv'
    BY <1>1, <2>1 DEF GatesInv, HandlersInv, BeforeSti
  <2> QED
    BY <1>2, <1>3, <2>4, <2>5 DEF BootInv
<1>6. CASE PagingInitialize \/ InterruptsInitialize \/ InitializeKeyboard \/ TimerStart
  <2>1. UNCHANGED <<flag, gates, idtr, masks, irr, isr>>
    BY <1>6 DEF PagingInitialize, InterruptsInitialize, InitializeKeyboard, TimerStart, Handlers
  <2>2. handlers \in [Vector -> {"null", "page_fault_handler", "KeyboardHandler", "tick_handler"}]
    BY <1>1 DEF TypeOK
  <2>3. /\ handlers' \in [Vector -> {"null", "page_fault_handler", "KeyboardHandler", "tick_handler"}]
        /\ pc \in {"paging", "interrupts", "keyboard", "timer"}
        /\ pc' \in {"interrupts", "keyboard", "timer", "run"}
        /\ HandlersInv'
    <3>1. CASE PagingInitialize
      <4>1. handlers' = [handlers EXCEPT ![14] = "page_fault_handler"] /\ pc' = "interrupts" /\ pc = "paging"
        BY <3>1 DEF PagingInitialize, Handlers, Step, set_handler, PageFault
      <4> QED
        BY <1>1, <2>2, <4>1, Vectors DEF HandlersInv
    <3>2. CASE InterruptsInitialize
      <4>1. handlers' = [v \in Vector |-> "null"] /\ pc' = "keyboard" /\ pc = "interrupts"
        BY <3>2 DEF InterruptsInitialize, Handlers, Step
      <4> QED
        BY <4>1, Vectors DEF HandlersInv
    <3>3. CASE InitializeKeyboard
      <4>1. handlers' = [handlers EXCEPT ![33] = "KeyboardHandler"] /\ pc' = "timer" /\ pc = "keyboard"
        BY <3>3 DEF InitializeKeyboard, Handlers, Step, set_handler, Base, Keyboard
      <4> QED
        BY <1>1, <2>2, <4>1, Vectors DEF HandlersInv
    <3>4. CASE TimerStart
      <4>1. handlers' = [handlers EXCEPT ![32] = "tick_handler"] /\ pc' = "run" /\ pc = "timer"
        BY <3>4 DEF TimerStart, Handlers, Step, set_handler, Base, Timer
      <4> QED
        BY <1>1, <2>2, <4>1, Vectors DEF HandlersInv
    <3> QED
      BY <1>6, <3>1, <3>2, <3>3, <3>4
  <2>4. TypeOK'
    BY <1>1, <2>1, <2>3 DEF TypeOK
  <2>5. GatesInv'
    BY <1>1, <2>1, <2>3 DEF GatesInv, BeforeSti
  <2> QED
    BY <1>2, <1>3, <2>3, <2>4, <2>5 DEF BootInv
<1> QED
  BY <1>4, <1>5, <1>6 DEF Boot

(***************************************************************************)
(* The words of a stub in front of those the CPU pushed.                   *)
(***************************************************************************)
LEMMA StubOnCpuWords ==
  ASSUME NEW S, NEW a \in S, NEW b \in S, NEW c \in S, NEW d \in S, NEW t \in Seq(S)
  PROVE  /\ Len(<<a, b, c, d>> \o t) = 4 + Len(t)
         /\ (<<a, b, c, d>> \o t)[3] = c /\ (<<a, b, c, d>> \o t)[4] = d
         /\ \A i \in 1 .. Len(t) : (<<a, b, c, d>> \o t)[4 + i] = t[i]
<1>1. <<a, b, c, d>> \in Seq(S) /\ Len(<<a, b, c, d>>) = 4
      /\ <<a, b, c, d>>[3] = c /\ <<a, b, c, d>>[4] = d
  OBVIOUS
<1> DEFINE s == <<a, b, c, d>>
<1> HIDE DEF s
<1>0. s \in Seq(S)
  BY <1>1 DEF s
<1>2. Len(s) = 4 /\ s[3] = c /\ s[4] = d
  BY <1>1 DEF s
<1>3. /\ Len(s \o t) = Len(s) + Len(t)
      /\ \A i \in 1 .. Len(s) : (s \o t)[i] = s[i]
      /\ \A i \in 1 .. Len(t) : (s \o t)[Len(s) + i] = t[i]
  BY <1>0
<1>4. 3 \in 1 .. Len(s) /\ 4 \in 1 .. Len(s)
  BY <1>2
<1>5. (s \o t)[3] = c /\ (s \o t)[4] = d
  BY <1>2, <1>3, <1>4
<1> QED
  BY <1>2, <1>3, <1>5 DEF s

\* The words the processor pushes, with and without an error code.
LEMMA CpuWords ==
  ASSUME NEW S, NEW a \in S, NEW b \in S, NEW c \in S, NEW e \in S
  PROVE  /\ <<e>> \o <<a, b, c>> \in Seq(S) /\ Len(<<e>> \o <<a, b, c>>) = 4
         /\ (<<e>> \o <<a, b, c>>)[1] = e
         /\ << >> \o <<a, b, c>> \in Seq(S) /\ Len(<< >> \o <<a, b, c>>) = 3
         /\ (<< >> \o <<a, b, c>>)[1] = a /\ (<< >> \o <<a, b, c>>)[3] = c
<1> DEFINE s == <<e>>
           t == <<a, b, c>>
<1>0. s \in Seq(S) /\ t \in Seq(S)
  OBVIOUS
<1>1. Len(s) = 1 /\ s[1] = e
  OBVIOUS
<1>2. Len(t) = 3 /\ t[1] = a /\ t[3] = c
  OBVIOUS
<1>3. << >> \o t = t
  BY <1>0
<1> HIDE DEF s, t
<1>4. s \o t \in Seq(S) /\ Len(s \o t) = 4 /\ (s \o t)[1] = s[1]
  <2>1. 1 \in 1 .. Len(s) /\ Len(s) + Len(t) = 4
    BY <1>1, <1>2
  <2>2. /\ s \o t \in Seq(S) /\ Len(s \o t) = Len(s) + Len(t)
        /\ \A i \in 1 .. Len(s) : (s \o t)[i] = s[i]
    BY <1>0
  <2> QED
    BY <2>1, <2>2
<1> QED
  BY <1>0, <1>1, <1>2, <1>3, <1>4 DEF s, t

(***************************************************************************)
(* What Enter pushes: the words of the vector's stub before those of the   *)
(* CPU, with one more in between for an exception with an error code       *)
(* (common_stubs.S:1-60).                                                  *)
(***************************************************************************)
LEMMA PushedWords ==
  ASSUME NEW v \in Vector
  PROVE  LET words == Stubbed(v) \o Pushed(v)
         IN  /\ words[3] = v /\ words[4] = 0
             /\ v = 14 => Len(words) = 8 /\ words[5] = "error"
             /\ v # 14 => Len(words) = 7 /\ words[5] = "eip" /\ words[7] = flag
<1> DEFINE S == {"error", "eip", "cs", "ds", "regs", flag, v, 0}
           t == Pushed(v)
           words == <<"ds", "regs", v, 0>> \o t
<1>1. v \in ErrorCode <=> v = 14
  BY Vectors
<1>2. "error" \in S /\ "eip" \in S /\ "cs" \in S /\ "ds" \in S /\ "regs" \in S
  OBVIOUS
<1>3. v \in S /\ 0 \in S /\ flag \in S
  BY Zenon
<1> HIDE DEF S
<1>4. v = 14 => t = <<"error">> \o <<"eip", "cs", flag>>
  BY <1>1 DEF Pushed
<1>5. v # 14 => t = << >> \o <<"eip", "cs", flag>>
  BY <1>1 DEF Pushed
<1>6. /\ <<"error">> \o <<"eip", "cs", flag>> \in Seq(S) /\ Len(<<"error">> \o <<"eip", "cs", flag>>) = 4
      /\ (<<"error">> \o <<"eip", "cs", flag>>)[1] = "error"
      /\ << >> \o <<"eip", "cs", flag>> \in Seq(S) /\ Len(<< >> \o <<"eip", "cs", flag>>) = 3
      /\ (<< >> \o <<"eip", "cs", flag>>)[1] = "eip" /\ (<< >> \o <<"eip", "cs", flag>>)[3] = flag
  BY <1>2, <1>3, CpuWords
<1>7. t \in Seq(S)
  BY <1>4, <1>5, <1>6, Zenon
<1>8. v = 14 => Len(t) = 4 /\ t[1] = "error"
  BY <1>4, <1>6, Zenon
<1>9. v # 14 => Len(t) = 3 /\ t[1] = "eip" /\ t[3] = flag
  BY <1>5, <1>6, Zenon
<1> HIDE DEF t
<1>10. /\ Len(words) = 4 + Len(t)
       /\ words[3] = v /\ words[4] = 0
       /\ \A i \in 1 .. Len(t) : words[4 + i] = t[i]
  BY <1>2, <1>3, <1>7, StubOnCpuWords
<1> HIDE DEF words
<1>11. ASSUME v = 14
       PROVE  Len(words) = 8 /\ words[5] = t[1]
  <2>1. Len(t) = 4 /\ 1 \in 1 .. Len(t)
    BY <1>8, <1>11
  <2>2. words[4 + 1] = t[1]
    BY <1>10, <2>1
  <2> QED
    BY <1>10, <2>1, <2>2
<1>12. ASSUME v # 14
       PROVE  Len(words) = 7 /\ words[5] = t[1] /\ words[7] = t[3]
  <2>1. Len(t) = 3
    BY <1>9, <1>12
  <2>2. 1 \in 1 .. Len(t) /\ 3 \in 1 .. Len(t)
    BY <2>1
  <2>3. words[4 + 1] = t[1] /\ words[4 + 3] = t[3]
    BY <1>10, <2>2
  <2> QED
    BY <1>10, <2>1, <2>3
<1>13. words = Stubbed(v) \o Pushed(v)
  BY DEF words, t, Stubbed
<1> QED
  BY <1>8, <1>9, <1>10, <1>11, <1>12, <1>13, Zenon

(***************************************************************************)
(* An interrupt or an exception enters its stub, or the machine resets     *)
(* because there is no table yet (idt.cpp:21-27, pic.cpp:17).              *)
(***************************************************************************)
LEMMA EnterKeepsInv ==
  ASSUME BootInv, NEW v \in Vector, cpu = "code", Enter(v),
         v \in {32, 33} => flag /\ isr' # {},
         v \in {0, 14} => pc \in {"interrupts", "keyboard", "timer", "run"},
         irr' \subseteq Irq, isr' \subseteq Irq,
         UNCHANGED <<pc, gates, idtr, masks, handlers, unhandled>>
  PROVE  BootInv'
<1>1. /\ TypeOK /\ GatesInv /\ HandlersInv
      /\ unhandled[1] = "run" => unhandled[2] < Base
  BY DEF BootInv, DiesInKnownWays
<1>2. v \in {0, 14, 32, 33}
  BY Vectors
<1>3. HandlersInv'
  BY <1>1 DEF HandlersInv
<1>4. pc \notin {"gdt", "remap", "enable"}
  BY <1>1, <1>2 DEF GatesInv, BeforeSti
<1>5. CASE idtr /\ v \in gates
  <2>1. cpu' = "stub" /\ flag' = FALSE /\ stack' = Stubbed(v) \o Pushed(v)
    BY <1>5 DEF Enter
  <2>2. /\ stack'[3] = v /\ stack'[4] = 0
        /\ v = 14 => Len(stack') = 8 /\ stack'[5] = "error"
        /\ v # 14 => Len(stack') = 7 /\ stack'[5] = "eip" /\ stack'[7] = flag
    BY <2>1, PushedWords, Zenon
  <2>3. v # 14 => stack'[7] \in BOOLEAN
    BY <1>1, <2>2 DEF TypeOK
  <2>4. StackInv'
    BY <2>2, <2>3 DEF StackInv
  <2>5. TypeOK'
    <3>1. Len(stack') \in {7, 8} /\ int_no' \in Vector
      BY <2>2 DEF int_no
    <3> QED
      BY <1>1, <2>1, <3>1 DEF TypeOK
  <2>6. GatesInv'
    BY <1>1, <1>4 DEF GatesInv, BeforeSti
  <2> QED
    BY <1>1, <1>3, <2>1, <2>4, <2>5, <2>6 DEF BootInv, DiesInKnownWays
<1>6. CASE ~(idtr /\ v \in gates)
  <2>1. cpu' = "triple_fault" /\ flag' = flag /\ stack' = stack
    BY <1>6 DEF Enter
  <2>2. pc \in {"irqs", "isrs", "lidt"}
    <3>1. pc \in {"gdt", "remap", "enable", "irqs", "isrs", "lidt", "paging", "interrupts",
                  "keyboard", "timer", "run"}
      BY <1>1 DEF TypeOK
    <3>2. v \in 0 .. 31 \/ v \in 32 .. 47
      BY <1>2
    <3> QED
      BY <1>1, <1>4, <1>6, <3>1, <3>2 DEF GatesInv
  <2>3. isr' # {}
    BY <1>2, <2>2
  <2>4. StackInv'
    BY <2>1 DEF StackInv
  <2>5. TypeOK'
    BY <1>1, <2>1 DEF TypeOK
  <2>6. GatesInv'
    BY <1>1, <1>4, <2>1 DEF GatesInv, BeforeSti
  <2> QED
    BY <1>1, <1>3, <2>1, <2>2, <2>3, <2>4, <2>5, <2>6 DEF BootInv, DiesInKnownWays
<1> QED
  BY <1>5, <1>6

(***************************************************************************)
(* The handler is called and the stub resumes what it finds on the stack:  *)
(* the interrupted code, or the error code it takes for its address        *)
(* (interrupts.cpp:32-84, common_stubs.S:9).                               *)
(***************************************************************************)
LEMMA ReturnKeepsInv ==
  ASSUME BootInv, Return
  PROVE  BootInv'
<1> DEFINE words == SubSeq(stack, 5, Len(stack))
<1>1. /\ TypeOK /\ GatesInv /\ HandlersInv /\ StackInv
      /\ unhandled[1] = "run" => unhandled[2] < Base
  BY DEF BootInv, DiesInKnownWays
<1>2. /\ cpu = "stub" /\ GoToInterrupt /\ isr' = Acknowledged(TRUE)
      /\ words[1] = "eip" => cpu' = "code" /\ flag' = words[3]
      /\ words[1] # "eip" => cpu' = "wild" /\ flag' = flag
      /\ UNCHANGED <<pc, gates, idtr, masks, irr, handlers>>
  BY DEF Return
<1>3. /\ stack[3] \in {0, 14, 32, 33}
      /\ stack[3] = 14 => Len(stack) = 8 /\ stack[5] = "error"
      /\ stack[3] # 14 => Len(stack) = 7 /\ stack[5] = "eip" /\ stack[7] \in BOOLEAN
  BY <1>1, <1>2, Vectors DEF StackInv
<1>4. words[1] = stack[5] /\ (stack[3] # 14 => words[3] = stack[7])
  <2>1. PICK n \in {7, 8} : Len(stack) = n
    BY <1>3
  <2>2. words = [i \in 1 .. (n - 5 + 1) |-> stack[i + 5 - 1]]
    BY <2>1
  <2>3. 1 \in 1 .. (n - 5 + 1) /\ 3 \in 1 .. (n - 5 + 1)
    OBVIOUS
  <2>4. words[1] = stack[1 + 5 - 1] /\ words[3] = stack[3 + 5 - 1]
    BY <2>2, <2>3
  <2>5. 1 + 5 - 1 = 5 /\ 3 + 5 - 1 = 7
    OBVIOUS
  <2> HIDE DEF words
  <2> QED
    BY <2>4, <2>5
<1> HIDE DEF words
<1>5. HandlersInv' /\ StackInv'
  BY <1>1, <1>2 DEF HandlersInv, StackInv
<1>6. /\ cpu' \in {"code", "wild"} /\ flag' \in BOOLEAN
      /\ cpu' = "wild" => stack[3] = 14
  <2>1. CASE stack[3] = 14
    BY <1>1, <1>2, <1>3, <1>4, <2>1 DEF TypeOK
  <2>2. CASE stack[3] # 14
    BY <1>2, <1>3, <1>4, <2>2
  <2> QED
    BY <2>1, <2>2
<1>7. pc \notin {"gdt", "remap", "enable"}
  BY <1>1, <1>2 DEF GatesInv, BeforeSti
<1>8. GatesInv'
  BY <1>1, <1>2, <1>7 DEF GatesInv, BeforeSti
<1>9. isr' \subseteq Irq
  BY <1>1, <1>2 DEF Acknowledged, TypeOK
<1>10. \/ unhandled' = <<pc, stack[3]>> /\ handlers[stack[3]] = "null"
       \/ unhandled' = unhandled /\ handlers[stack[3]] \in {"KeyboardHandler", "tick_handler"}
  BY <1>2 DEF GoToInterrupt, int_no
<1>11. stack[3] = 14 => unhandled' = <<pc, stack[3]>> /\ handlers[stack[3]] = "null"
  <2>1. stack[3] = 14 => handlers[stack[3]] \in {"null", "page_fault_handler"}
    BY <1>1, Vectors DEF HandlersInv
  <2> QED
    BY <1>10, <2>1
<1>12. ASSUME unhandled' = <<pc, stack[3]>>, handlers[stack[3]] = "null", pc = "run"
       PROVE  stack[3] \in {0, 14}
  BY <1>1, <1>3, <1>12 DEF HandlersInv
<1>13. /\ unhandled'[1] = "run" => unhandled'[2] < Base
       /\ cpu' = "wild" => unhandled'[2] \in ErrorCode
  <2>1. CASE unhandled' = unhandled /\ stack[3] # 14
    BY <1>1, <1>6, <2>1
  <2>2. CASE unhandled' = <<pc, stack[3]>> /\ handlers[stack[3]] = "null"
    <3>1. unhandled'[1] = pc /\ unhandled'[2] = stack[3]
      BY <2>2
    <3>2. pc = "run" => stack[3] < 32
      BY <1>12, <2>2
    <3>3. cpu' = "wild" => stack[3] = 14
      BY <1>6
    <3> QED
      BY <3>1, <3>2, <3>3 DEF Base, ErrorCode
  <2> QED
    BY <1>10, <1>11, <2>1, <2>2
<1>14. TypeOK'
  <2>1. unhandled' \in ({"gdt", "remap", "enable", "irqs", "isrs", "lidt", "paging", "interrupts",
                         "keyboard", "timer", "run"} \cup {"none"}) \X (Vector \cup {0})
    <3>1. <<pc, stack[3]>> \in ({"gdt", "remap", "enable", "irqs", "isrs", "lidt", "paging", "interrupts",
                         "keyboard", "timer", "run"} \cup {"none"}) \X (Vector \cup {0})
      BY <1>1, <1>3, Vectors DEF TypeOK
    <3> QED
      BY <1>1, <1>10, <3>1 DEF TypeOK
  <2> QED
    BY <1>1, <1>2, <1>6, <1>9, <2>1 DEF TypeOK
<1> QED
  BY <1>5, <1>6, <1>8, <1>13, <1>14 DEF BootInv, DiesInKnownWays

(***************************************************************************)
(* Every step keeps the invariant.                                         *)
(***************************************************************************)
LEMMA BootInvStep ==
  ASSUME BootInv, [Next]_vars
  PROVE  BootInv'
<1>1. CASE Boot
  BY <1>1, BootKeepsInv
<1>2. CASE Return
  BY <1>2, ReturnKeepsInv
<1>3. ASSUME NEW irq \in Irq, Interrupt(irq)
      PROVE  BootInv'
  <2>1. /\ cpu = "code" /\ flag /\ irr' = irr \ {irq} /\ isr' = isr \cup {irq} /\ Enter(Base + irq)
        /\ UNCHANGED <<pc, gates, idtr, masks, handlers, unhandled>>
    BY <1>3 DEF Interrupt
  <2>2. irr' \subseteq Irq /\ isr' \subseteq Irq /\ isr' # {}
    BY <2>1 DEF BootInv, DiesInKnownWays, TypeOK
  <2>3. Base + irq \in Vector /\ Base + irq \in {32, 33} /\ Base + irq \notin {0, 14}
    BY Vectors
  <2> QED
    BY <2>1, <2>2, <2>3, EnterKeepsInv
<1>4. ASSUME NEW v \in Exception, Except(v)
      PROVE  BootInv'
  <2>1. /\ cpu = "code" /\ pc \in {"interrupts", "keyboard", "timer", "run"} /\ Enter(v)
        /\ UNCHANGED <<pc, gates, idtr, masks, irr, isr, handlers, unhandled>>
    BY <1>4 DEF Except
  <2>2. irr' \subseteq Irq /\ isr' \subseteq Irq
    BY <2>1 DEF BootInv, DiesInKnownWays, TypeOK
  <2>3. v \in Vector /\ v \notin {32, 33}
    BY Vectors
  <2> QED
    BY <2>1, <2>2, <2>3, EnterKeepsInv
<1>5. ASSUME NEW irq \in Irq, Raise(irq)
      PROVE  BootInv'
  <2>1. /\ irr' = irr \cup {irq}
        /\ UNCHANGED <<pc, flag, gates, idtr, masks, isr, handlers, stack, cpu, unhandled>>
    BY <1>5 DEF Raise
  <2>2. irr' \subseteq Irq
    BY <2>1 DEF BootInv, DiesInKnownWays, TypeOK
  <2>3. TypeOK'
    BY <2>1, <2>2 DEF BootInv, DiesInKnownWays, TypeOK, int_no
  <2> QED
    BY <2>1, <2>3 DEF BootInv, DiesInKnownWays, GatesInv, BeforeSti, HandlersInv, StackInv
<1>6. CASE Toggle
  <2>1. /\ cpu = "code" /\ pc = "run" /\ flag' = ~flag
        /\ UNCHANGED <<pc, gates, idtr, masks, irr, isr, handlers, stack, cpu, unhandled>>
    BY <1>6 DEF Toggle
  <2>2. TypeOK'
    BY <2>1 DEF BootInv, DiesInKnownWays, TypeOK
  <2>3. GatesInv'
    BY <2>1 DEF BootInv, GatesInv, BeforeSti
  <2> QED
    BY <2>1, <2>2, <2>3 DEF BootInv, DiesInKnownWays, HandlersInv, StackInv
<1>7. CASE Switch
  <2>1. /\ cpu = "stub" /\ isr' = Acknowledged(FALSE) /\ cpu' = "code" /\ flag' = TRUE
        /\ UNCHANGED <<pc, gates, idtr, masks, irr, handlers, unhandled>>
    BY <1>7 DEF Switch
  <2>2. isr' \subseteq Irq
    BY <2>1 DEF BootInv, DiesInKnownWays, TypeOK, Acknowledged
  <2>3. TypeOK'
    BY <2>1, <2>2 DEF BootInv, DiesInKnownWays, TypeOK
  <2>4. GatesInv'
    BY <2>1 DEF BootInv, GatesInv, BeforeSti
  <2> QED
    BY <2>1, <2>3, <2>4 DEF BootInv, DiesInKnownWays, HandlersInv, StackInv
<1>8. CASE PageFaultPanics
  <2>1. /\ cpu = "stub" /\ handlers[stack[3]] = "page_fault_handler" /\ cpu' = "panic"
        /\ UNCHANGED <<pc, flag, gates, idtr, masks, irr, isr, handlers, stack, unhandled>>
    BY <1>8 DEF PageFaultPanics, int_no
  <2>2. pc = "interrupts"
    BY <2>1 DEF BootInv, StackInv, HandlersInv
  <2>3. TypeOK'
    BY <2>1 DEF BootInv, DiesInKnownWays, TypeOK
  <2>4. GatesInv'
    BY <2>1, <2>2 DEF BootInv, GatesInv, BeforeSti
  <2> QED
    BY <2>1, <2>2, <2>3, <2>4 DEF BootInv, DiesInKnownWays, HandlersInv, StackInv
<1>9. CASE UNCHANGED vars
  <2>1. UNCHANGED <<pc, flag, gates, idtr, masks, irr, isr, handlers, stack, cpu, unhandled>>
    BY <1>9 DEF vars
  <2>2. TypeOK'
    BY <2>1 DEF BootInv, DiesInKnownWays, TypeOK, int_no
  <2> QED
    BY <2>1, <2>2 DEF BootInv, DiesInKnownWays, GatesInv, BeforeSti, HandlersInv, StackInv
<1> QED
  BY <1>1, <1>2, <1>3, <1>4, <1>5, <1>6, <1>7, <1>8, <1>9 DEF Next, Stopped

(***************************************************************************)
(* The machine dies by an interrupt before lidt, by the return from an     *)
(* exception with an error code or by an early page fault, and in no other *)
(* way; a running kernel has a handler for every request of the timer and  *)
(* the keyboard (idt.cpp:21-27, common_stubs.S:9, interrupts.cpp:32-84).   *)
(***************************************************************************)
THEOREM MachineDiesInKnownWays == Spec => []DiesInKnownWays
<1>1. BootInv => DiesInKnownWays
  BY DEF BootInv
<1> QED
  BY <1>1, BootInvInit, BootInvStep, PTL DEF Spec
===========================================================================
