------------------------------ MODULE Console -------------------------------
(***************************************************************************)
(* The way of text to the screen and of keys back to it: printf and        *)
(* putchar (libc/stdio), the terminal (arch/i386/tty.cpp) and the PS/2     *)
(* driver (drivers/ps2_keyboard.cpp).  The shell prints its prompt and     *)
(* GetString echoes what is typed, both with interrupts enabled, so that   *)
(* what prints with interrupts disabled (SYNCED_PRINTF, the logs of the    *)
(* handlers) may come between any two accesses to the terminal and between *)
(* any two iterations of the loops that convert a number and measure it.   *)
(*                                                                         *)
(* Characters are ASCII codes.  todo is what is left of the shell's call:  *)
(* a call of putchar or of a function of printf is replaced by its steps   *)
(* when it begins.                                                         *)
(***************************************************************************)
EXTENDS Naturals, Sequences, SequencesExt

CONSTANTS
    VGA_WIDTH, VGA_HEIGHT,
    SizeT,        \* the values of a size_t
    MaxStrSize,   \* of the buffer of _convert_to_base
    Prompts,      \* what the shell prints: characters, colours, one number at most
    Codes,        \* scan codes
    Numbers,      \* that are printed with interrupts disabled
    MaxLen        \* of the string GetString reads

Byte == 0 .. 255

ASSUME ConsoleAssumption ==
    /\ VGA_WIDTH \in Nat \ {0} /\ VGA_HEIGHT \in Nat \ {0}
    /\ SizeT \in Nat /\ SizeT > VGA_WIDTH * VGA_HEIGHT + VGA_WIDTH
    /\ MaxStrSize \in Nat /\ MaxStrSize > 1 /\ MaxLen \in Nat \ {0}
    /\ Codes \subseteq Nat /\ Numbers \subseteq Nat
    /\ Prompts \subseteq Seq([means : {"char"}, arg : Byte] \cup [means : {"color"}, arg : Byte]
                               \cup [means : {"number"}, arg : Nat])

NUL == 0
BS == 8
NL == 10
DOLLAR == 36
PERCENT == 37
AMPERSAND == 38
LOWER_D == 100
BLACK == 0
WHITE == 15

\* fg | bg << 4 in a byte, of colours below 16.
VgaEntryColor(fg, bg) == (fg + 16 * bg) % 256

Screen == 0 .. VGA_WIDTH * VGA_HEIGHT - 1

VARIABLES
    tty,     \* terminal_row, terminal_column, terminal_color, terminal_buffer,
             \* and history: indices that were written outside the screen
    buf,     \* the static buffer of _convert_to_base
    todo,    \* the rest of the shell's call
    phase,   \* whether the shell prints or reads
    typed,   \* history: scan codes of the string so far; its length is GetString's i
    prompt,  \* the prompt printed last
    out,     \* history: the characters that printf passed to putchar
    events   \* history: what may spoil the output

vars == <<tty, buf, todo, phase, typed, prompt, out, events>>

NoBuf == [i \in 0 .. MaxStrSize - 1 |-> NUL]

\* Tty::Initialize.
Init ==
    /\ tty = [row |-> 0, column |-> 0, color |-> VgaEntryColor(WHITE, BLACK),
              screen |-> [i \in Screen |-> <<32, VgaEntryColor(WHITE, BLACK)>>], outside |-> {}]
    /\ buf = NoBuf /\ todo = <<>> /\ phase = "print"
    /\ typed = <<>> /\ prompt = <<>> /\ out = <<>> /\ events = {}

-----------------------------------------------------------------------------
(* tty.cpp, by accesses to its variables.                                  *)

\* The index of the cell at the cursor.
Cursor(t) == (t.row * VGA_WIDTH + t.column) % SizeT

putentryat(t, c, color) ==
    IF Cursor(t) \in Screen THEN [t EXCEPT !.screen[Cursor(t)] = <<c, color>>]
                            ELSE [t EXCEPT !.outside = @ \cup {Cursor(t)}]

SetColor(t, color) == [t EXCEPT !.color = color]

\* Clean leaves the cursor; the caller resets the row.
Clean(t) == [t EXCEPT !.screen = [i \in Screen |-> <<NUL, 0>>]]

EndOfLine(t) ==
    IF t.column = VGA_WIDTH THEN [t EXCEPT !.column = 0, !.row = (@ + 1) % SizeT] ELSE t

\* Mutant of EndOfScreen: the row is compared with the last row's successor.
LateEndOfScreen(t) == IF t.row = VGA_HEIGHT + 1 THEN [Clean(t) EXCEPT !.row = 0] ELSE t

EndOfScreen(t) == IF t.row = VGA_HEIGHT THEN [Clean(t) EXCEPT !.row = 0] ELSE t

Access(step, c) == [step |-> step, arg |-> c]

Putchar(c) ==
    (CASE c = NL -> <<Access("home", c), Access("down", c)>>
       [] c = BS -> <<Access("left", c), Access("blank", c)>>
       [] OTHER  -> <<Access("put", c), Access("right", c)>>)
    \o <<Access("end_of_line", c), Access("end_of_screen", c)>>

Accessed(t, a) ==
    CASE a.step = "home"          -> [t EXCEPT !.column = 0]
      [] a.step = "down"          -> [t EXCEPT !.row = (@ + 1) % SizeT]
      [] a.step = "left"          -> [t EXCEPT !.column = (@ + SizeT - 1) % SizeT]
      [] a.step = "blank"         -> putentryat(t, NUL, VgaEntryColor(BLACK, BLACK))
      [] a.step = "put"           -> putentryat(t, a.arg, t.color)
      [] a.step = "right"         -> [t EXCEPT !.column = (@ + 1) % SizeT]
      [] a.step = "end_of_line"   -> EndOfLine(t)
      [] a.step = "end_of_screen" -> EndOfScreen(t)

TtySteps == {"home", "down", "left", "blank", "put", "right", "end_of_line", "end_of_screen"}

\* Tty::Putchar and Tty::Write when nothing comes in between.
PutcharAtOnce(t, c) ==
    LET a == Putchar(c) IN Accessed(Accessed(Accessed(Accessed(t, a[1]), a[2]), a[3]), a[4])

Write(t, s) ==
    LET after[i \in 0 .. Len(s)] == IF i = 0 THEN t ELSE PutcharAtOnce(after[i - 1], s[i])
    IN  after[Len(s)]

-----------------------------------------------------------------------------
(* printf.cpp.                                                             *)

representation(d) == IF d < 10 THEN 48 + d ELSE 87 + d

\* The digits of a number; do ... while gives one to zero.
Digits(value, base) ==
    LET digits[v \in 0 .. value] ==
            (IF v \div base = 0 THEN <<>> ELSE digits[v \div base]) \o <<representation(v % base)>>
    IN  digits[value]

\* The buffer when nothing comes in between: the digits in front of its last byte.
convert_to_base(value, base) ==
    LET s == Digits(value, base)
        end == MaxStrSize - 1 - Len(s)
    IN  [i \in DOMAIN NoBuf |-> IF i \in end .. MaxStrSize - 2 THEN s[i - end + 1] ELSE NUL]

Call(step, arg) == <<[step |-> step, arg |-> arg]>>

\* What the caller means: characters, numbers and colours on black.
FormatOf(p) ==
    FlattenSeq([i \in 1 .. Len(p) |->
        CASE p[i].means = "char"   -> <<p[i].arg>>
          [] p[i].means = "number" -> <<PERCENT, LOWER_D>>
          [] p[i].means = "color"  -> <<DOLLAR, AMPERSAND, p[i].arg, NUL>>]) \o <<NUL>>

\* The calls that printf's loop makes from place i of a format on that ends with
\* NUL; n is the argument.  %d is the only conversion of what the shell prints with
\* interrupts enabled (kernel.cpp:66-86).  %x, %o, %b and %p, which convert to other
\* bases in the same buffer, %c and %s are left out: FormatAssumption keeps '%' out
\* of the characters, so that none of them gets here.

\* Mutant of Printf: a colour escape is taken to be of three characters.
ShortEscape(f, n) ==
    LET from[i \in 1 .. Len(f)] ==
            CASE f[i] = NUL -> <<>>
              [] f[i] = PERCENT /\ f[i + 1] = LOWER_D -> Call("number", n) \o from[i + 2]
              [] f[i] = DOLLAR /\ f[i + 1] = AMPERSAND -> Call("color", f[i + 2]) \o from[i + 3]
              [] OTHER -> Call("putchar", f[i]) \o from[i + 1]
    IN  from[1]

Printf(f, n) ==
    LET from[i \in 1 .. Len(f)] ==
            CASE f[i] = NUL -> <<>>
              [] f[i] = PERCENT ->
                    (CASE f[i + 1] = NUL -> <<>>
                       [] f[i + 1] = LOWER_D -> Call("number", n) \o from[i + 2]
                       [] OTHER -> Call("putchar", PERCENT) \o Call("putchar", f[i + 1]) \o from[i + 2])
              [] f[i] = DOLLAR ->
                    IF f[i + 1] = AMPERSAND
                      THEN Call("color", VgaEntryColor(f[i + 2], f[i + 3])) \o from[i + 4]
                      ELSE Call("putchar", DOLLAR) \o Call("putchar", f[i + 1]) \o from[i + 2]
              [] OTHER -> Call("putchar", f[i]) \o from[i + 1]
    IN  from[1]

TextOf(p) ==
    FlattenSeq([i \in 1 .. Len(p) |->
        CASE p[i].means = "char"   -> <<p[i].arg>>
          [] p[i].means = "number" -> Digits(p[i].arg, 10)
          [] p[i].means = "color"  -> <<>>])

ArgOf(p) == LET i == SelectInSeq(p, LAMBDA t : t.means = "number")
            IN  IF i = 0 THEN 0 ELSE p[i].arg

\* No escape is cut off by the end of its format, the characters begin none and
\* do not end it, there is one number, and a number has room in the buffer.
ASSUME FormatAssumption ==
    /\ \A p \in Prompts : \A i \in DOMAIN p :
          /\ p[i].means = "char" => p[i].arg \notin {NUL, PERCENT, DOLLAR}
          /\ p[i].means = "number" => p[i].arg = ArgOf(p)
    /\ \A p \in Prompts : \A i \in DOMAIN FormatOf(p) :
          FormatOf(p)[i] = DOLLAR => i + 4 <= Len(FormatOf(p))
    /\ \A n \in Numbers \cup {ArgOf(p) : p \in Prompts} : Len(Digits(n, 10)) < MaxStrSize

-----------------------------------------------------------------------------
(* ps2_keyboard.cpp.                                                       *)

\* The values of keys, by scan code.
keys == <<96, 49, 50, 51, 52, 53, 54, 55, 56, 57, 48, 45, 43, NUL, NUL,
          81, 87, 69, 82, 84, 89, 85, 73, 79, 80, 91, 93, NUL, NUL,
          65, 83, 68, 70, 71, 72, 74, 75, 76, 59, 39, 96, NUL, 92,
          90, 88, 67, 86, 66, 78, 77, 44, 46, 47, NUL, 42, NUL, 32, NUL,
          49, 50, 51, 52, 53, 54, 55, 56, 57, 48, 45>>
Backspace == 14
Enter == 28

\* Mutant of KeyboardSource: codes are counted from 0.
FromZero(code) ==
    CASE code = Enter - 1 -> NL [] code = Backspace - 1 -> BS [] OTHER -> keys[code + 1]

KeyboardSource(code) ==
    CASE code = Enter -> NL [] code = Backspace -> BS [] OTHER -> keys[code]

\* Otherwise it reports an error and the handler drops the key.
Accepted(code) == code > 0 /\ code < Len(keys)

-----------------------------------------------------------------------------

\* Behind the screen is other memory; what is written there is not followed.
Sane == tty.outside = {}

PrintPrompt(p) ==
    /\ Sane /\ phase = "print" /\ todo = <<>>
    /\ todo' = Printf(FormatOf(p), ArgOf(p))
    /\ prompt' = p /\ out' = <<>> /\ typed' = <<>> /\ phase' = "read"
    /\ events' = events \cap {"torn", "erased_at_home"}
    /\ UNCHANGED <<tty, buf>>

\* One iteration of GetString.
Key(code) ==
    /\ Sane /\ phase = "read" /\ todo = <<>> /\ Accepted(code)
    /\ LET c == KeyboardSource(code)
       IN  \/ /\ c = NL
              /\ todo' = Putchar(c) /\ phase' = "print" /\ UNCHANGED typed
           \/ /\ c = BS /\ typed # <<>>
              /\ todo' = Putchar(c) /\ typed' = Front(typed) /\ UNCHANGED phase
           \/ /\ c \notin {NL, BS}
              /\ todo' = Putchar(c) /\ typed' = Append(typed, code)
              /\ phase' = IF Len(typed') < MaxLen THEN "read" ELSE "print"
    /\ UNCHANGED <<tty, buf, prompt, out, events>>

\* A call begins, or does one iteration of its loop.  memset is one step: what a
\* print within it leaves is in front of the digits, where nobody reads.
\* print_s takes the digits from the buffer one at a time.
Begin ==
    /\ Sane /\ todo # <<>> /\ Head(todo).step \notin TtySteps
    /\ LET call == Head(todo)
           Goes(steps) == todo' = steps \o Tail(todo)
       IN  \/ /\ call.step = "putchar"
              /\ Goes(Putchar(call.arg)) /\ out' = Append(out, call.arg)
              /\ UNCHANGED <<tty, buf>>
           \/ /\ call.step = "number"
              /\ buf' = NoBuf /\ Goes(Call("convert", <<call.arg, MaxStrSize - 1>>))
              /\ UNCHANGED <<tty, out>>
           \/ /\ call.step = "convert"
              /\ LET value == call.arg[1]
                     end == call.arg[2] - 1
                 IN  /\ buf' = [buf EXCEPT ![end] = representation(value % 10)]
                     /\ Goes(IF value \div 10 # 0 THEN Call("convert", <<value \div 10, end>>)
                                                   ELSE Call("strlen", <<end, 0>>))
              /\ UNCHANGED <<tty, out>>
           \/ /\ call.step = "strlen"
              /\ LET begin == call.arg[1]
                     len == call.arg[2]
                 IN  Goes(IF buf[begin + len] # NUL
                            THEN Call("strlen", <<begin, len + 1>>)
                            ELSE [i \in 1 .. len |-> [step |-> "digit", arg |-> begin + i - 1]])
              /\ UNCHANGED <<tty, buf, out>>
           \/ /\ call.step = "digit"
              /\ Goes(Putchar(buf[call.arg])) /\ out' = Append(out, buf[call.arg])
              /\ UNCHANGED <<tty, buf>>
           \/ /\ call.step = "color"
              /\ tty' = SetColor(tty, call.arg) /\ todo' = Tail(todo)
              /\ UNCHANGED <<buf, out>>
    /\ UNCHANGED <<phase, typed, prompt, events>>

TtyStep ==
    /\ Sane /\ todo # <<>> /\ Head(todo).step \in TtySteps
    /\ tty' = Accessed(tty, Head(todo)) /\ todo' = Tail(todo)
    /\ events' = events
          \cup (IF Head(todo).step = "left" /\ Cursor(tty) = 0
                  THEN {"erased_at_home"} ELSE {})
          \cup (IF Head(todo).step = "end_of_screen" /\ tty.row = VGA_HEIGHT THEN {"cleaned"} ELSE {})
    /\ UNCHANGED <<buf, phase, typed, prompt, out>>

\* A number is in the buffer, in part or as a whole.
InNumber == \E i \in 1 .. Len(todo) : todo[i].step \in {"convert", "strlen", "digit"}

\* A line with a number is printed with interrupts disabled.
Interrupt(n) ==
    /\ Sane
    /\ buf' = convert_to_base(n, 10)
    /\ tty' = Write(tty, Digits(n, 10) \o <<NL>>)
    /\ events' = events \cup {"interrupted"}
          \cup (IF todo # <<>> /\ Head(todo).step \in TtySteps THEN {"torn"} ELSE {})
          \cup (IF InNumber THEN {"mixed"} ELSE {})
    /\ UNCHANGED <<todo, phase, typed, prompt, out>>

Next ==
    \/ \E p \in Prompts : PrintPrompt(p)
    \/ \E code \in Codes : Key(code)
    \/ Begin \/ TtyStep
    \/ \E n \in Numbers : Interrupt(n)

Spec == Init /\ [][Next]_vars

-----------------------------------------------------------------------------

\* The variables have values of their types.
TypeOK ==
    /\ tty.row \in 0 .. SizeT - 1 /\ tty.column \in 0 .. SizeT - 1 /\ tty.color \in Byte
    /\ \A i \in Screen : tty.screen[i] \in Byte \X Byte
    /\ DOMAIN buf = DOMAIN NoBuf /\ buf[MaxStrSize - 1] = NUL
    /\ phase \in {"print", "read"} /\ Len(typed) <= MaxLen
    /\ \A i \in 1 .. Len(out) : out[i] \in Byte
    /\ events \subseteq {"torn", "mixed", "interrupted", "cleaned", "erased_at_home"}

(***************************************************************************)
(* Nothing is written outside the screen, unless another print came inside *)
(* of Putchar, whose comparisons are for equality, or a backspace was      *)
(* echoed in the first cell, where a cleaned screen puts the cursor        *)
(* (tty.cpp:47-81, kio.cpp:35-40).  Besides, all variables have values of  *)
(* their types.                                                            *)
(***************************************************************************)
InsideScreen == TypeOK /\ (Sane \/ "torn" \in events \/ "erased_at_home" \in events)

(***************************************************************************)
(* The keys typed so far, as they are in the table, are the characters     *)
(* right before the cursor, also when the string goes over several rows    *)
(* and back: then the column is below zero and its unsigned value still    *)
(* leads to the right cell.  Until another print or the end of the screen  *)
(* (tty.cpp:58-74, ps2_keyboard.cpp:113-136, kio.cpp:22-51).               *)
(***************************************************************************)
TypedTextIsOnScreen ==
    phase = "read" /\ todo = <<>> /\ events = {} =>
        \A k \in 1 .. Len(typed) :
            tty.screen[(Cursor(tty) + SizeT - k) % SizeT][1] = keys[typed[Len(typed) - k + 1]]

(***************************************************************************)
(* printf passes to putchar the text that its format means, colour escapes *)
(* with their zero byte left out, unless another number was printed while  *)
(* its digits were in the static buffer (printf.cpp:25-41, 64-180).        *)
(***************************************************************************)
PrintsItsText ==
    phase = "read" /\ todo = <<>> /\ "mixed" \notin events => out = TextOf(prompt)
=============================================================================
