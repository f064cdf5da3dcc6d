--------------------------- MODULE ConsoleProofs ---------------------------
(***************************************************************************)
(* Proofs about Console, for every size of the screen, of a size_t and of  *)
(* the static buffer, every set of prompts, numbers and scan codes and     *)
(* every length of a line: nothing is written outside the screen, what is  *)
(* typed stands before the cursor and printf prints the text it is given,  *)
(* except in the cases the properties name.                                *)
(***************************************************************************)
EXTENDS Console, Integers, SequenceTheorems, WellFoundedInduction, TLAPS

USE DEF NUL, BS, NL, DOLLAR, PERCENT, AMPERSAND, LOWER_D, BLACK, WHITE

\* Every set of naturals has a least element.
LEMMA LeastExists ==
  ASSUME NEW T \in SUBSET Nat, T # {}
  PROVE  \E m \in T : \A n \in T : m <= n
<1>1. IsWellFoundedOn(OpToRel(<, Nat), Nat)
  BY NatLessThanWellFounded
<1>2. PICK m \in T : \A n \in T : ~(<<n, m>> \in OpToRel(<, Nat))
  BY <1>1, WFMin
<1>3. \A n \in T : ~(n < m)
  BY <1>2 DEF OpToRel
<1> QED
  BY <1>3

-----------------------------------------------------------------------------
(* The screen.                                                             *)

\* The cells of the screen are far fewer than the values of a size_t.
LEMMA Geometry ==
  /\ VGA_WIDTH \in Nat /\ VGA_WIDTH > 0 /\ VGA_HEIGHT \in Nat /\ VGA_HEIGHT > 0
  /\ VGA_WIDTH * VGA_HEIGHT \in Nat /\ SizeT \in Nat
  /\ SizeT > VGA_WIDTH * VGA_HEIGHT + VGA_WIDTH
BY ConsoleAssumption

\* Where the rows of the screen begin.
LEMMA RowBegins ==
  ASSUME NEW r \in 0 .. VGA_HEIGHT
  PROVE  /\ r * VGA_WIDTH \in Nat /\ (r + 1) * VGA_WIDTH = r * VGA_WIDTH + VGA_WIDTH
         /\ r < VGA_HEIGHT => r * VGA_WIDTH + VGA_WIDTH <= VGA_WIDTH * VGA_HEIGHT
         /\ r = VGA_HEIGHT => r * VGA_WIDTH = VGA_WIDTH * VGA_HEIGHT
         /\ r = 0 => r * VGA_WIDTH = 0
<1>1. r * VGA_WIDTH \in Nat /\ (r + 1) * VGA_WIDTH = r * VGA_WIDTH + VGA_WIDTH
  BY Geometry
<1>2. ASSUME r < VGA_HEIGHT PROVE r * VGA_WIDTH + VGA_WIDTH <= VGA_WIDTH * VGA_HEIGHT
  <2>1. PICK d \in Nat : VGA_HEIGHT = r + 1 + d
    <3>1. VGA_HEIGHT - r - 1 \in Nat /\ VGA_HEIGHT = r + 1 + (VGA_HEIGHT - r - 1)
      BY <1>2, Geometry
    <3> QED
      BY <3>1
  <2>2. VGA_WIDTH * VGA_HEIGHT = r * VGA_WIDTH + VGA_WIDTH + d * VGA_WIDTH
    BY <2>1, Geometry
  <2>3. d * VGA_WIDTH \in Nat
    BY Geometry
  <2> QED
    BY <1>1, <2>2, <2>3, Geometry
<1>3. r = VGA_HEIGHT => r * VGA_WIDTH = VGA_WIDTH * VGA_HEIGHT
  BY Geometry
<1>4. r = 0 => r * VGA_WIDTH = 0
  BY Geometry
<1> QED
  BY <1>1, <1>2, <1>3, <1>4

\* What does not overflow is not changed by % SizeT, nor is what wraps twice.
LEMMA Wrapped ==
  ASSUME NEW x \in Nat, x < SizeT
  PROVE  x % SizeT = x /\ (x + SizeT) % SizeT = x
<1>1. SizeT \in Nat /\ SizeT > 0
  BY Geometry
<1>2. x % SizeT = x
  BY <1>1
<1> DEFINE y == (x + SizeT) % SizeT
           q == (x + SizeT) \div SizeT
<1>3. y \in Nat /\ y < SizeT /\ q \in Nat /\ x + SizeT = SizeT * q + y
  BY <1>1
<1> HIDE DEF y, q
<1>4. CASE q = 0
  BY <1>1, <1>3, <1>4
<1>5. CASE q = 1
  BY <1>1, <1>3, <1>5
<1>6. CASE q >= 2
  <2>1. PICK d \in Nat : q = 2 + d
    <3>1. q - 2 \in Nat /\ q = 2 + (q - 2)
      BY <1>3, <1>6
    <3> QED
      BY <3>1
  <2>2. SizeT * q = SizeT + SizeT + SizeT * d /\ SizeT * d \in Nat
    BY <1>1, <2>1
  <2> QED
    BY <1>1, <1>3, <2>2
<1> QED
  BY <1>2, <1>3, <1>4, <1>5, <1>6 DEF y

-----------------------------------------------------------------------------
(* Accesses to the terminal.                                               *)

Terminal ==
  [row : 0 .. SizeT - 1, column : 0 .. SizeT - 1, color : Byte,
   screen : [Screen -> Byte \X Byte], outside : SUBSET Nat]

Accesses == [step : TtySteps, arg : Byte]

\* Colours are bytes.
LEMMA ColorIsByte ==
  ASSUME NEW fg \in Nat, NEW bg \in Nat
  PROVE  VgaEntryColor(fg, bg) \in Byte
BY DEF VgaEntryColor, Byte

\* A cell of the screen is written.
LEMMA PutEntryInside ==
  ASSUME NEW t, NEW c, NEW color, Cursor(t) \in Screen
  PROVE  putentryat(t, c, color)
           = [t EXCEPT !.screen = [t.screen EXCEPT ![Cursor(t)] = <<c, color>>]]
BY DEF putentryat

\* A cell is written, or something behind the screen is.
LEMMA PutEntryType ==
  ASSUME NEW t \in Terminal, NEW c \in Byte, NEW color \in Byte
  PROVE  putentryat(t, c, color) \in Terminal
<1>1. Cursor(t) \in Nat
  <2>1. PICK r \in Nat, k \in Nat : r = t.row /\ k = t.column
    BY DEF Terminal
  <2>2. r * VGA_WIDTH + k \in Nat
    BY Geometry
  <2> QED
    BY <2>1, <2>2, Geometry DEF Cursor
<1>2. CASE Cursor(t) \in Screen
  <2>1. [t.screen EXCEPT ![Cursor(t)] = <<c, color>>] \in [Screen -> Byte \X Byte]
    BY <1>2 DEF Terminal
  <2>2. putentryat(t, c, color) = [t EXCEPT !.screen = [t.screen EXCEPT ![Cursor(t)] = <<c, color>>]]
    BY <1>2, PutEntryInside
  <2> QED
    BY <2>1, <2>2 DEF Terminal
<1>3. CASE Cursor(t) \notin Screen
  <2>1. putentryat(t, c, color) = [t EXCEPT !.outside = t.outside \cup {Cursor(t)}]
    BY <1>3 DEF putentryat
  <2> QED
    BY <1>1, <2>1 DEF Terminal
<1> QED
  BY <1>2, <1>3

\* Every access leaves a terminal.
LEMMA AccessedType ==
  ASSUME NEW t \in Terminal, NEW a \in Accesses
  PROVE  Accessed(t, a) \in Terminal
<1>1. t.row \in Nat /\ t.column \in Nat /\ t.color \in Byte /\ a.arg \in Byte /\ NUL \in Byte
  BY DEF Terminal, Accesses, Byte
<1>2. /\ (t.row + 1) % SizeT \in 0 .. SizeT - 1 /\ (t.column + 1) % SizeT \in 0 .. SizeT - 1
      /\ (t.column + SizeT - 1) % SizeT \in 0 .. SizeT - 1 /\ 0 \in 0 .. SizeT - 1
  <2>1. t.row + 1 \in Nat /\ t.column + 1 \in Nat /\ t.column + SizeT - 1 \in Nat
        /\ SizeT \in Nat /\ SizeT > 0
    BY <1>1, Geometry
  <2> QED
    BY <2>1
<1>3. VgaEntryColor(BLACK, BLACK) \in Byte
  BY ColorIsByte
<1>4. [i \in Screen |-> <<NUL, 0>>] \in [Screen -> Byte \X Byte]
  BY DEF Byte
<1>5. CASE a.step = "home"
  BY <1>2, <1>5 DEF Accessed, Terminal
<1>6. CASE a.step = "down"
  BY <1>2, <1>6 DEF Accessed, Terminal
<1>7. CASE a.step = "left"
  BY <1>2, <1>7 DEF Accessed, Terminal
<1>8. CASE a.step = "blank"
  BY <1>1, <1>3, <1>8, PutEntryType DEF Accessed
<1>9. CASE a.step = "put"
  BY <1>1, <1>9, PutEntryType DEF Accessed
<1>10. CASE a.step = "right"
  BY <1>2, <1>10 DEF Accessed, Terminal
<1>11. CASE a.step = "end_of_line"
  <2>1. Accessed(t, a) = IF t.column = VGA_WIDTH
                           THEN [t EXCEPT !.column = 0, !.row = (t.row + 1) % SizeT] ELSE t
    BY <1>11 DEF Accessed, EndOfLine
  <2> QED
    BY <1>2, <2>1 DEF Terminal
<1>12. CASE a.step = "end_of_screen"
  BY <1>2, <1>4, <1>12 DEF Accessed, EndOfScreen, Clean, Terminal
<1> QED
  BY <1>5, <1>6, <1>7, <1>8, <1>9, <1>10, <1>11, <1>12 DEF Accesses, TtySteps

\* The column may be below zero: a backspace at the beginning of a row.
At(t, r, k) == t.row = r /\ t.column = IF k >= 0 THEN k ELSE SizeT + k

(***************************************************************************)
(* The cursor before an access s: on the screen, but behind the end of its *)
(* row or of the last one while Putchar has not compared it yet.           *)
(***************************************************************************)
Inside(r, k, s) ==
  /\ r * VGA_WIDTH + k >= 0 /\ k <= VGA_WIDTH
  /\ r = VGA_HEIGHT => k = 0 /\ s \in {"end_of_line", "end_of_screen"}
  /\ k = VGA_WIDTH => s = "end_of_line"
  /\ s = "down" => k = 0

\* The column is more than a row's width from an overflow.
LEMMA ColumnBounds ==
  ASSUME NEW r \in 0 .. VGA_HEIGHT, NEW k \in Int, NEW s, Inside(r, k, s)
  PROVE  /\ k + SizeT > VGA_WIDTH /\ k + 1 < SizeT /\ r + 1 < SizeT
         /\ r < VGA_HEIGHT /\ k < VGA_WIDTH => r * VGA_WIDTH + k \in Screen
<1>1. PICK m \in Nat : m = r * VGA_WIDTH
  BY RowBegins
<1>2. m + k >= 0 /\ k <= VGA_WIDTH /\ m <= VGA_WIDTH * VGA_HEIGHT
      /\ (r = VGA_HEIGHT => k = 0)
      /\ (r < VGA_HEIGHT => m + VGA_WIDTH <= VGA_WIDTH * VGA_HEIGHT)
  BY <1>1, RowBegins, Geometry DEF Inside
<1>3. VGA_HEIGHT <= VGA_WIDTH * VGA_HEIGHT /\ VGA_WIDTH <= VGA_WIDTH * VGA_HEIGHT
  <2>1. /\ \A x, y \in Nat : x > 0 => y <= x * y
        /\ \A x, y \in Nat : y > 0 => x <= x * y
    OBVIOUS
  <2> QED
    BY <2>1, Geometry
<1>4. k + SizeT > VGA_WIDTH /\ k + 1 < SizeT /\ r + 1 < SizeT
  BY <1>2, <1>3, Geometry
<1>5. r < VGA_HEIGHT /\ k < VGA_WIDTH => m + k \in Screen
  BY <1>2, Geometry DEF Screen
<1> QED
  BY <1>1, <1>4, <1>5

\* The cell at the cursor, also when the column is below zero.
LEMMA CursorAt ==
  ASSUME NEW t \in Terminal, NEW r \in 0 .. VGA_HEIGHT, NEW k \in Int, NEW s,
         At(t, r, k), Inside(r, k, s)
  PROVE  Cursor(t) = r * VGA_WIDTH + k
<1>1. PICK m \in Nat : m = r * VGA_WIDTH
  BY RowBegins
<1>2. PICK p \in Nat : p = m + k /\ p < SizeT
  <2>1. m + k >= 0 /\ k <= VGA_WIDTH /\ m <= VGA_WIDTH * VGA_HEIGHT
    BY <1>1, RowBegins, Geometry DEF Inside
  <2> QED
    BY <2>1, Geometry
<1>3. t.row = r /\ t.column = IF k >= 0 THEN k ELSE SizeT + k
  BY DEF At
<1>4. t.row * VGA_WIDTH + t.column = p \/ t.row * VGA_WIDTH + t.column = p + SizeT
  BY <1>1, <1>2, <1>3, Geometry
<1> QED
  BY <1>1, <1>2, <1>4, Wrapped DEF Cursor

Starts == {"home", "left", "put"}
Calls == {"putchar", "number", "convert", "strlen", "digit", "color"}

\* The access after s; none after the last one of Putchar.
Successor(s) ==
  CASE s = "home" -> "down"
    [] s = "left" -> "blank"
    [] s = "put"  -> "right"
    [] s \in {"down", "blank", "right"} -> "end_of_line"
    [] s = "end_of_line" -> "end_of_screen"
    [] OTHER -> "none"

\* Where the text before the cursor ends when the character that is being put
\* or erased is done.
EndOfText(p, s) == IF s \in {"put", "right"} THEN p + 1 ELSE IF s = "left" THEN p - 1 ELSE p

\* What an access does to the text: a newline begins another row, and a full
\* screen is cleaned.
KeepsText(t, a, p, u, q) ==
  /\ EndOfText(q, Successor(a.step)) = EndOfText(p, a.step)
  /\ a.step \notin {"put", "blank"} => u.screen = t.screen
  /\ a.step \in {"put", "blank"} =>
        \A i \in Screen : u.screen[i][1] = IF i # p THEN t.screen[i][1]
                                           ELSE IF a.step = "put" THEN a.arg ELSE NUL

\* The accesses of Putchar, one after the other, go over the cells of the screen only.
LEMMA AccessedPlaces ==
  ASSUME NEW t \in Terminal, NEW a \in Accesses, NEW r \in 0 .. VGA_HEIGHT, NEW k \in Int,
         At(t, r, k), Inside(r, k, a.step), t.outside = {}, a.step = "left" => Cursor(t) # 0
  PROVE  \E r2 \in 0 .. VGA_HEIGHT, k2 \in Int :
            /\ At(Accessed(t, a), r2, k2) /\ Inside(r2, k2, Successor(a.step))
            /\ Accessed(t, a).outside = {}
            /\ a.step \in {"home", "down"} \/ (a.step = "end_of_screen" /\ t.row = VGA_HEIGHT)
                  \/ KeepsText(t, a, r * VGA_WIDTH + k, Accessed(t, a), r2 * VGA_WIDTH + k2)
<1> DEFINE Goal == \E r2 \in 0 .. VGA_HEIGHT, k2 \in Int :
            /\ At(Accessed(t, a), r2, k2) /\ Inside(r2, k2, Successor(a.step))
            /\ Accessed(t, a).outside = {}
            /\ a.step \in {"home", "down"} \/ (a.step = "end_of_screen" /\ t.row = VGA_HEIGHT)
                  \/ KeepsText(t, a, r * VGA_WIDTH + k, Accessed(t, a), r2 * VGA_WIDTH + k2)
<1>1. PICK m \in Nat : m = r * VGA_WIDTH
  BY RowBegins
<1>2. /\ m + k >= 0 /\ k <= VGA_WIDTH /\ r <= VGA_HEIGHT /\ r \in Nat
      /\ r = VGA_HEIGHT => k = 0 /\ a.step \in {"end_of_line", "end_of_screen"}
      /\ k = VGA_WIDTH => a.step = "end_of_line"
      /\ a.step = "down" => k = 0
  BY <1>1, Geometry DEF Inside
<1>3. k + SizeT > VGA_WIDTH /\ k + 1 < SizeT /\ r + 1 < SizeT /\ k + SizeT \in Nat
      /\ (r < VGA_HEIGHT /\ k < VGA_WIDTH => m + k \in Screen)
  BY <1>1, ColumnBounds, Geometry
<1>4. t.row = r /\ t.column = IF k >= 0 THEN k ELSE SizeT + k
  BY DEF At
<1>5. Cursor(t) = m + k
  BY <1>1, CursorAt
<1>6. t.row \in Nat /\ t.column \in Nat /\ t.screen \in [Screen -> Byte \X Byte]
  BY DEF Terminal
<1>7. CASE a.step = "home"
  <2>1. Accessed(t, a) = [t EXCEPT !.column = 0] /\ Successor(a.step) = "down"
    BY <1>7 DEF Accessed, Successor
  <2>2. At(Accessed(t, a), r, 0) /\ Accessed(t, a).outside = {}
    BY <1>4, <2>1 DEF At, Terminal
  <2>3. Inside(r, 0, "down")
    BY <1>1, <1>2, <1>7, Geometry DEF Inside
  <2> QED
    BY <1>7, <2>1, <2>2, <2>3
<1>8. CASE a.step = "down"
  <2>1. r + 1 \in 0 .. VGA_HEIGHT /\ k = 0
    BY <1>2, <1>8, Geometry
  <2>2. Accessed(t, a) = [t EXCEPT !.row = r + 1] /\ Successor(a.step) = "end_of_line"
    BY <1>2, <1>3, <1>4, <1>8, Wrapped DEF Accessed, Successor
  <2>3. At(Accessed(t, a), r + 1, 0) /\ Accessed(t, a).outside = {}
    BY <1>4, <2>1, <2>2 DEF At, Terminal
  <2>4. Inside(r + 1, 0, "end_of_line")
    BY <2>1, RowBegins, Geometry DEF Inside
  <2> QED
    BY <1>8, <2>1, <2>2, <2>3, <2>4
<1>9. CASE a.step = "left"
  <2>1. k - 1 \in Int /\ m + k >= 1 /\ r < VGA_HEIGHT /\ k < VGA_WIDTH
    BY <1>2, <1>5, <1>9, Geometry
  <2>2. PICK c \in Nat : c = IF k - 1 >= 0 THEN k - 1 ELSE SizeT + (k - 1)
    BY <1>3, Geometry
  <2>3. c < SizeT /\ (t.column + SizeT - 1 = c \/ t.column + SizeT - 1 = c + SizeT)
    BY <1>2, <1>3, <1>4, <2>1, <2>2, Geometry
  <2>4. (t.column + SizeT - 1) % SizeT = c
    BY <2>3, Wrapped
  <2>5. Accessed(t, a) = [t EXCEPT !.column = c] /\ Successor(a.step) = "blank"
    BY <1>9, <2>4 DEF Accessed, Successor
  <2>6. At(Accessed(t, a), r, k - 1) /\ Accessed(t, a).outside = {} /\ Accessed(t, a).screen = t.screen
    BY <1>4, <2>2, <2>5 DEF At, Terminal
  <2>7. Inside(r, k - 1, "blank")
    BY <1>1, <1>2, <2>1, Geometry DEF Inside
  <2>8. KeepsText(t, a, m + k, Accessed(t, a), m + (k - 1))
    BY <1>9, <2>5, <2>6 DEF KeepsText, EndOfText
  <2> QED
    BY <1>1, <2>1, <2>5, <2>6, <2>7, <2>8
<1>10. CASE a.step \in {"put", "blank"}
  <2>1. r < VGA_HEIGHT /\ k < VGA_WIDTH /\ m + k \in Screen
    BY <1>2, <1>3, <1>10, Geometry
  <2>2. PICK e : Accessed(t, a) = [t EXCEPT !.screen = [t.screen EXCEPT ![m + k] = e]]
                 /\ e[1] = IF a.step = "put" THEN a.arg ELSE NUL
    <3>1. PICK e : e = IF a.step = "put" THEN <<a.arg, t.color>>
                       ELSE <<NUL, VgaEntryColor(BLACK, BLACK)>>
      OBVIOUS
    <3>2. Accessed(t, a) = [t EXCEPT !.screen = [t.screen EXCEPT ![m + k] = e]]
      <4>1. CASE a.step = "put"
        <5>1. Accessed(t, a) = putentryat(t, a.arg, t.color)
          BY <4>1 DEF Accessed
        <5> QED
          BY <1>5, <2>1, <3>1, <4>1, <5>1, PutEntryInside
      <4>2. CASE a.step = "blank"
        <5>1. Accessed(t, a) = putentryat(t, NUL, VgaEntryColor(BLACK, BLACK))
          BY <4>2 DEF Accessed
        <5> QED
          BY <1>5, <2>1, <3>1, <4>2, <5>1, PutEntryInside
      <4> QED
        BY <1>10, <4>1, <4>2
    <3>3. e[1] = IF a.step = "put" THEN a.arg ELSE NUL
      BY <3>1
    <3> QED
      BY <3>2, <3>3
  <2>3. /\ At(Accessed(t, a), r, k) /\ Accessed(t, a).outside = {}
        /\ Accessed(t, a).screen = [t.screen EXCEPT ![m + k] = e]
    BY <1>4, <2>2 DEF At, Terminal
  <2>4. Inside(r, k, Successor(a.step))
    BY <1>1, <1>2, <1>10, <2>1, Geometry DEF Inside, Successor
  <2>5. KeepsText(t, a, m + k, Accessed(t, a), m + k)
    <3>1. EndOfText(m + k, Successor(a.step)) = EndOfText(m + k, a.step)
      BY <1>10 DEF EndOfText, Successor
    <3>2. \A i \in Screen : Accessed(t, a).screen[i][1] =
             IF i # m + k THEN t.screen[i][1] ELSE IF a.step = "put" THEN a.arg ELSE NUL
      BY <1>6, <2>2, <2>3
    <3> QED
      BY <1>10, <3>1, <3>2 DEF KeepsText
  <2> QED
    BY <1>1, <2>3, <2>4, <2>5
<1>11. CASE a.step = "right"
  <2>1. k + 1 \in Int /\ r < VGA_HEIGHT /\ k < VGA_WIDTH
    BY <1>2, <1>11, Geometry
  <2>2. PICK c \in Nat : c = IF k + 1 >= 0 THEN k + 1 ELSE SizeT + (k + 1)
    BY <1>3, Geometry
  <2>3. c < SizeT /\ (t.column + 1 = c \/ t.column + 1 = c + SizeT)
    BY <1>2, <1>3, <1>4, <2>1, <2>2, Geometry
  <2>4. (t.column + 1) % SizeT = c
    BY <2>3, Wrapped
  <2>5. Accessed(t, a) = [t EXCEPT !.column = c] /\ Successor(a.step) = "end_of_line"
    BY <1>11, <2>4 DEF Accessed, Successor
  <2>6. At(Accessed(t, a), r, k + 1) /\ Accessed(t, a).outside = {} /\ Accessed(t, a).screen = t.screen
    BY <1>4, <2>2, <2>5 DEF At, Terminal
  <2>7. Inside(r, k + 1, "end_of_line")
    BY <1>1, <1>2, <2>1, Geometry DEF Inside
  <2>8. KeepsText(t, a, m + k, Accessed(t, a), m + (k + 1))
    BY <1>11, <2>5, <2>6 DEF KeepsText, EndOfText
  <2> QED
    BY <1>1, <2>1, <2>5, <2>6, <2>7, <2>8
<1>12. CASE a.step = "end_of_line" /\ k = VGA_WIDTH
  <2>1. r + 1 \in 0 .. VGA_HEIGHT /\ t.column = VGA_WIDTH
    BY <1>2, <1>4, <1>12, Geometry
  <2>2. Accessed(t, a) = [t EXCEPT !.column = 0, !.row = r + 1] /\ Successor(a.step) = "end_of_screen"
    <3>1. r + 1 \in Nat /\ (r + 1) % SizeT = r + 1
      BY <1>2, <1>3, Wrapped
    <3>2. Accessed(t, a) = EndOfLine(t) /\ Successor(a.step) = "end_of_screen"
      BY <1>12 DEF Accessed, Successor
    <3> QED
      BY <1>4, <2>1, <3>1, <3>2 DEF EndOfLine
  <2>3. At(Accessed(t, a), r + 1, 0) /\ Accessed(t, a).outside = {} /\ Accessed(t, a).screen = t.screen
    BY <1>4, <2>1, <2>2 DEF At, Terminal
  <2>4. (r + 1) * VGA_WIDTH = m + k /\ Inside(r + 1, 0, "end_of_screen")
    <3>1. (r + 1) * VGA_WIDTH = m + VGA_WIDTH
      BY <1>1, RowBegins
    <3>2. (r + 1) * VGA_WIDTH + 0 >= 0 /\ 0 # VGA_WIDTH /\ 0 <= VGA_WIDTH
      BY <3>1, Geometry
    <3> QED
      BY <1>12, <3>1, <3>2 DEF Inside
  <2>5. KeepsText(t, a, m + k, Accessed(t, a), m + k)
    BY <1>12, <2>2, <2>3 DEF KeepsText, EndOfText
  <2>6. (r + 1) * VGA_WIDTH + 0 = m + k
    BY <1>2, <2>4
  <2> QED
    BY <1>1, <2>1, <2>2, <2>3, <2>4, <2>5, <2>6
<1>13. CASE a.step = "end_of_line" /\ k # VGA_WIDTH
  <2>1. t.column # VGA_WIDTH
    BY <1>2, <1>3, <1>4, <1>13, Geometry
  <2>2. Accessed(t, a) = t /\ Successor(a.step) = "end_of_screen"
    BY <1>13, <2>1 DEF Accessed, EndOfLine, Successor
  <2>3. Inside(r, k, "end_of_screen")
    BY <1>1, <1>2, <1>13, Geometry DEF Inside
  <2>4. KeepsText(t, a, m + k, Accessed(t, a), m + k)
    BY <1>13, <2>2 DEF KeepsText, EndOfText
  <2> QED
    BY <1>1, <2>2, <2>3, <2>4
<1>14. CASE a.step = "end_of_screen" /\ r = VGA_HEIGHT
  <2>1. Accessed(t, a) = [Clean(t) EXCEPT !.row = 0] /\ Successor(a.step) = "none"
    BY <1>4, <1>14 DEF Accessed, EndOfScreen, Successor
  <2>2. At(Accessed(t, a), 0, 0) /\ Accessed(t, a).outside = {}
    BY <1>2, <1>4, <1>14, <2>1 DEF At, Terminal, Clean
  <2>3. Inside(0, 0, "none")
    BY Geometry DEF Inside
  <2> QED
    BY <1>4, <1>14, <2>1, <2>2, <2>3, Geometry
<1>15. CASE a.step = "end_of_screen" /\ r # VGA_HEIGHT
  <2>1. Accessed(t, a) = t /\ Successor(a.step) = "none"
    BY <1>4, <1>15 DEF Accessed, EndOfScreen, Successor
  <2>2. Inside(r, k, "none")
    BY <1>1, <1>2, <1>15, Geometry DEF Inside
  <2>3. KeepsText(t, a, m + k, Accessed(t, a), m + k)
    BY <1>15, <2>1 DEF KeepsText, EndOfText
  <2> QED
    BY <1>1, <2>1, <2>2, <2>3
<1> QED
  BY <1>7, <1>8, <1>9, <1>10, <1>11, <1>12, <1>13, <1>14, <1>15 DEF Accesses, TtySteps

\* Two accesses and two more.
LEMMA TwoAndTwo ==
  ASSUME NEW x, NEW y, NEW z, NEW w
  PROVE  <<x, y>> \o <<z, w>> = <<x, y, z, w>>
<1> DEFINE S == {x, y, z, w}
<1>1. PICK s \in Seq(S), t \in Seq(S), u \in Seq(S) :
         s = <<x, y>> /\ t = <<z, w>> /\ u = <<x, y, z, w>>
  <2>1. <<x, y>> \in Seq(S)
    OBVIOUS
  <2>2. <<z, w>> \in Seq(S)
    OBVIOUS
  <2>3. <<x, y, z, w>> \in Seq(S)
    OBVIOUS
  <2> HIDE DEF S
  <2> QED
    BY <2>1, <2>2, <2>3
<1>2. /\ Len(s) = 2 /\ s[1] = x /\ s[2] = y /\ Len(t) = 2 /\ t[1] = z /\ t[2] = w
      /\ Len(u) = 4 /\ u[1] = x /\ u[2] = y /\ u[3] = z /\ u[4] = w
  BY <1>1
<1> HIDE DEF S
<1>3. PICK v \in Seq(S) : v = s \o t
  BY ConcatProperties
<1>4. Len(v) = 4 /\ \A i \in 1 .. 4 : v[i] = IF i <= 2 THEN s[i] ELSE t[i - 2]
  <2>1. Len(s \o t) = Len(s) + Len(t)
    BY ConcatProperties
  <2>2. \A i \in 1 .. Len(s) + Len(t) : (s \o t)[i] = IF i <= Len(s) THEN s[i] ELSE t[i - Len(s)]
    BY ConcatProperties
  <2> QED
    BY <1>2, <1>3, <2>1, <2>2
<1>5. v[1] = x /\ v[2] = y /\ v[3] = z /\ v[4] = w
  BY <1>2, <1>4
<1>6. \A i \in 1 .. 4 : v[i] = u[i]
  <2>1. \A i \in 1 .. 4 : i = 1 \/ i = 2 \/ i = 3 \/ i = 4
    OBVIOUS
  <2> QED
    BY <1>2, <1>5, <2>1
<1>7. v = u
  BY <1>2, <1>4, <1>6, SeqEqual
<1> QED
  BY <1>1, <1>3, <1>7

\* The accesses of one Putchar.
LEMMA PutcharSteps ==
  ASSUME NEW c \in Byte
  PROVE  /\ Putchar(c) \in Seq(Accesses) /\ Len(Putchar(c)) = 4
         /\ Putchar(c)[1].step \in Starts /\ Putchar(c)[1].arg = c
         /\ Putchar(c)[1].step = IF c = NL THEN "home" ELSE IF c = BS THEN "left" ELSE "put"
         /\ \A i \in 1 .. 3 : /\ Putchar(c)[i + 1].step = Successor(Putchar(c)[i].step)
                              /\ Putchar(c)[i + 1].step \notin Starts
                              /\ Putchar(c)[i].step # "end_of_screen"
         /\ Putchar(c)[4].step = "end_of_screen"
<1> DEFINE A(s) == [step |-> s, arg |-> c]
           P(x, y) == <<A(x), A(y), A("end_of_line"), A("end_of_screen")>>
<1>1. PICK x, y :
         /\ <<x, y>> = IF c = NL THEN <<"home", "down">> ELSE IF c = BS THEN <<"left", "blank">>
                                                             ELSE <<"put", "right">>
         /\ Putchar(c) = P(x, y)
  <2>1. CASE c = NL
    <3>1. Putchar(c) = <<A("home"), A("down")>> \o <<A("end_of_line"), A("end_of_screen")>>
      BY <2>1 DEF Putchar, Access
    <3>2. Putchar(c) = P("home", "down")
      BY <3>1, TwoAndTwo
    <3> QED
      BY <2>1, <3>2
  <2>2. CASE c = BS
    <3>1. Putchar(c) = <<A("left"), A("blank")>> \o <<A("end_of_line"), A("end_of_screen")>>
      BY <2>2 DEF Putchar, Access
    <3>2. Putchar(c) = P("left", "blank")
      BY <3>1, TwoAndTwo
    <3> QED
      BY <2>2, <3>2
  <2>3. CASE c # NL /\ c # BS
    <3>1. Putchar(c) = <<A("put"), A("right")>> \o <<A("end_of_line"), A("end_of_screen")>>
      BY <2>3 DEF Putchar, Access
    <3>2. Putchar(c) = P("put", "right")
      BY <3>1, TwoAndTwo
    <3> QED
      BY <2>3, <3>2
  <2> QED
    BY <2>1, <2>2, <2>3
<1>2. /\ x = IF c = NL THEN "home" ELSE IF c = BS THEN "left" ELSE "put"
      /\ y = IF c = NL THEN "down" ELSE IF c = BS THEN "blank" ELSE "right"
  BY <1>1
<1>3. /\ A(x) \in Accesses /\ A(y) \in Accesses /\ A("end_of_line") \in Accesses
      /\ A("end_of_screen") \in Accesses
  BY <1>2 DEF Accesses, TtySteps
<1>4. /\ Putchar(c) \in Seq(Accesses) /\ Len(Putchar(c)) = 4
      /\ Putchar(c)[1] = A(x) /\ Putchar(c)[2] = A(y)
      /\ Putchar(c)[3] = A("end_of_line") /\ Putchar(c)[4] = A("end_of_screen")
  <2> HIDE DEF A
  <2> QED
    BY <1>1, <1>3
<1>5. /\ Putchar(c)[1].step = x /\ Putchar(c)[2].step = y /\ Putchar(c)[1].arg = c
      /\ Putchar(c)[3].step = "end_of_line" /\ Putchar(c)[4].step = "end_of_screen"
  BY <1>4
<1>6. y = Successor(x) /\ Successor(y) = "end_of_line" /\ Successor("end_of_line") = "end_of_screen"
      /\ x \in Starts /\ y \notin Starts /\ x # "end_of_screen" /\ y # "end_of_screen"
  BY <1>2 DEF Successor, Starts
<1>7. \A i \in 1 .. 3 : /\ Putchar(c)[i + 1].step = Successor(Putchar(c)[i].step)
                        /\ Putchar(c)[i + 1].step \notin Starts
                        /\ Putchar(c)[i].step # "end_of_screen"
  <2>1. ASSUME NEW i \in 1 .. 3
        PROVE  /\ Putchar(c)[i + 1].step = Successor(Putchar(c)[i].step)
               /\ Putchar(c)[i + 1].step \notin Starts
               /\ Putchar(c)[i].step # "end_of_screen"
    <3>1. CASE i = 1
      BY <1>5, <1>6, <3>1
    <3>2. CASE i = 2
      BY <1>5, <1>6, <3>2 DEF Starts
    <3>3. CASE i = 3
      BY <1>5, <1>6, <3>3 DEF Starts
    <3> QED
      BY <3>1, <3>2, <3>3
  <2> QED
    BY <2>1
<1> QED
  BY <1>2, <1>4, <1>5, <1>6, <1>7

\* Nothing is under way, and the cursor is on the screen.
Resting(t) ==
  t.outside = {} /\ \E r \in 0 .. VGA_HEIGHT, k \in Int : At(t, r, k) /\ Inside(r, k, "none")

\* Between two characters the cursor is where any access but "down" may begin.
LEMMA RestingBegins ==
  ASSUME NEW r \in 0 .. VGA_HEIGHT, NEW k \in Int, NEW s \in {"none"} \cup Starts \cup Calls,
         Inside(r, k, "none")
  PROVE  Inside(r, k, s)
BY DEF Inside, Starts, Calls

\* A whole Putchar in one step, of any character but a backspace.
LEMMA PutcharRests ==
  ASSUME NEW t \in Terminal, NEW c \in Byte
  PROVE  /\ PutcharAtOnce(t, c) \in Terminal
         /\ c # BS /\ Resting(t) => Resting(PutcharAtOnce(t, c))
<1>1. PICK a \in Seq(Accesses) : a = Putchar(c)
  BY SMTT(30), PutcharSteps
<1>2. /\ a[1] \in Accesses /\ a[2] \in Accesses /\ a[3] \in Accesses /\ a[4] \in Accesses
      /\ a[1].step \in Starts /\ (c # BS => a[1].step # "left") /\ a[2].step = Successor(a[1].step)
      /\ a[3].step = Successor(a[2].step) /\ a[4].step = Successor(a[3].step)
      /\ Successor(a[4].step) = "none" /\ a[2].step # "left" /\ a[3].step # "left" /\ a[4].step # "left"
  <2>1. Len(a) = 4 /\ \A i \in 1 .. Len(a) : a[i] \in Accesses
    BY <1>1, PutcharSteps, ElementOfSeq
  <2>2. a[1] \in Accesses /\ a[2] \in Accesses /\ a[3] \in Accesses /\ a[4] \in Accesses
    BY <2>1
  <2>3. \A i \in 1 .. 3 : a[i + 1].step = Successor(a[i].step) /\ a[i + 1].step \notin Starts
    BY <1>1, PutcharSteps
  <2>4. /\ a[2].step = Successor(a[1].step) /\ a[3].step = Successor(a[2].step)
        /\ a[4].step = Successor(a[3].step)
        /\ a[2].step \notin Starts /\ a[3].step \notin Starts /\ a[4].step \notin Starts
    <3>1. 1 \in 1 .. 3 /\ 2 \in 1 .. 3 /\ 3 \in 1 .. 3 /\ 1 + 1 = 2 /\ 2 + 1 = 3 /\ 3 + 1 = 4
      OBVIOUS
    <3> QED
      BY <2>3, <3>1
  <2>5. /\ a[1].step \in Starts /\ a[4].step = "end_of_screen"
        /\ a[1].step = IF c = NL THEN "home" ELSE IF c = BS THEN "left" ELSE "put"
    BY <1>1, PutcharSteps
  <2> QED
    BY <2>2, <2>4, <2>5 DEF Starts, Successor
<1>3. PICK t1, t2, t3, t4 : /\ t1 = Accessed(t, a[1]) /\ t2 = Accessed(t1, a[2])
                            /\ t3 = Accessed(t2, a[3]) /\ t4 = Accessed(t3, a[4])
  OBVIOUS
<1>4. t1 \in Terminal /\ t2 \in Terminal /\ t3 \in Terminal /\ t4 \in Terminal
  BY <1>2, <1>3, AccessedType
<1>5. PutcharAtOnce(t, c) = t4
  BY <1>1, <1>3 DEF PutcharAtOnce
<1>6. ASSUME c # BS, Resting(t) PROVE Resting(t4)
  <2> DEFINE On(u, s) ==
        u.outside = {} /\ \E r \in 0 .. VGA_HEIGHT, k \in Int : At(u, r, k) /\ Inside(r, k, s)
  <2>1. ASSUME NEW u \in Terminal, NEW b \in Accesses, b.step # "left", On(u, b.step)
        PROVE  On(Accessed(u, b), Successor(b.step))
    <3>1. PICK r \in 0 .. VGA_HEIGHT, k \in Int : At(u, r, k) /\ Inside(r, k, b.step)
      BY <2>1
    <3>2. \E r2 \in 0 .. VGA_HEIGHT, k2 \in Int :
             /\ At(Accessed(u, b), r2, k2) /\ Inside(r2, k2, Successor(b.step))
             /\ Accessed(u, b).outside = {}
      BY <2>1, <3>1, AccessedPlaces
    <3> QED
      BY <3>2
  <2>2. On(t, a[1].step)
    BY <1>2, <1>6, RestingBegins DEF Resting
  <2> HIDE DEF On
  <2>3. On(t1, a[2].step)
    BY <1>2, <1>3, <1>6, <2>1, <2>2
  <2>4. On(t2, a[3].step)
    BY <1>2, <1>3, <1>4, <2>1, <2>3
  <2>5. On(t3, a[4].step)
    BY <1>2, <1>3, <1>4, <2>1, <2>4
  <2>6. On(t4, "none")
    BY <1>2, <1>3, <1>4, <2>1, <2>5
  <2> QED
    BY <2>6 DEF On, Resting
<1> QED
  BY <1>4, <1>5, <1>6

\* The terminal after each character of a text.
LEMMA AfterExists ==
  ASSUME NEW t, NEW s, NEW n \in Nat
  PROVE  \E g : g = [i \in 0 .. n |-> IF i = 0 THEN t ELSE PutcharAtOnce(g[i - 1], s[i])]
<1> DEFINE Of(g, m) == g = [i \in 0 .. m |-> IF i = 0 THEN t ELSE PutcharAtOnce(g[i - 1], s[i])]
           T == {m \in Nat : ~ \E g : Of(g, m)}
<1> SUFFICES ASSUME T # {} PROVE FALSE
  OBVIOUS
<1>1. PICK m \in T : \A k \in T : m <= k
  BY LeastExists
<1>2. CASE m = 0
  <2>1. PICK g : g = [i \in 0 .. 0 |-> t]
    OBVIOUS
  <2>2. Of(g, 0)
    BY <2>1
  <2> QED
    BY <1>1, <1>2, <2>2
<1>3. CASE m > 0
  <2>1. m - 1 \in Nat /\ m - 1 \notin T
    BY <1>1, <1>3
  <2>2. PICK g : Of(g, m - 1)
    BY <2>1
  <2>3. \A i \in 0 .. m - 1 : g[i] = IF i = 0 THEN t ELSE PutcharAtOnce(g[i - 1], s[i])
    BY <2>2
  <2>4. PICK h : h = [i \in 0 .. m |-> IF i = m THEN PutcharAtOnce(g[m - 1], s[m]) ELSE g[i]]
    OBVIOUS
  <2>5. DOMAIN h = 0 .. m /\ h = [i \in 0 .. m |-> h[i]]
    BY <2>4
  <2>6. \A i \in 0 .. m - 1 : h[i] = g[i]
    BY <1>1, <2>4
  <2>7. ASSUME NEW i \in 0 .. m
        PROVE  h[i] = IF i = 0 THEN t ELSE PutcharAtOnce(h[i - 1], s[i])
    <3>1. CASE i = m
      <4>1. h[i] = PutcharAtOnce(g[m - 1], s[m]) /\ m - 1 \in 0 .. m - 1
        BY <1>1, <1>3, <2>4, <3>1
      <4> QED
        BY <1>3, <2>6, <3>1, <4>1
    <3>2. CASE i # m
      <4>1. i \in 0 .. m - 1 /\ (i # 0 => i - 1 \in 0 .. m - 1)
        BY <1>1, <3>2
      <4> QED
        BY <2>3, <2>6, <4>1
    <3> QED
      BY <3>1, <3>2
  <2>8. Of(h, m)
    BY <2>5, <2>7
  <2> QED
    BY <1>1, <2>8
<1> QED
  BY <1>1, <1>2, <1>3

\* A text without backspaces leaves the cursor on the screen, and nothing is
\* written outside it.
LEMMA WriteRests ==
  ASSUME NEW t \in Terminal, NEW s \in Seq(Byte)
  PROVE  /\ Write(t, s) \in Terminal
         /\ Resting(t) /\ (\A i \in 1 .. Len(s) : s[i] # BS) => Resting(Write(t, s))
<1>1. PICK g : /\ g = [i \in 0 .. Len(s) |-> IF i = 0 THEN t ELSE PutcharAtOnce(g[i - 1], s[i])]
               /\ Write(t, s) = g[Len(s)]
  <2> DEFINE f == CHOOSE g : g = [i \in 0 .. Len(s) |-> IF i = 0 THEN t ELSE PutcharAtOnce(g[i - 1], s[i])]
  <2>1. f = [i \in 0 .. Len(s) |-> IF i = 0 THEN t ELSE PutcharAtOnce(f[i - 1], s[i])]
    BY AfterExists
  <2>2. Write(t, s) = f[Len(s)]
    BY DEF Write
  <2> QED
    BY <2>1, <2>2
<1>2. g[0] = t /\ \A i \in 1 .. Len(s) : g[i] = PutcharAtOnce(g[i - 1], s[i])
  <2>1. Len(s) \in Nat
    BY LenProperties
  <2>2. 0 \in 0 .. Len(s) /\ \A i \in 1 .. Len(s) : i \in 0 .. Len(s) /\ i # 0
    BY <2>1
  <2>3. \A i \in 0 .. Len(s) : g[i] = IF i = 0 THEN t ELSE PutcharAtOnce(g[i - 1], s[i])
    BY <1>1
  <2> QED
    BY <2>2, <2>3
<1> DEFINE Good(u) == /\ u \in Terminal
                      /\ Resting(t) /\ (\A i \in 1 .. Len(s) : s[i] # BS) => Resting(u)
           T == {m \in 0 .. Len(s) : ~ Good(g[m])}
<1>3. T = {}
  <2> SUFFICES ASSUME T # {} PROVE FALSE
    OBVIOUS
  <2>1. PICK m \in T : \A k \in T : m <= k
    <3>1. T \in SUBSET Nat
      OBVIOUS
    <3> HIDE DEF T
    <3> QED
      BY <3>1, LeastExists
  <2>2. m # 0
    BY <1>2, <2>1
  <2>3. m - 1 \in 0 .. Len(s) /\ m - 1 \notin T /\ m \in 1 .. Len(s) /\ s[m] \in Byte
    BY <2>1, <2>2
  <2>4. Good(g[m - 1])
    BY <2>3
  <2>5. g[m] = PutcharAtOnce(g[m - 1], s[m])
    BY <1>2, <2>3
  <2>6. Good(g[m])
    BY <2>3, <2>4, <2>5, PutcharRests
  <2> QED
    BY <2>1, <2>6
<1>4. Good(g[Len(s)])
  <2>1. Len(s) \in 0 .. Len(s)
    OBVIOUS
  <2> QED
    BY <1>3, <2>1
<1> QED
  BY <1>1, <1>4

-----------------------------------------------------------------------------
(* Numbers and the buffer they are converted in.                           *)

\* The last digit of v behind the digits of the rest.
WithLastDigit(g, v) ==
  (IF v \div 10 = 0 THEN <<>> ELSE g[v \div 10]) \o <<representation(v % 10)>>

\* The digits of every number up to n.
LEMMA DigitsExist ==
  ASSUME NEW n \in Nat
  PROVE  \E g : g = [v \in 0 .. n |-> WithLastDigit(g, v)]
<1> DEFINE T == {m \in Nat : ~ \E g : g = [v \in 0 .. m |-> WithLastDigit(g, v)]}
<1> SUFFICES ASSUME T # {} PROVE FALSE
  OBVIOUS
<1>1. PICK m \in T : \A k \in T : m <= k
  BY LeastExists
<1>2. PICK g : m > 0 => g = [v \in 0 .. m - 1 |-> WithLastDigit(g, v)]
  <2>1. CASE m > 0
    <3>1. m - 1 \in Nat /\ m - 1 \notin T
      BY <1>1, <2>1
    <3> QED
      BY <3>1
  <2> QED
    BY <2>1
<1>3. PICK h : h = [v \in 0 .. m |-> IF v = m THEN WithLastDigit(g, m) ELSE g[v]]
  OBVIOUS
<1>4. h = [v \in 0 .. m |-> h[v]] /\ h[m] = WithLastDigit(g, m) /\ \A v \in 0 .. m - 1 : h[v] = g[v]
  BY <1>1, <1>3
<1>5. ASSUME NEW v \in 0 .. m PROVE h[v] = WithLastDigit(h, v)
  <2>1. v \div 10 # 0 => v \div 10 \in 0 .. v - 1
    BY <1>1
  <2>2. v \div 10 # 0 => h[v \div 10] = g[v \div 10]
    <3>1. PICK w : w = v \div 10
      OBVIOUS
    <3>2. w # 0 => w \in 0 .. m - 1
      BY <1>1, <2>1, <3>1
    <3> QED
      BY <1>4, <3>1, <3>2
  <2>3. WithLastDigit(h, v) = WithLastDigit(g, v)
    BY <2>2 DEF WithLastDigit
  <2>4. CASE v = m
    BY <1>4, <2>3, <2>4
  <2>5. CASE v # m
    <3>1. v \in 0 .. m - 1 /\ m > 0
      BY <1>1, <2>5
    <3>2. g[v] = WithLastDigit(g, v)
      BY <1>2, <3>1
    <3> QED
      BY <1>4, <2>3, <3>1, <3>2
  <2> QED
    BY <2>4, <2>5
<1>6. h = [v \in 0 .. m |-> WithLastDigit(h, v)]
  BY <1>4, <1>5
<1> QED
  BY <1>1, <1>6

DigitCodes == 48 .. 57

\* A number in base 10 is written with the digits 0 to 9.
LEMMA DigitsType ==
  ASSUME NEW n \in Nat
  PROVE  Digits(n, 10) \in Seq(DigitCodes)
<1>1. PICK g : g = [v \in 0 .. n |-> WithLastDigit(g, v)] /\ Digits(n, 10) = g[n]
  <2> DEFINE f == CHOOSE g : g = [v \in 0 .. n |-> WithLastDigit(g, v)]
  <2>1. f = [v \in 0 .. n |-> WithLastDigit(f, v)]
    BY DigitsExist
  <2>2. Digits(n, 10) = f[n]
    BY DEF Digits, WithLastDigit
  <2> QED
    BY <2>1, <2>2
<1>2. \A v \in 0 .. n : g[v] = WithLastDigit(g, v)
  BY <1>1
<1> DEFINE T == {m \in 0 .. n : g[m] \notin Seq(DigitCodes)}
<1>3. T = {}
  <2> SUFFICES ASSUME T # {} PROVE FALSE
    OBVIOUS
  <2>1. PICK m \in T : \A k \in T : m <= k
    <3>1. T \in SUBSET Nat
      OBVIOUS
    <3> HIDE DEF T
    <3> QED
      BY <3>1, LeastExists
  <2>2. PICK front : front = IF m \div 10 = 0 THEN <<>> ELSE g[m \div 10]
    OBVIOUS
  <2>3. front \in Seq(DigitCodes)
    <3>1. CASE m \div 10 = 0
      BY <2>2, <3>1
    <3>2. CASE m \div 10 # 0
      <4>1. m \div 10 \in 0 .. n /\ m \div 10 < m
        BY <3>2
      <4>2. m \div 10 \notin T
        BY <2>1, <4>1
      <4> QED
        BY <2>2, <3>2, <4>1, <4>2
    <3> QED
      BY <3>1, <3>2
  <2>4. representation(m % 10) \in DigitCodes
    BY DEF representation, DigitCodes
  <2>5. front \o <<representation(m % 10)>> \in Seq(DigitCodes)
    BY <2>3, <2>4, ConcatProperties
  <2> QED
    BY <1>2, <2>2, <2>5 DEF WithLastDigit
<1> QED
  BY <1>1, <1>3

\* Wherever the digits are computed up to, those of the smaller numbers are the same.
LEMMA DigitsUnique ==
  ASSUME NEW n \in Nat, NEW m \in Nat, m <= n,
         NEW g, g = [v \in 0 .. n |-> WithLastDigit(g, v)],
         NEW h, h = [v \in 0 .. m |-> WithLastDigit(h, v)]
  PROVE  g[m] = h[m]
<1> DEFINE T == {v \in 0 .. m : g[v] # h[v]}
<1> SUFFICES ASSUME g[m] # h[m] PROVE FALSE
  OBVIOUS
<1>1. PICK v \in T : \A w \in T : v <= w
  <2>1. T \in SUBSET Nat /\ T # {}
    <3>1. m \in T
      OBVIOUS
    <3> QED
      BY <3>1
  <2> HIDE DEF T
  <2> QED
    BY <2>1, LeastExists
<1>2. v \in 0 .. m /\ v \in 0 .. n
  BY <1>1
<1>3. g[v] = WithLastDigit(g, v) /\ h[v] = WithLastDigit(h, v)
  BY <1>2
<1>4. PICK w : w = v \div 10
  OBVIOUS
<1>5. w # 0 => w \in 0 .. m /\ w < v
  BY <1>2, <1>4
<1>6. w # 0 => g[w] = h[w]
  BY SMTT(30), <1>1, <1>2, <1>5
<1>7. g[v] = h[v]
  BY <1>3, <1>4, <1>6 DEF WithLastDigit
<1> QED
  BY <1>1, <1>7

\* The digits of a number are those of the number without its last one, and that one.
LEMMA DigitsStep ==
  ASSUME NEW n \in Nat
  PROVE  Digits(n, 10)
           = (IF n \div 10 = 0 THEN <<>> ELSE Digits(n \div 10, 10)) \o <<representation(n % 10)>>
<1>1. \A k \in Nat : \E g : g = [v \in 0 .. k |-> WithLastDigit(g, v)] /\ Digits(k, 10) = g[k]
  <2>1. ASSUME NEW k \in Nat
        PROVE  \E g : g = [v \in 0 .. k |-> WithLastDigit(g, v)] /\ Digits(k, 10) = g[k]
    <3> DEFINE f == CHOOSE g : g = [v \in 0 .. k |-> WithLastDigit(g, v)]
    <3>1. f = [v \in 0 .. k |-> WithLastDigit(f, v)]
      BY DigitsExist
    <3>2. Digits(k, 10) = f[k]
      BY DEF Digits, WithLastDigit
    <3> QED
      BY <3>1, <3>2
  <2> QED
    BY <2>1
<1>2. PICK g : g = [v \in 0 .. n |-> WithLastDigit(g, v)] /\ Digits(n, 10) = g[n]
  BY <1>1
<1>3. PICK m \in Nat : m = n \div 10 /\ m <= n
  OBVIOUS
<1>4. PICK h : h = [v \in 0 .. m |-> WithLastDigit(h, v)] /\ Digits(m, 10) = h[m]
  BY <1>1
<1>5. g[m] = h[m]
  BY <1>2, <1>3, <1>4, DigitsUnique
<1>6. g[n] = WithLastDigit(g, n)
  <2>1. n \in 0 .. n
    OBVIOUS
  <2> QED
    BY <1>2, <2>1
<1> QED
  BY <1>2, <1>3, <1>4, <1>5, <1>6 DEF WithLastDigit

\* The digits fill the end of the buffer and a zero byte follows them.
LEMMA ConvertedType ==
  ASSUME NEW n \in Nat, Len(Digits(n, 10)) < MaxStrSize
  PROVE  /\ convert_to_base(n, 10) \in [0 .. MaxStrSize - 1 -> {NUL} \cup DigitCodes]
         /\ convert_to_base(n, 10)[MaxStrSize - 1] = NUL
<1>1. PICK s \in Seq(DigitCodes) : s = Digits(n, 10)
  BY DigitsType
<1>2. PICK e \in 0 .. MaxStrSize - 1 : e = MaxStrSize - 1 - Len(s)
  <2>1. Len(s) \in Nat /\ Len(s) < MaxStrSize
    BY <1>1, LenProperties
  <2>2. MaxStrSize - 1 - Len(s) \in 0 .. MaxStrSize - 1
    BY <2>1, ConsoleAssumption
  <2> QED
    BY <2>2
<1>3. MaxStrSize \in Nat /\ MaxStrSize > 1 /\ DOMAIN NoBuf = 0 .. MaxStrSize - 1
  BY ConsoleAssumption DEF NoBuf
<1>4. PICK b : b = [i \in 0 .. MaxStrSize - 1 |->
                      IF i \in e .. MaxStrSize - 2 THEN s[i - e + 1] ELSE NUL]
  OBVIOUS
<1>5. convert_to_base(n, 10) = b
  BY <1>1, <1>2, <1>3, <1>4 DEF convert_to_base
<1>6. b[MaxStrSize - 1] = NUL
  BY <1>3, <1>4
<1>7. ASSUME NEW i \in 0 .. MaxStrSize - 1, i \in e .. MaxStrSize - 2
      PROVE  s[i - e + 1] \in DigitCodes
  <2>1. i - e + 1 \in 1 .. Len(s)
    BY <1>2, <1>3, <1>7
  <2> QED
    BY <2>1, ElementOfSeq
<1>8. b \in [0 .. MaxStrSize - 1 -> {NUL} \cup DigitCodes]
  BY <1>4, <1>7
<1> QED
  BY <1>5, <1>6, <1>8

-----------------------------------------------------------------------------
(* Prompts and printf.                                                     *)

\* The first i sequences one after the other.
LEMMA FlattenExists ==
  ASSUME NEW ss, NEW n \in Nat
  PROVE  \E g : g = [i \in 1 .. n |-> IF i = 1 THEN ss[i] ELSE g[i - 1] \o ss[i]]
<1> DEFINE T == {m \in Nat : ~ \E g : g = [i \in 1 .. m |-> IF i = 1 THEN ss[i] ELSE g[i - 1] \o ss[i]]}
<1> SUFFICES ASSUME T # {} PROVE FALSE
  OBVIOUS
<1>1. PICK m \in T : \A k \in T : m <= k
  BY LeastExists
<1>2. PICK g : m > 0 => g = [i \in 1 .. m - 1 |-> IF i = 1 THEN ss[i] ELSE g[i - 1] \o ss[i]]
  <2>1. CASE m > 0
    <3>1. m - 1 \in Nat /\ m - 1 \notin T
      <4>1. T \in SUBSET Nat
        OBVIOUS
      <4> HIDE DEF T
      <4> QED
        BY <1>1, <2>1, <4>1
    <3> QED
      BY <3>1
  <2> QED
    BY <2>1
<1>3. PICK h : h = [i \in 1 .. m |-> IF i = 1 THEN ss[i] ELSE g[i - 1] \o ss[i]]
  OBVIOUS
<1>4. ASSUME NEW i \in 1 .. m PROVE i < m => h[i] = g[i]
  <2>1. i < m => i \in 1 .. m - 1 /\ m > 0
    BY <1>1
  <2> QED
    BY <1>2, <1>3, <2>1
<1>5. ASSUME NEW i \in 1 .. m PROVE i # 1 => g[i - 1] = h[i - 1]
  <2>1. i # 1 => i - 1 \in 1 .. m /\ i - 1 < m
    BY <1>1
  <2> QED
    BY <1>4, <2>1
<1>6. h = [i \in 1 .. m |-> IF i = 1 THEN ss[i] ELSE h[i - 1] \o ss[i]]
  BY <1>3, <1>5
<1> QED
  BY <1>1, <1>6

\* Sequences of elements of a set, one after the other, have its elements.
LEMMA FlattenType ==
  ASSUME NEW S, NEW ss \in Seq(Seq(S))
  PROVE  FlattenSeq(ss) \in Seq(S)
<1>1. CASE Len(ss) = 0
  <2>1. ss = <<>>
    BY <1>1, EmptySeq
  <2>2. FlattenSeq(ss) = ss
    BY <1>1 DEF FlattenSeq
  <2>3. <<>> \in Seq(S)
    BY EmptySeq
  <2> QED
    BY <2>1, <2>2, <2>3
<1>2. CASE Len(ss) # 0
  <2>1. PICK g : /\ g = [i \in 1 .. Len(ss) |-> IF i = 1 THEN ss[i] ELSE g[i - 1] \o ss[i]]
                 /\ FlattenSeq(ss) = g[Len(ss)]
    <3> DEFINE f == CHOOSE g : g = [i \in 1 .. Len(ss) |-> IF i = 1 THEN ss[i] ELSE g[i - 1] \o ss[i]]
    <3>1. Len(ss) \in Nat
      BY SMTT(30), LenProperties
    <3>2. f = [i \in 1 .. Len(ss) |-> IF i = 1 THEN ss[i] ELSE f[i - 1] \o ss[i]]
      BY <3>1, FlattenExists
    <3>3. FlattenSeq(ss) = f[Len(ss)]
      BY <1>2 DEF FlattenSeq
    <3> QED
      BY <3>2, <3>3
  <2>2. Len(ss) \in Nat /\ \A i \in 1 .. Len(ss) : ss[i] \in Seq(S)
    BY LenProperties, ElementOfSeq
  <2> DEFINE T == {m \in 1 .. Len(ss) : g[m] \notin Seq(S)}
  <2>3. T = {}
    <3> SUFFICES ASSUME T # {} PROVE FALSE
      OBVIOUS
    <3>1. PICK m \in T : \A k \in T : m <= k
      <4>1. T \in SUBSET Nat
        OBVIOUS
      <4> HIDE DEF T
      <4> QED
        BY <4>1, LeastExists
    <3>2. m \in 1 .. Len(ss) /\ g[m] = IF m = 1 THEN ss[m] ELSE g[m - 1] \o ss[m]
      BY <2>1, <3>1
    <3>3. CASE m = 1
      BY <2>2, <3>1, <3>2, <3>3
    <3>4. CASE m # 1
      <4>1. m - 1 \in 1 .. Len(ss) /\ m - 1 \notin T
        BY <2>2, <3>1, <3>4
      <4>2. g[m - 1] \in Seq(S) /\ ss[m] \in Seq(S)
        BY <2>2, <3>2, <4>1
      <4>3. g[m - 1] \o ss[m] \in Seq(S)
        BY <4>2, ConcatProperties
      <4> QED
        BY <3>1, <3>2, <3>4, <4>3
    <3> QED
      BY <3>3, <3>4
  <2>4. Len(ss) \in 1 .. Len(ss)
    BY <1>2, <2>2
  <2>5. g[Len(ss)] \in Seq(S)
    <3> HIDE DEF T
    <3>1. Len(ss) \notin T
      BY <2>3
    <3> QED
      BY <2>4, <3>1 DEF T
  <2> QED
    BY SMTT(30), <2>1, <2>5
<1> QED
  BY <1>1, <1>2

\* A format is bytes up to a zero byte.
LEMMA FormatType ==
  ASSUME NEW p \in Prompts
  PROVE  FormatOf(p) \in Seq(Byte) /\ Len(FormatOf(p)) > 0 /\ FormatOf(p)[Len(FormatOf(p))] = NUL
<1> DEFINE Piece(u) == CASE u.means = "char"   -> <<u.arg>>
                         [] u.means = "number" -> <<PERCENT, LOWER_D>>
                         [] u.means = "color"  -> <<DOLLAR, AMPERSAND, u.arg, NUL>>
           Token == [means : {"char"}, arg : Byte] \cup [means : {"color"}, arg : Byte]
                       \cup [means : {"number"}, arg : Nat]
<1>1. p \in Seq(Token)
  BY ConsoleAssumption
<1>2. ASSUME NEW u \in Token PROVE Piece(u) \in Seq(Byte)
  <2>1. PERCENT \in Byte /\ LOWER_D \in Byte /\ DOLLAR \in Byte /\ AMPERSAND \in Byte /\ NUL \in Byte
    BY DEF Byte
  <2>2. CASE u.means = "char"
    BY <2>2
  <2>3. CASE u.means = "number"
    BY <2>1, <2>3
  <2>4. CASE u.means = "color"
    <3>1. u.arg \in Byte
      BY <2>4
    <3>2. Piece(u) = <<DOLLAR, AMPERSAND, u.arg, NUL>>
      BY <2>4
    <3> QED
      BY <2>1, <3>1, <3>2
  <2> QED
    BY <2>2, <2>3, <2>4
<1> HIDE DEF Token
<1>3. Len(p) \in Nat /\ \A i \in 1 .. Len(p) : p[i] \in Token
  BY <1>1, LenProperties, ElementOfSeq
<1>4. [i \in 1 .. Len(p) |-> Piece(p[i])] \in Seq(Seq(Byte))
  <2> HIDE DEF Piece
  <2>1. \A i \in 1 .. Len(p) : Piece(p[i]) \in Seq(Byte)
    BY <1>2, <1>3
  <2> QED
    BY <1>3, <2>1
<1>5. PICK s \in Seq(Byte) : s = FlattenSeq([i \in 1 .. Len(p) |-> Piece(p[i])])
  BY <1>4, FlattenType
<1>6. FormatOf(p) = s \o <<NUL>>
  BY <1>5 DEF FormatOf
<1>7. PICK z \in Seq(Byte) : z = <<NUL>> /\ Len(z) = 1 /\ z[1] = NUL
  <2>1. <<NUL>> \in Seq(Byte)
    BY DEF Byte
  <2> QED
    BY <2>1
<1>8. s \o z \in Seq(Byte) /\ Len(s \o z) = Len(s) + 1
  BY <1>7, ConcatProperties
<1>9. (s \o z)[Len(s) + 1] = NUL
  <2>1. Len(s) \in Nat /\ Len(s) + 1 \in 1 .. Len(s) + Len(z) /\ Len(s) + 1 - Len(s) = 1
    BY <1>7, LenProperties
  <2>2. (s \o z)[Len(s) + 1] = z[Len(s) + 1 - Len(s)]
    BY <2>1, ConcatProperties
  <2> QED
    BY <1>7, <2>1, <2>2
<1>10. Len(s) \in Nat
  BY LenProperties
<1> QED
  BY <1>6, <1>7, <1>8, <1>9, <1>10

\* The argument of a prompt's number.
LEMMA ArgType ==
  ASSUME NEW p \in Prompts
  PROVE  ArgOf(p) \in Nat
<1> DEFINE I == {i \in 1 .. Len(p) : p[i].means = "number"}
<1>1. Len(p) \in Nat /\ \A i \in 1 .. Len(p) : p[i].means = "number" => p[i].arg \in Nat
  BY ConsoleAssumption, LenProperties, ElementOfSeq DEF Byte
<1>2. SelectInSeq(p, LAMBDA t : t.means = "number") = IF I # {} THEN Min(I) ELSE 0
  BY DEF SelectInSeq
<1>3. CASE I = {}
  BY <1>2, <1>3 DEF ArgOf
<1>4. CASE I # {}
  <2>1. Min(I) \in I
    <3>1. I \in SUBSET Nat
      BY <1>1
    <3> HIDE DEF I
    <3>2. \E m \in I : \A n \in I : m <= n
      BY <1>4, <3>1, LeastExists
    <3> QED
      BY <3>2 DEF Min
  <2>2. PICK i \in I : i = Min(I)
    BY <2>1
  <2>3. ArgOf(p) = p[i].arg
    BY <1>1, <1>2, <1>4, <2>2 DEF ArgOf
  <2> QED
    BY <1>1, <2>3
<1> QED
  BY <1>3, <1>4

\* No escape is cut off by the end of the format.
Complete(f) ==
  /\ f \in Seq(Byte) /\ Len(f) \in Nat /\ Len(f) > 0 /\ f[Len(f)] = NUL
  /\ \A i \in 1 .. Len(f) : f[i] = DOLLAR => i + 4 <= Len(f)

\* What printf calls from place i on when g tells what it calls later.
CallsFrom(f, n, g, i) ==
  CASE f[i] = NUL -> <<>>
    [] f[i] = PERCENT ->
          (CASE f[i + 1] = NUL -> <<>>
             [] f[i + 1] = LOWER_D -> Call("number", n) \o g[i + 2]
             [] OTHER -> Call("putchar", PERCENT) \o Call("putchar", f[i + 1]) \o g[i + 2])
    [] f[i] = DOLLAR ->
          IF f[i + 1] = AMPERSAND
            THEN Call("color", VgaEntryColor(f[i + 2], f[i + 3])) \o g[i + 4]
            ELSE Call("putchar", DOLLAR) \o Call("putchar", f[i + 1]) \o g[i + 2]
    [] OTHER -> Call("putchar", f[i]) \o g[i + 1]

\* The places that printf goes on at are later ones of the format.
LEMMA LaterPlaces ==
  ASSUME NEW f, Complete(f), NEW i \in 1 .. Len(f)
  PROVE  /\ f[i] # NUL => i + 1 \in i + 1 .. Len(f)
         /\ f[i] = PERCENT /\ f[i + 1] # NUL => i + 2 \in i + 1 .. Len(f)
         /\ f[i] = DOLLAR => /\ i + 2 \in i + 1 .. Len(f) /\ i + 3 \in i + 1 .. Len(f)
                             /\ i + 4 \in i + 1 .. Len(f)
<1>1. Len(f) \in Nat /\ f[Len(f)] = NUL /\ (f[i] = DOLLAR => i + 4 <= Len(f))
  BY DEF Complete
<1>2. f[i] # NUL => i + 1 <= Len(f)
  BY <1>1
<1>3. f[i] = PERCENT /\ f[i + 1] # NUL => i + 2 <= Len(f)
  <2>1. f[i] = PERCENT => i + 1 <= Len(f)
    BY <1>2
  <2>2. i + 1 = Len(f) => f[i + 1] = NUL
    BY <1>1
  <2> QED
    BY <1>1, <2>1, <2>2
<1> QED
  BY <1>1, <1>2, <1>3

\* What printf calls from a place on depends on later places only.
LEMMA SameCalls ==
  ASSUME NEW f, Complete(f), NEW n, NEW i \in 1 .. Len(f), NEW g, NEW h,
         \A j \in i + 1 .. Len(f) : g[j] = h[j]
  PROVE  CallsFrom(f, n, g, i) = CallsFrom(f, n, h, i)
<1>1. CASE f[i] = NUL
  BY <1>1 DEF CallsFrom
<1>2. CASE f[i] = PERCENT
  <2>1. CASE f[i + 1] = NUL
    BY <1>2, <2>1 DEF CallsFrom
  <2>2. CASE f[i + 1] # NUL
    <3>1. g[i + 2] = h[i + 2]
      BY <1>2, <2>2, LaterPlaces
    <3> QED
      BY <1>2, <3>1 DEF CallsFrom
  <2> QED
    BY <2>1, <2>2
<1>3. CASE f[i] = DOLLAR
  <2>1. g[i + 2] = h[i + 2] /\ g[i + 4] = h[i + 4]
    BY <1>3, LaterPlaces
  <2> QED
    BY <1>3, <2>1 DEF CallsFrom
<1>4. CASE f[i] \notin {NUL, PERCENT, DOLLAR}
  <2>1. g[i + 1] = h[i + 1]
    BY <1>4, LaterPlaces
  <2> QED
    BY <1>4, <2>1 DEF CallsFrom
<1> QED
  BY <1>1, <1>2, <1>3, <1>4

\* printf's loop ends for every complete format.
LEMMA PrintfExists ==
  ASSUME NEW f, Complete(f), NEW n
  PROVE  \E g : g = [i \in 1 .. Len(f) |-> CallsFrom(f, n, g, i)]
<1> DEFINE T == {m \in 0 .. Len(f) : ~ \E g : g = [i \in Len(f) - m + 1 .. Len(f) |-> CallsFrom(f, n, g, i)]}
<1>1. Len(f) \in Nat /\ T \in SUBSET Nat
  BY DEF Complete
<1>2. ASSUME T # {} PROVE FALSE
  <2>1. PICK m \in T : \A k \in T : m <= k
    <3> HIDE DEF T
    <3> QED
      BY <1>1, <1>2, LeastExists
  <2>2. m \in 0 .. Len(f)
    OBVIOUS
  <2>3. PICK b \in 1 .. Len(f) + 1 : b = Len(f) - m + 1
    BY <1>1, <2>2
  <2>4. PICK g : m > 0 => g = [i \in b + 1 .. Len(f) |-> CallsFrom(f, n, g, i)]
    <3>1. CASE m > 0
      <4>1. m - 1 \in 0 .. Len(f) /\ m - 1 \notin T
        <5>1. m - 1 \in 0 .. Len(f)
          BY <1>1, <2>2, <3>1
        <5> HIDE DEF T
        <5> QED
          BY <2>1, <2>2, <5>1
      <4>2. Len(f) - (m - 1) + 1 = b + 1
        BY <1>1, <2>2, <2>3
      <4>3. \E g : g = [i \in Len(f) - (m - 1) + 1 .. Len(f) |-> CallsFrom(f, n, g, i)]
        BY <4>1
      <4> QED
        BY <4>2, <4>3
    <3> QED
      BY <3>1
  <2>5. PICK h : h = [i \in b .. Len(f) |-> IF i = b THEN CallsFrom(f, n, g, b) ELSE g[i]]
    OBVIOUS
  <2>6. /\ h = [i \in b .. Len(f) |-> h[i]]
        /\ b <= Len(f) => h[b] = CallsFrom(f, n, g, b)
        /\ \A i \in b + 1 .. Len(f) : h[i] = g[i]
    <3>1. \A i \in b + 1 .. Len(f) : i \in b .. Len(f) /\ i # b
      BY <1>1
    <3>2. b <= Len(f) => b \in b .. Len(f)
      BY <1>1
    <3> QED
      BY <2>5, <3>1, <3>2
  <2>7. ASSUME NEW i \in b .. Len(f) PROVE h[i] = CallsFrom(f, n, h, i)
    <3>1. i \in 1 .. Len(f) /\ \A j \in i + 1 .. Len(f) : j \in b + 1 .. Len(f)
      BY <1>1
    <3>2. CallsFrom(f, n, g, i) = CallsFrom(f, n, h, i)
      <4>1. \A j \in i + 1 .. Len(f) : g[j] = h[j]
        BY <2>6, <3>1
      <4> QED
        BY <3>1, <4>1, SameCalls
    <3>3. CASE i = b
      BY <1>1, <2>6, <3>1, <3>2, <3>3
    <3>4. CASE i # b
      <4>1. i \in b + 1 .. Len(f) /\ m > 0
        BY <1>1, <2>2, <2>3, <3>4
      <4>2. g[i] = CallsFrom(f, n, g, i)
        BY <2>4, <4>1
      <4> QED
        BY <2>6, <3>2, <4>1, <4>2
    <3> QED
      BY <3>3, <3>4
  <2>8. h = [i \in Len(f) - m + 1 .. Len(f) |-> CallsFrom(f, n, h, i)]
    BY <2>3, <2>6, <2>7
  <2> QED
    BY <2>1, <2>8
<1>3. Len(f) \notin T
  BY <1>2
<1>4. \E g : g = [i \in Len(f) - Len(f) + 1 .. Len(f) |-> CallsFrom(f, n, g, i)]
  BY <1>1, <1>3
<1>5. Len(f) - Len(f) + 1 = 1
  BY <1>1
<1> QED
  BY <1>4, <1>5

CallsOf(n) == [step : {"putchar", "color"}, arg : Byte] \cup [step : {"number"}, arg : {n}]

\* A call, and one more call in front of others.
LEMMA CallBefore ==
  ASSUME NEW C, NEW step, NEW arg, [step |-> step, arg |-> arg] \in C, NEW s \in Seq(C)
  PROVE  Call(step, arg) \in Seq(C) /\ Call(step, arg) \o s \in Seq(C)
<1>1. Call(step, arg) \in Seq(C)
  BY DEF Call
<1> QED
  BY <1>1, ConcatProperties

\* What printf calls from a place on are bytes to putchar and SetColor and the
\* conversion of its argument, if what it calls later is.
LEMMA CallsFromType ==
  ASSUME NEW f, Complete(f), NEW n, NEW i \in 1 .. Len(f), NEW g,
         \A j \in i + 1 .. Len(f) : g[j] \in Seq(CallsOf(n))
  PROVE  CallsFrom(f, n, g, i) \in Seq(CallsOf(n))
<1>1. PICK C : C = CallsOf(n)
  OBVIOUS
<1>2. /\ \A c \in Byte : /\ [step |-> "putchar", arg |-> c] \in C
                         /\ [step |-> "color", arg |-> c] \in C
      /\ [step |-> "number", arg |-> n] \in C
  BY <1>1 DEF CallsOf
<1>3. PICK x, y : x = f[i] /\ y = f[i + 1]
  OBVIOUS
<1>4. PICK a, b, c, d, e :
         /\ a = Call("number", n) \o g[i + 2]
         /\ b = (Call("putchar", PERCENT) \o Call("putchar", y)) \o g[i + 2]
         /\ c = Call("color", VgaEntryColor(f[i + 2], f[i + 3])) \o g[i + 4]
         /\ d = (Call("putchar", DOLLAR) \o Call("putchar", y)) \o g[i + 2]
         /\ e = Call("putchar", x) \o g[i + 1]
  OBVIOUS
<1>5. CallsFrom(f, n, g, i) =
        CASE x = NUL -> <<>>
          [] x = PERCENT -> (CASE y = NUL -> <<>> [] y = LOWER_D -> a [] OTHER -> b)
          [] x = DOLLAR -> IF y = AMPERSAND THEN c ELSE d
          [] OTHER -> e
  BY <1>3, <1>4 DEF CallsFrom
<1>6. \A j \in 1 .. Len(f) : f[j] \in Byte /\ f[j] \in Nat
  <2>1. \A j \in 1 .. Len(f) : f[j] \in Byte
    BY ElementOfSeq DEF Complete
  <2>2. \A z \in Byte : z \in Nat
    BY DEF Byte
  <2> QED
    BY <2>1, <2>2
<1>7. ASSUME NEW j \in i + 1 .. Len(f) PROVE g[j] \in Seq(C) /\ f[j] \in Byte /\ f[j] \in Nat
  <2>1. j \in 1 .. Len(f)
    BY DEF Complete
  <2> QED
    BY <1>1, <1>6, <2>1
<1>8. PERCENT \in Byte /\ DOLLAR \in Byte /\ x \in Byte /\ <<>> \in Seq(C)
  BY <1>3, <1>6 DEF Byte
<1>9. ASSUME NEW u \in Byte, NEW v \in Byte, NEW s \in Seq(C)
      PROVE  (Call("putchar", u) \o Call("putchar", v)) \o s \in Seq(C)
  <2>1. Call("putchar", u) \in Seq(C) /\ Call("putchar", v) \in Seq(C)
    BY <1>2, <1>8, CallBefore
  <2>2. Call("putchar", u) \o Call("putchar", v) \in Seq(C)
    BY <2>1, ConcatProperties
  <2> QED
    BY <2>2, ConcatProperties
<1>10. x = PERCENT /\ y # NUL => a \in Seq(C) /\ b \in Seq(C)
  <2>1. ASSUME x = PERCENT, y # NUL PROVE g[i + 2] \in Seq(C) /\ y \in Byte
    <3>1. i + 1 \in i + 1 .. Len(f) /\ i + 2 \in i + 1 .. Len(f)
      <4>1. f[i] # NUL /\ f[i] = PERCENT /\ f[i + 1] # NUL
        BY <1>3, <2>1
      <4> QED
        BY <4>1, LaterPlaces
    <3> QED
      BY <1>3, <1>7, <3>1
  <2>2. ASSUME x = PERCENT, y # NUL PROVE a \in Seq(C)
    BY <1>2, <1>4, <2>1, <2>2, CallBefore
  <2>3. ASSUME x = PERCENT, y # NUL PROVE b \in Seq(C)
    BY <1>4, <1>8, <1>9, <2>1, <2>3
  <2> QED
    BY <2>2, <2>3
<1>11. x = DOLLAR => c \in Seq(C) /\ d \in Seq(C)
  <2>1. ASSUME x = DOLLAR
        PROVE  /\ g[i + 2] \in Seq(C) /\ g[i + 4] \in Seq(C) /\ y \in Byte
               /\ f[i + 2] \in Nat /\ f[i + 3] \in Nat
    <3>1. /\ i + 1 \in i + 1 .. Len(f) /\ i + 2 \in i + 1 .. Len(f)
          /\ i + 3 \in i + 1 .. Len(f) /\ i + 4 \in i + 1 .. Len(f)
      <4>1. f[i] # NUL /\ f[i] = DOLLAR
        BY <1>3, <2>1
      <4> QED
        BY <4>1, LaterPlaces
    <3> QED
      BY <1>3, <1>7, <3>1
  <2>2. ASSUME x = DOLLAR PROVE c \in Seq(C)
    <3>1. VgaEntryColor(f[i + 2], f[i + 3]) \in Byte
      BY <2>1, <2>2, ColorIsByte
    <3> QED
      BY <1>2, <1>4, <2>1, <2>2, <3>1, CallBefore
  <2>3. ASSUME x = DOLLAR PROVE d \in Seq(C)
    BY <1>4, <1>8, <1>9, <2>1, <2>3
  <2> QED
    BY <2>2, <2>3
<1>12. x # NUL => e \in Seq(C)
  <2>1. ASSUME x # NUL PROVE g[i + 1] \in Seq(C)
    BY <1>3, <1>7, <2>1, LaterPlaces
  <2> QED
    BY <1>2, <1>4, <1>8, <2>1, CallBefore
<1>13. CallsFrom(f, n, g, i) \in Seq(C)
  BY <1>5, <1>8, <1>10, <1>11, <1>12
<1> QED
  BY <1>1, <1>13

\* What printf calls from each place of a format on: putchar and SetColor with
\* bytes, and the conversion of its argument.
LEMMA PrintfPlaces ==
  ASSUME NEW f, Complete(f), NEW n
  PROVE  \E g : /\ g = [i \in 1 .. Len(f) |-> CallsFrom(f, n, g, i)] /\ Printf(f, n) = g[1]
                /\ \A i \in 1 .. Len(f) : g[i] \in Seq(CallsOf(n))
<1>1. PICK g : g = [i \in 1 .. Len(f) |-> CallsFrom(f, n, g, i)] /\ Printf(f, n) = g[1]
  <2> DEFINE h == CHOOSE g : g = [i \in 1 .. Len(f) |-> CallsFrom(f, n, g, i)]
  <2>1. h = [i \in 1 .. Len(f) |-> CallsFrom(f, n, h, i)]
    BY PrintfExists
  <2>2. Printf(f, n) = h[1]
    BY DEF Printf, CallsFrom
  <2> QED
    BY <2>1, <2>2
<1>2. /\ Len(f) \in Nat /\ Len(f) > 0 /\ \A i \in 1 .. Len(f) : f[i] \in Byte
      /\ \A i \in 1 .. Len(f) : g[i] = CallsFrom(f, n, g, i)
  BY <1>1, ElementOfSeq DEF Complete
<1> DEFINE T == {m \in 0 .. Len(f) - 1 : g[Len(f) - m] \notin Seq(CallsOf(n))}
<1>3. ASSUME T # {} PROVE FALSE
  <2>1. PICK m \in T : \A k \in T : m <= k
    <3>1. T \in SUBSET Nat
      BY <1>2
    <3> HIDE DEF T
    <3> QED
      BY <1>3, <3>1, LeastExists
  <2>2. PICK i \in 1 .. Len(f) : i = Len(f) - m /\ g[i] \notin Seq(CallsOf(n))
    BY <1>2, <2>1
  <2>3. ASSUME NEW j \in i + 1 .. Len(f) PROVE g[j] \in Seq(CallsOf(n)) /\ f[j] \in Byte
    <3>1. j \in 1 .. Len(f) /\ Len(f) - j \in 0 .. Len(f) - 1 /\ Len(f) - j < m
          /\ Len(f) - (Len(f) - j) = j
      BY <1>2, <2>2
    <3>2. Len(f) - j \notin T
      <4>1. T \in SUBSET Nat
        BY <1>2
      <4> HIDE DEF T
      <4> QED
        BY <2>1, <3>1, <4>1
    <3> QED
      BY <1>2, <3>1, <3>2
  <2>4. CallsFrom(f, n, g, i) \in Seq(CallsOf(n))
    BY <2>3, CallsFromType
  <2> QED
    BY <1>2, <2>2, <2>4
<1>4. ASSUME NEW i \in 1 .. Len(f) PROVE g[i] \in Seq(CallsOf(n))
  <2>1. Len(f) - i \in 0 .. Len(f) - 1 /\ Len(f) - (Len(f) - i) = i
    BY <1>2
  <2> QED
    BY <1>3, <2>1
<1> QED
  BY <1>1, <1>4

\* That is what it calls from the first place on.
LEMMA PrintfType ==
  ASSUME NEW f, Complete(f), NEW n
  PROVE  Printf(f, n) \in Seq(CallsOf(n))
<1>1. 1 \in 1 .. Len(f)
  BY DEF Complete
<1> QED
  BY <1>1, PrintfPlaces

\* The format of a prompt is complete.
LEMMA FormatComplete ==
  ASSUME NEW p \in Prompts
  PROVE  Complete(FormatOf(p))
<1>1. PICK f \in Seq(Byte) : f = FormatOf(p)
  BY FormatType
<1>2. Len(f) \in Nat /\ DOMAIN f = 1 .. Len(f)
  BY LenProperties
<1>3. Len(f) > 0 /\ f[Len(f)] = NUL
  BY <1>1, FormatType
<1>4. \A i \in 1 .. Len(f) : f[i] = DOLLAR => i + 4 <= Len(f)
  BY <1>1, <1>2, FormatAssumption
<1> QED
  BY <1>1, <1>2, <1>3, <1>4 DEF Complete

-----------------------------------------------------------------------------
(* The rest of the shell's call.                                           *)

\* Numbers with room in the buffer.
Roomy == {n \in Nat : Len(Digits(n, 10)) < MaxStrSize}

\* What is left of a number, and where the digits written so far begin: there is
\* room for the others in front of them.
Unwritten == {p \in Nat \X (0 .. MaxStrSize - 1) : Len(Digits(p[1], 10)) <= p[2]}

\* Where a string begins in the buffer and how much of it was measured.
Measured == {p \in (0 .. MaxStrSize - 1) \X Nat : p[1] + p[2] <= MaxStrSize - 1}

Items ==
  Accesses \cup [step : {"putchar", "color"}, arg : Byte] \cup [step : {"number"}, arg : Roomy]
     \cup [step : {"convert"}, arg : Unwritten] \cup [step : {"strlen"}, arg : Measured]
     \cup [step : {"digit"}, arg : 0 .. MaxStrSize - 1]

\* The steps of Putchar stand together, in their order and before the other calls.
Shape(q) ==
  \A i \in 1 .. Len(q) :
     /\ q[i].step \in Starts => i = 1
     /\ q[i].step \in TtySteps \ {"end_of_screen"} =>
           i + 1 \in 1 .. Len(q) /\ q[i + 1].step = Successor(q[i].step)
     /\ q[i].step \in TtySteps /\ i # 1 => q[i - 1].step \in TtySteps \ {"end_of_screen"}

\* No character is under way.
Rest(q) == Shape(q) /\ (Len(q) > 0 => q[1].step \notin TtySteps)

\* Every step is an access to the terminal or a call.
LEMMA StepKinds ==
  ASSUME NEW a \in Items
  PROVE  /\ a.step \in TtySteps => a \in Accesses
         /\ a.step \notin TtySteps => a.step \in Calls
         /\ a.step \in Calls => a.step \notin TtySteps /\ a.step \notin Starts
BY DEF Items, Accesses, TtySteps, Calls, Starts

\* What the first element of a call leaves.
LEMMA TailShape ==
  ASSUME NEW q \in Seq(Items), Len(q) > 0, Shape(q)
  PROVE  /\ Tail(q) \in Seq(Items) /\ Shape(Tail(q)) /\ Len(Tail(q)) = Len(q) - 1
         /\ q[1].step \in TtySteps \ {"end_of_screen"} =>
               Len(Tail(q)) > 0 /\ Tail(q)[1].step = Successor(q[1].step)
         /\ q[1].step \notin TtySteps \ {"end_of_screen"} => Rest(Tail(q))
<1>1. PICK t \in Seq(Items) : t = Tail(q) /\ Len(t) = Len(q) - 1 /\ Len(q) \in Nat
  <2>1. q # <<>> /\ Len(q) \in Nat
    BY EmptySeq
  <2> QED
    BY <2>1, HeadTailProperties
<1>2. \A i \in 1 .. Len(t) : t[i] = q[i + 1]
  <2>1. q # <<>>
    BY EmptySeq
  <2> QED
    BY <1>1, <2>1, HeadTailProperties
<1>3. ASSUME NEW i \in 1 .. Len(t)
      PROVE  /\ t[i].step \notin Starts
             /\ t[i].step \in TtySteps \ {"end_of_screen"} =>
                   i + 1 \in 1 .. Len(t) /\ t[i + 1].step = Successor(t[i].step)
             /\ t[i].step \in TtySteps /\ i # 1 => t[i - 1].step \in TtySteps \ {"end_of_screen"}
  <2>1. i + 1 \in 1 .. Len(q) /\ i + 1 # 1 /\ t[i] = q[i + 1] /\ i + 1 - 1 = i
    BY <1>1, <1>2
  <2>2. t[i].step \notin Starts
    BY <2>1 DEF Shape
  <2>3. t[i].step \in TtySteps \ {"end_of_screen"} =>
           (i + 1) + 1 \in 1 .. Len(q) /\ q[(i + 1) + 1].step = Successor(t[i].step)
    BY <2>1 DEF Shape
  <2>4. (i + 1) + 1 \in 1 .. Len(q) => i + 1 \in 1 .. Len(t) /\ t[i + 1] = q[(i + 1) + 1]
    <3>1. (i + 1) + 1 \in 1 .. Len(q) => i + 1 \in 1 .. Len(t)
      BY <1>1
    <3> QED
      BY <1>2, <3>1
  <2>5. t[i].step \in TtySteps => q[i].step \in TtySteps \ {"end_of_screen"}
    BY <2>1 DEF Shape
  <2>6. i # 1 => t[i - 1] = q[i]
    <3>1. i # 1 => i - 1 \in 1 .. Len(t) /\ (i - 1) + 1 = i
      BY <1>1
    <3> QED
      BY <1>2, <3>1
  <2> QED
    BY <2>2, <2>3, <2>4, <2>5, <2>6
<1>4. Shape(t)
  BY <1>3 DEF Shape
<1>5. 1 \in 1 .. Len(q) /\ 1 + 1 = 2
  BY <1>1
<1>6. q[1].step \in TtySteps \ {"end_of_screen"} => Len(t) > 0 /\ t[1].step = Successor(q[1].step)
  <2>1. ASSUME q[1].step \in TtySteps \ {"end_of_screen"}
        PROVE  Len(t) > 0 /\ t[1].step = Successor(q[1].step)
    <3>1. 1 + 1 \in 1 .. Len(q) /\ q[1 + 1].step = Successor(q[1].step)
      BY <1>5, <2>1 DEF Shape
    <3>2. 1 \in 1 .. Len(t)
      BY <1>1, <3>1
    <3> QED
      BY <1>2, <3>1, <3>2
  <2> QED
    BY <2>1
<1>7. q[1].step \notin TtySteps \ {"end_of_screen"} => Rest(t)
  <2>1. ASSUME Len(t) > 0, t[1].step \in TtySteps PROVE q[1].step \in TtySteps \ {"end_of_screen"}
    <3>1. 1 \in 1 .. Len(t) /\ 1 + 1 \in 1 .. Len(q) /\ 1 + 1 # 1 /\ (1 + 1) - 1 = 1
      BY <1>1, <2>1
    <3>2. q[1 + 1].step \in TtySteps
      BY <1>2, <2>1, <3>1
    <3> QED
      BY <3>1, <3>2 DEF Shape
  <2> QED
    BY <1>4, <2>1 DEF Rest
<1> QED
  BY <1>1, <1>4, <1>6, <1>7

\* Calls in front of others.
LEMMA CallsBefore ==
  ASSUME NEW c \in Seq(Items), \A i \in 1 .. Len(c) : c[i].step \in Calls,
         NEW q \in Seq(Items), Rest(q)
  PROVE  c \o q \in Seq(Items) /\ Rest(c \o q)
<1>1. PICK s \in Seq(Items) : s = c \o q /\ Len(s) = Len(c) + Len(q) /\ Len(c) \in Nat /\ Len(q) \in Nat
  BY ConcatProperties, LenProperties
<1>2. \A i \in 1 .. Len(s) : s[i] = IF i <= Len(c) THEN c[i] ELSE q[i - Len(c)]
  <2>1. \A i \in 1 .. Len(c) + Len(q) : (c \o q)[i] = IF i <= Len(c) THEN c[i] ELSE q[i - Len(c)]
    BY ConcatProperties
  <2> QED
    BY <1>1, <2>1
<1>3. \A i \in 1 .. Len(c) : c[i].step \notin TtySteps /\ c[i].step \notin Starts
  BY StepKinds, ElementOfSeq
<1>4. ASSUME NEW i \in 1 .. Len(s)
      PROVE  /\ s[i].step \notin Starts
             /\ s[i].step \in TtySteps \ {"end_of_screen"} =>
                   i + 1 \in 1 .. Len(s) /\ s[i + 1].step = Successor(s[i].step)
             /\ s[i].step \in TtySteps => i # 1 /\ s[i - 1].step \in TtySteps \ {"end_of_screen"}
  <2>1. CASE i <= Len(c)
    <3>1. i \in 1 .. Len(c)
      BY <1>1, <2>1
    <3> QED
      BY <1>2, <1>3, <2>1, <3>1
  <2>2. CASE i > Len(c)
    <3>1. PICK j \in 1 .. Len(q) : j = i - Len(c) /\ j + 1 = i + 1 - Len(c) /\ j - 1 = i - 1 - Len(c)
      BY <1>1, <2>2
    <3>2. s[i] = q[j]
      BY <1>1, <1>2, <2>2, <3>1
    <3>3. q[j].step \in TtySteps => j # 1 /\ q[j].step \notin Starts
      <4>1. q[j].step \in TtySteps => j # 1
        BY <1>1 DEF Rest
      <4> QED
        BY <4>1 DEF Rest, Shape
    <3>4. q[j].step \in Starts => q[j].step \in TtySteps
      BY DEF Starts, TtySteps
    <3>5. q[j].step \in TtySteps \ {"end_of_screen"} =>
             j + 1 \in 1 .. Len(q) /\ q[j + 1].step = Successor(q[j].step)
      BY DEF Rest, Shape
    <3>6. q[j].step \in TtySteps /\ j # 1 => q[j - 1].step \in TtySteps \ {"end_of_screen"}
      BY DEF Rest, Shape
    <3>7. j + 1 \in 1 .. Len(q) => i + 1 \in 1 .. Len(s) /\ s[i + 1] = q[j + 1]
      <4>1. j + 1 \in 1 .. Len(q) => i + 1 \in 1 .. Len(s) /\ ~ (i + 1 <= Len(c))
        BY <1>1, <2>2, <3>1
      <4>2. i + 1 \in 1 .. Len(s) /\ ~ (i + 1 <= Len(c)) => s[i + 1] = q[i + 1 - Len(c)]
        BY <1>2
      <4> QED
        BY <3>1, <4>1, <4>2
    <3>8. j # 1 => i # 1 /\ s[i - 1] = q[j - 1]
      <4>1. j # 1 => i # 1 /\ i - 1 \in 1 .. Len(s) /\ ~ (i - 1 <= Len(c))
        BY <1>1, <2>2, <3>1
      <4>2. i - 1 \in 1 .. Len(s) /\ ~ (i - 1 <= Len(c)) => s[i - 1] = q[i - 1 - Len(c)]
        BY <1>2
      <4> QED
        BY <3>1, <4>1, <4>2
    <3> QED
      BY <3>2, <3>3, <3>4, <3>5, <3>6, <3>7, <3>8
  <2> QED
    BY <1>1, <2>1, <2>2
<1>5. Shape(s)
  BY <1>4 DEF Shape
<1>6. Len(s) > 0 => s[1].step \notin TtySteps
  <2>1. Len(s) > 0 => 1 \in 1 .. Len(s)
    BY <1>1
  <2> QED
    BY <1>4, <2>1
<1> QED
  BY <1>1, <1>5, <1>6 DEF Rest

\* Putchar in front of calls.
LEMMA PutcharBefore ==
  ASSUME NEW c \in Byte, NEW q \in Seq(Items), Rest(q)
  PROVE  /\ Putchar(c) \o q \in Seq(Items) /\ Shape(Putchar(c) \o q) /\ Len(Putchar(c) \o q) > 0
         /\ (Putchar(c) \o q)[1] = Putchar(c)[1] /\ Putchar(c)[1].step \in Starts
<1>1. PICK a \in Seq(Items) : a = Putchar(c) /\ Len(a) = 4
  <2>1. \A s \in Seq(Accesses) : s \in Seq(Items)
    BY DEF Items
  <2> QED
    BY <2>1, PutcharSteps
<1>2. /\ a[1].step \in Starts
      /\ \A i \in 1 .. 3 : /\ a[i + 1].step = Successor(a[i].step) /\ a[i + 1].step \notin Starts
                           /\ a[i].step # "end_of_screen"
      /\ a[4].step = "end_of_screen"
  BY <1>1, PutcharSteps
<1>3. \A i \in 1 .. 4 : a[i].step \in TtySteps
  <2>1. PICK b \in Seq(Accesses) : b = Putchar(c)
    BY PutcharSteps
  <2>2. \A i \in 1 .. 4 : b[i] \in Accesses
    BY <1>1, <2>1, ElementOfSeq
  <2> QED
    BY <1>1, <2>1, <2>2 DEF Accesses
<1>4. PICK s \in Seq(Items) : s = a \o q /\ Len(s) = 4 + Len(q) /\ Len(q) \in Nat
  BY <1>1, ConcatProperties, LenProperties
<1>5. \A i \in 1 .. Len(s) : s[i] = IF i <= 4 THEN a[i] ELSE q[i - 4]
  <2>1. \A i \in 1 .. Len(a) + Len(q) : (a \o q)[i] = IF i <= Len(a) THEN a[i] ELSE q[i - Len(a)]
    BY ConcatProperties
  <2> QED
    BY <1>1, <1>4, <2>1
<1>6. ASSUME NEW i \in 1 .. Len(s)
      PROVE  /\ s[i].step \in Starts => i = 1
             /\ s[i].step \in TtySteps \ {"end_of_screen"} =>
                   i + 1 \in 1 .. Len(s) /\ s[i + 1].step = Successor(s[i].step)
             /\ s[i].step \in TtySteps /\ i # 1 => s[i - 1].step \in TtySteps \ {"end_of_screen"}
  <2>1. CASE i <= 4
    <3>1. i \in 1 .. 4 /\ s[i] = a[i]
      BY <1>4, <1>5, <2>1
    <3>2. i < 4 => s[i + 1].step = Successor(s[i].step) /\ i + 1 \in 1 .. Len(s)
      <4>1. i < 4 => i \in 1 .. 3 /\ i + 1 \in 1 .. Len(s) /\ i + 1 <= 4
        BY <1>4, <3>1
      <4>2. i < 4 => s[i + 1] = a[i + 1]
        BY <1>5, <4>1
      <4> QED
        BY <1>2, <3>1, <4>1, <4>2
    <3>3. i = 4 => s[i].step = "end_of_screen"
      BY <1>2, <3>1
    <3>4. i # 1 => s[i].step \notin Starts /\ s[i - 1].step \in TtySteps \ {"end_of_screen"}
      <4>1. i # 1 => i - 1 \in 1 .. 3 /\ i - 1 \in 1 .. 4 /\ i - 1 \in 1 .. Len(s) /\ i - 1 <= 4 /\ (i - 1) + 1 = i
        BY <1>4, <3>1
      <4>2. i # 1 => s[i - 1] = a[i - 1]
        BY <1>5, <4>1
      <4>3. i # 1 => a[(i - 1) + 1].step \notin Starts /\ a[i - 1].step # "end_of_screen"
        BY <1>2, <4>1
      <4>4. i # 1 => a[i - 1].step \in TtySteps
        BY <1>3, <4>1
      <4> QED
        BY <3>1, <4>1, <4>2, <4>3, <4>4
    <3> QED
      BY <3>1, <3>2, <3>3, <3>4
  <2>2. CASE i > 4
    <3>1. PICK j \in 1 .. Len(q) : j = i - 4 /\ j + 1 = i + 1 - 4 /\ j - 1 = i - 1 - 4
      BY <1>4, <2>2
    <3>2. s[i] = q[j]
      BY <1>4, <1>5, <2>2, <3>1
    <3>3. q[j].step \in TtySteps => j # 1 /\ q[j].step \notin Starts
      <4>1. q[j].step \in TtySteps => j # 1
        BY <1>4 DEF Rest
      <4> QED
        BY <4>1 DEF Rest, Shape
    <3>4. q[j].step \in Starts => q[j].step \in TtySteps
      BY DEF Starts, TtySteps
    <3>5. q[j].step \in TtySteps \ {"end_of_screen"} =>
             j + 1 \in 1 .. Len(q) /\ q[j + 1].step = Successor(q[j].step)
      BY DEF Rest, Shape
    <3>6. q[j].step \in TtySteps /\ j # 1 => q[j - 1].step \in TtySteps \ {"end_of_screen"}
      BY DEF Rest, Shape
    <3>7. j + 1 \in 1 .. Len(q) => i + 1 \in 1 .. Len(s) /\ s[i + 1] = q[j + 1]
      <4>1. j + 1 \in 1 .. Len(q) => i + 1 \in 1 .. Len(s) /\ ~ (i + 1 <= 4)
        BY <1>4, <2>2, <3>1
      <4>2. i + 1 \in 1 .. Len(s) /\ ~ (i + 1 <= 4) => s[i + 1] = q[i + 1 - 4]
        BY <1>5
      <4> QED
        BY <3>1, <4>1, <4>2
    <3>8. j # 1 => i # 1 /\ s[i - 1] = q[j - 1]
      <4>1. j # 1 => i # 1 /\ i - 1 \in 1 .. Len(s) /\ ~ (i - 1 <= 4)
        BY <1>4, <2>2, <3>1
      <4>2. i - 1 \in 1 .. Len(s) /\ ~ (i - 1 <= 4) => s[i - 1] = q[i - 1 - 4]
        BY <1>5
      <4> QED
        BY <3>1, <4>1, <4>2
    <3> QED
      BY <3>2, <3>3, <3>4, <3>5, <3>6, <3>7, <3>8
  <2> QED
    BY <1>4, <2>1, <2>2
<1>7. Shape(s)
  BY <1>6 DEF Shape
<1>8. s[1] = a[1]
  <2>1. 1 \in 1 .. Len(s)
    BY <1>4
  <2> QED
    BY <1>5, <2>1
<1> QED
  BY <1>1, <1>2, <1>4, <1>7, <1>8

-----------------------------------------------------------------------------
(* The invariant.                                                          *)

\* Scan codes of the table.
TextCodes == 1 .. Len(keys)

\* The variables have values of their types.
Typed ==
  /\ tty \in Terminal
  /\ buf \in [0 .. MaxStrSize - 1 -> {NUL} \cup DigitCodes] /\ buf[MaxStrSize - 1] = NUL
  /\ todo \in Seq(Items) /\ phase \in {"print", "read"}
  /\ typed \in Seq(TextCodes) /\ Len(typed) <= MaxLen /\ (phase = "read" => Len(typed) < MaxLen)
  /\ out \in Seq(Byte)
  /\ events \subseteq {"torn", "mixed", "interrupted", "cleaned", "erased_at_home"}

\* What the shell does next.
Step == IF Len(todo) = 0 THEN "none" ELSE todo[1].step

\* No other print came inside of a Putchar and no backspace was echoed in the
\* first cell.
Undisturbed == "torn" \notin events /\ "erased_at_home" \notin events

(***************************************************************************)
(* Before access s at cell p of the screen, the keys typed so far stand    *)
(* before the place where the cursor is when the character is done, but    *)
(* for the one that is being put there.                                    *)
(***************************************************************************)
Reading(p, s) ==
  phase = "read" /\ events = {} /\ Len(typed) > 0 =>
    /\ s \notin {"home", "down"} \cup Calls
    /\ \A i \in 1 .. Len(todo) : todo[i].step \in TtySteps
    /\ Len(typed) <= EndOfText(p, s)
    /\ s = "put" => todo[1].arg = keys[typed[Len(typed)]]
    /\ \A j \in 1 .. Len(typed) :
          ~ (s = "put" /\ j = Len(typed)) =>
             tty.screen[EndOfText(p, s) - Len(typed) + j - 1][1] = keys[typed[j]]

\* Where the cursor is and what is before it.
Placed ==
  \E r \in 0 .. VGA_HEIGHT, k \in Int :
     At(tty, r, k) /\ Inside(r, k, Step) /\ Reading(r * VGA_WIDTH + k, Step)

IInv == Typed /\ Shape(todo) /\ (Undisturbed => Sane /\ Placed)

\* The next step of the shell's call.
LEMMA HeadStep ==
  ASSUME Typed
  PROVE  /\ Len(todo) \in Nat /\ (todo = <<>> <=> Len(todo) = 0)
         /\ todo # <<>> => /\ Len(todo) > 0 /\ Head(todo) = todo[1] /\ Step = todo[1].step
                           /\ todo[1] \in Items
         /\ todo = <<>> => Step = "none" /\ Rest(todo)
         /\ Step \in {"none"} \cup Calls \cup TtySteps
<1>1. todo \in Seq(Items) /\ Len(todo) \in Nat
  BY LenProperties DEF Typed
<1>2. todo = <<>> <=> Len(todo) = 0
  BY <1>1, EmptySeq
<1>3. todo # <<>> => todo[1] \in Items /\ Head(todo) = todo[1]
  <2>1. todo # <<>> => 1 \in 1 .. Len(todo)
    BY <1>1, <1>2
  <2> QED
    BY <1>1, <2>1, ElementOfSeq
<1>4. todo = <<>> => Rest(todo)
  BY <1>2 DEF Rest, Shape
<1> QED
  BY <1>1, <1>2, <1>3, <1>4, StepKinds DEF Step

\* Between two characters the terminal is at rest, and only then may a call begin.
LEMMA AtRest ==
  ASSUME Typed, Step \notin TtySteps
  PROVE  Sane /\ Placed => Resting(tty)
<1>1. ASSUME Sane, NEW r \in 0 .. VGA_HEIGHT, NEW k \in Int, Inside(r, k, Step)
      PROVE  Inside(r, k, "none")
  BY <1>1 DEF Inside, TtySteps
<1> QED
  BY <1>1 DEF Placed, Resting, Sane

\* Anything may begin where the terminal is at rest, if nothing was typed that
\* must stand on the screen.
LEMMA RestedIsPlaced ==
  ASSUME Resting(tty'), Step' \in {"none"} \cup Starts \cup Calls,
         ~ (phase' = "read" /\ events' = {} /\ Len(typed') > 0)
  PROVE  Sane' /\ Placed'
<1>1. PICK r \in 0 .. VGA_HEIGHT, k \in Int : At(tty', r, k) /\ Inside(r, k, "none")
  BY DEF Resting
<1>2. Inside(r, k, Step')
  BY <1>1, RestingBegins
<1>3. Reading(r * VGA_WIDTH + k, Step)'
  BY DEF Reading
<1>4. At(tty', r, k) /\ Inside(r, k, Step') /\ Reading(r * VGA_WIDTH + k, Step)'
  BY <1>1, <1>2, <1>3
<1> QED
  BY <1>4 DEF Placed, Sane, Resting

\* The terminal is cleared and nothing is to be done.
LEMMA InitIInv ==
  Init => IInv
<1> SUFFICES ASSUME Init PROVE IInv
  OBVIOUS
<1>1. VgaEntryColor(WHITE, BLACK) \in Byte /\ 32 \in Byte /\ 0 \in 0 .. SizeT - 1
  <2>1. VgaEntryColor(WHITE, BLACK) \in Byte
    BY ColorIsByte
  <2>2. 32 \in Byte /\ 0 \in 0 .. SizeT - 1
    BY Geometry DEF Byte
  <2> QED
    BY <2>1, <2>2
<1>2. tty \in Terminal
  BY <1>1 DEF Init, Terminal
<1>3. buf \in [0 .. MaxStrSize - 1 -> {NUL} \cup DigitCodes] /\ buf[MaxStrSize - 1] = NUL
  BY ConsoleAssumption DEF Init, NoBuf
<1>4. todo \in Seq(Items) /\ typed \in Seq(TextCodes) /\ out \in Seq(Byte) /\ Len(typed) = 0 /\ Len(todo) = 0
  BY EmptySeq DEF Init
<1>5. Typed
  BY <1>2, <1>3, <1>4, ConsoleAssumption DEF Typed, Init
<1>6. Shape(todo)
  BY <1>4 DEF Shape
<1>7. At(tty, 0, 0) /\ Inside(0, 0, Step) /\ Reading(0 * VGA_WIDTH + 0, Step) /\ 0 \in 0 .. VGA_HEIGHT
  BY <1>4, Geometry DEF At, Inside, Step, Reading, Init
<1>8. Placed
  BY <1>7 DEF Placed
<1>9. Sane
  BY DEF Init, Sane
<1> QED
  BY <1>5, <1>6, <1>8, <1>9 DEF IInv

\* What printf is to call follows; the line is empty.
LEMMA PrintPromptKeeps ==
  ASSUME IInv, NEW p \in Prompts, PrintPrompt(p)
  PROVE  IInv'
<1>1. Typed /\ Sane /\ todo = <<>> /\ Step = "none"
  BY HeadStep DEF IInv, PrintPrompt
<1>2. PICK s \in Seq(CallsOf(ArgOf(p))) : s = Printf(FormatOf(p), ArgOf(p))
  BY FormatComplete, PrintfType
<1>3. ArgOf(p) \in Roomy
  BY ArgType, FormatAssumption DEF Roomy
<1>4. s \in Seq(Items) /\ \A i \in 1 .. Len(s) : s[i].step \in Calls
  <2>1. CallsOf(ArgOf(p)) \subseteq Items /\ \A a \in CallsOf(ArgOf(p)) : a.step \in Calls
    BY <1>3 DEF CallsOf, Items, Calls
  <2>2. \A i \in 1 .. Len(s) : s[i] \in CallsOf(ArgOf(p))
    BY ElementOfSeq
  <2>3. s \in Seq(Items)
    <3>1. PICK C : C = CallsOf(ArgOf(p))
      OBVIOUS
    <3>2. s \in Seq(C) /\ C \subseteq Items
      BY <2>1, <3>1
    <3> QED
      BY <3>2
  <2> QED
    BY <2>1, <2>2, <2>3
<1>5. Rest(s)
  <2>1. Rest(<<>>) /\ <<>> \in Seq(Items) /\ s \o <<>> = s
    BY <1>1, <1>4, HeadStep, EmptySeq, ConcatEmptySeq
  <2> QED
    BY <1>4, <2>1, CallsBefore
<1>6. todo' = s /\ typed' = <<>> /\ out' = <<>> /\ phase' = "read" /\ tty' = tty /\ buf' = buf
      /\ events' = events \cap {"torn", "erased_at_home"}
  BY <1>2 DEF PrintPrompt
<1>7. Typed'
  <2>1. typed' \in Seq(TextCodes) /\ out' \in Seq(Byte) /\ Len(typed') = 0
    BY <1>6, EmptySeq
  <2>2. Len(typed') < MaxLen /\ Len(typed') <= MaxLen
    BY <2>1, ConsoleAssumption
  <2> QED
    BY <1>1, <1>4, <1>6, <2>1, <2>2 DEF Typed
<1>8. Step' \in {"none"} \cup Calls
  <2>1. Len(s) \in Nat
    BY <1>4, LenProperties
  <2>2. Len(s) # 0 => 1 \in 1 .. Len(s)
    BY <2>1
  <2> QED
    BY <1>4, <1>6, <2>2 DEF Step
<1>9. Undisturbed' => Resting(tty')
  <2>1. "none" \notin TtySteps
    BY DEF TtySteps
  <2> QED
    BY <1>1, <1>6, <2>1, AtRest DEF IInv, Undisturbed
<1>10. Len(typed') = 0
  BY <1>6
<1>11. Undisturbed' => Sane' /\ Placed'
  BY <1>8, <1>9, <1>10, RestedIsPlaced
<1> QED
  BY <1>5, <1>6, <1>7, <1>11 DEF IInv, Rest

\* The keys of the table are bytes.
LEMMA KeysAreBytes ==
  /\ Len(keys) \in Nat /\ \A code \in TextCodes : keys[code] \in Byte
  /\ \A code \in TextCodes : KeyboardSource(code) \in Byte
<1>1. keys \in Seq(Byte)
  BY DEF keys, Byte
<1> HIDE DEF keys
<1>2. Len(keys) \in Nat /\ \A code \in TextCodes : keys[code] \in Byte
  BY <1>1, LenProperties, ElementOfSeq DEF TextCodes
<1>3. NL \in Byte /\ BS \in Byte
  BY DEF Byte
<1> QED
  BY <1>2, <1>3 DEF KeyboardSource

\* Putchar begins where nothing is under way.
LEMMA PutcharAlone ==
  ASSUME NEW c \in Byte
  PROVE  /\ Putchar(c) \in Seq(Items) /\ Shape(Putchar(c)) /\ Len(Putchar(c)) > 0
         /\ Putchar(c)[1].step = IF c = NL THEN "home" ELSE IF c = BS THEN "left" ELSE "put"
         /\ Putchar(c)[1].arg = c
         /\ \A i \in 1 .. Len(Putchar(c)) : Putchar(c)[i].step \in TtySteps
<1>1. PICK a \in Seq(Accesses) : a = Putchar(c)
  BY PutcharSteps
<1>2. \A i \in 1 .. Len(a) : a[i].step \in TtySteps
  <2>1. \A i \in 1 .. Len(a) : a[i] \in Accesses
    BY ElementOfSeq
  <2> QED
    BY <2>1 DEF Accesses
<1>3. a \in Seq(Items) /\ a \o <<>> = a /\ <<>> \in Seq(Items)
  <2>1. a \in Seq(Items)
    BY DEF Items
  <2> QED
    BY <2>1, ConcatEmptySeq, EmptySeq
<1>4. Rest(<<>>)
  BY EmptySeq DEF Rest, Shape
<1>5. Shape(a) /\ Len(a) > 0
  BY <1>1, <1>3, <1>4, PutcharBefore
<1> QED
  BY <1>1, <1>2, <1>3, <1>5, PutcharSteps

\* A key is echoed: a letter is to be put behind the line, a backspace erases
\* its last one.
LEMMA KeyKeeps ==
  ASSUME IInv, NEW code \in Codes, Key(code)
  PROVE  IInv'
<1>1. Typed /\ todo = <<>> /\ Step = "none" /\ phase = "read" /\ Accepted(code)
  BY HeadStep DEF IInv, Key
<1>2. code \in TextCodes
  BY <1>1, KeysAreBytes, ConsoleAssumption DEF Accepted, TextCodes
<1>3. PICK c \in Byte : c = KeyboardSource(code)
  BY <1>2, KeysAreBytes
<1>4. /\ todo' = Putchar(c) /\ tty' = tty /\ buf' = buf /\ prompt' = prompt /\ out' = out
      /\ events' = events
      /\ \/ c = NL /\ phase' = "print" /\ typed' = typed
         \/ c = BS /\ typed # <<>> /\ typed' = Front(typed) /\ phase' = phase
         \/ /\ c \notin {NL, BS} /\ typed' = Append(typed, code)
            /\ phase' = IF Len(typed') < MaxLen THEN "read" ELSE "print"
  BY <1>3 DEF Key
<1>5. /\ todo' \in Seq(Items) /\ Shape(todo') /\ Len(todo') > 0
      /\ Step' = IF c = NL THEN "home" ELSE IF c = BS THEN "left" ELSE "put"
      /\ todo'[1].arg = c
      /\ \A i \in 1 .. Len(todo') : todo'[i].step \in TtySteps
  BY <1>4, PutcharAlone DEF Step
<1>6. PICK n \in Nat : n = Len(typed) /\ n < MaxLen /\ typed \in Seq(TextCodes)
  BY <1>1, LenProperties DEF Typed
<1>7. c = BS /\ typed # <<>> =>
         /\ Front(typed) \in Seq(TextCodes) /\ Len(Front(typed)) = n - 1 /\ n > 0
         /\ \A j \in 1 .. n - 1 : Front(typed)[j] = typed[j]
  <2>1. typed # <<>> => n > 0
    BY <1>6, EmptySeq
  <2>2. n > 0 => 1 \in 1 .. n + 1 /\ n - 1 \in 1 - 1 .. n
    BY <1>6
  <2>3. n > 0 => /\ SubSeq(typed, 1, n - 1) \in Seq(TextCodes)
                 /\ Len(SubSeq(typed, 1, n - 1)) = n - 1
                 /\ \A j \in 1 .. n - 1 : SubSeq(typed, 1, n - 1)[j] = typed[j]
    BY <1>6, SubSeqProperties
  <2> QED
    BY <1>6, <2>1, <2>3 DEF Front
<1>8. /\ Append(typed, code) \in Seq(TextCodes) /\ Len(Append(typed, code)) = n + 1
      /\ \A j \in 1 .. n : Append(typed, code)[j] = typed[j]
      /\ Append(typed, code)[n + 1] = code
  BY <1>2, <1>6, AppendProperties
<1>9. Typed'
  <2>1. /\ typed' \in Seq(TextCodes) /\ Len(typed') <= MaxLen /\ phase' \in {"print", "read"}
        /\ phase' = "read" => Len(typed') < MaxLen
    <3>1. MaxLen \in Nat /\ n < MaxLen
      BY <1>6, ConsoleAssumption
    <3>2. CASE c = NL /\ phase' = "print" /\ typed' = typed
      BY <1>6, <3>1, <3>2
    <3>3. CASE c = BS /\ typed # <<>> /\ typed' = Front(typed) /\ phase' = phase
      <4>1. typed' \in Seq(TextCodes) /\ Len(typed') = n - 1
        BY <1>7, <3>3
      <4> QED
        BY <1>1, <3>1, <3>3, <4>1
    <3>4. CASE /\ c \notin {NL, BS} /\ typed' = Append(typed, code)
               /\ phase' = IF Len(typed') < MaxLen THEN "read" ELSE "print"
      <4>1. typed' \in Seq(TextCodes) /\ Len(typed') = n + 1
        BY <1>8, <3>4
      <4> QED
        BY <3>1, <3>4, <4>1
    <3> QED
      BY <1>4, <3>2, <3>3, <3>4
  <2> QED
    BY <1>1, <1>4, <1>5, <2>1 DEF Typed
<1>10. ASSUME Undisturbed' PROVE Sane' /\ Placed'
  <2>1. Sane /\ Placed
    BY <1>4, <1>10 DEF IInv, Undisturbed
  <2>2. PICK r \in 0 .. VGA_HEIGHT, k \in Int :
           At(tty, r, k) /\ Inside(r, k, "none") /\ Reading(r * VGA_WIDTH + k, "none")
    BY <1>1, <2>1 DEF Placed
  <2>3. PICK p \in Nat : p = r * VGA_WIDTH + k
    <3>1. r * VGA_WIDTH \in Nat /\ r * VGA_WIDTH + k >= 0
      BY <2>2, RowBegins DEF Inside
    <3> QED
      BY <3>1
  <2>4. Inside(r, k, Step')
    BY <1>5, <2>2, RestingBegins DEF Starts
  <2>5. ASSUME phase' = "read", events' = {}, Len(typed') > 0
        PROVE  /\ Step' \notin {"home", "down"} \cup Calls
               /\ Len(typed') <= EndOfText(p, Step')
               /\ Step' = "put" => todo'[1].arg = keys[typed'[Len(typed')]]
               /\ \A j \in 1 .. Len(typed') :
                     ~ (Step' = "put" /\ j = Len(typed')) =>
                        tty'.screen[EndOfText(p, Step') - Len(typed') + j - 1][1] = keys[typed'[j]]
    <3>1. n > 0 => /\ n <= p
                   /\ \A j \in 1 .. n : tty.screen[p - n + j - 1][1] = keys[typed[j]]
      BY <1>1, <1>4, <1>6, <2>2, <2>3, <2>5 DEF Reading, EndOfText
    <3>2. CASE c = BS /\ typed # <<>> /\ typed' = Front(typed)
      <4>1. Step' = "left" /\ EndOfText(p, Step') = p - 1 /\ Len(typed') = n - 1 /\ n > 0
        BY <1>5, <1>7, <3>2 DEF EndOfText
      <4>2. \A j \in 1 .. n - 1 : /\ typed'[j] = typed[j] /\ j \in 1 .. n
                                  /\ p - 1 - (n - 1) + j - 1 = p - n + j - 1
        BY <1>7, <3>2, <4>1
      <4>3. \A j \in 1 .. n - 1 : tty'.screen[p - 1 - (n - 1) + j - 1][1] = keys[typed'[j]]
        BY <1>4, <3>1, <4>1, <4>2
      <4>4. Step' \notin {"home", "down"} \cup Calls
        BY <4>1 DEF Calls
      <4>5. n - 1 <= p - 1
        BY <3>1, <4>1
      <4>6. \A j \in 1 .. Len(typed') :
               tty'.screen[EndOfText(p, Step') - Len(typed') + j - 1][1] = keys[typed'[j]]
        BY <4>1, <4>3
      <4> QED
        BY <4>1, <4>4, <4>5, <4>6
    <3>3. CASE c \notin {NL, BS} /\ typed' = Append(typed, code)
      <4>1. Step' = "put" /\ EndOfText(p, Step') = p + 1 /\ Len(typed') = n + 1
        BY <1>5, <1>8, <3>3 DEF EndOfText
      <4>2. \A j \in 1 .. n : typed'[j] = typed[j] /\ p + 1 - (n + 1) + j - 1 = p - n + j - 1
        BY <1>8, <3>3
      <4>3. keys[typed'[n + 1]] = c
        <5>1. c = keys[code]
          BY <1>3, <3>3 DEF KeyboardSource
        <5> QED
          BY <1>8, <3>3, <5>1
      <4>4. n + 1 <= p + 1
        BY <3>1
      <4>5. \A j \in 1 .. n + 1 : j # n + 1 => j \in 1 .. n /\ n > 0
        OBVIOUS
      <4>6. \A j \in 1 .. n + 1 : j # n + 1 =>
               tty'.screen[p + 1 - (n + 1) + j - 1][1] = keys[typed'[j]]
        BY <1>4, <3>1, <4>2, <4>5
      <4>7. Step' \notin {"home", "down"} \cup Calls
        BY <4>1 DEF Calls
      <4>8. \A j \in 1 .. Len(typed') : j # Len(typed') =>
               tty'.screen[EndOfText(p, Step') - Len(typed') + j - 1][1] = keys[typed'[j]]
        <5>1. PICK e \in Nat, l \in Nat : e = EndOfText(p, Step') /\ l = Len(typed') /\ e = p + 1 /\ l = n + 1
          BY <4>1
        <5>2. \A j \in 1 .. l : j # l => tty'.screen[e - l + j - 1][1] = keys[typed'[j]]
          BY <4>6, <5>1
        <5> QED
          BY <5>1, <5>2
      <4>9. Len(typed') <= EndOfText(p, Step')
        BY <4>1, <4>4
      <4>10. todo'[1].arg = keys[typed'[Len(typed')]]
        BY <1>5, <4>1, <4>3
      <4> QED
        BY <4>1, <4>7, <4>8, <4>9, <4>10
    <3> QED
      BY <1>4, <2>5, <3>2, <3>3
  <2>6. Reading(p, Step)'
    BY <1>5, <2>5 DEF Reading
  <2>7. At(tty', r, k) /\ Inside(r, k, Step') /\ Reading(r * VGA_WIDTH + k, Step)'
    BY <1>4, <2>2, <2>3, <2>4, <2>6
  <2> QED
    BY <1>4, <2>1, <2>7 DEF Placed, Sane
<1> QED
  BY <1>5, <1>9, <1>10 DEF IInv

\* The length of a function that is a sequence.
LEMMA FunctionLength ==
  ASSUME NEW n \in Nat, NEW s, DOMAIN s = 1 .. n
  PROVE  Len(s) = n
OBVIOUS

\* A function that is a sequence.
LEMMA FunctionIsSequence ==
  ASSUME NEW S, NEW n \in Nat, NEW s \in [1 .. n -> S]
  PROVE  s \in Seq(S) /\ Len(s) = n
OBVIOUS

\* A sequence of one element of a set.
LEMMA Single ==
  ASSUME NEW S, NEW d \in S
  PROVE  \E one \in Seq(S) : one = <<d>> /\ Len(one) = 1 /\ one[1] = d
<1>1. <<d>> \in Seq(S)
  OBVIOUS
<1>2. Len(<<d>>) = 1 /\ <<d>>[1] = d
  OBVIOUS
<1> QED
  BY <1>1, <1>2

\* A pair and its parts.
LEMMA PairOf ==
  ASSUME NEW A, NEW B, NEW p \in A \X B
  PROVE  \E x \in A, y \in B : p = <<x, y>>
OBVIOUS

\* All digits of a number with room in the buffer are left to write.
LEMMA NumberBegins ==
  ASSUME NEW n \in Nat, Len(Digits(n, 10)) < MaxStrSize
  PROVE  LET a == [step |-> "convert", arg |-> <<n, MaxStrSize - 1>>]
         IN  a \in Items /\ a.step \in Calls
<1>1. Len(Digits(n, 10)) \in Nat
  BY DigitsType, LenProperties
<1>2. MaxStrSize - 1 \in 0 .. MaxStrSize - 1 /\ Len(Digits(n, 10)) <= MaxStrSize - 1
  BY <1>1, ConsoleAssumption
<1>3. <<n, MaxStrSize - 1>> \in Unwritten
  BY <1>2 DEF Unwritten
<1> QED
  BY <1>3 DEF Items, Calls

\* There is room for the next digit and for those that are left.
LEMMA DigitHasRoom ==
  ASSUME NEW p \in Unwritten
  PROVE  \E v \in Nat, e \in 1 .. MaxStrSize - 1 :
           /\ p = <<v, e>> /\ representation(v % 10) \in DigitCodes
           /\ v \div 10 # 0 => [step |-> "convert", arg |-> <<v \div 10, e - 1>>] \in Items
           /\ [step |-> "strlen", arg |-> <<e - 1, 0>>] \in Items
<1>1. PICK v \in Nat, e \in 0 .. MaxStrSize - 1 : p = <<v, e>> /\ Len(Digits(v, 10)) <= e
  <2>1. p \in Nat \X (0 .. MaxStrSize - 1) /\ Len(Digits(p[1], 10)) <= p[2]
    BY DEF Unwritten
  <2>2. PICK v \in Nat, e \in 0 .. MaxStrSize - 1 : p = <<v, e>>
    BY <2>1, PairOf
  <2> QED
    BY <2>1, <2>2
<1>2. representation(v % 10) \in DigitCodes
  BY DEF representation, DigitCodes
<1>3. PICK front \in Seq(DigitCodes) : front = IF v \div 10 = 0 THEN <<>> ELSE Digits(v \div 10, 10)
  <2>1. v \div 10 \in Nat
    OBVIOUS
  <2>2. Digits(v \div 10, 10) \in Seq(DigitCodes)
    BY <2>1, DigitsType
  <2>3. <<>> \in Seq(DigitCodes)
    BY EmptySeq
  <2> QED
    BY <2>2, <2>3
<1>4. Len(front) \in Nat /\ Len(Digits(v, 10)) = Len(front) + 1
  <2>1. PICK one \in Seq(DigitCodes) : one = <<representation(v % 10)>> /\ Len(one) = 1
    BY <1>2, Single
  <2>2. Digits(v, 10) = front \o one
    BY <1>3, <2>1, DigitsStep
  <2> QED
    BY <2>1, <2>2, ConcatProperties, LenProperties
<1>5. MaxStrSize \in Nat /\ e \in 1 .. MaxStrSize - 1 /\ e - 1 \in 0 .. MaxStrSize - 1 /\ Len(front) <= e - 1
  BY <1>1, <1>4, ConsoleAssumption
<1>6. v \div 10 # 0 => [step |-> "convert", arg |-> <<v \div 10, e - 1>>] \in Items
  <2>1. ASSUME v \div 10 # 0 PROVE <<v \div 10, e - 1>> \in Unwritten
    <3>1. PICK w \in Nat : w = v \div 10
      OBVIOUS
    <3>2. Len(Digits(w, 10)) <= e - 1
      BY <1>3, <1>5, <2>1, <3>1
    <3> QED
      BY <1>5, <3>1, <3>2 DEF Unwritten
  <2> QED
    BY <2>1 DEF Items
<1>7. [step |-> "strlen", arg |-> <<e - 1, 0>>] \in Items
  <2>1. <<e - 1, 0>> \in Measured
    BY <1>5 DEF Measured
  <2> QED
    BY <2>1 DEF Items
<1> QED
  BY <1>1, <1>2, <1>5, <1>6, <1>7

\* A string may be measured up to the last byte of the buffer.
LEMMA OneMore ==
  ASSUME NEW p \in Measured
  PROVE  \E x \in 0 .. MaxStrSize - 1, k \in Nat :
           /\ p = <<x, k>> /\ x + k \in 0 .. MaxStrSize - 1
           /\ x + k # MaxStrSize - 1 => [step |-> "strlen", arg |-> <<x, k + 1>>] \in Items
           /\ \A i \in 1 .. k : [step |-> "digit", arg |-> x + i - 1] \in Items
<1>1. PICK x \in 0 .. MaxStrSize - 1, k \in Nat : p = <<x, k>> /\ x + k <= MaxStrSize - 1
  <2>1. p \in (0 .. MaxStrSize - 1) \X Nat /\ p[1] + p[2] <= MaxStrSize - 1
    BY DEF Measured
  <2>2. PICK x \in 0 .. MaxStrSize - 1, k \in Nat : p = <<x, k>>
    BY <2>1, PairOf
  <2> QED
    BY <2>1, <2>2
<1>2. MaxStrSize \in Nat /\ x \in Nat /\ x + k \in 0 .. MaxStrSize - 1
  BY <1>1, ConsoleAssumption
<1>3. ASSUME x + k # MaxStrSize - 1 PROVE [step |-> "strlen", arg |-> <<x, k + 1>>] \in Items
  <2>1. k + 1 \in Nat /\ x + (k + 1) <= MaxStrSize - 1
    BY <1>1, <1>2, <1>3
  <2>2. <<x, k + 1>> \in Measured
    BY <2>1 DEF Measured
  <2> QED
    BY <2>2 DEF Items
<1>4. ASSUME NEW i \in 1 .. k PROVE [step |-> "digit", arg |-> x + i - 1] \in Items
  <2>1. x + i - 1 \in 0 .. MaxStrSize - 1
    BY <1>1, <1>2
  <2> QED
    BY <2>1 DEF Items
<1> QED
  BY <1>1, <1>2, <1>3, <1>4

\* A call is replaced by its steps.
LEMMA BeginKeeps ==
  ASSUME IInv, Begin
  PROVE  IInv'
<1>1. /\ Typed /\ todo # <<>> /\ Len(todo) > 0 /\ Head(todo) = todo[1] /\ Step = todo[1].step
      /\ todo[1] \in Items /\ Step \in Calls /\ Step \notin TtySteps
  BY HeadStep, StepKinds DEF IInv, Begin
<1>2. PICK call \in Items : call = todo[1] /\ call.step \in Calls
  BY <1>1
<1>3. PICK rest \in Seq(Items) : rest = Tail(todo) /\ Rest(rest)
  BY <1>1, TailShape DEF IInv, Typed
<1>4. /\ phase' = phase /\ typed' = typed /\ prompt' = prompt /\ events' = events
      /\ \/ /\ call.step = "putchar" /\ todo' = Putchar(call.arg) \o rest
            /\ out' = Append(out, call.arg) /\ tty' = tty /\ buf' = buf
         \/ /\ call.step = "number" /\ buf' = NoBuf
            /\ todo' = Call("convert", <<call.arg, MaxStrSize - 1>>) \o rest
            /\ tty' = tty /\ out' = out
         \/ /\ call.step = "convert"
            /\ buf' = [buf EXCEPT ![call.arg[2] - 1] = representation(call.arg[1] % 10)]
            /\ todo' = (IF call.arg[1] \div 10 # 0
                          THEN Call("convert", <<call.arg[1] \div 10, call.arg[2] - 1>>)
                          ELSE Call("strlen", <<call.arg[2] - 1, 0>>)) \o rest
            /\ tty' = tty /\ out' = out
         \/ /\ call.step = "strlen"
            /\ todo' = (IF buf[call.arg[1] + call.arg[2]] # NUL
                          THEN Call("strlen", <<call.arg[1], call.arg[2] + 1>>)
                          ELSE [i \in 1 .. call.arg[2] |->
                                  [step |-> "digit", arg |-> call.arg[1] + i - 1]]) \o rest
            /\ tty' = tty /\ buf' = buf /\ out' = out
         \/ /\ call.step = "digit" /\ todo' = Putchar(buf[call.arg]) \o rest
            /\ out' = Append(out, buf[call.arg]) /\ tty' = tty /\ buf' = buf
         \/ /\ call.step = "color" /\ tty' = SetColor(tty, call.arg) /\ todo' = rest
            /\ buf' = buf /\ out' = out
  <2>1. call = Head(todo) /\ rest = Tail(todo)
    BY <1>1, <1>2, <1>3
  <2> QED
    BY <2>1 DEF Begin
<1>5. /\ call.step \in {"putchar", "color"} => call.arg \in Byte
      /\ call.step = "number" => call.arg \in Roomy
      /\ call.step = "convert" => call.arg \in Unwritten
      /\ call.step = "strlen" => call.arg \in Measured
      /\ call.step = "digit" => call.arg \in 0 .. MaxStrSize - 1
  BY <1>2 DEF Items, Accesses, TtySteps, Calls
<1> DEFINE Good ==
      /\ todo' \in Seq(Items) /\ Shape(todo') /\ Step' \in {"none"} \cup Starts \cup Calls
      /\ tty' \in Terminal /\ (Resting(tty) => Resting(tty'))
      /\ buf' \in [0 .. MaxStrSize - 1 -> {NUL} \cup DigitCodes] /\ buf'[MaxStrSize - 1] = NUL
      /\ out' \in Seq(Byte)
<1>6. /\ tty \in Terminal /\ buf \in [0 .. MaxStrSize - 1 -> {NUL} \cup DigitCodes]
      /\ buf[MaxStrSize - 1] = NUL /\ out \in Seq(Byte)
  BY <1>1 DEF Typed
<1>7. ASSUME NEW s \in Seq(Items), Rest(s), todo' = s
      PROVE  todo' \in Seq(Items) /\ Shape(todo') /\ Step' \in {"none"} \cup Starts \cup Calls
  <2>1. Len(s) \in Nat /\ (Len(s) # 0 => s[1] \in Items /\ s[1].step \notin TtySteps)
    <3>1. Len(s) \in Nat /\ (Len(s) # 0 => 1 \in 1 .. Len(s))
      BY LenProperties
    <3> QED
      BY <1>7, <3>1, ElementOfSeq DEF Rest
  <2>2. Len(s) # 0 => s[1].step \in Calls
    BY <2>1, StepKinds
  <2> QED
    BY <1>7, <2>1, <2>2 DEF Rest, Step
<1>8. ASSUME NEW c \in Byte, todo' = Putchar(c) \o rest, out' = Append(out, c), tty' = tty, buf' = buf
      PROVE  Good
  <2>1. todo' \in Seq(Items) /\ Shape(todo') /\ Len(todo') > 0 /\ todo'[1].step \in Starts
    BY <1>3, <1>8, PutcharBefore
  <2>2. Step' \in Starts
    BY <2>1 DEF Step
  <2>3. out' \in Seq(Byte)
    BY <1>6, <1>8, AppendProperties
  <2> QED
    BY <1>6, <1>8, <2>1, <2>2, <2>3
<1>9. ASSUME call.step = "putchar" PROVE Good
  <2>1. todo' = Putchar(call.arg) \o rest /\ out' = Append(out, call.arg) /\ tty' = tty /\ buf' = buf
    BY <1>4, <1>9
  <2>2. call.arg \in Byte
    BY <1>5, <1>9
  <2> QED
    BY <1>8, <2>1, <2>2
\* One call takes the place of another.
<1>10. ASSUME NEW a \in Items, a.step \in Calls, todo' = <<a>> \o rest
      PROVE  todo' \in Seq(Items) /\ Shape(todo') /\ Step' \in {"none"} \cup Starts \cup Calls
  <2>1. <<a>> \in Seq(Items) /\ \A i \in 1 .. Len(<<a>>) : <<a>>[i].step \in Calls
    BY <1>10
  <2>2. <<a>> \o rest \in Seq(Items) /\ Rest(<<a>> \o rest)
    BY <1>3, <2>1, CallsBefore
  <2> QED
    BY <1>7, <1>10, <2>2
<1>11. ASSUME call.step = "number" PROVE Good
  <2>1. PICK n \in Nat : n = call.arg /\ Len(Digits(n, 10)) < MaxStrSize
    BY <1>5, <1>11 DEF Roomy
  <2>2. PICK a \in Items : a = [step |-> "convert", arg |-> <<n, MaxStrSize - 1>>] /\ a.step \in Calls
    BY <2>1, NumberBegins
  <2>3. todo' = <<a>> \o rest
    BY <1>4, <1>11, <2>1, <2>2 DEF Call
  <2>4. buf' \in [0 .. MaxStrSize - 1 -> {NUL} \cup DigitCodes] /\ buf'[MaxStrSize - 1] = NUL
    BY <1>4, <1>11, ConsoleAssumption DEF NoBuf
  <2> QED
    BY <1>4, <1>6, <1>11, <1>10, <2>2, <2>3, <2>4
<1>12. ASSUME call.step = "convert" PROVE Good
  <2>1. PICK v \in Nat, e \in 1 .. MaxStrSize - 1 :
           /\ call.arg = <<v, e>> /\ representation(v % 10) \in DigitCodes
           /\ v \div 10 # 0 => [step |-> "convert", arg |-> <<v \div 10, e - 1>>] \in Items
           /\ [step |-> "strlen", arg |-> <<e - 1, 0>>] \in Items
    BY <1>5, <1>12, DigitHasRoom
  <2>5. call.arg[1] = v /\ call.arg[2] = e
    BY <2>1
  <2>6. todo' = (IF v \div 10 # 0 THEN Call("convert", <<v \div 10, e - 1>>)
                                 ELSE Call("strlen", <<e - 1, 0>>)) \o rest
    BY <1>4, <1>12, <2>5
  <2>2. PICK a \in Items : a.step \in Calls /\ todo' = <<a>> \o rest
    <3>1. CASE v \div 10 # 0
      <4>1. PICK a \in Items : a = [step |-> "convert", arg |-> <<v \div 10, e - 1>>]
        BY <2>1, <3>1
      <4>2. a.step \in Calls
        BY <4>1 DEF Calls
      <4> QED
        BY <2>6, <3>1, <4>1, <4>2 DEF Call
    <3>2. CASE v \div 10 = 0
      <4>1. PICK a \in Items : a = [step |-> "strlen", arg |-> <<e - 1, 0>>]
        BY <2>1
      <4>2. a.step \in Calls
        BY <4>1 DEF Calls
      <4> QED
        BY <2>6, <3>2, <4>1, <4>2 DEF Call
    <3> QED
      BY <3>1, <3>2
  <2>3. buf' = [buf EXCEPT ![e - 1] = representation(v % 10)] /\ tty' = tty /\ out' = out
    BY <1>4, <1>12, <2>5
  <2>4. buf' \in [0 .. MaxStrSize - 1 -> {NUL} \cup DigitCodes] /\ buf'[MaxStrSize - 1] = NUL
    BY <1>6, <2>1, <2>3, ConsoleAssumption
  <2> QED
    BY <1>6, <1>10, <2>2, <2>3, <2>4
<1>13. ASSUME call.step = "strlen" PROVE Good
  <2>1. PICK x \in 0 .. MaxStrSize - 1, k \in Nat :
           /\ call.arg = <<x, k>> /\ x + k \in 0 .. MaxStrSize - 1
           /\ x + k # MaxStrSize - 1 => [step |-> "strlen", arg |-> <<x, k + 1>>] \in Items
           /\ \A i \in 1 .. k : [step |-> "digit", arg |-> x + i - 1] \in Items
    BY <1>5, <1>13, OneMore
  <2>4. call.arg[1] = x /\ call.arg[2] = k
    BY <2>1
  <2>5. todo' = (IF buf[x + k] # NUL THEN Call("strlen", <<x, k + 1>>)
                 ELSE [i \in 1 .. k |-> [step |-> "digit", arg |-> x + i - 1]]) \o rest
    BY <1>4, <1>13, <2>4
  <2>2. ASSUME buf[x + k] # NUL
        PROVE  todo' \in Seq(Items) /\ Shape(todo') /\ Step' \in {"none"} \cup Starts \cup Calls
    <3>1. x + k # MaxStrSize - 1
      BY <1>6, <2>2
    <3>2. PICK a \in Items : a.step \in Calls /\ a = [step |-> "strlen", arg |-> <<x, k + 1>>]
      BY <2>1, <3>1 DEF Calls
    <3>3. todo' = <<a>> \o rest
      BY <2>2, <2>5, <3>2 DEF Call
    <3> QED
      BY <1>10, <3>2, <3>3
  <2>3. ASSUME buf[x + k] = NUL
        PROVE  todo' \in Seq(Items) /\ Shape(todo') /\ Step' \in {"none"} \cup Starts \cup Calls
    <3>1. PICK s : s = [i \in 1 .. k |-> [step |-> "digit", arg |-> x + i - 1]]
      OBVIOUS
    <3>2. s \in Seq(Items) /\ \A i \in 1 .. Len(s) : s[i].step \in Calls
      <4>1. s \in Seq(Items)
        <5>1. s \in [1 .. k -> Items]
          BY <2>1, <3>1
        <5> QED
          BY <5>1, FunctionIsSequence
      <4>2. \A i \in DOMAIN s : s[i].step \in Calls
        BY <3>1 DEF Calls
      <4> QED
        BY <4>1, <4>2, LenProperties
    <3>3. todo' = s \o rest
      BY <2>3, <2>5, <3>1
    <3>4. s \o rest \in Seq(Items) /\ Rest(s \o rest)
      BY <1>3, <3>2, CallsBefore
    <3> QED
      BY <1>7, <3>3, <3>4
  <2> QED
    BY <1>4, <1>6, <1>13, <2>2, <2>3
<1>14. ASSUME call.step = "digit" PROVE Good
  <2>1. PICK c \in Byte : c = buf[call.arg]
    <3>1. {NUL} \cup DigitCodes \subseteq Byte
      BY DEF DigitCodes, Byte
    <3>2. buf[call.arg] \in {NUL} \cup DigitCodes
      BY <1>5, <1>6, <1>14
    <3> QED
      BY <3>1, <3>2
  <2> QED
    BY <1>4, <1>8, <1>14, <2>1
<1>15. ASSUME call.step = "color" PROVE Good
  <2>1. call.arg \in Byte /\ tty' = [tty EXCEPT !.color = call.arg] /\ todo' = rest
    BY <1>4, <1>5, <1>15 DEF SetColor
  <2>2. tty' \in Terminal
    BY <1>6, <2>1 DEF Terminal
  <2>3. tty'.row = tty.row /\ tty'.column = tty.column /\ tty'.outside = tty.outside
    BY <1>6, <2>1 DEF Terminal
  <2>4. Resting(tty) => Resting(tty')
    BY <2>3 DEF Resting, At
  <2>5. todo' \in Seq(Items) /\ Shape(todo') /\ Step' \in {"none"} \cup Starts \cup Calls
    BY <1>3, <1>7, <2>1
  <2> QED
    BY <1>4, <1>6, <1>15, <2>2, <2>4, <2>5
<1>16. Good
  BY <1>2, <1>9, <1>11, <1>12, <1>13, <1>14, <1>15 DEF Calls
<1>17. Typed'
  BY <1>1, <1>4, <1>16 DEF Typed
<1>18. ASSUME Undisturbed' PROVE Sane' /\ Placed'
  <2>1. Sane /\ Placed
    BY <1>4, <1>18 DEF IInv, Undisturbed
  <2>2. Resting(tty')
    BY SMTT(30), <1>1, <1>16, <2>1, AtRest
  <2>3. ~ (phase' = "read" /\ events' = {} /\ Len(typed') > 0)
    BY <1>1, <1>4, <2>1 DEF Placed, Reading
  <2> QED
    BY SMTT(30), <1>16, <2>2, <2>3, RestedIsPlaced
<1> QED
  BY SMTT(30), <1>16, <1>17, <1>18 DEF IInv

\* What is printed with interrupts disabled leaves the terminal at rest, unless
\* it comes inside of a Putchar.
LEMMA InterruptKeeps ==
  ASSUME IInv, NEW n \in Numbers, Interrupt(n)
  PROVE  IInv'
<1>1. Typed
  BY DEF IInv
<1>2. n \in Nat /\ Len(Digits(n, 10)) < MaxStrSize
  BY ConsoleAssumption, FormatAssumption
<1>3. /\ todo' = todo /\ phase' = phase /\ typed' = typed /\ prompt' = prompt /\ out' = out
      /\ buf' = convert_to_base(n, 10) /\ tty' = Write(tty, Digits(n, 10) \o <<NL>>)
      /\ "interrupted" \in events' /\ events \subseteq events'
      /\ events' \subseteq events \cup {"interrupted", "torn", "mixed"}
      /\ todo # <<>> /\ Head(todo).step \in TtySteps => "torn" \in events'
  BY DEF Interrupt
<1>4. PICK s \in Seq(Byte) : s = Digits(n, 10) \o <<NL>> /\ \A i \in 1 .. Len(s) : s[i] # BS
  <2>1. PICK d \in Seq(Byte \ {BS}) : d = Digits(n, 10)
    <3>1. DigitCodes \subseteq Byte \ {BS}
      BY DEF DigitCodes, Byte
    <3>2. Digits(n, 10) \in Seq(DigitCodes)
      BY <1>2, DigitsType
    <3> QED
      BY <3>1, <3>2
  <2>2. <<NL>> \in Seq(Byte \ {BS})
    BY DEF Byte
  <2>3. PICK s \in Seq(Byte \ {BS}) : s = Digits(n, 10) \o <<NL>>
    BY <2>1, <2>2, ConcatProperties
  <2>4. \A i \in 1 .. Len(s) : s[i] # BS
    BY ElementOfSeq
  <2>5. s \in Seq(Byte)
    OBVIOUS
  <2> QED
    BY <2>3, <2>4, <2>5
<1>5. tty \in Terminal /\ tty' \in Terminal /\ (Resting(tty) => Resting(tty'))
  BY <1>1, <1>3, <1>4, WriteRests DEF Typed
<1>6. Typed'
  BY <1>1, <1>2, <1>3, <1>5, ConvertedType DEF Typed
<1>7. Step' = Step
  BY <1>3 DEF Step
<1>8. ASSUME Undisturbed' PROVE Sane' /\ Placed'
  <2>1. Sane /\ Placed
    BY <1>3, <1>8 DEF IInv, Undisturbed
  <2>2. Step \notin TtySteps
    <3>1. "none" \notin TtySteps
      BY DEF TtySteps
    <3> QED
      BY <1>1, <1>3, <1>8, <3>1, HeadStep DEF Undisturbed
  <2>3. Step' \in {"none"} \cup Starts \cup Calls
    BY <1>1, <1>7, <2>2, HeadStep
  <2>4. Resting(tty')
    BY <1>1, <1>5, <2>1, <2>2, AtRest
  <2>5. events' # {}
    BY <1>3
  <2> QED
    BY <2>3, <2>4, <2>5, RestedIsPlaced
<1> QED
  BY <1>3, <1>6, <1>8 DEF IInv

\* An access to the terminal.
LEMMA TtyStepKeeps ==
  ASSUME IInv, TtyStep
  PROVE  IInv'
<1>1. /\ Typed /\ todo \in Seq(Items) /\ Shape(todo) /\ Len(todo) > 0 /\ Head(todo) = todo[1]
      /\ Step = todo[1].step /\ todo[1] \in Items /\ Step \in TtySteps
  BY HeadStep DEF IInv, TtyStep, Typed
<1>2. PICK a \in Accesses : a = todo[1] /\ Step = a.step
  BY <1>1, StepKinds
<1>3. PICK t \in Seq(Items) : t = Tail(todo) /\ Len(t) = Len(todo) - 1 /\ Len(t) \in Nat
  BY <1>1, TailShape, LenProperties
<1>4. /\ Shape(t)
      /\ a.step # "end_of_screen" => Len(t) > 0 /\ t[1].step = Successor(a.step)
      /\ a.step = "end_of_screen" => Rest(t)
  BY <1>1, <1>2, <1>3, TailShape
<1>5. /\ todo' = t /\ tty' = Accessed(tty, a) /\ buf' = buf /\ phase' = phase /\ typed' = typed
      /\ prompt' = prompt /\ out' = out /\ events \subseteq events'
      /\ events' \subseteq events \cup {"erased_at_home", "cleaned"}
      /\ a.step = "left" /\ Cursor(tty) = 0 => "erased_at_home" \in events'
      /\ a.step = "end_of_screen" /\ tty.row = VGA_HEIGHT => "cleaned" \in events'
  BY <1>1, <1>2, <1>3 DEF TtyStep
<1>6. Typed'
  BY <1>1, <1>5, AccessedType DEF Typed
<1>7. /\ a.step # "end_of_screen" => Step' = Successor(a.step)
      /\ a.step = "end_of_screen" => Step' \in {"none"} \cup Calls /\ Successor(a.step) = "none"
  <2>1. ASSUME a.step = "end_of_screen" PROVE Step' \in {"none"} \cup Calls
    <3>1. Len(t) > 0 => t[1] \in Items /\ t[1].step \notin TtySteps
      <4>1. Len(t) > 0 => 1 \in 1 .. Len(t)
        BY <1>3
      <4> QED
        BY <1>4, <2>1, <4>1, ElementOfSeq DEF Rest
    <3> QED
      BY <1>3, <1>5, <3>1, StepKinds DEF Step
  <2> QED
    BY <1>4, <1>5, <2>1 DEF Step, Successor
<1>8. ASSUME Undisturbed' PROVE Sane' /\ Placed'
  <2>1. Sane /\ Placed /\ (a.step = "left" => Cursor(tty) # 0)
    BY <1>5, <1>8 DEF IInv, Undisturbed
  <2>2. PICK r \in 0 .. VGA_HEIGHT, k \in Int :
           At(tty, r, k) /\ Inside(r, k, a.step) /\ Reading(r * VGA_WIDTH + k, a.step)
    BY <1>2, <2>1 DEF Placed
  <2>3. tty \in Terminal /\ tty.outside = {}
    BY <1>1, <2>1 DEF Typed, Sane
  <2>4. PICK r2 \in 0 .. VGA_HEIGHT, k2 \in Int :
            /\ At(Accessed(tty, a), r2, k2) /\ Inside(r2, k2, Successor(a.step))
            /\ Accessed(tty, a).outside = {}
            /\ a.step \in {"home", "down"} \/ (a.step = "end_of_screen" /\ tty.row = VGA_HEIGHT)
                  \/ KeepsText(tty, a, r * VGA_WIDTH + k, Accessed(tty, a), r2 * VGA_WIDTH + k2)
    BY <2>1, <2>2, <2>3, AccessedPlaces
  <2>5. PICK p \in Int, p2 \in Int : p = r * VGA_WIDTH + k /\ p2 = r2 * VGA_WIDTH + k2
    <3>1. r * VGA_WIDTH \in Nat /\ r2 * VGA_WIDTH \in Nat
      BY RowBegins
    <3> QED
      BY <3>1
  <2>6. Inside(r2, k2, Step')
    BY <1>7, <2>4, RestingBegins
  <2>7. a.step \in {"put", "blank"} => p \in Screen
    <3>1. a.step \in {"put", "blank"} => r < VGA_HEIGHT /\ k < VGA_WIDTH
      BY <2>2, Geometry DEF Inside
    <3> QED
      BY <2>2, <2>5, <3>1, ColumnBounds
  <2>8. ASSUME phase' = "read", events' = {}, Len(typed') > 0
        PROVE  /\ Step' \notin {"home", "down"} \cup Calls /\ Step' # "put"
               /\ \A i \in 1 .. Len(todo') : todo'[i].step \in TtySteps
               /\ Len(typed') <= EndOfText(p2, Step')
               /\ \A j \in 1 .. Len(typed') :
                     tty'.screen[EndOfText(p2, Step') - Len(typed') + j - 1][1] = keys[typed'[j]]
    <3>1. PICK n \in Nat : n = Len(typed) /\ n = Len(typed') /\ n > 0
      BY <1>1, <1>5, <2>8, LenProperties DEF Typed
    <3>2. phase = "read" /\ events = {}
      BY <1>5, <2>8
    <3>3. /\ a.step \notin {"home", "down"} \cup Calls
          /\ \A i \in 1 .. Len(todo) : todo[i].step \in TtySteps
          /\ n <= EndOfText(p, a.step)
          /\ a.step = "put" => todo[1].arg = keys[typed[n]]
          /\ \A j \in 1 .. n :
                ~ (a.step = "put" /\ j = n) =>
                   tty.screen[EndOfText(p, a.step) - n + j - 1][1] = keys[typed[j]]
      BY <2>2, <2>5, <3>1, <3>2 DEF Reading
    <3>4. KeepsText(tty, a, p, tty', p2)
      BY <1>5, <2>4, <2>5, <2>8, <3>3
    <3>5. \A i \in 1 .. Len(todo') : todo'[i].step \in TtySteps
      <4>1. ASSUME NEW i \in 1 .. Len(t) PROVE t[i].step \in TtySteps
        <5>1. todo # <<>> /\ i + 1 \in 1 .. Len(todo)
          BY <1>1, <1>3, HeadStep
        <5>2. t[i] = todo[i + 1]
          BY <1>1, <1>3, <5>1, HeadTailProperties
        <5> QED
          BY <3>3, <5>1, <5>2
      <4> QED
        BY <1>5, <4>1
    <3>6. Step' = Successor(a.step)
      <4>1. Step' \notin Calls
        <5>1. Len(t) > 0 => t[1].step \in TtySteps
          <6>1. Len(t) > 0 => 1 \in 1 .. Len(t)
            BY <1>3
          <6> QED
            BY <1>5, <3>5, <6>1
        <5>2. "none" \notin Calls /\ \A s \in TtySteps : s \notin Calls
          BY DEF Calls, TtySteps
        <5> QED
          BY <1>3, <1>5, <5>1, <5>2 DEF Step
      <4> QED
        BY <1>7, <4>1
    <3>7. PICK text : \A j \in 1 .. n : text[j] = keys[typed[j]]
      <4>1. \E text : text = [j \in 1 .. n |-> keys[typed[j]]]
        OBVIOUS
      <4> QED
        BY <4>1
    <3>8. PICK q \in Int : q = EndOfText(p, a.step) /\ q = EndOfText(p2, Step')
      <4>1. EndOfText(p, a.step) \in Int
        BY DEF EndOfText
      <4> QED
        BY <3>4, <3>6, <4>1 DEF KeepsText
    <3>9. \A j \in 1 .. n : tty'.screen[q - n + j - 1][1] = text[j]
      <4>1. a.step = "put" => a.arg = text[n]
        BY <1>2, <3>1, <3>3, <3>7
      <4>2. \A j \in 1 .. n : a.step # "put" \/ j # n => tty.screen[q - n + j - 1][1] = text[j]
        BY <3>3, <3>7, <3>8
      <4>3. n <= q
        BY <3>3, <3>8
      <4>4. ASSUME NEW j \in 1 .. n PROVE tty'.screen[q - n + j - 1][1] = text[j]
        <5>1. PICK i \in Int : i = q - n + j - 1
          OBVIOUS
        <5>2. i >= 0 /\ i <= q - 1
          BY <4>3, <5>1
        <5>3. a.step # "put" \/ j # n => tty.screen[i][1] = text[j]
          BY <4>2, <5>1
        <5>4. CASE a.step \notin {"put", "blank"}
          <6>1. tty'.screen = tty.screen
            BY <3>4, <5>4 DEF KeepsText
          <6> QED
            BY <5>1, <5>3, <5>4, <6>1
        <5>5. CASE a.step = "blank"
          <6>1. q = p /\ p \in Screen
            BY <2>7, <3>8, <5>5 DEF EndOfText
          <6>2. i \in Screen /\ i # p
            BY <5>2, <6>1, Geometry DEF Screen
          <6>3. tty'.screen[i][1] = tty.screen[i][1]
            BY <3>4, <5>5, <6>2 DEF KeepsText
          <6> QED
            BY <5>1, <5>3, <5>5, <6>3
        <5>6. CASE a.step = "put" /\ j # n
          <6>1. q = p + 1 /\ p \in Screen
            BY <2>7, <3>8, <5>6 DEF EndOfText
          <6>2. i \in Screen /\ i # p
            <7>1. i < p
              BY <5>1, <5>6, <6>1
            <7> QED
              BY <5>2, <6>1, <7>1, Geometry DEF Screen
          <6>3. tty'.screen[i][1] = tty.screen[i][1]
            BY <3>4, <5>6, <6>2 DEF KeepsText
          <6> QED
            BY <5>1, <5>3, <5>6, <6>3
        <5>7. CASE a.step = "put" /\ j = n
          <6>1. q = p + 1 /\ p \in Screen
            BY <2>7, <3>8, <5>7 DEF EndOfText
          <6>2. i = p
            BY <5>1, <5>7, <6>1
          <6>3. tty'.screen[p][1] = a.arg
            BY <3>4, <5>7, <6>1 DEF KeepsText
          <6> QED
            BY <4>1, <5>1, <5>7, <6>2, <6>3
        <5> QED
          BY <5>4, <5>5, <5>6, <5>7
      <4> QED
        BY <4>4
    <3>10. Step' \notin {"home", "down"} \cup Calls /\ Step' # "put"
      BY <3>3, <3>6 DEF Successor, Calls
    <3>11. \A j \in 1 .. n : tty'.screen[EndOfText(p2, Step') - n + j - 1][1] = keys[typed'[j]]
      BY <1>5, <3>7, <3>8, <3>9
    <3> QED
      BY <3>1, <3>3, <3>5, <3>8, <3>10, <3>11
  <2>9. Reading(p2, Step)'
    BY <2>8 DEF Reading
  <2>10. At(tty', r2, k2) /\ Inside(r2, k2, Step') /\ Reading(r2 * VGA_WIDTH + k2, Step)'
    BY <1>5, <2>4, <2>5, <2>6, <2>9
  <2> QED
    BY <1>5, <2>4, <2>10 DEF Placed, Sane
<1> QED
  BY <1>4, <1>5, <1>6, <1>8 DEF IInv

\* Every step keeps the invariant.
LEMMA NextKeeps ==
  IInv /\ [Next]_vars => IInv'
<1> SUFFICES ASSUME IInv, [Next]_vars PROVE IInv'
  OBVIOUS
<1>1. CASE UNCHANGED vars
  BY <1>1 DEF vars, IInv, Typed, Undisturbed, Sane, Placed, Reading, Step
<1>2. CASE \E p \in Prompts : PrintPrompt(p)
  BY <1>2, PrintPromptKeeps
<1>3. CASE \E code \in Codes : Key(code)
  BY <1>3, KeyKeeps
<1>4. CASE Begin
  BY <1>4, BeginKeeps
<1>5. CASE TtyStep
  BY <1>5, TtyStepKeeps
<1>6. CASE \E n \in Numbers : Interrupt(n)
  BY <1>6, InterruptKeeps
<1> QED
  BY <1>1, <1>2, <1>3, <1>4, <1>5, <1>6 DEF Next

\* The invariant.
LEMMA IInvAlways ==
  Spec => []IInv
BY InitIInv, NextKeeps, PTL DEF Spec

(***************************************************************************)
(* On every screen the terminal writes outside of it only after another    *)
(* print came inside of Putchar or a backspace was echoed in the first     *)
(* cell (tty.cpp:47-81, kio.cpp:35-40): otherwise each comparison for      *)
(* equality comes before the cursor has gone on.                           *)
(***************************************************************************)
THEOREM WritesStayInside ==
  Spec => []InsideScreen
<1>1. IInv => InsideScreen
  <2> SUFFICES ASSUME IInv PROVE InsideScreen
    OBVIOUS
  <2>1. Typed
    BY DEF IInv
  <2>2. tty.row \in 0 .. SizeT - 1 /\ tty.column \in 0 .. SizeT - 1 /\ tty.color \in Byte
        /\ \A i \in Screen : tty.screen[i] \in Byte \X Byte
    BY <2>1 DEF Typed, Terminal
  <2>3. DOMAIN buf = DOMAIN NoBuf /\ buf[MaxStrSize - 1] = NUL
    BY <2>1 DEF Typed, NoBuf
  <2>4. \A i \in 1 .. Len(out) : out[i] \in Byte
    BY <2>1, ElementOfSeq DEF Typed
  <2>5. TypeOK
    BY <2>1, <2>2, <2>3, <2>4 DEF Typed, TypeOK
  <2> QED
    BY <2>5 DEF IInv, InsideScreen, Undisturbed
<1> QED
  BY <1>1, IInvAlways, PTL

(***************************************************************************)
(* On every screen and for a line of any length, the keys typed so far are *)
(* the characters before the cursor, over the ends of rows and back (the   *)
(* column is then below zero), until another print or the end of the       *)
(* screen (tty.cpp:58-74, ps2_keyboard.cpp:113-136, kio.cpp:22-51).        *)
(***************************************************************************)
THEOREM LineStandsBeforeCursor ==
  Spec => []TypedTextIsOnScreen
<1>1. IInv => TypedTextIsOnScreen
  <2> SUFFICES ASSUME IInv, phase = "read", todo = <<>>, events = {}, NEW k \in 1 .. Len(typed)
               PROVE  tty.screen[(Cursor(tty) + SizeT - k) % SizeT][1] = keys[typed[Len(typed) - k + 1]]
    BY DEF TypedTextIsOnScreen
  <2>1. Typed /\ Step = "none"
    BY HeadStep DEF IInv
  <2>2. Placed /\ tty \in Terminal
    BY <2>1 DEF IInv, Undisturbed, Typed
  <2>3. PICK n \in Nat : n = Len(typed) /\ k \in 1 .. n /\ n > 0
    <3>1. Len(typed) \in Nat
      BY <2>1, LenProperties DEF Typed
    <3> QED
      BY <3>1
  <2>4. PICK r \in 0 .. VGA_HEIGHT, c \in Int :
           At(tty, r, c) /\ Inside(r, c, "none") /\ Reading(r * VGA_WIDTH + c, "none")
    BY <2>1, <2>2 DEF Placed
  <2>5. PICK p \in Nat : p = r * VGA_WIDTH + c /\ p < SizeT /\ p = Cursor(tty)
    <3>1. Cursor(tty) = r * VGA_WIDTH + c
      BY <2>2, <2>4, CursorAt
    <3>2. r * VGA_WIDTH + c \in Screen
      <4>1. r < VGA_HEIGHT /\ c < VGA_WIDTH
        BY <2>4, Geometry DEF Inside
      <4> QED
        BY <2>4, <4>1, ColumnBounds
    <3> QED
      BY <3>1, <3>2, Geometry DEF Screen
  <2>6. n <= p /\ \A j \in 1 .. n : tty.screen[p - n + j - 1][1] = keys[typed[j]]
    BY <2>3, <2>4, <2>5 DEF Reading, EndOfText
  <2>7. PICK j \in 1 .. n : j = n - k + 1 /\ p - n + j - 1 = p - k
    <3>1. n - k + 1 \in 1 .. n /\ p - n + (n - k + 1) - 1 = p - k
      BY <2>3
    <3> QED
      BY <3>1
  <2>8. (p + SizeT - k) % SizeT = p - k
    <3>1. p - k \in Nat /\ p - k < SizeT /\ p + SizeT - k = (p - k) + SizeT
      BY <2>3, <2>5, <2>6, Geometry
    <3> QED
      BY <3>1, Wrapped
  <2> QED
    BY <2>3, <2>5, <2>6, <2>7, <2>8
<1> QED
  BY <1>1, IInvAlways, PTL

-----------------------------------------------------------------------------
(* What printf prints.                                                     *)

\* The length of the string that begins there in a buffer b.
LengthIn(b, begin) ==
  (CHOOSE k \in begin .. MaxStrSize - 1 :
      b[k] = NUL /\ \A i \in begin .. k - 1 : b[i] # NUL) - begin

\* n characters of a buffer b.
TextAt(b, begin, n) == [j \in 1 .. n |-> b[begin + j - 1]]

\* What a call still passes to putchar when the static buffer is b: the digits to
\* write and those that stand there, or what was measured and what is to be.
Said(a, b) ==
  CASE a.step = "putchar" -> <<a.arg>>
    [] a.step = "digit"   -> <<b[a.arg]>>
    [] a.step = "number"  -> Digits(a.arg, 10)
    [] a.step = "convert" -> Digits(a.arg[1], 10) \o TextAt(b, a.arg[2], LengthIn(b, a.arg[2]))
    [] a.step = "strlen"  -> TextAt(b, a.arg[1], a.arg[2] + LengthIn(b, a.arg[1] + a.arg[2]))
    [] OTHER              -> <<>>

\* s is what stands in t behind place m and up to place e.
Matches(s, t, m, e) == e = m + Len(s) /\ \A j \in 1 .. Len(s) : t[m + j] = s[j]

\* What the calls in q pass to putchar is what stands in t behind place m and up
\* to place e; at is where each of them ends.
Says(q, b, t, m, e) ==
  \E at \in [0 .. Len(q) -> Nat] :
     /\ at[0] = m /\ at[Len(q)] = e
     /\ \A i \in 1 .. Len(q) : Matches(Said(q[i], b), t, at[i - 1], at[i])

\* Calls that print nothing.
LEMMA SaysNothing ==
  ASSUME NEW S, NEW q \in Seq(S), NEW b, NEW t, NEW m \in Nat,
         \A i \in 1 .. Len(q) : Said(q[i], b) = <<>>
  PROVE  Says(q, b, t, m, m)
<1>1. Len(q) \in Nat
  BY LenProperties
<1>2. PICK at : at = [i \in 0 .. Len(q) |-> m]
  OBVIOUS
<1>3. at \in [0 .. Len(q) -> Nat] /\ at[0] = m /\ at[Len(q)] = m
  BY <1>1, <1>2
<1>4. ASSUME NEW i \in 1 .. Len(q) PROVE Matches(Said(q[i], b), t, at[i - 1], at[i])
  <2>1. at[i - 1] = m /\ at[i] = m
    BY <1>1, <1>2
  <2>2. Len(<<>>) = 0
    BY EmptySeq
  <2> QED
    BY <2>1, <2>2 DEF Matches
<1> QED
  BY <1>3, <1>4 DEF Says

\* Calls that print a character each.
LEMMA SaysCharacters ==
  ASSUME NEW S, NEW q \in Seq(S), NEW b, NEW t, NEW m \in Nat,
         \A i \in 1 .. Len(q) : Said(q[i], b) = <<t[m + i]>>
  PROVE  Says(q, b, t, m, m + Len(q))
<1>1. Len(q) \in Nat
  BY LenProperties
<1>2. PICK at : at = [i \in 0 .. Len(q) |-> m + i]
  OBVIOUS
<1>3. at \in [0 .. Len(q) -> Nat] /\ at[0] = m /\ at[Len(q)] = m + Len(q)
  BY <1>1, <1>2
<1>4. ASSUME NEW i \in 1 .. Len(q) PROVE Matches(Said(q[i], b), t, at[i - 1], at[i])
  <2>1. at[i - 1] = m + i - 1 /\ at[i] = m + i
    BY <1>1, <1>2
  <2>2. PICK s : s = <<t[m + i]>> /\ Len(s) = 1 /\ s[1] = t[m + i]
    OBVIOUS
  <2>3. m + i = (m + i - 1) + 1
    OBVIOUS
  <2>4. \A j \in 1 .. 1 : j = 1
    OBVIOUS
  <2>5. Matches(s, t, m + i - 1, m + i)
    BY <2>2, <2>3, <2>4 DEF Matches
  <2> QED
    BY <2>1, <2>2, <2>5
<1> QED
  BY <1>3, <1>4 DEF Says

\* A sequence of one element.
LEMMA OneElement ==
  ASSUME NEW a
  PROVE  Len(<<a>>) = 1 /\ <<a>>[1] = a
OBVIOUS

\* One call.
LEMMA SaysOne ==
  ASSUME NEW a, NEW b, NEW t, NEW m \in Nat, NEW e \in Nat, Matches(Said(a, b), t, m, e)
  PROVE  Says(<<a>>, b, t, m, e)
<1>1. PICK q : q = <<a>> /\ Len(q) = 1 /\ q[1] = a
  BY OneElement
<1>2. PICK at : at = [i \in 0 .. 1 |-> IF i = 0 THEN m ELSE e]
  OBVIOUS
<1>3. at \in [0 .. 1 -> Nat] /\ at[0] = m /\ at[1] = e
  BY <1>2
<1>4. ASSUME NEW i \in 1 .. 1 PROVE Matches(Said(q[i], b), t, at[i - 1], at[i])
  <2>1. i = 1 /\ i - 1 = 0
    OBVIOUS
  <2> QED
    BY <1>1, <1>3, <2>1
<1>5. Len(q) = 1
  BY <1>1
<1>6. Says(q, b, t, m, e)
  BY <1>3, <1>4, <1>5 DEF Says
<1> QED
  BY <1>1, <1>6

\* Calls and calls behind them.
LEMMA SaysConcat ==
  ASSUME NEW S, NEW a \in Seq(S), NEW q \in Seq(S), NEW b, NEW t, NEW m, NEW k, NEW e,
         Says(a, b, t, m, k), Says(q, b, t, k, e)
  PROVE  Says(a \o q, b, t, m, e)
<1>1. PICK s : s = a \o q /\ Len(s) = Len(a) + Len(q) /\ Len(a) \in Nat /\ Len(q) \in Nat
  BY ConcatProperties, LenProperties
<1>2. \A i \in 1 .. Len(s) : s[i] = IF i <= Len(a) THEN a[i] ELSE q[i - Len(a)]
  <2>1. \A i \in 1 .. Len(a) + Len(q) : (a \o q)[i] = IF i <= Len(a) THEN a[i] ELSE q[i - Len(a)]
    BY ConcatProperties
  <2> QED
    BY <1>1, <2>1
<1>3. PICK f \in [0 .. Len(a) -> Nat] :
         /\ f[0] = m /\ f[Len(a)] = k
         /\ \A i \in 1 .. Len(a) : Matches(Said(a[i], b), t, f[i - 1], f[i])
  BY DEF Says
<1>4. PICK g \in [0 .. Len(q) -> Nat] :
         /\ g[0] = k /\ g[Len(q)] = e
         /\ \A i \in 1 .. Len(q) : Matches(Said(q[i], b), t, g[i - 1], g[i])
  BY DEF Says
<1>5. PICK at : at = [i \in 0 .. Len(s) |-> IF i <= Len(a) THEN f[i] ELSE g[i - Len(a)]]
  OBVIOUS
<1>6. at \in [0 .. Len(s) -> Nat]
  <2>1. ASSUME NEW i \in 0 .. Len(s) PROVE at[i] \in Nat
    <3>1. i <= Len(a) => i \in 0 .. Len(a)
      BY <1>1
    <3>2. ~ (i <= Len(a)) => i - Len(a) \in 0 .. Len(q)
      BY <1>1
    <3> QED
      BY <1>5, <3>1, <3>2
  <2> QED
    BY <1>5, <2>1
<1>7. \A i \in 0 .. Len(q) : at[Len(a) + i] = g[i]
  <2>1. ASSUME NEW i \in 0 .. Len(q) PROVE at[Len(a) + i] = g[i]
    <3>1. Len(a) + i \in 0 .. Len(s) /\ Len(a) + i - Len(a) = i /\ (Len(a) + i <= Len(a) <=> i = 0)
      BY <1>1
    <3>2. CASE i = 0
      BY <1>1, <1>3, <1>4, <1>5, <3>1, <3>2
    <3>3. CASE i # 0
      BY <1>5, <3>1, <3>3
    <3> QED
      BY <3>2, <3>3
  <2> QED
    BY <2>1
<1>8. at[0] = m /\ at[Len(s)] = e
  <2>1. 0 \in 0 .. Len(s) /\ 0 <= Len(a) /\ Len(q) \in 0 .. Len(q)
    BY <1>1
  <2> QED
    BY <1>1, <1>3, <1>4, <1>5, <1>7, <2>1
<1>9. ASSUME NEW i \in 1 .. Len(s) PROVE Matches(Said(s[i], b), t, at[i - 1], at[i])
  <2>1. CASE i <= Len(a)
    <3>1. i \in 1 .. Len(a) /\ i \in 0 .. Len(s) /\ i - 1 \in 0 .. Len(s) /\ i - 1 <= Len(a)
      BY <1>1, <2>1
    <3>2. s[i] = a[i] /\ at[i] = f[i] /\ at[i - 1] = f[i - 1]
      BY <1>2, <1>5, <2>1, <3>1
    <3> QED
      BY <1>3, <3>1, <3>2
  <2>2. CASE ~ (i <= Len(a))
    <3>1. PICK j \in 1 .. Len(q) : j = i - Len(a) /\ Len(a) + j = i /\ Len(a) + (j - 1) = i - 1
                                   /\ j \in 0 .. Len(q) /\ j - 1 \in 0 .. Len(q)
      <4>1. i - Len(a) \in 1 .. Len(q)
        BY <1>1, <2>2
      <4> QED
        BY <1>1, <4>1
    <3>2. s[i] = q[j]
      BY <1>2, <2>2, <3>1
    <3>3. at[i] = g[j] /\ at[i - 1] = g[j - 1]
      BY <1>7, <3>1
    <3> QED
      BY <1>4, <3>1, <3>2, <3>3
  <2> QED
    BY <2>1, <2>2
<1> QED
  BY <1>1, <1>6, <1>8, <1>9 DEF Says

\* The first call and the others.
LEMMA SaysTail ==
  ASSUME NEW S, NEW q \in Seq(S), Len(q) > 0, NEW b, NEW t, NEW m, NEW e, Says(q, b, t, m, e)
  PROVE  \E k \in Nat : Matches(Said(q[1], b), t, m, k) /\ Says(Tail(q), b, t, k, e)
<1>1. PICK r : r = Tail(q) /\ Len(r) = Len(q) - 1 /\ Len(q) \in Nat
               /\ \A i \in 1 .. Len(r) : r[i] = q[i + 1]
  <2>1. q # <<>> /\ Len(q) \in Nat
    BY EmptySeq, LenProperties
  <2> QED
    BY <2>1, HeadTailProperties
<1>2. PICK at \in [0 .. Len(q) -> Nat] :
         /\ at[0] = m /\ at[Len(q)] = e
         /\ \A i \in 1 .. Len(q) : Matches(Said(q[i], b), t, at[i - 1], at[i])
  BY DEF Says
<1>3. PICK k \in Nat : k = at[1]
  <2>1. 1 \in 0 .. Len(q)
    BY <1>1
  <2> QED
    BY <2>1
<1>4. Matches(Said(q[1], b), t, m, k)
  <2>1. 1 \in 1 .. Len(q) /\ 1 - 1 = 0
    BY <1>1
  <2> QED
    BY <1>2, <1>3, <2>1
<1>5. PICK f : f = [i \in 0 .. Len(r) |-> at[i + 1]]
  OBVIOUS
<1>6. f \in [0 .. Len(r) -> Nat] /\ f[0] = k /\ f[Len(r)] = e
  <2>1. \A i \in 0 .. Len(r) : i + 1 \in 0 .. Len(q)
    BY <1>1
  <2>2. 0 \in 0 .. Len(r) /\ Len(r) \in 0 .. Len(r) /\ Len(r) + 1 = Len(q) /\ 0 + 1 = 1
    BY <1>1
  <2>3. f[0] = at[1] /\ f[Len(r)] = at[Len(q)]
    BY <1>5, <2>2
  <2> QED
    BY <1>2, <1>3, <1>5, <2>1, <2>3
<1>7. ASSUME NEW i \in 1 .. Len(r) PROVE Matches(Said(r[i], b), t, f[i - 1], f[i])
  <2>1. i + 1 \in 1 .. Len(q) /\ i \in 0 .. Len(r) /\ i - 1 \in 0 .. Len(r) /\ (i + 1) - 1 = i
        /\ (i - 1) + 1 = i
    BY <1>1
  <2>2. f[i] = at[i + 1] /\ f[i - 1] = at[i] /\ r[i] = q[i + 1]
    BY <1>1, <1>5, <2>1
  <2> QED
    BY <1>2, <2>1, <2>2
<1>8. Says(r, b, t, k, e)
  BY <1>6, <1>7 DEF Says
<1> QED
  BY <1>1, <1>4, <1>8

\* The buffer matters only to calls that read it.
LEMMA SaysSame ==
  ASSUME NEW q, NEW b, NEW c, NEW t, NEW m, NEW e, Says(q, b, t, m, e),
         \A i \in 1 .. Len(q) : Said(q[i], b) = Said(q[i], c)
  PROVE  Says(q, c, t, m, e)
BY DEF Says

\* Steps that are taken from the buffer stand behind accesses and digits only.
FromBuffer == {"convert", "strlen", "digit"}

InOrder(q) ==
  \A i \in 1 .. Len(q) : q[i].step \in FromBuffer =>
     \A j \in 1 .. i - 1 : q[j].step \in TtySteps \cup {"digit"}

\* Behind a call of another kind nothing is taken from the buffer.
LEMMA OrderTail ==
  ASSUME NEW S, NEW q \in Seq(S), Len(q) > 0, InOrder(q)
  PROVE  /\ InOrder(Tail(q))
         /\ q[1].step \notin TtySteps \cup {"digit"} =>
               \A i \in 1 .. Len(Tail(q)) : Tail(q)[i].step \notin FromBuffer
<1>1. PICK r : r = Tail(q) /\ Len(r) = Len(q) - 1 /\ Len(q) \in Nat
               /\ \A i \in 1 .. Len(r) : r[i] = q[i + 1]
  <2>1. q # <<>> /\ Len(q) \in Nat
    BY EmptySeq, LenProperties
  <2> QED
    BY <2>1, HeadTailProperties
<1>2. ASSUME NEW i \in 1 .. Len(r), r[i].step \in FromBuffer
      PROVE  /\ q[1].step \in TtySteps \cup {"digit"}
             /\ \A j \in 1 .. i - 1 : r[j].step \in TtySteps \cup {"digit"}
  <2>1. i + 1 \in 1 .. Len(q) /\ q[i + 1].step \in FromBuffer
    BY <1>1, <1>2
  <2>2. \A j \in 1 .. (i + 1) - 1 : q[j].step \in TtySteps \cup {"digit"}
    BY <2>1 DEF InOrder
  <2>3. 1 \in 1 .. (i + 1) - 1
    BY <1>1
  <2>4. \A j \in 1 .. i - 1 : j + 1 \in 1 .. (i + 1) - 1 /\ j \in 1 .. Len(r)
    BY <1>1
  <2> QED
    BY <1>1, <2>2, <2>3, <2>4
<1>3. InOrder(r)
  BY <1>2 DEF InOrder
<1> QED
  BY <1>1, <1>2, <1>3

\* Steps in front of others.
LEMMA OrderConcat ==
  ASSUME NEW S, NEW a \in Seq(S), NEW q \in Seq(S), InOrder(a), InOrder(q),
         \/ \A i \in 1 .. Len(a) : a[i].step \in TtySteps \cup {"digit"}
         \/ \A i \in 1 .. Len(q) : q[i].step \notin FromBuffer
  PROVE  InOrder(a \o q)
<1>1. PICK s : s = a \o q /\ Len(s) = Len(a) + Len(q) /\ Len(a) \in Nat /\ Len(q) \in Nat
  BY ConcatProperties, LenProperties
<1>2. \A i \in 1 .. Len(s) : s[i] = IF i <= Len(a) THEN a[i] ELSE q[i - Len(a)]
  <2>1. \A i \in 1 .. Len(a) + Len(q) : (a \o q)[i] = IF i <= Len(a) THEN a[i] ELSE q[i - Len(a)]
    BY ConcatProperties
  <2> QED
    BY <1>1, <2>1
<1>3. ASSUME NEW i \in 1 .. Len(s), s[i].step \in FromBuffer, NEW j \in 1 .. i - 1
      PROVE  s[j].step \in TtySteps \cup {"digit"}
  <2>1. j \in 1 .. Len(s)
    BY <1>1
  <2>2. CASE i <= Len(a)
    <3>1. i \in 1 .. Len(a) /\ j <= Len(a) /\ s[i] = a[i]
      BY <1>1, <1>2, <2>2
    <3>2. s[j] = a[j]
      BY <1>2, <2>1, <3>1
    <3> QED
      BY <1>3, <3>1, <3>2 DEF InOrder
  <2>3. CASE ~ (i <= Len(a))
    <3>1. PICK k \in 1 .. Len(q) : k = i - Len(a) /\ s[i] = q[k]
      <4>1. i - Len(a) \in 1 .. Len(q)
        BY <1>1, <2>3
      <4> QED
        BY <1>2, <2>3, <4>1
    <3>2. \A l \in 1 .. Len(a) : a[l].step \in TtySteps \cup {"digit"}
      BY <1>3, <3>1
    <3>3. \A l \in 1 .. k - 1 : q[l].step \in TtySteps \cup {"digit"}
      BY <1>3, <3>1 DEF InOrder
    <3>4. CASE j <= Len(a)
      <4>1. j \in 1 .. Len(a)
        BY <1>1, <3>4
      <4> QED
        BY <1>2, <2>1, <3>2, <3>4, <4>1
    <3>5. CASE ~ (j <= Len(a))
      <4>1. j - Len(a) \in 1 .. k - 1
        BY <1>1, <3>1, <3>5
      <4> QED
        BY <1>2, <2>1, <3>3, <3>5, <4>1
    <3> QED
      BY <3>4, <3>5
  <2> QED
    BY <2>2, <2>3
<1>4. InOrder(s)
  BY <1>3 DEF InOrder
<1> QED
  BY <1>1, <1>4

\* What there can be in the buffer.
BufferCodes == {NUL} \cup DigitCodes

\* A string that begins in the buffer ends there, at its first zero byte.
LEMMA StringEnds ==
  ASSUME NEW b, b[MaxStrSize - 1] = NUL, NEW x \in 0 .. MaxStrSize - 1
  PROVE  /\ LengthIn(b, x) \in Nat /\ x + LengthIn(b, x) <= MaxStrSize - 1
         /\ b[x + LengthIn(b, x)] = NUL
         /\ \A i \in x .. x + LengthIn(b, x) - 1 : b[i] # NUL
<1> DEFINE T == {k \in x .. MaxStrSize - 1 : b[k] = NUL}
           End(k) == b[k] = NUL /\ \A i \in x .. k - 1 : b[i] # NUL
<1>1. MaxStrSize \in Nat /\ x \in Nat /\ MaxStrSize - 1 \in T
  BY ConsoleAssumption
<1>2. PICK m \in T : \A k \in T : m <= k
  <2>1. T \in SUBSET Nat /\ T # {}
    BY <1>1
  <2> HIDE DEF T
  <2> QED
    BY <2>1, LeastExists
<1>3. m \in x .. MaxStrSize - 1 /\ End(m)
  BY <1>1, <1>2
<1>4. PICK k \in x .. MaxStrSize - 1 : End(k) /\ LengthIn(b, x) = k - x
  <2>1. PICK k : k = CHOOSE i \in x .. MaxStrSize - 1 : End(i)
    OBVIOUS
  <2>2. LengthIn(b, x) = k - x
    BY <2>1 DEF LengthIn
  <2>3. k \in x .. MaxStrSize - 1 /\ End(k)
    <3> HIDE DEF End
    <3> QED
      BY <1>3, <2>1
  <2> QED
    BY <2>2, <2>3
<1>5. k - x \in Nat /\ x + (k - x) = k
  BY <1>1
<1> QED
  BY <1>1, <1>4, <1>5

\* The length of a string is known by its end.
LEMMA LengthIs ==
  ASSUME NEW b, b[MaxStrSize - 1] = NUL, NEW x \in 0 .. MaxStrSize - 1, NEW l \in Nat,
         b[x + l] = NUL, \A i \in x .. x + l - 1 : b[i] # NUL
  PROVE  LengthIn(b, x) = l
<1>1. PICK n \in Nat : n = LengthIn(b, x) /\ b[x + n] = NUL /\ \A i \in x .. x + n - 1 : b[i] # NUL
  BY StringEnds
<1>2. x \in Nat
  OBVIOUS
<1>3. ~ (n < l)
  <2>1. n < l => x + n \in x .. x + l - 1
    BY <1>2
  <2> QED
    BY <1>1, <2>1
<1>4. ~ (l < n)
  <2>1. l < n => x + l \in x .. x + n - 1
    BY <1>2
  <2> QED
    BY <1>1, <2>1
<1> QED
  BY <1>1, <1>3, <1>4

\* Characters of the buffer.
LEMMA TextIs ==
  ASSUME NEW b \in [0 .. MaxStrSize - 1 -> BufferCodes], NEW x \in Nat, NEW n \in Nat,
         x + n <= MaxStrSize - 1
  PROVE  /\ TextAt(b, x, n) \in Seq(BufferCodes) /\ Len(TextAt(b, x, n)) = n
         /\ \A j \in 1 .. n : TextAt(b, x, n)[j] = b[x + j - 1]
<1>1. ASSUME NEW j \in 1 .. n PROVE b[x + j - 1] \in BufferCodes
  <2>1. x + j - 1 \in 0 .. MaxStrSize - 1
    BY ConsoleAssumption
  <2> QED
    BY <2>1
<1>2. PICK w : w = TextAt(b, x, n)
  OBVIOUS
<1>3. w \in [1 .. n -> BufferCodes] /\ \A j \in 1 .. n : w[j] = b[x + j - 1]
  BY <1>1, <1>2 DEF TextAt
<1> QED
  BY <1>2, <1>3, FunctionIsSequence

\* Buffer c is b with a digit before place e.
DigitPut(b, e, d, c) == c = [b EXCEPT ![e - 1] = d]

\* The string that begins with the digit in c is longer by one than that of b.
DigitStands(b, e, d, c) ==
  \E l \in Nat :
     /\ l = LengthIn(b, e) /\ e + l <= MaxStrSize - 1 /\ LengthIn(c, e - 1) = l + 1
     /\ TextAt(c, e - 1, l + 1) = <<d>> \o TextAt(b, e, l)

\* A digit that is written in front of others makes the string longer by one.
LEMMA DigitInFront ==
  ASSUME NEW b \in [0 .. MaxStrSize - 1 -> BufferCodes], b[MaxStrSize - 1] = NUL,
         NEW e \in 1 .. MaxStrSize - 1, NEW d \in DigitCodes, NEW c, DigitPut(b, e, d, c)
  PROVE  DigitStands(b, e, d, c)
<1>1. MaxStrSize \in Nat /\ e \in Nat /\ e \in 0 .. MaxStrSize - 1 /\ e - 1 \in 0 .. MaxStrSize - 1
      /\ e - 1 # MaxStrSize - 1
  BY ConsoleAssumption
<1>2. PICK l \in Nat : /\ l = LengthIn(b, e) /\ e + l <= MaxStrSize - 1
                       /\ b[e + l] = NUL /\ \A i \in e .. e + l - 1 : b[i] # NUL
  BY <1>1, StringEnds
<1>3. c \in [0 .. MaxStrSize - 1 -> BufferCodes] /\ c[e - 1] = d /\ c[MaxStrSize - 1] = NUL
      /\ \A i \in 0 .. MaxStrSize - 1 : i # e - 1 => c[i] = b[i]
  <2>1. d \in BufferCodes
    BY DEF BufferCodes
  <2>2. MaxStrSize - 1 \in 0 .. MaxStrSize - 1
    BY <1>1
  <2> QED
    BY <1>1, <2>1, <2>2 DEF DigitPut
<1>4. PICK y \in 0 .. MaxStrSize - 1 : y = e - 1
  BY <1>1
<1>5. PICK n \in Nat : n = l + 1
  OBVIOUS
<1>6. y \in Nat /\ y + n = e + l /\ y + n <= MaxStrSize - 1
  BY <1>1, <1>2, <1>4, <1>5
<1>7. LengthIn(c, y) = n
  <2>1. c[y + n] = NUL
    <3>1. e + l \in 0 .. MaxStrSize - 1 /\ e + l # e - 1
      BY <1>1, <1>2
    <3> QED
      BY <1>2, <1>3, <1>6, <3>1
  <2>2. ASSUME NEW i \in y .. y + n - 1 PROVE c[i] # NUL
    <3>1. CASE i = e - 1
      BY <1>3, <3>1 DEF DigitCodes
    <3>2. CASE i # e - 1
      <4>1. i \in e .. e + l - 1 /\ i \in 0 .. MaxStrSize - 1
        BY <1>1, <1>2, <1>4, <1>6, <3>2
      <4> QED
        BY <1>2, <1>3, <3>2, <4>1
    <3> QED
      BY <3>1, <3>2
  <2>3. c[MaxStrSize - 1] = NUL
    BY <1>3
  <2> QED
    BY <2>1, <2>2, <2>3, LengthIs
<1>8. PICK u \in Seq(BufferCodes) : /\ u = TextAt(c, y, n) /\ Len(u) = n
                                    /\ \A j \in 1 .. n : u[j] = c[y + j - 1]
  <2>1. c \in [0 .. MaxStrSize - 1 -> BufferCodes]
    BY <1>3
  <2>2. /\ TextAt(c, y, n) \in Seq(BufferCodes) /\ Len(TextAt(c, y, n)) = n
        /\ \A j \in 1 .. n : TextAt(c, y, n)[j] = c[y + j - 1]
    BY <1>6, <2>1, TextIs
  <2> QED
    BY <2>2
<1>9. PICK w \in Seq(BufferCodes) : /\ w = TextAt(b, e, l) /\ Len(w) = l
                                    /\ \A j \in 1 .. l : w[j] = b[e + j - 1]
  <2>1. e \in Nat /\ e + l <= MaxStrSize - 1
    BY <1>1, <1>2
  <2>2. /\ TextAt(b, e, l) \in Seq(BufferCodes) /\ Len(TextAt(b, e, l)) = l
        /\ \A j \in 1 .. l : TextAt(b, e, l)[j] = b[e + j - 1]
    BY <2>1, TextIs
  <2> QED
    BY <2>2
<1>10. PICK one \in Seq(BufferCodes) : one = <<d>> /\ Len(one) = 1 /\ one[1] = d
  <2>1. d \in BufferCodes
    BY DEF BufferCodes
  <2> QED
    BY <2>1, Single
<1>11. one \o w \in Seq(BufferCodes) /\ Len(one \o w) = n
      /\ \A j \in 1 .. n : (one \o w)[j] = IF j <= 1 THEN one[j] ELSE w[j - 1]
  <2>1. one \o w \in Seq(BufferCodes) /\ Len(one \o w) = Len(one) + Len(w)
        /\ \A j \in 1 .. Len(one) + Len(w) : (one \o w)[j] = IF j <= Len(one) THEN one[j] ELSE w[j - Len(one)]
    BY ConcatProperties
  <2>2. 1 + l = n
    BY <1>5
  <2> QED
    BY <1>9, <1>10, <2>1, <2>2
<1>12. ASSUME NEW j \in 1 .. Len(u) PROVE u[j] = (one \o w)[j]
  <2>1. j \in 1 .. n
    BY <1>8
  <2>2. CASE j = 1
    <3>1. y + j - 1 = e - 1 /\ j <= 1
      BY <1>4, <1>6, <2>2
    <3>2. u[j] = d
      BY <1>3, <1>8, <2>1, <3>1
    <3>3. (one \o w)[j] = one[1]
      BY <1>11, <2>1, <2>2, <3>1
    <3> QED
      BY <1>10, <3>2, <3>3
  <2>3. CASE j # 1
    <3>1. j - 1 \in 1 .. l /\ ~ (j <= 1) /\ e + (j - 1) - 1 = y + j - 1
          /\ y + j - 1 \in 0 .. MaxStrSize - 1 /\ y + j - 1 # e - 1
      <4>1. e \in Nat /\ e >= 1 /\ MaxStrSize \in Nat /\ e + l <= MaxStrSize - 1 /\ y = e - 1
            /\ j \in Nat /\ j > 1 /\ j <= l + 1
        BY <1>1, <1>2, <1>4, <1>5, <2>1, <2>3
      <4> QED
        BY <4>1
    <3>2. u[j] = b[y + j - 1]
      BY <1>3, <1>8, <2>1, <3>1
    <3>3. (one \o w)[j] = w[j - 1]
      BY <1>11, <2>1, <3>1
    <3>4. w[j - 1] = b[e + (j - 1) - 1]
      BY <1>9, <3>1
    <3> QED
      BY <3>1, <3>2, <3>3, <3>4
  <2> QED
    BY <2>2, <2>3
<1>13. u = one \o w
  BY <1>8, <1>11, <1>12, SeqEqual
<1> QED
  BY <1>2, <1>7, <1>8, <1>9, <1>10, <1>13, <1>4, <1>5 DEF DigitStands

\* The digits of v and what stands behind place e of b are those of v without its
\* last digit and what stands behind place e - 1 of c.
AsMuch(v, b, e, c) ==
  Digits(v, 10) \o TextAt(b, e, LengthIn(b, e))
    = (IF v \div 10 = 0 THEN <<>> ELSE Digits(v \div 10, 10)) \o TextAt(c, e - 1, LengthIn(c, e - 1))

\* Writing a digit leaves what is to be printed.
LEMMA ConvertSays ==
  ASSUME NEW b \in [0 .. MaxStrSize - 1 -> BufferCodes], b[MaxStrSize - 1] = NUL,
         NEW v \in Nat, NEW e \in 1 .. MaxStrSize - 1, NEW d \in DigitCodes,
         d = representation(v % 10), NEW c, DigitPut(b, e, d, c)
  PROVE  AsMuch(v, b, e, c)
<1>1. PICK l \in Nat : /\ l = LengthIn(b, e) /\ e + l <= MaxStrSize - 1 /\ LengthIn(c, e - 1) = l + 1
                       /\ TextAt(c, e - 1, l + 1) = <<d>> \o TextAt(b, e, l)
  <2>1. DigitStands(b, e, d, c)
    BY DigitInFront
  <2> QED
    BY <2>1 DEF DigitStands
<1>2. DigitCodes \subseteq BufferCodes
  BY DEF BufferCodes
<1>3. PICK front \in Seq(BufferCodes) : front = IF v \div 10 = 0 THEN <<>> ELSE Digits(v \div 10, 10)
  <2>1. v \div 10 \in Nat
    OBVIOUS
  <2>2. Digits(v \div 10, 10) \in Seq(DigitCodes)
    BY <2>1, DigitsType
  <2>3. Digits(v \div 10, 10) \in Seq(BufferCodes)
    BY <1>2, <2>2
  <2>4. <<>> \in Seq(BufferCodes)
    BY EmptySeq
  <2> QED
    BY <2>3, <2>4
<1>4. PICK one \in Seq(BufferCodes) : one = <<d>>
  <2>1. d \in BufferCodes
    BY <1>2
  <2> QED
    BY <2>1, Single
<1>5. PICK w \in Seq(BufferCodes) : w = TextAt(b, e, l)
  <2>1. e \in Nat /\ e + l <= MaxStrSize - 1
    BY <1>1, ConsoleAssumption
  <2>2. TextAt(b, e, l) \in Seq(BufferCodes)
    BY <2>1, TextIs
  <2> QED
    BY <2>2
<1>6. (front \o one) \o w = front \o (one \o w)
  BY ConcatAssociative, SMTT(30)
<1>7. Digits(v, 10) = front \o one
  BY <1>3, <1>4, DigitsStep
<1> QED
  BY <1>1, <1>3, <1>4, <1>5, <1>6, <1>7 DEF AsMuch

\* Nor does measuring a character more.
LEMMA MeasureSays ==
  ASSUME NEW b \in [0 .. MaxStrSize - 1 -> BufferCodes], b[MaxStrSize - 1] = NUL,
         NEW y \in 0 .. MaxStrSize - 1
  PROVE  /\ b[y] = NUL => LengthIn(b, y) = 0
         /\ b[y] # NUL => \E l \in Nat : LengthIn(b, y) = l + 1 /\ LengthIn(b, y + 1) = l
<1>1. PICK n \in Nat : /\ n = LengthIn(b, y) /\ y + n <= MaxStrSize - 1
                       /\ b[y + n] = NUL /\ \A i \in y .. y + n - 1 : b[i] # NUL
  BY StringEnds
<1>2. MaxStrSize \in Nat /\ y \in Nat
  BY ConsoleAssumption
<1>3. ASSUME b[y] = NUL PROVE n = 0
  <2>1. n # 0 => y \in y .. y + n - 1
    BY <1>2
  <2> QED
    BY <1>1, <1>3, <2>1
<1>4. ASSUME b[y] # NUL PROVE \E l \in Nat : n = l + 1 /\ LengthIn(b, y + 1) = l
  <2>1. n # 0
    <3>1. n = 0 => y + n = y
      BY <1>2
    <3> QED
      BY <1>1, <1>4, <3>1
  <2>2. PICK l \in Nat : n = l + 1
    <3>1. n - 1 \in Nat /\ n = (n - 1) + 1
      BY <2>1
    <3> QED
      BY <3>1
  <2>3. y + 1 \in 0 .. MaxStrSize - 1 /\ (y + 1) + l = y + n
    BY <1>1, <1>2, <2>2
  <2>4. \A i \in y + 1 .. (y + 1) + l - 1 : i \in y .. y + n - 1
    BY <1>2, <2>2
  <2>5. b[(y + 1) + l] = NUL /\ \A i \in y + 1 .. (y + 1) + l - 1 : b[i] # NUL
    BY <1>1, <2>3, <2>4
  <2>6. LengthIn(b, y + 1) = l
    BY <2>3, <2>5, LengthIs
  <2> QED
    BY <2>2, <2>6
<1> QED
  BY <1>1, <1>3, <1>4

\* Where each of the sequences stands when they are put one after the other.
LEMMA FlattenPlaces ==
  ASSUME NEW S, NEW ss \in Seq(Seq(S))
  PROVE  \E at \in [0 .. Len(ss) -> 0 .. Len(FlattenSeq(ss))] :
            /\ at[0] = 0 /\ at[Len(ss)] = Len(FlattenSeq(ss))
            /\ \A i \in 1 .. Len(ss) : Matches(ss[i], FlattenSeq(ss), at[i - 1], at[i])
<1>1. Len(ss) \in Nat /\ \A i \in 1 .. Len(ss) : ss[i] \in Seq(S) /\ Len(ss[i]) \in Nat
  BY LenProperties, ElementOfSeq
<1>2. PICK g : /\ g = [i \in 1 .. Len(ss) |-> IF i = 1 THEN ss[i] ELSE g[i - 1] \o ss[i]]
               /\ Len(ss) # 0 => FlattenSeq(ss) = g[Len(ss)]
  <2> DEFINE f == CHOOSE g : g = [i \in 1 .. Len(ss) |-> IF i = 1 THEN ss[i] ELSE g[i - 1] \o ss[i]]
  <2>1. f = [i \in 1 .. Len(ss) |-> IF i = 1 THEN ss[i] ELSE f[i - 1] \o ss[i]]
    BY <1>1, FlattenExists
  <2>2. Len(ss) # 0 => FlattenSeq(ss) = f[Len(ss)]
    BY DEF FlattenSeq
  <2> QED
    BY ZenonT(30), <2>1, <2>2
<1>3. \A i \in 1 .. Len(ss) : g[i] = IF i = 1 THEN ss[i] ELSE g[i - 1] \o ss[i]
  BY <1>2
\* Of the first i sequences.
<1> DEFINE Before(i) == IF i = 0 THEN <<>> ELSE g[i]
<1>4. ASSUME NEW i \in 1 .. Len(ss), Before(i - 1) \in Seq(S)
      PROVE  /\ Before(i) \in Seq(S) /\ Len(Before(i)) = Len(Before(i - 1)) + Len(ss[i])
             /\ \A j \in 1 .. Len(Before(i - 1)) : Before(i)[j] = Before(i - 1)[j]
             /\ \A j \in 1 .. Len(ss[i]) : Before(i)[Len(Before(i - 1)) + j] = ss[i][j]
  <2>1. Before(i) = Before(i - 1) \o ss[i]
    <3>1. CASE i = 1
      <4>1. <<>> \o ss[1] = ss[1]
        BY <1>1, <3>1, ConcatEmptySeq
      <4> QED
        BY <1>3, <3>1, <4>1
    <3>2. CASE i # 1
      <4>1. Before(i) = g[i] /\ Before(i - 1) = g[i - 1]
        <5>1. i # 0 /\ i - 1 # 0
          BY <1>1, <3>2
        <5> QED
          BY <5>1
      <4> QED
        BY <1>3, <3>2, <4>1
    <3> QED
      BY <3>1, <3>2
  <2> HIDE DEF Before
  <2>2. PICK u \in Seq(S), v \in Seq(S), w \in {Before(i)} :
           u = Before(i - 1) /\ v = ss[i] /\ w = Before(i) /\ w = u \o v
    BY <1>1, <1>4, <2>1
  <2>3. Len(u) \in Nat /\ Len(v) \in Nat
    BY LenProperties
  <2>4. /\ w \in Seq(S) /\ Len(w) = Len(u) + Len(v)
        /\ \A j \in 1 .. Len(u) + Len(v) : w[j] = IF j <= Len(u) THEN u[j] ELSE v[j - Len(u)]
    <3>1. /\ u \o v \in Seq(S) /\ Len(u \o v) = Len(u) + Len(v)
          /\ \A j \in 1 .. Len(u) + Len(v) :
                (u \o v)[j] = IF j <= Len(u) THEN u[j] ELSE v[j - Len(u)]
      BY ConcatProperties
    <3>2. w = u \o v
      BY <2>2
    <3> QED
      BY <3>1, <3>2
  <2>5. \A j \in 1 .. Len(u) : w[j] = u[j]
    BY <2>3, <2>4
  <2>6. ASSUME NEW j \in 1 .. Len(v) PROVE w[Len(u) + j] = v[j]
    <3>1. Len(u) + j \in 1 .. Len(u) + Len(v) /\ ~ (Len(u) + j <= Len(u)) /\ (Len(u) + j) - Len(u) = j
      BY <2>3
    <3> QED
      BY <2>4, <3>1
  <2> QED
    BY <2>2, <2>4, <2>5, <2>6
<1>5. Before(0) = <<>> /\ Before(0) \in Seq(S) /\ Len(Before(0)) = 0
  BY EmptySeq
<1>6. Before(Len(ss)) = FlattenSeq(ss)
  <2>1. CASE Len(ss) = 0
    <3>1. ss = <<>>
      BY <2>1, EmptySeq
    <3> QED
      BY <2>1, <3>1 DEF FlattenSeq
  <2> QED
    BY <1>2, <2>1
<1> HIDE DEF Before
<1>7. \A i \in 0 .. Len(ss) : Before(i) \in Seq(S) /\ Len(Before(i)) \in Nat
  <2> DEFINE T == {i \in 0 .. Len(ss) : Before(i) \notin Seq(S)}
  <2>1. T = {}
    <3> SUFFICES ASSUME T # {} PROVE FALSE
      OBVIOUS
    <3>1. PICK m \in T : \A k \in T : m <= k
      <4>1. T \in SUBSET Nat
        OBVIOUS
      <4> HIDE DEF T
      <4> QED
        BY <4>1, LeastExists
    <3>2. m \in 1 .. Len(ss) /\ m - 1 \in 0 .. Len(ss) /\ m - 1 \notin T
      <4>1. m \in 0 .. Len(ss) /\ m # 0
        BY <1>5
      <4>2. m \in 1 .. Len(ss) /\ m - 1 \in 0 .. Len(ss) /\ ~ (m <= m - 1)
        BY <1>1, <4>1
      <4> HIDE DEF T
      <4> QED
        BY <3>1, <4>2
    <3>3. Before(m - 1) \in Seq(S)
      BY <3>2
    <3> QED
      BY <1>4, <3>2, <3>3
  <2> QED
    BY <2>1, LenProperties
\* What stands there stays when more follows.
<1>8. ASSUME NEW i \in 0 .. Len(ss)
      PROVE  \A k \in i .. Len(ss) : /\ Len(Before(i)) <= Len(Before(k))
                                     /\ \A j \in 1 .. Len(Before(i)) : Before(k)[j] = Before(i)[j]
  <2> DEFINE Keeps(k) == /\ Len(Before(i)) <= Len(Before(k))
                         /\ \A j \in 1 .. Len(Before(i)) : Before(k)[j] = Before(i)[j]
             T == {k \in i .. Len(ss) : ~ Keeps(k)}
  <2>1. T = {}
    <3> SUFFICES ASSUME T # {} PROVE FALSE
      OBVIOUS
    <3>1. PICK m \in T : \A k \in T : m <= k
      <4>1. T \in SUBSET Nat
        BY <1>1
      <4> HIDE DEF T
      <4> QED
        BY <4>1, LeastExists
    <3>2. m \in i .. Len(ss) /\ ~ Keeps(m)
      OBVIOUS
    <3> HIDE DEF T
    <3>3. m # i
      BY <1>7, <3>2
    <3>4. m \in 1 .. Len(ss) /\ m - 1 \in i .. Len(ss) /\ m - 1 \in 0 .. Len(ss) /\ m \in 0 .. Len(ss)
          /\ ~ (m <= m - 1)
      BY <1>1, <3>2, <3>3
    <3>5. Keeps(m - 1)
      <4>1. m - 1 \notin T
        BY <3>1, <3>4
      <4> QED
        BY <3>4, <4>1 DEF T
    <3>6. /\ Len(Before(m)) = Len(Before(m - 1)) + Len(ss[m])
          /\ \A j \in 1 .. Len(Before(m - 1)) : Before(m)[j] = Before(m - 1)[j]
      BY <1>4, <1>7, <3>4
    <3>7. Len(Before(m - 1)) \in Nat /\ Len(Before(i)) \in Nat /\ Len(ss[m]) \in Nat
      BY <1>1, <1>7, <3>4
    <3>8. \A j \in 1 .. Len(Before(i)) : j \in 1 .. Len(Before(m - 1))
      BY <3>5, <3>7
    <3>9. Len(Before(i)) <= Len(Before(m))
      <4>1. PICK u, v, w : u = Before(i) /\ v = Before(m - 1) /\ w = Before(m)
        OBVIOUS
      <4>2. Len(u) \in Nat /\ Len(v) \in Nat /\ Len(w) = Len(v) + Len(ss[m]) /\ Len(ss[m]) \in Nat
        BY <3>6, <3>7, <4>1
      <4>3. Len(u) <= Len(v)
        BY <3>5, <4>1
      <4>4. Len(u) <= Len(w)
        BY <4>2, <4>3
      <4> QED
        BY <4>1, <4>4
    <3> QED
      BY <3>2, <3>5, <3>6, <3>8, <3>9
  <2> QED
    BY <2>1
<1>9. PICK at : at = [i \in 0 .. Len(ss) |-> Len(Before(i))]
  OBVIOUS
<1>10. PICK t \in Seq(S) : t = FlattenSeq(ss) /\ t = Before(Len(ss))
  <2>1. Len(ss) \in 0 .. Len(ss)
    BY <1>1
  <2> QED
    BY <1>6, <1>7, <2>1
<1>11. \A i \in 0 .. Len(ss) : /\ Len(Before(i)) \in Nat /\ Len(Before(i)) <= Len(t)
                               /\ \A j \in 1 .. Len(Before(i)) : t[j] = Before(i)[j]
  <2>1. \A i \in 0 .. Len(ss) : Len(ss) \in i .. Len(ss)
    BY <1>1
  <2> QED
    BY <1>7, <1>8, <1>10, <2>1
<1>12. at \in [0 .. Len(ss) -> 0 .. Len(t)] /\ at[0] = 0 /\ at[Len(ss)] = Len(t)
  <2>1. 0 \in 0 .. Len(ss) /\ Len(ss) \in 0 .. Len(ss) /\ Len(t) \in Nat
    BY <1>1, LenProperties
  <2>2. \A i \in 0 .. Len(ss) : Len(Before(i)) \in 0 .. Len(t)
    BY <1>11, <2>1
  <2> QED
    BY <1>5, <1>9, <1>10, <2>1, <2>2
<1>13. ASSUME NEW i \in 1 .. Len(ss) PROVE Matches(ss[i], t, at[i - 1], at[i])
  <2>1. i \in 0 .. Len(ss) /\ i - 1 \in 0 .. Len(ss)
    BY <1>1
  <2>2. PICK m \in Nat, e \in Nat, l \in Nat :
           /\ m = Len(Before(i - 1)) /\ e = Len(Before(i)) /\ l = Len(ss[i])
           /\ m = at[i - 1] /\ e = at[i] /\ e = m + l
    BY <1>1, <1>4, <1>7, <1>9, <2>1
  <2>3. ASSUME NEW j \in 1 .. l PROVE t[m + j] = ss[i][j]
    <3>1. m + j \in 1 .. e
      <4>1. e = m + l
        BY <2>2
      <4> QED
        BY <4>1
    <3>2. t[m + j] = Before(i)[m + j]
      <4>1. \A k \in 1 .. e : t[k] = Before(i)[k]
        BY <1>11, <2>1, <2>2
      <4> QED
        BY <3>1, <4>1
    <3>3. Before(i)[m + j] = ss[i][j]
      BY <1>4, <1>7, <2>1, <2>2
    <3> QED
      BY <3>2, <3>3
  <2> QED
    BY <2>2, <2>3 DEF Matches
<1> QED
  BY <1>10, <1>12, <1>13

\* The parts of a prompt, how each is written in its format and what it means.
Tokens == [means : {"char"}, arg : Byte] \cup [means : {"color"}, arg : Byte]
             \cup [means : {"number"}, arg : Nat]

FormatPart(u) ==
  CASE u.means = "char"   -> <<u.arg>>
    [] u.means = "number" -> <<PERCENT, LOWER_D>>
    [] u.means = "color"  -> <<DOLLAR, AMPERSAND, u.arg, NUL>>

TextPart(u) ==
  CASE u.means = "char"   -> <<u.arg>>
    [] u.means = "number" -> Digits(u.arg, 10)
    [] u.means = "color"  -> <<>>

\* A prompt consists of characters that mean themselves, colours and one number.
LEMMA PromptType ==
  ASSUME NEW p \in Prompts
  PROVE  /\ Len(p) \in Nat
         /\ \A i \in 1 .. Len(p) :
               /\ p[i] \in Tokens
               /\ p[i].means = "char" => p[i].arg \notin {NUL, PERCENT, DOLLAR}
               /\ p[i].means = "number" => p[i].arg = ArgOf(p)
<1>1. p \in Seq(Tokens)
  BY ConsoleAssumption DEF Tokens
<1>2. Len(p) \in Nat /\ DOMAIN p = 1 .. Len(p)
  BY <1>1, LenProperties
<1>3. \A i \in 1 .. Len(p) : p[i] \in Tokens
  BY <1>1, ElementOfSeq
<1>4. \A i \in DOMAIN p : /\ p[i].means = "char" => p[i].arg \notin {NUL, PERCENT, DOLLAR}
                          /\ p[i].means = "number" => p[i].arg = ArgOf(p)
  BY FormatAssumption
<1> QED
  BY <1>2, <1>3, <1>4

\* Parts are sequences of bytes.
LEMMA PartTypes ==
  ASSUME NEW u \in Tokens
  PROVE  FormatPart(u) \in Seq(Byte) /\ TextPart(u) \in Seq(Byte)
<1>1. PERCENT \in Byte /\ LOWER_D \in Byte /\ DOLLAR \in Byte /\ AMPERSAND \in Byte /\ NUL \in Byte
  BY DEF Byte
<1>2. CASE u.means = "char"
  <2>1. u.arg \in Byte
    BY <1>2 DEF Tokens
  <2>2. FormatPart(u) = <<u.arg>> /\ TextPart(u) = <<u.arg>>
    BY <1>2 DEF FormatPart, TextPart
  <2> QED
    BY <2>1, <2>2
<1>3. CASE u.means = "number"
  <2>1. u.arg \in Nat
    BY <1>3 DEF Tokens, Byte
  <2>2. Digits(u.arg, 10) \in Seq(Byte)
    <3>1. DigitCodes \subseteq Byte
      BY DEF DigitCodes, Byte
    <3>2. Digits(u.arg, 10) \in Seq(DigitCodes)
      BY <2>1, DigitsType
    <3> QED
      BY <3>1, <3>2
  <2>3. FormatPart(u) = <<PERCENT, LOWER_D>> /\ TextPart(u) = Digits(u.arg, 10)
    BY <1>3 DEF FormatPart, TextPart
  <2>4. <<PERCENT, LOWER_D>> \in Seq(Byte)
    BY <1>1
  <2> QED
    BY <2>2, <2>3, <2>4
<1>4. CASE u.means = "color"
  <2>1. u.arg \in Byte
    BY <1>4 DEF Tokens
  <2>2. FormatPart(u) = <<DOLLAR, AMPERSAND, u.arg, NUL>> /\ TextPart(u) = <<>>
    BY <1>4 DEF FormatPart, TextPart
  <2>3. <<DOLLAR, AMPERSAND, u.arg, NUL>> \in Seq(Byte) /\ <<>> \in Seq(Byte)
    BY <1>1, <2>1
  <2> QED
    BY <2>2, <2>3
<1> QED
  BY <1>2, <1>3, <1>4 DEF Tokens

\* Where the parts stand in the format, before its zero byte.
LEMMA FormatPlaces ==
  ASSUME NEW p \in Prompts
  PROVE  \E at \in [0 .. Len(p) -> Nat] :
            /\ at[0] = 0 /\ at[Len(p)] + 1 = Len(FormatOf(p))
            /\ \A i \in 0 .. Len(p) : at[i] + 1 \in 1 .. Len(FormatOf(p))
            /\ \A i \in 1 .. Len(p) : Matches(FormatPart(p[i]), FormatOf(p), at[i - 1], at[i])
<1>1. PICK ss : ss = [i \in 1 .. Len(p) |-> FormatPart(p[i])]
  OBVIOUS
<1>2. Len(p) \in Nat /\ ss \in Seq(Seq(Byte)) /\ Len(ss) = Len(p)
  <2>1. \A i \in 1 .. Len(p) : FormatPart(p[i]) \in Seq(Byte)
    BY PromptType, PartTypes
  <2> QED
    BY <1>1, <2>1, PromptType
<1>3. PICK s \in Seq(Byte) : s = FlattenSeq(ss)
  BY <1>2, FlattenType
<1>4. FormatOf(p) = s \o <<NUL>>
  BY <1>1, <1>3 DEF FormatOf, FormatPart
<1>5. PICK at \in [0 .. Len(p) -> 0 .. Len(s)] :
         /\ at[0] = 0 /\ at[Len(p)] = Len(s)
         /\ \A i \in 1 .. Len(p) : Matches(ss[i], s, at[i - 1], at[i])
  BY <1>2, <1>3, FlattenPlaces
<1>6. PICK f : /\ f = FormatOf(p) /\ Len(s) \in Nat /\ Len(f) = Len(s) + 1
               /\ \A j \in 1 .. Len(s) : f[j] = s[j]
  <2>1. PICK z \in Seq(Byte) : z = <<NUL>> /\ Len(z) = 1
    <3>1. <<NUL>> \in Seq(Byte)
      BY DEF Byte
    <3> QED
      BY <3>1
  <2>2. /\ Len(s \o z) = Len(s) + Len(z)
        /\ \A j \in 1 .. Len(s) + Len(z) : (s \o z)[j] = IF j <= Len(s) THEN s[j] ELSE z[j - Len(s)]
    BY ConcatProperties
  <2>3. Len(s) \in Nat /\ \A j \in 1 .. Len(s) : j \in 1 .. Len(s) + 1 /\ j <= Len(s)
    BY LenProperties
  <2> QED
    BY <1>4, <2>1, <2>2, <2>3
<1>7. ASSUME NEW i \in 1 .. Len(p) PROVE Matches(FormatPart(p[i]), f, at[i - 1], at[i])
  <2>1. ss[i] = FormatPart(p[i]) /\ i \in 0 .. Len(p) /\ i - 1 \in 0 .. Len(p)
    BY <1>1, <1>2
  <2>2. PICK u \in Seq(Byte) : u = ss[i] /\ Len(u) \in Nat
    BY <1>2, ElementOfSeq, LenProperties
  <2>3. PICK m \in Nat, e \in Nat : m = at[i - 1] /\ e = at[i] /\ e <= Len(s)
    <3>1. at[i - 1] \in 0 .. Len(s) /\ at[i] \in 0 .. Len(s)
      BY <1>5, <2>1
    <3> QED
      BY <1>6, <3>1
  <2>4. e = m + Len(u) /\ \A j \in 1 .. Len(u) : s[m + j] = u[j]
    BY <1>5, <2>2, <2>3 DEF Matches
  <2>5. \A j \in 1 .. Len(u) : m + j \in 1 .. Len(s)
    BY <1>6, <2>2, <2>3, <2>4
  <2>6. Matches(u, f, m, e)
    BY <1>6, <2>4, <2>5 DEF Matches
  <2> QED
    BY <2>1, <2>2, <2>3, <2>6
<1>8. at \in [0 .. Len(p) -> Nat] /\ \A i \in 0 .. Len(p) : at[i] + 1 \in 1 .. Len(f)
  BY <1>5, <1>6
<1> QED
  BY <1>5, <1>6, <1>7, <1>8

\* Where the parts stand in the text.
LEMMA TextPlaces ==
  ASSUME NEW p \in Prompts
  PROVE  /\ TextOf(p) \in Seq(Byte)
         /\ \E at \in [0 .. Len(p) -> Nat] :
               /\ at[0] = 0 /\ at[Len(p)] = Len(TextOf(p))
               /\ \A i \in 1 .. Len(p) : Matches(TextPart(p[i]), TextOf(p), at[i - 1], at[i])
<1>1. PICK ss : ss = [i \in 1 .. Len(p) |-> TextPart(p[i])]
  OBVIOUS
<1>2. Len(p) \in Nat /\ ss \in Seq(Seq(Byte)) /\ Len(ss) = Len(p)
  <2>1. \A i \in 1 .. Len(p) : TextPart(p[i]) \in Seq(Byte)
    BY PromptType, PartTypes
  <2> QED
    BY <1>1, <2>1, PromptType
<1>3. PICK s \in Seq(Byte) : s = FlattenSeq(ss) /\ s = TextOf(p) /\ Len(s) \in Nat
  <2>1. FlattenSeq(ss) \in Seq(Byte)
    BY <1>2, FlattenType
  <2>2. TextOf(p) = FlattenSeq(ss)
    BY <1>1 DEF TextOf, TextPart
  <2> QED
    BY <2>1, <2>2, LenProperties
<1>4. PICK at \in [0 .. Len(p) -> 0 .. Len(s)] :
         /\ at[0] = 0 /\ at[Len(p)] = Len(s)
         /\ \A i \in 1 .. Len(p) : Matches(ss[i], s, at[i - 1], at[i])
  BY <1>2, <1>3, FlattenPlaces
<1>5. \A i \in 1 .. Len(p) : ss[i] = TextPart(p[i])
  BY <1>1
<1>6. at \in [0 .. Len(p) -> Nat]
  BY <1>3, <1>4
<1> QED
  BY <1>3, <1>4, <1>5, <1>6

\* An escape of two characters in a format.
LEMMA TwoMatch ==
  ASSUME NEW a, NEW c, NEW f, NEW x \in Nat, NEW y, Matches(<<a, c>>, f, x, y)
  PROVE  y = x + 2 /\ f[x + 1] = a /\ f[x + 2] = c
<1>1. Len(<<a, c>>) = 2 /\ <<a, c>>[1] = a /\ <<a, c>>[2] = c
  OBVIOUS
<1>2. y = x + 2 /\ \A j \in 1 .. 2 : f[x + j] = <<a, c>>[j]
  BY <1>1 DEF Matches
<1>3. 1 \in 1 .. 2 /\ 2 \in 1 .. 2
  OBVIOUS
<1> QED
  BY <1>1, <1>2, <1>3

\* One of four characters.
LEMMA FourMatch ==
  ASSUME NEW a, NEW c, NEW d, NEW e, NEW f, NEW x \in Nat, NEW y,
         Matches(<<a, c, d, e>>, f, x, y)
  PROVE  y = x + 4 /\ f[x + 1] = a /\ f[x + 2] = c
<1>1. Len(<<a, c, d, e>>) = 4 /\ <<a, c, d, e>>[1] = a /\ <<a, c, d, e>>[2] = c
  OBVIOUS
<1>2. y = x + 4 /\ \A j \in 1 .. 4 : f[x + j] = <<a, c, d, e>>[j]
  BY <1>1 DEF Matches
<1>3. 1 \in 1 .. 4 /\ 2 \in 1 .. 4
  OBVIOUS
<1> QED
  BY <1>1, <1>2, <1>3

\* How a part begins, and how long it is.
LEMMA PartBegins ==
  ASSUME NEW u, NEW f, NEW x \in Nat, NEW y, Matches(FormatPart(u), f, x, y)
  PROVE  /\ u.means = "char" => y = x + 1 /\ f[x + 1] = u.arg
         /\ u.means = "number" => y = x + 2 /\ f[x + 1] = PERCENT /\ f[x + 2] = LOWER_D
         /\ u.means = "color" => y = x + 4 /\ f[x + 1] = DOLLAR /\ f[x + 2] = AMPERSAND
<1>1. ASSUME u.means = "number" PROVE y = x + 2 /\ f[x + 1] = PERCENT /\ f[x + 2] = LOWER_D
  <2>1. FormatPart(u) = <<PERCENT, LOWER_D>>
    BY <1>1 DEF FormatPart
  <2>2. Matches(<<PERCENT, LOWER_D>>, f, x, y)
    BY <2>1
  <2> QED
    BY <2>2, TwoMatch
<1>2. ASSUME u.means = "color" PROVE y = x + 4 /\ f[x + 1] = DOLLAR /\ f[x + 2] = AMPERSAND
  <2>1. FormatPart(u) = <<DOLLAR, AMPERSAND, u.arg, NUL>>
    BY <1>2 DEF FormatPart
  <2>2. Matches(<<DOLLAR, AMPERSAND, u.arg, NUL>>, f, x, y)
    BY <2>1
  <2> QED
    BY <2>2, FourMatch
<1>3. ASSUME u.means = "char" PROVE y = x + 1 /\ f[x + 1] = u.arg
  <2>1. FormatPart(u) = <<u.arg>>
    BY <1>3 DEF FormatPart
  <2>2. Len(<<u.arg>>) = 1 /\ <<u.arg>>[1] = u.arg /\ 1 \in 1 .. 1
    BY OneElement
  <2> QED
    BY <2>1, <2>2 DEF Matches
<1> QED
  BY <1>1, <1>2, <1>3

\* The calls for a part, in front of later ones.
CalledFor(u, n, q, later) ==
  /\ u.means = "char"   => q = Call("putchar", u.arg) \o later
  /\ u.means = "number" => q = Call("number", n) \o later
  /\ u.means = "color"  => \E c \in Byte : q = Call("color", c) \o later

\* The cases of printf's loop.
AfterPercent(f, n, g, i) ==
  CASE f[i + 1] = NUL -> <<>>
    [] f[i + 1] = LOWER_D -> Call("number", n) \o g[i + 2]
    [] OTHER -> Call("putchar", PERCENT) \o Call("putchar", f[i + 1]) \o g[i + 2]

AfterDollar(f, n, g, i) ==
  IF f[i + 1] = AMPERSAND
    THEN Call("color", VgaEntryColor(f[i + 2], f[i + 3])) \o g[i + 4]
    ELSE Call("putchar", DOLLAR) \o Call("putchar", f[i + 1]) \o g[i + 2]

\* What printf calls, by the kind of the character it is at.
LEMMA CallsByCase ==
  ASSUME NEW f, NEW n, NEW g, NEW i
  PROVE  CallsFrom(f, n, g, i) =
            CASE f[i] = NUL -> <<>>
              [] f[i] = PERCENT -> AfterPercent(f, n, g, i)
              [] f[i] = DOLLAR -> AfterDollar(f, n, g, i)
              [] OTHER -> Call("putchar", f[i]) \o g[i + 1]
BY Zenon DEF CallsFrom, AfterPercent, AfterDollar

\* What printf calls where a part begins.
LEMMA CallsForPart ==
  ASSUME NEW f, Complete(f), NEW n, NEW g, NEW u,
         u.means = "char" => u.arg \notin {NUL, PERCENT, DOLLAR},
         NEW x \in Nat, NEW y, Matches(FormatPart(u), f, x, y), x + 1 \in 1 .. Len(f)
  PROVE  CalledFor(u, n, CallsFrom(f, n, g, x + 1), g[y + 1])
<1>1. PICK i \in Nat : i = x + 1 /\ x + 2 = i + 1 /\ x + 1 + 1 = i + 1 /\ x + 2 + 1 = i + 2
                      /\ x + 4 + 1 = i + 4
  <2>1. x + 1 \in Nat
    OBVIOUS
  <2> QED
    BY <2>1
<1>2. PICK percent, dollar, other : /\ percent = AfterPercent(f, n, g, i)
                                    /\ dollar = AfterDollar(f, n, g, i)
                                    /\ other = Call("putchar", f[i]) \o g[i + 1]
  OBVIOUS
<1>3. PICK q : /\ q = CallsFrom(f, n, g, x + 1)
               /\ q = CASE f[i] = NUL -> <<>>
                       [] f[i] = PERCENT -> percent
                       [] f[i] = DOLLAR -> dollar
                       [] OTHER -> other
  BY <1>1, <1>2, CallsByCase
<1>4. PICK later : later = g[y + 1]
  OBVIOUS
<1>5. ASSUME u.means = "char" PROVE q = Call("putchar", u.arg) \o later
  <2>1. f[i] = u.arg /\ y + 1 = i + 1
    BY <1>1, <1>5, PartBegins
  <2>2. q = other
    BY <1>3, <1>5, <2>1
  <2> QED
    BY <1>2, <1>4, <2>1, <2>2
<1>6. ASSUME u.means = "number" PROVE q = Call("number", n) \o later
  <2>1. f[i] = PERCENT /\ f[i + 1] = LOWER_D /\ y + 1 = i + 2
    BY <1>1, <1>6, PartBegins
  <2>2. q = percent
    BY <1>3, <2>1
  <2>3. percent = Call("number", n) \o g[i + 2]
    <3>1. PICK number, two : /\ number = Call("number", n) \o g[i + 2]
                             /\ two = Call("putchar", PERCENT) \o Call("putchar", f[i + 1]) \o g[i + 2]
      OBVIOUS
    <3>2. percent = CASE f[i + 1] = NUL -> <<>> [] f[i + 1] = LOWER_D -> number [] OTHER -> two
      BY <1>2, <3>1, Zenon DEF AfterPercent
    <3>3. percent = number
      BY <2>1, <3>2
    <3> QED
      BY <3>1, <3>3
  <2> QED
    BY <1>4, <2>1, <2>2, <2>3
<1>7. ASSUME u.means = "color" PROVE \E c \in Byte : q = Call("color", c) \o later
  <2>1. f[i] = DOLLAR /\ f[i + 1] = AMPERSAND /\ y + 1 = i + 4
    BY <1>1, <1>7, PartBegins
  <2>2. q = dollar
    BY <1>3, <2>1
  <2>3. PICK c : c = VgaEntryColor(f[i + 2], f[i + 3])
    OBVIOUS
  <2>4. dollar = Call("color", c) \o g[i + 4]
    BY <1>2, <2>1, <2>3 DEF AfterDollar
  <2>5. c \in Byte
    <3>1. i + 2 \in 1 .. Len(f) /\ i + 3 \in 1 .. Len(f)
      BY <1>1, <2>1 DEF Complete
    <3>2. f[i + 2] \in Byte /\ f[i + 3] \in Byte
      BY <3>1, ElementOfSeq DEF Complete
    <3>3. f[i + 2] \in Nat /\ f[i + 3] \in Nat
      <4>1. Byte \subseteq Nat
        BY DEF Byte
      <4> QED
        BY <3>2, <4>1
    <3> QED
      BY <2>3, <3>3, ColorIsByte
  <2> QED
    BY <1>4, <2>1, <2>2, <2>4, <2>5
<1>8. CalledFor(u, n, q, later)
  BY <1>5, <1>6, <1>7 DEF CalledFor
<1> QED
  BY <1>3, <1>4, <1>8

\* What printf calls for a part prints what the part means.
LEMMA PartPrints ==
  ASSUME NEW n, NEW u \in Tokens, u.means = "number" => u.arg = n,
         NEW later \in Seq(CallsOf(n)), NEW q, CalledFor(u, n, q, later),
         NEW b, NEW t, NEW m \in Nat, NEW k \in Nat, NEW e,
         Matches(TextPart(u), t, m, k), Says(later, b, t, k, e)
  PROVE  Says(q, b, t, m, e)
<1>1. ASSUME NEW a \in CallsOf(n), Said(a, b) = TextPart(u), q = <<a>> \o later
      PROVE  Says(q, b, t, m, e)
  <2>1. Says(<<a>>, b, t, m, k)
    BY <1>1, SaysOne
  <2>2. PICK C : C = CallsOf(n)
    OBVIOUS
  <2>3. <<a>> \in Seq(C) /\ later \in Seq(C)
    BY <2>2
  <2>4. Says(<<a>> \o later, b, t, m, e)
    BY <2>1, <2>3, SaysConcat
  <2> QED
    BY <1>1, <2>4
<1>2. CASE u.means = "char"
  <2>1. PICK c \in Byte : c = u.arg
    BY <1>2 DEF Tokens
  <2>2. TextPart(u) = <<c>>
    BY <1>2, <2>1 DEF TextPart
  <2>3. q = Call("putchar", c) \o later
    BY <1>2, <2>1 DEF CalledFor
  <2>4. PICK a \in CallsOf(n) : a = [step |-> "putchar", arg |-> c]
    BY DEF CallsOf
  <2>5. Said(a, b) = <<c>> /\ Call("putchar", c) = <<a>>
    BY <2>4 DEF Said, Call
  <2> QED
    BY <1>1, <2>2, <2>3, <2>5
<1>3. CASE u.means = "number"
  <2>1. TextPart(u) = Digits(n, 10)
    BY <1>3 DEF TextPart
  <2>2. q = Call("number", n) \o later
    BY <1>3 DEF CalledFor
  <2>3. PICK a \in CallsOf(n) : a = [step |-> "number", arg |-> n]
    BY DEF CallsOf
  <2>4. Said(a, b) = Digits(n, 10) /\ Call("number", n) = <<a>>
    BY <2>3 DEF Said, Call
  <2> QED
    BY <1>1, <2>1, <2>2, <2>4
<1>4. CASE u.means = "color"
  <2>1. TextPart(u) = <<>>
    BY <1>4 DEF TextPart
  <2>2. PICK c \in Byte : q = Call("color", c) \o later
    BY <1>4 DEF CalledFor
  <2>3. PICK a \in CallsOf(n) : a = [step |-> "color", arg |-> c]
    BY DEF CallsOf
  <2>4. Said(a, b) = <<>> /\ Call("color", c) = <<a>>
    BY <2>3 DEF Said, Call
  <2> QED
    BY <1>1, <2>1, <2>2, <2>4
<1> QED
  BY <1>2, <1>3, <1>4 DEF Tokens

\* printf calls what its format means.
LEMMA PrintfPrints ==
  ASSUME NEW p \in Prompts, NEW b
  PROVE  Says(Printf(FormatOf(p), ArgOf(p)), b, TextOf(p), 0, Len(TextOf(p)))
<1>1. PICK f, n, t : f = FormatOf(p) /\ n = ArgOf(p) /\ t = TextOf(p)
  OBVIOUS
<1>2. Complete(f) /\ Len(t) \in Nat /\ Len(p) \in Nat
  BY <1>1, FormatComplete, TextPlaces, PromptType, LenProperties
<1>3. PICK g : /\ Printf(f, n) = g[1]
               /\ \A i \in 1 .. Len(f) : g[i] = CallsFrom(f, n, g, i) /\ g[i] \in Seq(CallsOf(n))
  <2>1. PICK g : /\ g = [i \in 1 .. Len(f) |-> CallsFrom(f, n, g, i)] /\ Printf(f, n) = g[1]
                 /\ \A i \in 1 .. Len(f) : g[i] \in Seq(CallsOf(n))
    BY <1>2, PrintfPlaces
  <2>2. \A i \in 1 .. Len(f) : g[i] = CallsFrom(f, n, g, i)
    BY <2>1
  <2> QED
    BY <2>1, <2>2
<1>4. PICK x \in [0 .. Len(p) -> Nat] :
         /\ x[0] = 0 /\ x[Len(p)] + 1 = Len(f)
         /\ \A i \in 0 .. Len(p) : x[i] + 1 \in 1 .. Len(f)
         /\ \A i \in 1 .. Len(p) : Matches(FormatPart(p[i]), f, x[i - 1], x[i])
  BY <1>1, FormatPlaces
<1>5. PICK m \in [0 .. Len(p) -> Nat] :
         /\ m[0] = 0 /\ m[Len(p)] = Len(t)
         /\ \A i \in 1 .. Len(p) : Matches(TextPart(p[i]), t, m[i - 1], m[i])
  BY <1>1, TextPlaces
<1> DEFINE Good(i) == Says(g[x[i] + 1], b, t, m[i], Len(t))
<1>6. Good(Len(p))
  <2>1. Len(f) \in 1 .. Len(f) /\ f[Len(f)] = NUL
    BY <1>2 DEF Complete
  <2>2. g[Len(f)] = <<>>
    BY <1>3, <2>1 DEF CallsFrom
  <2>3. <<>> \in Seq(CallsOf(n)) /\ Len(<<>>) = 0
    BY EmptySeq
  <2>4. Says(<<>>, b, t, Len(t), Len(t))
    <3>1. \A i \in 1 .. 0 : Said(<<>>[i], b) = <<>>
      OBVIOUS
    <3> QED
      BY <1>2, <2>3, <3>1, SaysNothing
  <2> QED
    BY <1>4, <1>5, <2>2, <2>4
<1>7. ASSUME NEW i \in 1 .. Len(p), Good(i) PROVE Good(i - 1)
  <2>1. i \in 0 .. Len(p) /\ i - 1 \in 0 .. Len(p)
    BY <1>2
  <2>2. PICK x1 \in Nat, x2 \in Nat, m1 \in Nat, m2 \in Nat :
           x1 = x[i - 1] /\ x2 = x[i] /\ m1 = m[i - 1] /\ m2 = m[i]
    BY <2>1
  <2>3. PICK u \in Tokens : /\ u = p[i] /\ (u.means = "char" => u.arg \notin {NUL, PERCENT, DOLLAR})
                            /\ (u.means = "number" => u.arg = n)
    BY <1>1, PromptType
  <2>4. /\ Matches(FormatPart(u), f, x1, x2) /\ Matches(TextPart(u), t, m1, m2)
        /\ x1 + 1 \in 1 .. Len(f) /\ x2 + 1 \in 1 .. Len(f)
    BY <1>4, <1>5, <2>1, <2>2, <2>3
  <2>5. Says(g[x2 + 1], b, t, m2, Len(t))
    BY <1>7, <2>2
  <2>6. Says(g[x1 + 1], b, t, m1, Len(t))
    <3>1. CalledFor(u, n, CallsFrom(f, n, g, x1 + 1), g[x2 + 1])
      BY <1>2, <2>3, <2>4, CallsForPart
    <3>2. PICK q \in {g[x1 + 1]}, later \in Seq(CallsOf(n)) : q = g[x1 + 1] /\ later = g[x2 + 1]
      BY <1>3, <2>4
    <3>3. CalledFor(u, n, q, later)
      BY <1>3, <2>4, <3>1, <3>2
    <3>4. Says(later, b, t, m2, Len(t))
      BY <2>5, <3>2
    <3>5. Says(q, b, t, m1, Len(t))
      BY <2>3, <2>4, <3>3, <3>4, PartPrints
    <3> QED
      BY <3>2, <3>5
  <2> QED
    BY <2>2, <2>6
<1> HIDE DEF Good
<1> DEFINE T == {d \in 0 .. Len(p) : ~ Good(Len(p) - d)}
<1>8. T = {}
  <2> SUFFICES ASSUME T # {} PROVE FALSE
    OBVIOUS
  <2>1. PICK d \in T : \A c \in T : d <= c
    <3>1. T \in SUBSET Nat
      OBVIOUS
    <3> HIDE DEF T
    <3> QED
      BY <3>1, LeastExists
  <2>2. d \in 0 .. Len(p) /\ ~ Good(Len(p) - d)
    OBVIOUS
  <2>3. d # 0
    BY <1>2, <1>6, <2>2
  <2>4. d - 1 \in 0 .. Len(p) /\ ~ (d <= d - 1) /\ Len(p) - (d - 1) \in 1 .. Len(p)
        /\ (Len(p) - (d - 1)) - 1 = Len(p) - d
    BY <1>2, <2>2, <2>3
  <2>5. Good(Len(p) - (d - 1))
    <3>1. d - 1 \notin T
      <4> HIDE DEF T
      <4> QED
        BY <2>1, <2>4
    <3> QED
      BY <2>4, <3>1
  <2> QED
    BY <1>7, <2>2, <2>4, <2>5
<1>9. Good(0)
  <2>1. Len(p) \in 0 .. Len(p) /\ Len(p) - Len(p) = 0
    BY <1>2
  <2> QED
    BY <1>8, <2>1
<1> QED
  BY <1>1, <1>3, <1>4, <1>5, <1>9 DEF Good

\* What printf has passed to putchar is the beginning of a text, and what the
\* calls in q still pass is the rest of it.
Printing(q, b, o, t) ==
  (\A j \in 1 .. Len(o) : o[j] = t[j]) /\ Says(q, b, t, Len(o), Len(t))

\* A call that passes one character to putchar; a are the steps of Putchar.
LEMMA PrintingCharacter ==
  ASSUME NEW S, NEW q \in Seq(S), Len(q) > 0, NEW a \in Seq(S), NEW b, NEW t,
         NEW o \in Seq(Byte), NEW c \in Byte, Printing(q, b, o, t), Said(q[1], b) = <<c>>,
         \A i \in 1 .. Len(a) : Said(a[i], b) = <<>>
  PROVE  Printing(a \o Tail(q), b, Append(o, c), t)
<1>1. PICK m \in Nat, w \in Seq(Byte) :
         /\ m = Len(o) /\ w = Append(o, c) /\ Len(w) = m + 1 /\ w[m + 1] = c
         /\ \A j \in 1 .. m : w[j] = o[j]
  <2>1. Append(o, c) \in Seq(Byte) /\ Len(Append(o, c)) = Len(o) + 1
        /\ Append(o, c)[Len(o) + 1] = c /\ \A j \in 1 .. Len(o) : Append(o, c)[j] = o[j]
    BY AppendProperties
  <2>2. Len(o) \in Nat
    BY LenProperties
  <2> QED
    BY <2>1, <2>2
<1>2. PICK k \in Nat : Matches(Said(q[1], b), t, m, k) /\ Says(Tail(q), b, t, k, Len(t))
  BY <1>1, SaysTail DEF Printing
<1>3. k = m + 1 /\ t[m + 1] = c
  <2>1. Len(<<c>>) = 1 /\ <<c>>[1] = c /\ 1 \in 1 .. 1
    BY OneElement
  <2> QED
    BY <1>2, <2>1 DEF Matches
<1>4. Says(a, b, t, k, k)
  BY SaysNothing
<1>5. Tail(q) \in Seq(S)
  BY EmptySeq, HeadTailProperties
<1>6. Says(a \o Tail(q), b, t, m + 1, Len(t))
  BY <1>2, <1>3, <1>4, <1>5, SaysConcat
<1>7. ASSUME NEW j \in 1 .. m + 1 PROVE w[j] = t[j]
  <2>1. j \in 1 .. m \/ j = m + 1
    OBVIOUS
  <2> QED
    BY <1>1, <1>3, <2>1 DEF Printing
<1> QED
  BY <1>1, <1>6, <1>7 DEF Printing

\* A call that is replaced by the calls a, which pass what it passes; c is the
\* buffer afterwards.
LEMMA PrintingCalls ==
  ASSUME NEW S, NEW q \in Seq(S), Len(q) > 0, NEW a \in Seq(S), NEW b, NEW c, NEW t,
         NEW o \in Seq(Byte), Printing(q, b, o, t),
         \A m \in Nat, k \in Nat : Matches(Said(q[1], b), t, m, k) => Says(a, c, t, m, k),
         \A i \in 1 .. Len(Tail(q)) : Said(Tail(q)[i], b) = Said(Tail(q)[i], c)
  PROVE  Printing(a \o Tail(q), c, o, t)
<1>1. PICK m \in Nat : m = Len(o)
  BY LenProperties
<1>2. PICK k \in Nat : Matches(Said(q[1], b), t, m, k) /\ Says(Tail(q), b, t, k, Len(t))
  BY <1>1, SaysTail DEF Printing
<1>3. Says(Tail(q), c, t, k, Len(t))
  BY <1>2, SaysSame
<1>4. Tail(q) \in Seq(S) /\ Says(a, c, t, m, k)
  BY <1>2, EmptySeq, HeadTailProperties
<1>5. Says(a \o Tail(q), c, t, m, Len(t))
  BY <1>3, <1>4, SaysConcat
<1> QED
  BY <1>1, <1>5 DEF Printing

\* A step that passes nothing.
LEMMA PrintingNothing ==
  ASSUME NEW S, NEW q \in Seq(S), Len(q) > 0, NEW b, NEW t, NEW o \in Seq(Byte),
         Printing(q, b, o, t), Said(q[1], b) = <<>>
  PROVE  Printing(Tail(q), b, o, t)
<1>1. PICK m \in Nat : m = Len(o)
  BY LenProperties
<1>2. PICK k \in Nat : Matches(Said(q[1], b), t, m, k) /\ Says(Tail(q), b, t, k, Len(t))
  BY <1>1, SaysTail DEF Printing
<1>3. k = m
  BY <1>2, EmptySeq DEF Matches
<1> QED
  BY <1>1, <1>2, <1>3 DEF Printing

\* Where nothing is left to call the whole text has been passed.
LEMMA PrintingDone ==
  ASSUME NEW b, NEW t \in Seq(Byte), NEW o \in Seq(Byte), Printing(<<>>, b, o, t)
  PROVE  o = t
<1>1. Len(<<>>) = 0
  BY EmptySeq
<1>2. Len(o) = Len(t)
  BY <1>1 DEF Printing, Says
<1>3. \A j \in 1 .. Len(o) : o[j] = t[j]
  BY DEF Printing
<1> QED
  BY <1>2, <1>3, SeqEqual

\* While the shell reads, all of its prompt is printed or still to be called for,
\* unless another number took the buffer; steps that take from the buffer come
\* first.
PrintInv ==
  /\ InOrder(todo)
  /\ phase = "read" => prompt \in Prompts
  /\ phase = "read" /\ "mixed" \notin events => Printing(todo, buf, out, TextOf(prompt))

\* Nothing is printed yet.
LEMMA InitPrintInv ==
  Init => PrintInv
<1> SUFFICES ASSUME Init PROVE PrintInv
  OBVIOUS
<1>1. Len(todo) = 0 /\ phase = "print"
  BY EmptySeq DEF Init
<1> QED
  BY <1>1 DEF PrintInv, InOrder

\* printf has passed nothing yet, and all is left to call.
LEMMA PrintPromptPrints ==
  ASSUME NEW p \in Prompts, PrintPrompt(p)
  PROVE  PrintInv'
<1>1. /\ todo' = Printf(FormatOf(p), ArgOf(p)) /\ prompt' = p /\ out' = <<>> /\ Len(out') = 0
  BY EmptySeq DEF PrintPrompt
<1>2. PICK n : n = ArgOf(p) /\ Printf(FormatOf(p), n) \in Seq(CallsOf(n))
  BY FormatComplete, PrintfType
<1>3. \A i \in 1 .. Len(todo') : todo'[i].step \notin FromBuffer
  <2>1. PICK C : C = CallsOf(n)
    OBVIOUS
  <2>2. \A u \in C : u.step \notin FromBuffer
    BY <2>1 DEF CallsOf, FromBuffer
  <2>3. todo' \in Seq(C)
    BY <1>1, <1>2, <2>1
  <2> QED
    BY <2>2, <2>3, ElementOfSeq
<1>4. InOrder(todo')
  BY <1>3 DEF InOrder
<1>5. Says(todo', buf', TextOf(p), 0, Len(TextOf(p)))
  BY <1>1, PrintfPrints
<1>6. Printing(todo', buf', out', TextOf(prompt'))
  BY <1>1, <1>5 DEF Printing
<1> QED
  BY <1>1, <1>4, <1>6 DEF PrintInv

\* Accesses to the terminal pass nothing and take nothing from the buffer.
LEMMA AccessesAreSilent ==
  ASSUME NEW a \in Seq(Items), \A i \in 1 .. Len(a) : a[i].step \in TtySteps, NEW b
  PROVE  InOrder(a) /\ \A i \in 1 .. Len(a) : Said(a[i], b) = <<>>
<1>1. \A i \in 1 .. Len(a) : a[i].step \notin {"putchar", "digit", "number", "convert", "strlen"}
  BY DEF TtySteps
<1>2. \A i \in 1 .. Len(a) : Said(a[i], b) = <<>>
  BY <1>1 DEF Said
<1> QED
  BY <1>1, <1>2 DEF InOrder, FromBuffer

\* A key is echoed when nothing is left to call.
LEMMA KeyPrints ==
  ASSUME IInv, PrintInv, NEW code \in Codes, Key(code)
  PROVE  PrintInv'
<1>1. Typed /\ todo = <<>> /\ phase = "read" /\ Accepted(code)
  BY DEF IInv, Key
<1>2. PICK c \in Byte : c = KeyboardSource(code)
  <2>1. code \in TextCodes
    BY <1>1, KeysAreBytes, ConsoleAssumption DEF Accepted, TextCodes
  <2> QED
    BY <2>1, KeysAreBytes
<1>3. todo' = Putchar(c) /\ buf' = buf /\ prompt' = prompt /\ out' = out /\ events' = events
  BY <1>2 DEF Key
<1>4. PICK a \in Seq(Items) : a = Putchar(c) /\ \A i \in 1 .. Len(a) : a[i].step \in TtySteps
  BY PutcharAlone
<1>5. InOrder(a) /\ \A i \in 1 .. Len(a) : Said(a[i], buf) = <<>>
  BY <1>4, AccessesAreSilent
<1>6. ASSUME "mixed" \notin events PROVE Printing(a, buf, out, TextOf(prompt))
  <2>1. Printing(<<>>, buf, out, TextOf(prompt)) /\ prompt \in Prompts
    BY <1>1, <1>6 DEF PrintInv
  <2>2. out = TextOf(prompt) /\ Len(out) \in Nat
    BY <1>1, <2>1, TextPlaces, PrintingDone, LenProperties DEF Typed
  <2>3. Says(a, buf, TextOf(prompt), Len(out), Len(out))
    BY <1>5, <2>2, SaysNothing
  <2> QED
    BY <2>2, <2>3 DEF Printing
<1> QED
  BY <1>1, <1>3, <1>4, <1>5, <1>6 DEF PrintInv

\* What a call passes to putchar, its steps pass.
LEMMA BeginPrints ==
  ASSUME IInv, PrintInv, Begin
  PROVE  PrintInv'
<1>1. /\ Typed /\ todo # <<>> /\ Len(todo) > 0 /\ Head(todo) = todo[1] /\ todo[1] \in Items
      /\ todo \in Seq(Items) /\ out \in Seq(Byte)
      /\ buf \in [0 .. MaxStrSize - 1 -> {NUL} \cup DigitCodes] /\ buf[MaxStrSize - 1] = NUL
  BY ZenonT(30), HeadStep DEF IInv, Begin, Typed
<1>2. PICK call \in Items : call = todo[1] /\ call.step \in Calls
  BY <1>1, StepKinds DEF Begin
<1>3. PICK rest \in Seq(Items) : /\ rest = Tail(todo) /\ InOrder(rest)
                                 /\ call.step \notin TtySteps \cup {"digit"} =>
                                       \A i \in 1 .. Len(rest) : rest[i].step \notin FromBuffer
  <2>1. Tail(todo) \in Seq(Items)
    BY <1>1, HeadTailProperties
  <2> QED
    BY <1>1, <1>2, <2>1, OrderTail DEF PrintInv
<1>4. /\ phase' = phase /\ prompt' = prompt /\ events' = events
      /\ \/ /\ call.step = "putchar" /\ todo' = Putchar(call.arg) \o rest
            /\ out' = Append(out, call.arg) /\ buf' = buf
         \/ /\ call.step = "number" /\ buf' = NoBuf
            /\ todo' = Call("convert", <<call.arg, MaxStrSize - 1>>) \o rest
            /\ out' = out
         \/ /\ call.step = "convert"
            /\ buf' = [buf EXCEPT ![call.arg[2] - 1] = representation(call.arg[1] % 10)]
            /\ todo' = (IF call.arg[1] \div 10 # 0
                          THEN Call("convert", <<call.arg[1] \div 10, call.arg[2] - 1>>)
                          ELSE Call("strlen", <<call.arg[2] - 1, 0>>)) \o rest
            /\ out' = out
         \/ /\ call.step = "strlen"
            /\ todo' = (IF buf[call.arg[1] + call.arg[2]] # NUL
                          THEN Call("strlen", <<call.arg[1], call.arg[2] + 1>>)
                          ELSE [i \in 1 .. call.arg[2] |->
                                  [step |-> "digit", arg |-> call.arg[1] + i - 1]]) \o rest
            /\ buf' = buf /\ out' = out
         \/ /\ call.step = "digit" /\ todo' = Putchar(buf[call.arg]) \o rest
            /\ out' = Append(out, buf[call.arg]) /\ buf' = buf
         \/ /\ call.step = "color" /\ todo' = rest
            /\ buf' = buf /\ out' = out
  <2>1. call = Head(todo) /\ rest = Tail(todo)
    BY <1>1, <1>2, <1>3
  <2> QED
    BY <2>1 DEF Begin
<1>5. /\ call.step = "putchar" => call.arg \in Byte
      /\ call.step = "number" => call.arg \in Roomy
      /\ call.step = "convert" => call.arg \in Unwritten
      /\ call.step = "strlen" => call.arg \in Measured
      /\ call.step = "digit" => call.arg \in 0 .. MaxStrSize - 1
  BY <1>2 DEF Items, Accesses, TtySteps, Calls
<1>6. PICK t : t = TextOf(prompt)
  OBVIOUS
<1> DEFINE Good == InOrder(todo') /\ (Printing(todo, buf, out, t) => Printing(todo', buf', out', t))
<1>7. ASSUME NEW c \in Byte, Said(call, buf) = <<c>>, todo' = Putchar(c) \o rest,
             out' = Append(out, c), buf' = buf
      PROVE  Good
  <2>1. PICK a \in Seq(Items) : a = Putchar(c) /\ \A i \in 1 .. Len(a) : a[i].step \in TtySteps
    BY PutcharAlone
  <2>2. InOrder(a) /\ \A i \in 1 .. Len(a) : Said(a[i], buf) = <<>>
    BY <2>1, AccessesAreSilent
  <2>3. InOrder(a \o rest)
    BY <1>3, <2>1, <2>2, OrderConcat
  <2>4. Printing(todo, buf, out, t) => Printing(a \o rest, buf, Append(out, c), t)
    BY <1>1, <1>2, <1>3, <1>7, <2>2, PrintingCharacter
  <2> QED
    BY <1>7, <2>1, <2>3, <2>4
<1>8. ASSUME NEW a \in Seq(Items), todo' = a \o rest, out' = out,
             \A i \in 1 .. Len(rest) : Said(rest[i], buf) = Said(rest[i], buf'),
             \A m \in Nat, k \in Nat : Matches(Said(call, buf), t, m, k) => Says(a, buf', t, m, k)
      PROVE  Printing(todo, buf, out, t) => Printing(todo', buf', out', t)
  <2>1. PICK b : b = buf'
    OBVIOUS
  <2>2. Printing(todo, buf, out, t) => Printing(a \o rest, b, out, t)
    BY <1>1, <1>2, <1>3, <1>8, <2>1, PrintingCalls
  <2> QED
    BY <1>8, <2>1, <2>2
<1>9. ASSUME call.step = "putchar" PROVE Good
  <2>1. Said(call, buf) = <<call.arg>>
    BY <1>9 DEF Said
  <2>2. todo' = Putchar(call.arg) \o rest /\ out' = Append(out, call.arg) /\ buf' = buf
    BY <1>4, <1>9
  <2>3. call.arg \in Byte
    BY <1>5, <1>9
  <2> QED
    BY <1>7, <2>1, <2>2, <2>3
\* One call takes the place of another that passes the same.
<1>10. ASSUME NEW a \in Items, call.step \in {"number", "convert", "strlen"},
              todo' = <<a>> \o rest, out' = out, Said(call, buf) = Said(a, buf')
       PROVE  Good
  <2>1. \A i \in 1 .. Len(rest) : rest[i].step \notin FromBuffer
    BY <1>3, <1>10 DEF TtySteps
  <2>2. \A i \in 1 .. Len(rest) : Said(rest[i], buf) = Said(rest[i], buf')
    BY <2>1 DEF Said, FromBuffer
  <2>3. \A m \in Nat, k \in Nat : Matches(Said(call, buf), t, m, k) => Says(<<a>>, buf', t, m, k)
    <3>1. PICK b : b = buf'
      OBVIOUS
    <3>2. \A m \in Nat, k \in Nat : Matches(Said(a, b), t, m, k) => Says(<<a>>, b, t, m, k)
      BY SaysOne
    <3> QED
      BY <1>10, <3>1, <3>2
  <2>4. <<a>> \in Seq(Items) /\ InOrder(<<a>>)
    <3>1. Len(<<a>>) = 1
      BY OneElement
    <3>2. InOrder(<<a>>)
      BY <3>1 DEF InOrder
    <3> QED
      BY <3>2
  <2>5. InOrder(<<a>> \o rest)
    BY <1>3, <2>1, <2>4, OrderConcat
  <2> QED
    BY <1>8, <1>10, <2>2, <2>3, <2>4, <2>5
<1>11. ASSUME call.step = "number" PROVE Good
  <2>1. PICK n \in Nat : n = call.arg /\ Len(Digits(n, 10)) < MaxStrSize
    BY <1>5, <1>11 DEF Roomy
  <2>2. PICK a \in Items : a = [step |-> "convert", arg |-> <<n, MaxStrSize - 1>>]
    BY <2>1, NumberBegins
  <2>3. todo' = <<a>> \o rest /\ out' = out /\ buf' = NoBuf
    BY <1>4, <1>11, <2>1, <2>2 DEF Call
  <2>4. LengthIn(NoBuf, MaxStrSize - 1) = 0
    <3>1. MaxStrSize - 1 \in 0 .. MaxStrSize - 1 /\ NoBuf[MaxStrSize - 1] = NUL
          /\ NoBuf \in [0 .. MaxStrSize - 1 -> BufferCodes]
      BY ConsoleAssumption DEF NoBuf, BufferCodes
    <3> QED
      BY <3>1, MeasureSays
  <2>5. TextAt(NoBuf, MaxStrSize - 1, 0) = <<>>
    BY DEF TextAt
  <2>6. PICK s \in Seq(DigitCodes) : s = Digits(n, 10) /\ s \o <<>> = s
    BY <2>1, DigitsType, ConcatEmptySeq
  <2>7. Said(call, buf) = s
    BY <1>11, <2>1, <2>6 DEF Said
  <2>8. Said(a, NoBuf) = s
    <3>1. a.step = "convert" /\ a.arg[1] = n /\ a.arg[2] = MaxStrSize - 1
      BY <2>2
    <3>2. Said(a, NoBuf) = Digits(n, 10) \o TextAt(NoBuf, MaxStrSize - 1, LengthIn(NoBuf, MaxStrSize - 1))
      BY <3>1 DEF Said
    <3> QED
      BY <2>4, <2>5, <2>6, <3>2
  <2> QED
    BY <1>11, <1>10, <2>3, <2>7, <2>8
<1>12. ASSUME call.step = "convert" PROVE Good
  <2>1. PICK v \in Nat, e \in 1 .. MaxStrSize - 1 :
           /\ call.arg = <<v, e>> /\ representation(v % 10) \in DigitCodes
           /\ v \div 10 # 0 => [step |-> "convert", arg |-> <<v \div 10, e - 1>>] \in Items
           /\ [step |-> "strlen", arg |-> <<e - 1, 0>>] \in Items
    BY <1>5, <1>12, DigitHasRoom
  <2>2. PICK d \in DigitCodes : d = representation(v % 10)
    BY <2>1
  <2>8. call.arg[1] = v /\ call.arg[2] = e
    BY <2>1
  <2>9. todo' = (IF v \div 10 # 0 THEN Call("convert", <<v \div 10, e - 1>>)
                                 ELSE Call("strlen", <<e - 1, 0>>)) \o rest
    BY <1>4, <1>12, <2>8
  <2>3. PICK c : /\ c = [buf EXCEPT ![e - 1] = d] /\ DigitPut(buf, e, d, c)
                 /\ buf' = c /\ out' = out
    BY <1>4, <1>12, <2>2, <2>8 DEF DigitPut
  <2>10. buf \in [0 .. MaxStrSize - 1 -> BufferCodes] /\ buf[MaxStrSize - 1] = NUL
    BY <1>1 DEF BufferCodes
  <2>4. PICK front : /\ front = IF v \div 10 = 0 THEN <<>> ELSE Digits(v \div 10, 10)
                     /\ Digits(v, 10) \o TextAt(buf, e, LengthIn(buf, e))
                          = front \o TextAt(c, e - 1, LengthIn(c, e - 1))
    <3>1. AsMuch(v, buf, e, c)
      BY <2>2, <2>3, <2>10, ConvertSays
    <3> QED
      BY <3>1 DEF AsMuch
  <2>5. Said(call, buf) = front \o TextAt(c, e - 1, LengthIn(c, e - 1))
    BY <1>12, <2>4, <2>8 DEF Said
  <2>6. CASE v \div 10 # 0
    <3>1. PICK a \in Items : a = [step |-> "convert", arg |-> <<v \div 10, e - 1>>]
      BY <2>1, <2>6
    <3>2. todo' = <<a>> \o rest
      BY <2>6, <2>9, <3>1 DEF Call
    <3>3. a.step = "convert" /\ a.arg[1] = v \div 10 /\ a.arg[2] = e - 1
      BY <3>1
    <3>4. Said(a, c) = Digits(v \div 10, 10) \o TextAt(c, e - 1, LengthIn(c, e - 1))
      BY <3>3 DEF Said
    <3> QED
      BY <1>12, <1>10, <2>3, <2>4, <2>5, <2>6, <3>2, <3>4
  <2>7. CASE v \div 10 = 0
    <3>1. PICK a \in Items : a = [step |-> "strlen", arg |-> <<e - 1, 0>>]
      BY <2>1
    <3>2. todo' = <<a>> \o rest
      BY <2>7, <2>9, <3>1 DEF Call
    <3>3. PICK l \in Nat : l = LengthIn(c, e - 1) /\ e - 1 + l <= MaxStrSize - 1
      <4>1. PICK k \in Nat : e + k <= MaxStrSize - 1 /\ LengthIn(c, e - 1) = k + 1
        <5>1. DigitStands(buf, e, d, c)
          BY <2>3, <2>10, DigitInFront
        <5> QED
          BY <5>1 DEF DigitStands
      <4>2. k + 1 \in Nat /\ e - 1 + (k + 1) <= MaxStrSize - 1
        BY <4>1, ConsoleAssumption
      <4> QED
        BY <4>1, <4>2
    <3>4. e - 1 \in Nat /\ e - 1 + 0 = e - 1 /\ 0 + l = l
      OBVIOUS
    <3>5. a.step = "strlen" /\ a.arg[1] = e - 1 /\ a.arg[2] = 0
      BY <3>1
    <3>6. Said(a, c) = TextAt(c, e - 1, l)
      <4>1. Said(a, c) = TextAt(c, e - 1, 0 + LengthIn(c, e - 1 + 0))
        BY <3>5 DEF Said
      <4> QED
        BY <3>3, <3>4, <4>1
    <3>7. c \in [0 .. MaxStrSize - 1 -> BufferCodes]
      <4>1. e - 1 \in 0 .. MaxStrSize - 1 /\ d \in BufferCodes
        BY ConsoleAssumption DEF BufferCodes
      <4> QED
        BY <1>1, <2>3, <4>1 DEF BufferCodes
    <3>8. <<>> \o TextAt(c, e - 1, l) = TextAt(c, e - 1, l)
      <4>1. TextAt(c, e - 1, l) \in Seq(BufferCodes)
        BY <3>3, <3>4, <3>7, TextIs
      <4> QED
        BY <4>1, ConcatEmptySeq
    <3> QED
      BY <1>12, <1>10, <2>3, <2>4, <2>5, <2>7, <3>2, <3>3, <3>6, <3>8
  <2> QED
    BY <2>6, <2>7
<1>13. ASSUME call.step = "strlen" PROVE Good
  <2>1. PICK x \in 0 .. MaxStrSize - 1, k \in Nat :
           /\ call.arg = <<x, k>> /\ x + k \in 0 .. MaxStrSize - 1
           /\ x + k # MaxStrSize - 1 => [step |-> "strlen", arg |-> <<x, k + 1>>] \in Items
           /\ \A i \in 1 .. k : [step |-> "digit", arg |-> x + i - 1] \in Items
    BY <1>5, <1>13, OneMore
  <2>2. call.arg[1] = x /\ call.arg[2] = k /\ buf' = buf /\ out' = out /\ x \in Nat
    BY <1>4, <1>13, <2>1
  <2>3. Said(call, buf) = TextAt(buf, x, k + LengthIn(buf, x + k))
    BY <1>13, <2>2 DEF Said
  <2>6. todo' = (IF buf[x + k] # NUL THEN Call("strlen", <<x, k + 1>>)
                 ELSE [i \in 1 .. k |-> [step |-> "digit", arg |-> x + i - 1]]) \o rest
    BY <1>4, <1>13, <2>2
  <2>7. buf \in [0 .. MaxStrSize - 1 -> BufferCodes] /\ buf[MaxStrSize - 1] = NUL
    BY <1>1 DEF BufferCodes
  <2>8. /\ buf[x + k] = NUL => LengthIn(buf, x + k) = 0
        /\ buf[x + k] # NUL => \E l \in Nat : LengthIn(buf, x + k) = l + 1 /\ LengthIn(buf, (x + k) + 1) = l
    <3>1. PICK y \in 0 .. MaxStrSize - 1 : y = x + k
      BY <2>1
    <3>2. /\ buf[y] = NUL => LengthIn(buf, y) = 0
          /\ buf[y] # NUL => \E l \in Nat : LengthIn(buf, y) = l + 1 /\ LengthIn(buf, y + 1) = l
      BY <2>7, MeasureSays
    <3> QED
      BY <3>1, <3>2
  <2>4. CASE buf[x + k] # NUL
    <3>1. PICK l \in Nat : LengthIn(buf, x + k) = l + 1 /\ LengthIn(buf, (x + k) + 1) = l
      BY <2>4, <2>8
    <3>2. k + (l + 1) = (k + 1) + l /\ (x + k) + 1 = x + (k + 1)
      BY <2>2
    <3>3. PICK a \in Items : a = [step |-> "strlen", arg |-> <<x, k + 1>>]
      BY <1>1, <2>1, <2>4
    <3>4. todo' = <<a>> \o rest
      BY <2>4, <2>6, <3>3 DEF Call
    <3>5. a.step = "strlen" /\ a.arg[1] = x /\ a.arg[2] = k + 1
      BY <3>3
    <3>6. Said(a, buf) = TextAt(buf, x, (k + 1) + LengthIn(buf, x + (k + 1)))
      BY <3>5 DEF Said
    <3>7. Said(a, buf) = Said(call, buf)
      BY <2>3, <3>1, <3>2, <3>6
    <3> QED
      BY <1>10, <1>13, <2>2, <3>4, <3>7
  <2>5. CASE buf[x + k] = NUL
    <3>1. LengthIn(buf, x + k) = 0 /\ k + 0 = k
      BY <2>5, <2>8
    <3>2. PICK s : s = [i \in 1 .. k |-> [step |-> "digit", arg |-> x + i - 1]]
      OBVIOUS
    <3>3. /\ s \in Seq(Items) /\ Len(s) = k
          /\ \A i \in 1 .. Len(s) : s[i] = [step |-> "digit", arg |-> x + i - 1]
      <4>1. s \in [1 .. k -> Items]
        BY <2>1, <3>2
      <4>2. s \in Seq(Items) /\ Len(s) = k
        BY <4>1, FunctionIsSequence
      <4>3. \A i \in 1 .. k : s[i] = [step |-> "digit", arg |-> x + i - 1]
        BY <3>2
      <4> QED
        BY <4>2, <4>3
    <3>4. todo' = s \o rest
      BY <2>5, <2>6, <3>2
    <3>5. InOrder(s) /\ \A i \in 1 .. Len(s) : s[i].step \in TtySteps \cup {"digit"}
      <4>1. \A i \in 1 .. Len(s) : s[i].step = "digit"
        BY <3>3
      <4>2. Len(s) \in Nat
        BY <3>3
      <4>3. \A i \in 1 .. Len(s) : \A j \in 1 .. i - 1 : j \in 1 .. Len(s)
        BY <4>2
      <4> QED
        BY <4>1, <4>3 DEF InOrder
    <3>6. ASSUME NEW m \in Nat, NEW z \in Nat, Matches(Said(call, buf), t, m, z)
          PROVE  Says(s, buf, t, m, z)
      <4>1. PICK w : w = TextAt(buf, x, k) /\ Len(w) = k /\ \A j \in 1 .. k : w[j] = buf[x + j - 1]
        <5>1. x + k <= MaxStrSize - 1
          BY <2>1
        <5>2. /\ TextAt(buf, x, k) \in Seq(BufferCodes) /\ Len(TextAt(buf, x, k)) = k
              /\ \A j \in 1 .. k : TextAt(buf, x, k)[j] = buf[x + j - 1]
          <6>1. x \in Nat /\ buf \in [0 .. MaxStrSize - 1 -> BufferCodes]
            BY <2>2, <2>7
          <6> QED
            BY <5>1, <6>1, TextIs
        <5> QED
          BY <5>2
      <4>2. Said(call, buf) = w
        BY <2>3, <3>1, <4>1
      <4>3. z = m + k /\ \A j \in 1 .. k : t[m + j] = buf[x + j - 1]
        BY <3>6, <4>1, <4>2 DEF Matches
      <4>4. \A i \in 1 .. Len(s) : Said(s[i], buf) = <<t[m + i]>>
        BY <3>3, <4>3 DEF Said
      <4> QED
        BY <3>3, <4>3, <4>4, SaysCharacters
    <3>7. InOrder(s \o rest)
      BY <1>3, <3>3, <3>5, OrderConcat
    <3> QED
      BY <1>8, <2>2, <3>3, <3>4, <3>6, <3>7
  <2> QED
    BY <2>4, <2>5
<1>14. ASSUME call.step = "digit" PROVE Good
  <2>1. PICK c \in Byte : c = buf[call.arg]
    <3>1. {NUL} \cup DigitCodes \subseteq Byte
      BY DEF DigitCodes, Byte
    <3>2. buf[call.arg] \in {NUL} \cup DigitCodes
      BY <1>1, <1>5, <1>14
    <3> QED
      BY <3>1, <3>2
  <2>2. Said(call, buf) = <<c>>
    BY <1>14, <2>1 DEF Said
  <2> QED
    BY <1>4, <1>7, <1>14, <2>1, <2>2
<1>15. ASSUME call.step = "color" PROVE Good
  <2>1. Said(call, buf) = <<>>
    BY <1>15 DEF Said
  <2>2. Printing(todo, buf, out, t) => Printing(rest, buf, out, t)
    BY <1>1, <1>2, <1>3, <2>1, PrintingNothing
  <2> QED
    BY <1>3, <1>4, <1>15, <2>2
<1>16. Good
  BY <1>2, <1>9, <1>11, <1>12, <1>13, <1>14, <1>15 DEF Calls
<1> QED
  BY ZenonT(30), <1>4, <1>6, <1>16 DEF PrintInv

\* An access to the terminal passes nothing.
LEMMA TtyStepPrints ==
  ASSUME IInv, PrintInv, TtyStep
  PROVE  PrintInv'
<1>1. /\ todo # <<>> /\ Len(todo) > 0 /\ Head(todo) = todo[1] /\ todo \in Seq(Items)
      /\ out \in Seq(Byte) /\ todo[1].step \in TtySteps
  BY HeadStep DEF IInv, TtyStep, Typed
<1>2. /\ todo' = Tail(todo) /\ buf' = buf /\ out' = out /\ phase' = phase /\ prompt' = prompt
      /\ events \subseteq events'
  BY DEF TtyStep
<1>3. InOrder(Tail(todo))
  BY <1>1, OrderTail DEF PrintInv
<1>4. Said(todo[1], buf) = <<>>
  BY <1>1 DEF Said, TtySteps
<1>5. PICK t : t = TextOf(prompt)
  OBVIOUS
<1>6. Printing(todo, buf, out, t) => Printing(Tail(todo), buf, out, t)
  BY <1>1, <1>4, PrintingNothing
<1> QED
  BY <1>2, <1>3, <1>5, <1>6 DEF PrintInv

\* Another number in the buffer changes only what is taken from there.
LEMMA InterruptPrints ==
  ASSUME IInv, PrintInv, NEW n \in Numbers, Interrupt(n)
  PROVE  PrintInv'
<1>1. /\ todo' = todo /\ out' = out /\ phase' = phase /\ prompt' = prompt
      /\ events \subseteq events' /\ (InNumber => "mixed" \in events')
  BY DEF Interrupt
<1>2. ASSUME "mixed" \notin events'
      PROVE  \A i \in 1 .. Len(todo) : todo[i].step \notin FromBuffer
  <2>1. ~ InNumber
    BY <1>1, <1>2
  <2>2. todo = <<>> => Len(todo) = 0
    BY HeadStep DEF IInv
  <2> QED
    BY <2>1, <2>2 DEF InNumber, FromBuffer
<1>3. PICK t : t = TextOf(prompt)
  OBVIOUS
<1>4. ASSUME "mixed" \notin events', Printing(todo, buf, out, t)
      PROVE  Printing(todo, buf', out, t)
  <2>1. PICK b : b = buf'
    OBVIOUS
  <2>2. \A i \in 1 .. Len(todo) : Said(todo[i], buf) = Said(todo[i], b)
    BY <1>2, <1>4 DEF Said, FromBuffer
  <2>3. Says(todo, b, t, Len(out), Len(t))
    BY <1>4, <2>2, SaysSame DEF Printing
  <2> QED
    BY <1>4, <2>1, <2>3 DEF Printing
<1> QED
  BY <1>1, <1>3, <1>4 DEF PrintInv

\* Every step keeps it.
LEMMA NextPrints ==
  IInv /\ PrintInv /\ [Next]_vars => PrintInv'
<1> SUFFICES ASSUME IInv, PrintInv, [Next]_vars PROVE PrintInv'
  OBVIOUS
<1>1. CASE UNCHANGED vars
  BY <1>1 DEF vars, PrintInv
<1>2. CASE \E p \in Prompts : PrintPrompt(p)
  BY <1>2, PrintPromptPrints
<1>3. CASE \E code \in Codes : Key(code)
  BY <1>3, KeyPrints
<1>4. CASE Begin
  BY <1>4, BeginPrints
<1>5. CASE TtyStep
  BY <1>5, TtyStepPrints
<1>6. CASE \E n \in Numbers : Interrupt(n)
  BY <1>6, InterruptPrints
<1> QED
  BY <1>1, <1>2, <1>3, <1>4, <1>5, <1>6 DEF Next

(***************************************************************************)
(* Whatever it prints, printf passes to putchar the text that its format   *)
(* means, with the digits of the number it was given and without the       *)
(* escapes of colours, unless another number was printed while its digits  *)
(* were in the static buffer (printf.cpp:25-41, 64-180).                   *)
(***************************************************************************)
THEOREM PrintfPrintsItsText ==
  Spec => []PrintsItsText
<1>1. IInv /\ PrintInv => PrintsItsText
  <2> SUFFICES ASSUME IInv, PrintInv, phase = "read", todo = <<>>, "mixed" \notin events
               PROVE  out = TextOf(prompt)
    BY DEF PrintsItsText
  <2>1. prompt \in Prompts /\ Printing(<<>>, buf, out, TextOf(prompt)) /\ out \in Seq(Byte)
    BY DEF PrintInv, IInv, Typed
  <2> QED
    BY <2>1, TextPlaces, PrintingDone
<1>2. Spec => []PrintInv
  BY InitPrintInv, IInvAlways, NextPrints, PTL DEF Spec
<1> QED
  BY <1>1, <1>2, IInvAlways, PTL

=============================================================================
