----------------------------- MODULE AtaProofs -----------------------------
(***************************************************************************)
(* Proofs about Ata, for every size of sectors and of the disk: a read     *)
(* inside one sector returns the disk's bytes, and a write changes just    *)
(* the bytes it was asked to, whatever the device does in between.         *)
(***************************************************************************)
EXTENDS Ata, SequenceTheorems, TLAPS

-----------------------------------------------------------------------------
(* The inductive invariant.                                                *)

Sector == 0 .. SectorSize - 1
Value == Byte \cup {Blank, Junk}

\* The function the driver is in, and what is left of it from step k on.
Script(op) ==
  IF op = "read" THEN ReadBytesScript
  ELSE IF op = "write" THEN WriteBytesScript ELSE IdentifyScript
From(s, k) == SubSeq(s, k, Len(s))

\* Nothing went wrong in a request inside one sector.
Sound == ~wrong /\ InOneSector(req)

\* The sector of the request, and what the disk has at index i of it.
Wanted == req.loc \div SectorSize
OnDisk(i) == disk[Wanted * SectorSize + i]
Asked(i) == i \in offset .. offset + req.count - 1

(***************************************************************************)
(* The buffer has whole sectors, one at least, while a request lasts.      *)
(***************************************************************************)
BufferInv(k) ==
  /\ req.op = "identify" \/ k > Len(Script(req.op)) => DOMAIN buffer = {}
  /\ req.op # "identify" /\ k <= Len(Script(req.op)) =>
        DOMAIN buffer = 0 .. BufferSectors(req.count) * SectorSize - 1

(***************************************************************************)
(* What a request has achieved before its step k: the address registers    *)
(* are set by steps 1, 3, 4 and 5, the sector is in the buffer after step  *)
(* 13, has what is to be written after step 14 and until step 27 writes it.*)
(***************************************************************************)
Registers(k) ==
  /\ k >= 2 => regs["head"] = Part("head", Wanted)
  /\ k >= 4 => regs["low"] = Part("low", Wanted)
  /\ k >= 5 => regs["mid"] = Part("mid", Wanted)
  /\ k >= 6 => regs["high"] = Part("high", Wanted)

DataInv(k) ==
  Sound /\ req.op # "identify" =>
     /\ Registers(k)
     /\ k = 14 => \A i \in Sector : buffer[i] = OnDisk(i)
     /\ req.op = "write" /\ k \in 15 .. 27 =>
           \A i \in Sector : buffer[i] = IF Asked(i) THEN req.value ELSE OnDisk(i)
     /\ req.op = "read" /\ k = 15 => \A a \in DOMAIN output : output[a] = disk[a]

Progress(k) == todo = From(Script(req.op), k) /\ BufferInv(k) /\ DataInv(k)

Inv ==
  /\ TypeOK
  /\ state \in {"accepted", "busy"} => cmd # "none"
  /\ \E k \in 1 .. Len(Script(req.op)) + 1 : Progress(k)

-----------------------------------------------------------------------------
(* Bytes and sectors.                                                      *)

\* SECTOR_SIZE_BYTES and the size of the disk are positive.
LEMMA Sizes ==
  /\ SectorSize \in Nat /\ SectorSize > 0 /\ Sectors \in Nat /\ Sectors > 0
  /\ Sectors * SectorSize \in Nat /\ Sector \subseteq Nat
<1>1. SectorSize \in Nat /\ SectorSize > 0 /\ Sectors \in Nat /\ Sectors > 0
  BY AtaAssumption
<1> QED
  BY <1>1 DEF Sector

\* An address is that of a byte of a sector.
LEMMA ByteSplit ==
  ASSUME NEW p \in Nat
  PROVE  /\ p \div SectorSize \in Nat /\ p % SectorSize \in Sector
         /\ p = (p \div SectorSize) * SectorSize + (p % SectorSize)
<1>1. p \div SectorSize \in Nat /\ p % SectorSize \in 0 .. SectorSize - 1
  BY Sizes
<1>2. p = SectorSize * (p \div SectorSize) + (p % SectorSize)
  BY Sizes
<1>3. SectorSize * (p \div SectorSize) = (p \div SectorSize) * SectorSize
  BY <1>1, Sizes
<1> QED
  BY <1>1, <1>2, <1>3 DEF Sector

\* A greater multiple is greater by the factor at least.
LEMMA ProductIsAbove ==
  ASSUME NEW a \in Nat, NEW b \in Nat, NEW c \in Nat, b < c
  PROVE  c * a >= b * a + a /\ b * a \in Nat /\ c * a \in Nat
<1>1. PICK d \in Nat : c = b + 1 + d
  <2>1. c - b - 1 \in Nat /\ c = b + 1 + (c - b - 1)
    OBVIOUS
  <2> QED
    BY <2>1
<1>2. d * a \in Nat /\ b * a \in Nat
  OBVIOUS
<1>3. c * a = b * a + a + d * a
  BY <1>1
<1> QED
  BY <1>2, <1>3

\* There is only one such byte.
LEMMA SplitIsUnique ==
  ASSUME NEW q \in Nat, NEW r \in Sector
  PROVE  (q * SectorSize + r) \div SectorSize = q /\ (q * SectorSize + r) % SectorSize = r
<1>1. PICK p \in Nat : p = q * SectorSize + r
  BY Sizes DEF Sector
<1>2. PICK x \in Nat, y \in Sector :
         x = p \div SectorSize /\ y = p % SectorSize /\ p = x * SectorSize + y
  BY ByteSplit
<1>3. /\ r \in Nat /\ r < SectorSize /\ y \in Nat /\ y < SectorSize
      /\ q * SectorSize \in Nat /\ x * SectorSize \in Nat
  BY <1>2, Sizes DEF Sector
<1>4. CASE q < x
  <2>1. x * SectorSize >= q * SectorSize + SectorSize
    BY <1>4, Sizes, ProductIsAbove
  <2> QED
    BY <1>1, <1>2, <1>3, <2>1, Sizes
<1>5. CASE x < q
  <2>1. q * SectorSize >= x * SectorSize + SectorSize
    BY <1>5, Sizes, ProductIsAbove
  <2> QED
    BY <1>1, <1>2, <1>3, <2>1, Sizes
<1>6. CASE q = x
  BY <1>1, <1>2, <1>3, <1>6
<1> QED
  BY <1>4, <1>5, <1>6

\* The bytes of the sectors of the disk are on the disk, and those only.
LEMMA SectorOnDisk ==
  /\ \A q \in Lba, i \in Sector : q * SectorSize + i \in Address
  /\ \A a \in Address : a \in Nat /\ a \div SectorSize \in Lba
<1>1. ASSUME NEW q \in Lba, NEW i \in Sector
      PROVE  q * SectorSize + i \in Address
  <2>1. q \in Nat /\ q < Sectors /\ i \in Nat /\ i < SectorSize
    BY Sizes DEF Lba, Sector
  <2>2. Sectors * SectorSize >= q * SectorSize + SectorSize /\ q * SectorSize \in Nat
    BY <2>1, Sizes, ProductIsAbove
  <2> QED
    BY <2>1, <2>2, Sizes DEF Address
<1>2. ASSUME NEW a \in Address
      PROVE  a \in Nat /\ a \div SectorSize \in Lba
  <2>1. a \in Nat /\ a < Sectors * SectorSize
    BY Sizes DEF Address
  <2>2. PICK x \in Nat, y \in Sector : x = a \div SectorSize /\ a = x * SectorSize + y
    BY <2>1, ByteSplit
  <2>3. y \in Nat /\ x * SectorSize \in Nat
    BY <2>2, Sizes
  <2>4. ~(Sectors < x)
    <3>1. SUFFICES ASSUME Sectors < x PROVE FALSE
      OBVIOUS
    <3>2. x * SectorSize >= Sectors * SectorSize + SectorSize
      BY <3>1, Sizes, ProductIsAbove
    <3> QED
      BY <2>1, <2>2, <2>3, <3>2, Sizes
  <2>5. x # Sectors
    BY <2>1, <2>2, <2>3, Sizes
  <2> QED
    BY <2>1, <2>2, <2>4, <2>5, Sizes DEF Lba
<1> QED
  BY <1>1, <1>2

\* The buffer of a request has room for a sector (ata.cpp:209, 228).
LEMMA BufferRoom ==
  ASSUME NEW count \in Nat, count >= 1
  PROVE  /\ BufferSectors(count) * SectorSize \in Nat
         /\ Sector \subseteq 0 .. BufferSectors(count) * SectorSize - 1
<1>1. PICK n \in Nat : n = count + SectorSize - 1 /\ n >= SectorSize
  BY Sizes
<1>2. PICK x \in Nat, y \in Sector : x = n \div SectorSize /\ n = x * SectorSize + y
  BY ByteSplit
<1>3. x >= 1
  <2>1. SUFFICES ASSUME x = 0 PROVE FALSE
    BY <1>2
  <2>2. n = y
    BY <1>2, <2>1, Sizes
  <2> QED
    BY <1>1, <2>2, Sizes DEF Sector
<1>4. x * SectorSize \in Nat /\ x * SectorSize >= SectorSize
  <2>1. x * SectorSize >= 0 * SectorSize + SectorSize /\ x * SectorSize \in Nat
    BY <1>3, Sizes, ProductIsAbove
  <2> QED
    BY <2>1, Sizes
<1>5. BufferSectors(count) = x
  BY <1>1, <1>2 DEF BufferSectors
<1> QED
  BY <1>4, <1>5, Sizes DEF Sector

\* The parts of a sector's number, and that they make it up again.
LEMMA Parts ==
  ASSUME NEW n \in Nat
  PROVE  /\ \A r \in Register : Part(r, n) \in 0 .. 255
         /\ n < 268435456 => n = 16777216 * Part("head", n) + 65536 * Part("high", n)
                                  + 256 * Part("mid", n) + Part("low", n)
<1>1. PICK h, g, m, l : /\ h = (n \div 16777216) % 16 /\ g = (n \div 65536) % 256
                        /\ m = (n \div 256) % 256 /\ l = n % 256
  OBVIOUS
<1>2. h \in 0 .. 15 /\ g \in 0 .. 255 /\ m \in 0 .. 255 /\ l \in 0 .. 255
  BY <1>1
<1>3. n < 268435456 => n = 16777216 * h + 65536 * g + 256 * m + l
  BY <1>1
<1>4. /\ Part("head", n) = h /\ Part("high", n) = g /\ Part("mid", n) = m /\ Part("low", n) = l
      /\ Part("count", n) = 1
  BY <1>1 DEF Part
<1>5. \A r \in Register : Part(r, n) \in 0 .. 255
  BY <1>2, <1>4 DEF Register
<1> QED
  BY <1>3, <1>4, <1>5

\* A register has eight bits.
LEMMA PartTyped ==
  ASSUME NEW n \in Nat, NEW r \in Register
  PROVE  Part(r, n) \in 0 .. 255
  BY Parts, SMT

\* A device that took all registers is at the sector wanted.
LEMMA AtWanted ==
  ASSUME NEW k \in Nat, k >= 6, Registers(k), Wanted \in Lba
  PROVE  lba = Wanted
<1>1. Wanted \in Nat /\ Wanted < 268435456
  BY Sizes, AtaAssumption DEF Lba
<1>2. /\ regs["head"] = Part("head", Wanted) /\ regs["low"] = Part("low", Wanted)
      /\ regs["mid"] = Part("mid", Wanted) /\ regs["high"] = Part("high", Wanted)
  BY DEF Registers
<1> QED
  BY <1>1, <1>2, Parts, SMT DEF lba

-----------------------------------------------------------------------------
(* The scripts.                                                            *)

Step == {"select", "no_busy", "ready", "identify", "status", "while_busy", "signature",
         "while_both", "insw", "create", "read", "write", "outsw", "flush", "copy", "return"}
        \cup Register
Identifying == {"select", "identify", "status", "while_busy", "signature", "while_both", "create"}

\* read_bytes (ata.cpp:205-222) in its steps.
LEMMA ReadSteps ==
  /\ ReadBytesScript \in Seq(Step) /\ Len(ReadBytesScript) = 14
  /\ \A k \in 1 .. 14 : /\ ReadBytesScript[k] = "head" <=> k = 1
                        /\ ReadBytesScript[k] = "count" <=> k = 2
                        /\ ReadBytesScript[k] = "low" <=> k = 3
                        /\ ReadBytesScript[k] = "mid" <=> k = 4
                        /\ ReadBytesScript[k] = "high" <=> k = 5
                        /\ ReadBytesScript[k] = "insw" <=> k = 13
                        /\ ReadBytesScript[k] = "return" <=> k = 14
                        /\ ReadBytesScript[k] \notin Identifying \cup {"copy", "outsw"}
<1>1. Poll \in Seq(Step) /\ Setup \in Seq(Step) /\ ReadScript \in Seq(Step)
  BY DEF Poll, Setup, ReadScript, Step, Register
<1>2. ReadBytesScript \in Seq(Step)
  BY <1>1 DEF ReadBytesScript, Step
<1>3. Len(ReadBytesScript) = 14
  BY DEF ReadBytesScript, ReadScript, Setup, Poll
<1>4. \A k \in 1 .. 14 : /\ ReadBytesScript[k] = "head" <=> k = 1
                         /\ ReadBytesScript[k] = "count" <=> k = 2
                         /\ ReadBytesScript[k] = "low" <=> k = 3
  BY DEF ReadBytesScript, ReadScript, Setup, Poll
<1>5. \A k \in 1 .. 14 : /\ ReadBytesScript[k] = "mid" <=> k = 4
                         /\ ReadBytesScript[k] = "high" <=> k = 5
                         /\ ReadBytesScript[k] = "insw" <=> k = 13
  BY DEF ReadBytesScript, ReadScript, Setup, Poll
<1>6. \A k \in 1 .. 14 : ReadBytesScript[k] = "return" <=> k = 14
  BY DEF ReadBytesScript, ReadScript, Setup, Poll
<1>7. \A k \in 1 .. 14 : ReadBytesScript[k] \notin Identifying \cup {"copy", "outsw"}
  BY DEF ReadBytesScript, ReadScript, Setup, Poll, Identifying
<1> QED
  BY <1>2, <1>3, <1>4, <1>5, <1>6, <1>7

\* write_bytes (ata.cpp:224-242) in its steps.
LEMMA WriteSteps ==
  /\ WriteBytesScript \in Seq(Step) /\ Len(WriteBytesScript) = 31
  /\ \A k \in 1 .. 31 : /\ WriteBytesScript[k] = "head" <=> k \in {1, 15}
                        /\ WriteBytesScript[k] = "count" <=> k \in {2, 16}
                        /\ WriteBytesScript[k] = "low" <=> k \in {3, 17}
                        /\ WriteBytesScript[k] = "mid" <=> k \in {4, 18}
                        /\ WriteBytesScript[k] = "high" <=> k \in {5, 19}
                        /\ WriteBytesScript[k] = "insw" <=> k = 13
                        /\ WriteBytesScript[k] = "copy" <=> k = 14
                        /\ WriteBytesScript[k] = "outsw" <=> k = 27
                        /\ WriteBytesScript[k] = "return" <=> k = 31
                        /\ WriteBytesScript[k] \notin Identifying
<1>1. Poll \in Seq(Step) /\ Setup \in Seq(Step) /\ ReadScript \in Seq(Step)
  BY DEF Poll, Setup, ReadScript, Step, Register
<1>2. WriteScript \in Seq(Step)
  BY <1>1 DEF WriteScript, Step
<1>3. WriteBytesScript \in Seq(Step)
  BY <1>1, <1>2 DEF WriteBytesScript, Step
<1>4. Len(WriteBytesScript) = 31
  BY DEF WriteBytesScript, WriteScript, ReadScript, Setup, Poll
<1>5. \A k \in 1 .. 31 : /\ WriteBytesScript[k] = "head" <=> k \in {1, 15}
                         /\ WriteBytesScript[k] = "count" <=> k \in {2, 16}
                         /\ WriteBytesScript[k] = "low" <=> k \in {3, 17}
  BY DEF WriteBytesScript, WriteScript, ReadScript, Setup, Poll
<1>6. \A k \in 1 .. 31 : /\ WriteBytesScript[k] = "mid" <=> k \in {4, 18}
                         /\ WriteBytesScript[k] = "high" <=> k \in {5, 19}
                         /\ WriteBytesScript[k] = "insw" <=> k = 13
  BY DEF WriteBytesScript, WriteScript, ReadScript, Setup, Poll
<1>7. \A k \in 1 .. 31 : /\ WriteBytesScript[k] = "copy" <=> k = 14
                         /\ WriteBytesScript[k] = "outsw" <=> k = 27
                         /\ WriteBytesScript[k] = "return" <=> k = 31
  BY DEF WriteBytesScript, WriteScript, ReadScript, Setup, Poll
<1>8. \A k \in 1 .. 31 : WriteBytesScript[k] \notin Identifying
  BY DEF WriteBytesScript, WriteScript, ReadScript, Setup, Poll, Identifying
<1>9. ASSUME NEW k \in 1 .. 31
      PROVE  /\ WriteBytesScript[k] = "head" <=> k \in {1, 15}
             /\ WriteBytesScript[k] = "count" <=> k \in {2, 16}
             /\ WriteBytesScript[k] = "low" <=> k \in {3, 17}
             /\ WriteBytesScript[k] = "mid" <=> k \in {4, 18}
             /\ WriteBytesScript[k] = "high" <=> k \in {5, 19}
             /\ WriteBytesScript[k] = "insw" <=> k = 13
             /\ WriteBytesScript[k] = "copy" <=> k = 14
             /\ WriteBytesScript[k] = "outsw" <=> k = 27
             /\ WriteBytesScript[k] = "return" <=> k = 31
             /\ WriteBytesScript[k] \notin Identifying
  <2>1. /\ WriteBytesScript[k] = "head" <=> k \in {1, 15}
        /\ WriteBytesScript[k] = "count" <=> k \in {2, 16}
        /\ WriteBytesScript[k] = "low" <=> k \in {3, 17}
    BY <1>5
  <2>2. /\ WriteBytesScript[k] = "mid" <=> k \in {4, 18}
        /\ WriteBytesScript[k] = "high" <=> k \in {5, 19}
        /\ WriteBytesScript[k] = "insw" <=> k = 13
    BY <1>6
  <2>3. /\ WriteBytesScript[k] = "copy" <=> k = 14
        /\ WriteBytesScript[k] = "outsw" <=> k = 27
        /\ WriteBytesScript[k] = "return" <=> k = 31
    BY <1>7
  <2> QED
    BY <1>8, <2>1, <2>2, <2>3
<1> QED
  BY <1>3, <1>4, <1>9

\* _get_device_info (ata.cpp:319-390) and create_device in their steps.
LEMMA IdentifySteps ==
  /\ IdentifyScript \in Seq(Step) /\ Len(IdentifyScript) = 10
  /\ From(IdentifyScript, 10) = <<"create">>
  /\ \A k \in 1 .. 10 : IdentifyScript[k] \notin Register \cup {"copy", "outsw", "return"}
<1>1. IdentifyScript \in Seq(Step)
  BY DEF IdentifyScript, Step
<1>2. Len(IdentifyScript) = 10
  BY DEF IdentifyScript
<1>3. From(IdentifyScript, 10) = <<"create">>
  <2>1. PICK s \in Seq(Step) : s = IdentifyScript /\ Len(s) = 10 /\ s[10] = "create"
    BY <1>1, <1>2 DEF IdentifyScript
  <2>2. PICK u : u = From(s, 10)
    OBVIOUS
  <2>3. u \in Seq(Step) /\ Len(u) = 1 /\ u[1] = "create"
    <3>1. PICK n : n = Len(s)
      OBVIOUS
    <3>2. \A i \in 1 .. n : s[i] \in Step
      BY <3>1
    <3>3. PICK k \in Nat : k = n /\ u = SubSeq(s, k, n) /\ n = 10 /\ s[k] = "create"
      BY <2>1, <2>2, <3>1 DEF From
    <3>4. /\ u \in Seq(Step) /\ Len(u) = n - k + 1
          /\ \A i \in 1 .. n - k + 1 : u[i] = s[k + i - 1]
      BY <3>1, <3>2, <3>3
    <3>5. u[1] = s[k]
      BY <3>3, <3>4
    <3> QED
      BY <3>3, <3>4, <3>5
  <2>4. u = <<"create">>
    BY <2>3
  <2> QED
    BY <2>1, <2>2, <2>4
<1>4. \A k \in 1 .. 10 : IdentifyScript[k] \notin Register \cup {"copy", "outsw", "return"}
  BY DEF IdentifyScript, Register
<1> QED
  BY <1>1, <1>2, <1>3, <1>4

\* Taking a step off a script.
LEMMA NextStep ==
  ASSUME NEW s \in Seq(Step), NEW k \in 1 .. Len(s) + 1, From(s, k) # <<>>
  PROVE  /\ k \in 1 .. Len(s) /\ k + 1 \in 1 .. Len(s) + 1
         /\ Head(From(s, k)) = s[k] /\ Tail(From(s, k)) = From(s, k + 1)
<1>1. PICK n \in Nat : n = Len(s)
  OBVIOUS
<1>2. \A i \in 1 .. n : s[i] \in Step
  BY <1>1
<1>3. k \in Nat /\ k >= 1 /\ k <= n + 1
  BY <1>1
<1>4. PICK u : u = SubSeq(s, k, n)
  OBVIOUS
<1>5. u \in Seq(Step) /\ Len(u) = n - k + 1 /\ \A i \in 1 .. n - k + 1 : u[i] = s[k + i - 1]
  BY <1>1, <1>2, <1>3, <1>4
<1>6. PICK w : w = SubSeq(s, k + 1, n)
  OBVIOUS
<1>7. Len(u) # 0
  BY <1>1, <1>4, <1>5, EmptySeq DEF From
<1>8. k <= n
  BY <1>1, <1>3, <1>5, <1>7
<1>9. w \in Seq(Step) /\ Len(w) = n - k /\ \A i \in 1 .. n - k : w[i] = s[k + i]
  BY <1>1, <1>2, <1>3, <1>6, <1>8
<1>10. Head(u) = s[k]
  BY <1>3, <1>5, <1>8
<1>11. Tail(u) = w
  <2>1. PICK v : v = Tail(u)
    OBVIOUS
  <2>2. u # <<>> /\ Len(u) - 1 = n - k
    BY <1>3, <1>5, <1>7, EmptySeq
  <2>3. v \in Seq(Step) /\ Len(v) = Len(u) - 1 /\ \A i \in 1 .. Len(v) : v[i] = u[i + 1]
    BY <1>5, <2>1, <2>2, HeadTailProperties
  <2>4. Len(v) = n - k
    BY <2>2, <2>3
  <2>5. ASSUME NEW i \in 1 .. n - k
        PROVE  v[i] = w[i]
    <3>1. i + 1 \in 1 .. n - k + 1 /\ k + (i + 1) - 1 = k + i
      BY <1>3
    <3> QED
      BY <1>5, <1>9, <2>3, <2>4, <3>1
  <2>6. v = w
    BY <1>9, <2>3, <2>4, <2>5, SeqEqual
  <2> QED
    BY <2>1, <2>6
<1> QED
  BY <1>1, <1>3, <1>4, <1>6, <1>8, <1>10, <1>11 DEF From

\* What is known of the request of read_bytes or write_bytes.
LEMMA Requests ==
  ASSUME TypeOK, req.op # "identify"
  PROVE  /\ req.op \in {"read", "write"} /\ req.loc \in Address /\ req.loc \in Nat
         /\ req.count \in Nat /\ req.count >= 1 /\ req.value \in Value
         /\ req.loc + req.count <= Sectors * SectorSize
         /\ offset \in Sector /\ Wanted \in Lba /\ req.loc = Wanted * SectorSize + offset
<1>1. req \in Request
  BY DEF TypeOK, NoRequest
<1>2. /\ req.op \in {"read", "write"} /\ req.loc \in Address
      /\ req.count \in 1 .. SectorSize + 1 /\ req.value \in Value
      /\ req.loc + req.count <= Sectors * SectorSize
  BY <1>1 DEF Request, Value
<1>3. req.loc \in Nat /\ req.count \in Nat /\ req.count >= 1
  BY <1>2, Sizes DEF Address
<1>4. offset \in Sector /\ req.loc = Wanted * SectorSize + offset
  BY <1>3, ByteSplit DEF offset, Wanted
<1>5. Wanted \in Lba
  BY <1>2, SectorOnDisk DEF Wanted
<1> QED
  BY <1>2, <1>3, <1>4, <1>5

\* All scripts are made of steps.
LEMMA Scripts ==
  ASSUME NEW op
  PROVE  Script(op) \in Seq(Step) /\ Len(Script(op)) \in Nat
<1>1. \/ Script(op) = ReadBytesScript
      \/ Script(op) = WriteBytesScript
      \/ Script(op) = IdentifyScript
  BY DEF Script
<1>2. PICK s : s = Script(op)
  OBVIOUS
<1>3. s \in Seq(Step)
  <2>1. ReadBytesScript \in Seq(Step)
    BY ReadSteps
  <2>2. WriteBytesScript \in Seq(Step)
    BY WriteSteps
  <2>3. IdentifyScript \in Seq(Step)
    BY IdentifySteps
  <2> QED
    BY <1>1, <1>2, <2>1, <2>2, <2>3
<1>4. Len(s) \in Nat
  BY <1>3
<1> QED
  BY <1>2, <1>3, <1>4

\* A step of the driver is the next one of its script.
LEMMA DriverStep ==
  ASSUME NEW k \in 1 .. Len(Script(req.op)) + 1, Progress(k), NEW step, At(step)
  PROVE  /\ k \in 1 .. Len(Script(req.op)) /\ k + 1 \in 1 .. Len(Script(req.op)) + 1
         /\ Script(req.op)[k] = step /\ todo' = From(Script(req.op), k + 1)
<1>1. PICK s \in Seq(Step) : s = Script(req.op)
  BY Scripts
<1>2. todo = From(s, k) /\ todo # <<>> /\ Head(todo) = step /\ todo' = Tail(todo)
  BY <1>1 DEF Progress, At
<1>3. /\ k \in 1 .. Len(s) /\ k + 1 \in 1 .. Len(s) + 1
      /\ Head(From(s, k)) = s[k] /\ Tail(From(s, k)) = From(s, k + 1)
  BY <1>1, <1>2, NextStep
<1> QED
  BY <1>1, <1>2, <1>3

\* The lengths of the scripts of a request.
LEMMA ScriptLengths ==
  /\ req.op = "identify" => Len(Script(req.op)) = 10
  /\ req.op = "read" => Len(Script(req.op)) = 14
  /\ req.op = "write" => Len(Script(req.op)) = 31
<1>1. ASSUME req.op = "identify" PROVE Len(Script(req.op)) = 10
  BY <1>1, IdentifySteps DEF Script
<1>2. ASSUME req.op = "read" PROVE Len(Script(req.op)) = 14
  BY <1>2, ReadSteps DEF Script
<1>3. ASSUME req.op = "write" PROVE Len(Script(req.op)) = 31
  BY <1>3, WriteSteps DEF Script
<1> QED
  BY <1>1, <1>2, <1>3

\* Where the steps are that touch the data.
LEMMA DataSteps ==
  ASSUME TypeOK, NEW k \in 1 .. Len(Script(req.op)), NEW step, Script(req.op)[k] = step
  PROVE  /\ step \in Identifying => req.op = "identify"
         /\ step \in Register => req.op # "identify" /\ k \in 1 .. 5 \cup 15 .. 19
                                 /\ (k >= 6 => req.op = "write")
         /\ step = "head" => k \in {1, 15}
         /\ step = "count" => k \in {2, 16}
         /\ step = "low" => k \in {3, 17}
         /\ step = "mid" => k \in {4, 18}
         /\ step = "high" => k \in {5, 19}
         /\ step = "insw" /\ req.op # "identify" => k = 13
         /\ step = "copy" => req.op = "write" /\ k = 14
         /\ step = "outsw" => req.op = "write" /\ k = 27
         /\ step = "return" => req.op # "identify" /\ k = Len(Script(req.op))
         /\ step \notin Register \cup {"insw", "copy", "outsw", "return"} /\ req.op # "identify" =>
               /\ k >= 6 /\ k # 13 /\ k # Len(Script(req.op))
               /\ req.op = "write" => k # 14 /\ k # 27
<1>1. CASE req.op = "identify"
  <2>1. k \in 1 .. 10 /\ step = IdentifyScript[k]
    BY <1>1, ScriptLengths DEF Script
  <2>2. step \notin Register \cup {"copy", "outsw", "return"}
    BY <2>1, IdentifySteps
  <2>3. step \notin Register /\ step \notin {"head", "count", "low", "mid", "high"}
    BY <2>2 DEF Register
  <2> QED
    BY <1>1, <2>2, <2>3
<1>2. CASE req.op = "read"
  <2>1. k \in 1 .. 14 /\ step = ReadBytesScript[k] /\ Len(Script(req.op)) = 14
    BY <1>2, ScriptLengths DEF Script
  <2>2. /\ step = "head" <=> k = 1
        /\ step = "count" <=> k = 2
        /\ step = "low" <=> k = 3
        /\ step = "mid" <=> k = 4
        /\ step = "high" <=> k = 5
        /\ step = "insw" <=> k = 13
        /\ step = "return" <=> k = 14
        /\ step \notin Identifying \cup {"copy", "outsw"}
    BY <2>1, ReadSteps
  <2>3. step \in Register <=> k \in 1 .. 5
    <3>1. k \in 1 .. 5 <=> k \in {1, 2, 3, 4, 5}
      BY <2>1
    <3> QED
      BY <2>2, <3>1 DEF Register
  <2>4. step \notin Register \cup {"insw", "copy", "outsw", "return"} => k >= 6 /\ k # 13 /\ k # 14
    BY <2>1, <2>2, <2>3
  <2>5. step \in Register => k \in 1 .. 5 \cup 15 .. 19 /\ ~(k >= 6)
    BY <2>3
  <2> QED
    BY <1>2, <2>1, <2>2, <2>4, <2>5
<1>3. CASE req.op = "write"
  <2>1. k \in 1 .. 31 /\ step = WriteBytesScript[k] /\ Len(Script(req.op)) = 31
    BY <1>3, ScriptLengths DEF Script
  <2>2. /\ step = "head" <=> k \in {1, 15}
        /\ step = "count" <=> k \in {2, 16}
        /\ step = "low" <=> k \in {3, 17}
        /\ step = "mid" <=> k \in {4, 18}
        /\ step = "high" <=> k \in {5, 19}
        /\ step = "insw" <=> k = 13
        /\ step = "copy" <=> k = 14
        /\ step = "outsw" <=> k = 27
        /\ step = "return" <=> k = 31
        /\ step \notin Identifying
    <3>1. PICK s : s = WriteBytesScript
      OBVIOUS
    <3>2. \A n \in 1 .. 31 : /\ s[n] = "head" <=> n \in {1, 15}
                             /\ s[n] = "count" <=> n \in {2, 16}
                             /\ s[n] = "low" <=> n \in {3, 17}
                             /\ s[n] = "mid" <=> n \in {4, 18}
                             /\ s[n] = "high" <=> n \in {5, 19}
      BY <3>1, WriteSteps
    <3>3. \A n \in 1 .. 31 : /\ s[n] = "insw" <=> n = 13
                             /\ s[n] = "copy" <=> n = 14
                             /\ s[n] = "outsw" <=> n = 27
                             /\ s[n] = "return" <=> n = 31
                             /\ s[n] \notin Identifying
      BY ZenonT(30), <3>1, WriteSteps
    <3>4. k \in 1 .. 31 /\ step = s[k]
      BY <2>1, <3>1
    <3>5. /\ step = "head" <=> k \in {1, 15}
          /\ step = "count" <=> k \in {2, 16}
          /\ step = "low" <=> k \in {3, 17}
          /\ step = "mid" <=> k \in {4, 18}
          /\ step = "high" <=> k \in {5, 19}
      BY ZenonT(30), <3>2, <3>4
    <3>6. /\ step = "insw" <=> k = 13
          /\ step = "copy" <=> k = 14
          /\ step = "outsw" <=> k = 27
          /\ step = "return" <=> k = 31
          /\ step \notin Identifying
      BY ZenonT(30), <3>3, <3>4
    <3> QED
      BY <3>5, <3>6
  <2>3. step \in Register <=> k \in 1 .. 5 \cup 15 .. 19
    <3>1. k \in 1 .. 5 \cup 15 .. 19 <=> k \in {1, 2, 3, 4, 5, 15, 16, 17, 18, 19}
      BY <2>1
    <3> QED
      BY <2>2, <3>1 DEF Register
  <2>4. step \notin Register \cup {"insw", "copy", "outsw", "return"} =>
           k >= 6 /\ k # 13 /\ k # 14 /\ k # 27 /\ k # 31
    BY <2>1, <2>2, <2>3
  <2> QED
    BY <1>3, <2>1, <2>2, <2>3, <2>4
<1> QED
  BY <1>1, <1>2, <1>3, Requests

\* The status register has its flags.
LEMMA StatusTyped == Status \in StatusRegister /\ Zero \in StatusRegister
  BY DEF Status, Zero, StatusRegister

\* What a step that touches none of the data leaves as it was.
LEMMA Unaffected ==
  ASSUME TypeOK, NEW k \in 1 .. Len(Script(req.op)) + 1, Progress(k),
         NEW step, At(step), step \notin Register \cup {"insw", "copy", "outsw", "return"},
         UNCHANGED <<req, buffer, output, disk>>, req.op # "identify" => regs' = regs,
         ~wrong' => ~wrong
  PROVE  \E n \in 1 .. Len(Script(req'.op)) + 1 : Progress(n)'
<1>1. /\ k \in 1 .. Len(Script(req.op)) /\ k + 1 \in 1 .. Len(Script(req.op)) + 1
      /\ Script(req.op)[k] = step /\ todo' = From(Script(req.op), k + 1)
  BY DriverStep
<1>2. PICK l \in Nat : l = Len(Script(req.op))
  BY Scripts
<1>3. k \in Nat /\ k >= 1 /\ k <= l
  BY <1>1, <1>2
<1>4. req.op # "identify" =>
         /\ k >= 6 /\ k # 13 /\ k # l
         /\ req.op = "write" => k # 14 /\ k # 27
  BY <1>1, <1>2, DataSteps
<1>5. req.op = "read" => l = 14
  BY <1>2, ScriptLengths
<1>6. BufferInv(k) /\ DataInv(k)
  BY DEF Progress
<1>7. BufferInv(k + 1)'
  <2>1. CASE req.op = "identify"
    BY <1>2, <1>6, <2>1 DEF BufferInv
  <2>2. CASE req.op # "identify"
    <3>1. k + 1 <= l
      BY <1>3, <1>4, <2>2
    <3>2. DOMAIN buffer = 0 .. BufferSectors(req.count) * SectorSize - 1
      BY <1>2, <1>3, <1>6, <2>2 DEF BufferInv
    <3> QED
      BY <1>2, <1>3, <2>2, <3>1, <3>2 DEF BufferInv
  <2> QED
    BY <2>1, <2>2
<1>8. DataInv(k + 1)'
  <2>1. SUFFICES ASSUME Sound', req.op # "identify" PROVE DataInv(k + 1)'
    BY DEF DataInv
  <2>2. Sound
    BY <2>1 DEF Sound
  <2>3. Registers(k + 1)'
    BY SMTT(30), <1>3, <1>4, <1>6, <2>1, <2>2 DEF DataInv, Registers, Wanted
  <2>4. k + 1 # 14
    BY <1>3, <1>4, <2>1
  <2>5. ASSUME req.op = "write", k + 1 \in 15 .. 27
        PROVE  \A i \in Sector : buffer[i] = IF Asked(i) THEN req.value ELSE OnDisk(i)
    <3>1. k \in 15 .. 27
      BY <1>3, <1>4, <2>1, <2>5
    <3> QED
      BY <1>6, <2>1, <2>2, <2>5, <3>1 DEF DataInv
  <2>6. ~(req.op = "read" /\ k + 1 = 15)
    BY <1>3, <1>4, <1>5, <2>1
  <2>7. \A i : (OnDisk(i) = OnDisk(i)' /\ Asked(i) = Asked(i)')
    BY <2>1 DEF OnDisk, Wanted, Asked, offset
  <2> QED
    BY <2>1, <2>3, <2>4, <2>5, <2>6, <2>7 DEF DataInv
<1>9. Progress(k + 1)'
  BY <1>1, <1>7, <1>8 DEF Progress
<1> QED
  BY <1>1, <1>9

\* The device does not touch the data.
LEMMA DeviceApart ==
  ASSUME NEW k \in 1 .. Len(Script(req.op)) + 1, Progress(k),
         UNCHANGED <<todo, regs, req, buffer, output, disk, wrong>>
  PROVE  \E n \in 1 .. Len(Script(req'.op)) + 1 : Progress(n)'
<1>1. BufferInv(k)'
  BY DEF Progress, BufferInv
<1>2. DataInv(k)'
  BY DEF Progress, DataInv, Registers, Sound, OnDisk, Wanted, Asked, offset
<1>3. Progress(k)'
  BY <1>1, <1>2 DEF Progress
<1> QED
  BY <1>3

-----------------------------------------------------------------------------
(* The invariant in every step.                                            *)

\* The device, in whatever it does.
LEMMA DeviceInv ==
  ASSUME Inv, Device
  PROVE  Inv'
<1>1. UNCHANGED <<kind, cmd, todo, regs, req, status, info, buffer, output, disk, wrong>>
  BY DEF Device, DeviceBusy, DeviceDone, DeviceError
<1>2. \E n \in 1 .. Len(Script(req'.op)) + 1 : Progress(n)'
  BY <1>1, DeviceApart DEF Inv
<1>3. TypeOK /\ (state \in {"accepted", "busy"} => cmd # "none")
  BY DEF Inv
<1>4. /\ state' \in {"idle", "busy", "data_in", "data_out", "error"} /\ ready' \in BOOLEAN
      /\ state' = "busy" => cmd # "none"
  <2>1. CASE DeviceBusy
    BY <1>3, <2>1 DEF DeviceBusy, TypeOK
  <2>2. CASE DeviceDone
    <3>1. state = "busy" /\ cmd \in {"identify", "read", "write", "flush", "commit"}
      BY <1>3, <2>2 DEF DeviceDone, TypeOK, Commands
    <3>2. state' \in {"idle", "data_in", "data_out"} /\ ready' = ready
      BY <2>2, <3>1 DEF DeviceDone
    <3> QED
      BY <1>3, <3>2 DEF TypeOK
  <2>3. CASE DeviceError
    BY <2>3 DEF DeviceError
  <2> QED
    BY <2>1, <2>2, <2>3 DEF Device
<1>5. TypeOK'
  BY <1>1, <1>3, <1>4 DEF TypeOK
<1> QED
  BY <1>1, <1>2, <1>4, <1>5 DEF Inv

\* Steps of find_devices only (ata.cpp:143-195, 319-390).
LEMMA IdentifyingInv ==
  ASSUME Inv, Select \/ ReadStatus \/ WhileBusy \/ ReadSignature \/ WhileBoth \/ create_device
  PROVE  Inv'
<1>1. /\ UNCHANGED <<kind, state, ready, cmd, disk, req, buffer, output, wrong>>
      /\ \/ \E step \in Identifying : At(step)
         \/ todo # <<>> /\ Head(todo) = "status" /\ todo' = <<"create">>
         \/ UNCHANGED <<todo, regs>>
  BY DEF Select, ReadStatus, WhileBusy, ReadSignature, WhileBoth, Loop, create_device, deviceVars,
         At, Identifying
<1>2. TypeOK /\ (state \in {"accepted", "busy"} => cmd # "none")
  BY DEF Inv
<1>3. PICK k \in 1 .. Len(Script(req.op)) + 1 : Progress(k)
  BY DEF Inv
<1>4. \E n \in 1 .. Len(Script(req'.op)) + 1 : Progress(n)'
  <2>1. CASE \E step \in Identifying : At(step)
    <3>1. PICK step \in Identifying : At(step)
      BY <2>1
    <3>2. req.op = "identify"
      BY <1>2, <1>3, <3>1, DriverStep, DataSteps
    <3>3. step \notin Register \cup {"insw", "copy", "outsw", "return"}
      BY <3>1 DEF Identifying, Register
    <3> QED
      BY <1>1, <1>2, <1>3, <3>1, <3>2, <3>3, Unaffected
  <2>2. CASE todo # <<>> /\ Head(todo) = "status" /\ todo' = <<"create">>
    <3>1. req.op = "identify"
      <4>1. PICK l \in Seq(Step) : l = Script(req.op)
        BY Scripts
      <4>2. From(l, k) # <<>> /\ Head(From(l, k)) = "status" /\ k \in 1 .. Len(l) + 1
        BY <1>3, <2>2, <4>1 DEF Progress
      <4>3. k \in 1 .. Len(l) /\ l[k] = "status"
        BY <4>2, NextStep
      <4> QED
        BY <1>2, <4>1, <4>3, DataSteps DEF Identifying
    <3>2. Script(req.op) = IdentifyScript
      BY <3>1 DEF Script
    <3>3. todo' = From(Script(req.op), 10) /\ 10 \in 1 .. Len(Script(req.op)) + 1
      <4>1. From(IdentifyScript, 10) = <<"create">> /\ Len(IdentifyScript) = 10
        BY IdentifySteps
      <4>2. todo' = From(Script(req.op), 10)
        BY <2>2, <3>2, <4>1
      <4>3. 10 \in 1 .. Len(Script(req.op)) + 1
        BY <3>2, <4>1
      <4> QED
        BY <4>2, <4>3
    <3>4. DOMAIN buffer = {}
      BY <1>3, <3>1 DEF Progress, BufferInv
    <3>5. BufferInv(10)' /\ DataInv(10)'
      BY <1>1, <3>1, <3>4 DEF BufferInv, DataInv
    <3>6. Progress(10)'
      BY <1>1, <3>3, <3>5 DEF Progress
    <3> QED
      BY <1>1, <3>3, <3>6
  <2>3. CASE UNCHANGED <<todo, regs>>
    BY <1>1, <1>3, <2>3, DeviceApart
  <2>4. \/ \E step \in Identifying : At(step)
        \/ todo # <<>> /\ Head(todo) = "status" /\ todo' = <<"create">>
        \/ UNCHANGED <<todo, regs>>
    BY <1>1
  <2> QED
    BY <2>1, <2>2, <2>3, <2>4
<1>5. regs' \in [Register -> 0 .. 255]
  <2>1. CASE Select
    <3>1. regs \in [Register -> 0 .. 255] /\ 0 \in 0 .. 255
      BY <1>2 DEF TypeOK
    <3>2. regs' = [regs EXCEPT !["low"] = 0, !["mid"] = 0, !["high"] = 0]
      BY <2>1 DEF Select
    <3>3. DOMAIN regs' = Register /\ \A r \in Register : regs'[r] \in {regs[r], 0}
      BY <3>1, <3>2 DEF Register
    <3> QED
      BY <1>2, <3>1, <3>2, <3>3
  <2>2. CASE ReadStatus \/ WhileBusy \/ ReadSignature \/ WhileBoth \/ create_device
    BY <1>2, <2>2 DEF ReadStatus, WhileBusy, ReadSignature, WhileBoth, Loop, create_device,
                      deviceVars, TypeOK
  <2> QED
    BY <2>1, <2>2
<1>6. info' \in DeviceInfoResult /\ status' \in StatusRegister
  <2>1. info \in DeviceInfoResult /\ status \in StatusRegister
    BY <1>2 DEF TypeOK
  <2>2. CASE Select
    BY <2>1, <2>2 DEF Select
  <2>3. CASE ReadStatus
    BY <2>1, <2>3, StatusTyped DEF ReadStatus, DeviceInfoResult
  <2>4. CASE WhileBusy \/ WhileBoth
    BY <2>1, <2>4, StatusTyped DEF WhileBusy, WhileBoth, Loop
  <2>5. CASE ReadSignature
    BY <2>1, <2>5 DEF ReadSignature, DeviceInfoResult
  <2>6. CASE create_device
    BY <2>1, <2>6, StatusTyped DEF create_device
  <2> QED
    BY <2>2, <2>3, <2>4, <2>5, <2>6
<1>7. TypeOK'
  BY <1>1, <1>2, <1>5, <1>6 DEF TypeOK
<1> QED
  BY <1>1, <1>2, <1>4, <1>7 DEF Inv

\* The polls.
LEMMA PollInv ==
  ASSUME Inv, WAIT_NO_BUSY \/ WAIT_UNTIL_READY
  PROVE  Inv'
<1>1. PICK step \in {"no_busy", "ready"} :
         /\ At(step)
         /\ UNCHANGED <<kind, state, ready, cmd, regs, disk, status, info, req, buffer, output,
                        wrong>>
  BY DEF WAIT_NO_BUSY, WAIT_UNTIL_READY, deviceVars
<1>2. TypeOK /\ (state \in {"accepted", "busy"} => cmd # "none")
  BY DEF Inv
<1>3. step \notin Register \cup {"insw", "copy", "outsw", "return"}
  BY DEF Register
<1>4. \E n \in 1 .. Len(Script(req'.op)) + 1 : Progress(n)'
  BY <1>1, <1>2, <1>3, Unaffected DEF Inv
<1>5. TypeOK'
  BY <1>1, <1>2 DEF TypeOK
<1> QED
  BY <1>1, <1>2, <1>4, <1>5 DEF Inv

\* A command, taken or not.
LEMMA COMMANDInv ==
  ASSUME Inv, NEW c \in Commands, COMMAND(c)
  PROVE  Inv'
<1>1. /\ At(c) /\ (~wrong' => ~wrong) /\ (wrong' = wrong \/ wrong' = TRUE)
      /\ UNCHANGED <<kind, regs, disk, status, info, req, buffer, output>>
      /\ UNCHANGED <<state, ready, cmd>> \/ (state' = "accepted" /\ ready' = TRUE /\ cmd' = c)
  BY DEF COMMAND, Takes
<1>2. TypeOK /\ (state \in {"accepted", "busy"} => cmd # "none")
  BY DEF Inv
<1>3. c \in {"identify", "read", "write", "flush"}
  BY DEF Commands
<1>4. c \notin Register \cup {"insw", "copy", "outsw", "return"}
  BY <1>3 DEF Register
<1>5. \E n \in 1 .. Len(Script(req'.op)) + 1 : Progress(n)'
  BY <1>1, <1>2, <1>4, Unaffected DEF Inv
<1>6. /\ state' \in {"idle", "accepted", "busy", "data_in", "data_out", "error"}
      /\ ready' \in BOOLEAN /\ cmd' \in Commands \cup {"none", "commit"}
      /\ state' \in {"accepted", "busy"} => cmd' # "none"
  BY <1>1, <1>2, <1>3 DEF TypeOK
<1>7. wrong' \in BOOLEAN
  BY <1>1, <1>2, Zenon DEF TypeOK
<1>8. TypeOK'
  BY <1>1, <1>2, <1>6, <1>7 DEF TypeOK
<1> QED
  BY <1>5, <1>6, <1>8 DEF Inv

\* IO_REG_SET: if the device takes the register, it has its part of the sector
\* of the request.
LEMMA IO_REG_SETInv ==
  ASSUME Inv, NEW r \in Register, IO_REG_SET(r)
  PROVE  Inv'
<1>1. /\ At(r) /\ (~wrong' => ~wrong) /\ (wrong' = wrong \/ wrong' = TRUE)
      /\ UNCHANGED <<kind, state, ready, cmd, disk, status, info, req, buffer, output>>
      /\ \/ regs' = [regs EXCEPT ![r] = Part(r, Wanted)]
         \/ wrong' /\ regs' = regs
  BY DEF IO_REG_SET, Wanted
<1>2. TypeOK /\ (state \in {"accepted", "busy"} => cmd # "none")
  BY DEF Inv
<1>3. PICK k \in 1 .. Len(Script(req.op)) + 1 : Progress(k)
  BY DEF Inv
<1>4. /\ k \in 1 .. Len(Script(req.op)) /\ k + 1 \in 1 .. Len(Script(req.op)) + 1
      /\ Script(req.op)[k] = r /\ todo' = From(Script(req.op), k + 1)
  BY <1>1, <1>3, DriverStep
<1>5. /\ req.op # "identify" /\ k \in 1 .. 5 \cup 15 .. 19 /\ (k >= 6 => req.op = "write")
      /\ r = "head" => k \in {1, 15}
      /\ r = "count" => k \in {2, 16}
      /\ r = "low" => k \in {3, 17}
      /\ r = "mid" => k \in {4, 18}
      /\ r = "high" => k \in {5, 19}
  BY <1>2, <1>4, DataSteps
<1>6. req.op \in {"read", "write"} /\ Wanted \in Nat
  BY <1>2, <1>5, Requests, Sizes DEF Lba
<1>7. regs' \in [Register -> 0 .. 255]
  <2>1. Part(r, Wanted) \in 0 .. 255
    BY <1>6, PartTyped
  <2>2. regs \in [Register -> 0 .. 255]
    BY <1>2 DEF TypeOK
  <2> QED
    BY <1>1, <2>1, <2>2
<1>8. PICK l \in Nat : l = Len(Script(req.op)) /\ (req.op = "read" => l = 14)
                       /\ (req.op = "write" => l = 31)
  BY Scripts, ScriptLengths
<1>9. k \in Nat /\ k <= l /\ k + 1 <= l
  <2>1. k \in Nat /\ k <= 19 /\ (k <= 5 \/ req.op = "write")
    BY <1>5
  <2>2. l >= 14 /\ (req.op = "write" => l = 31)
    <3>1. CASE req.op = "read"
      <4>1. l = 14
        BY <1>8, <3>1
      <4> QED
        BY <3>1, <4>1
    <3>2. CASE req.op = "write"
      <4>1. l = 31
        BY <1>8, <3>2
      <4> QED
        BY <4>1
    <3> QED
      BY <1>6, <3>1, <3>2
  <2> QED
    BY <2>1, <2>2
<1>10. BufferInv(k + 1)'
  <2>1. DOMAIN buffer = 0 .. BufferSectors(req.count) * SectorSize - 1
    BY <1>3, <1>5, <1>8, <1>9 DEF Progress, BufferInv
  <2> QED
    BY <1>1, <1>5, <1>8, <1>9, <2>1 DEF BufferInv
<1>11. DataInv(k + 1)'
  <2>1. SUFFICES ASSUME Sound' PROVE DataInv(k + 1)'
    BY DEF DataInv
  <2>2. Sound /\ regs' = [regs EXCEPT ![r] = Part(r, Wanted)]
    BY <1>1, <2>1 DEF Sound
  <2>3. /\ Registers(k)
        /\ req.op = "write" /\ k \in 15 .. 27 =>
              \A i \in Sector : buffer[i] = IF Asked(i) THEN req.value ELSE OnDisk(i)
    BY <1>3, <1>5, <2>2 DEF Progress, DataInv
  <2>4. Wanted' = Wanted
    BY <1>1 DEF Wanted
  <2>5. \A i : (OnDisk(i) = OnDisk(i)' /\ Asked(i) = Asked(i)')
    BY <1>1, <2>4 DEF OnDisk, Asked, offset
  <2>6. Registers(k + 1)'
    <3>1. /\ regs'["head"] = IF r = "head" THEN Part("head", Wanted) ELSE regs["head"]
          /\ regs'["low"] = IF r = "low" THEN Part("low", Wanted) ELSE regs["low"]
          /\ regs'["mid"] = IF r = "mid" THEN Part("mid", Wanted) ELSE regs["mid"]
          /\ regs'["high"] = IF r = "high" THEN Part("high", Wanted) ELSE regs["high"]
      BY <1>2, <2>2 DEF TypeOK, Register
    <3>2. /\ k + 1 >= 2 /\ k < 2 => r = "head"
          /\ k + 1 >= 4 /\ k < 4 => r = "low"
          /\ k + 1 >= 5 /\ k < 5 => r = "mid"
          /\ k + 1 >= 6 /\ k < 6 => r = "high"
      <4>1. r = "head" \/ r = "count" \/ r = "low" \/ r = "mid" \/ r = "high"
        BY DEF Register
      <4>2. /\ r = "head" => k = 1 \/ k = 15
            /\ r = "count" => k = 2 \/ k = 16
            /\ r = "low" => k = 3 \/ k = 17
            /\ r = "mid" => k = 4 \/ k = 18
            /\ r = "high" => k = 5 \/ k = 19
        BY <1>5
      <4> QED
        BY <1>9, <4>1, <4>2
    <3>3. k + 1 >= 2 => regs'["head"] = Part("head", Wanted)
      BY <1>9, <2>3, <3>1, <3>2 DEF Registers
    <3>4. k + 1 >= 4 => regs'["low"] = Part("low", Wanted)
      BY <1>9, <2>3, <3>1, <3>2 DEF Registers
    <3>5. k + 1 >= 5 => regs'["mid"] = Part("mid", Wanted)
      BY <1>9, <2>3, <3>1, <3>2 DEF Registers
    <3>6. k + 1 >= 6 => regs'["high"] = Part("high", Wanted)
      BY <1>9, <2>3, <3>1, <3>2 DEF Registers
    <3> QED
      BY <2>4, <3>3, <3>4, <3>5, <3>6 DEF Registers
  <2>7. k + 1 # 14 /\ ~(req.op = "read" /\ k + 1 = 15)
    BY <1>5
  <2>8. ASSUME req.op = "write", k + 1 \in 15 .. 27
        PROVE  \A i \in Sector : buffer[i] = IF Asked(i) THEN req.value ELSE OnDisk(i)
    <3>1. k \in 15 .. 27
      BY <1>5, <2>8
    <3> QED
      BY <2>3, <2>8, <3>1
  <2> QED
    BY <1>1, <2>5, <2>6, <2>7, <2>8 DEF DataInv
<1>12. Progress(k + 1)'
  BY <1>1, <1>4, <1>10, <1>11 DEF Progress
<1>13. wrong' \in BOOLEAN
  BY <1>1, <1>2, Zenon DEF TypeOK
<1>14. TypeOK'
  BY <1>1, <1>2, <1>7, <1>13 DEF TypeOK
<1> QED
  BY <1>1, <1>2, <1>4, <1>12, <1>14 DEF Inv

\* The bytes of the buffer, and that a sector fits in it while a request lasts.
LEMMA BufferBytes ==
  ASSUME TypeOK, NEW k \in 1 .. Len(Script(req.op)) + 1, Progress(k)
  PROVE  /\ \A i \in DOMAIN buffer : i \in Nat
         /\ req.op # "identify" /\ k <= Len(Script(req.op)) => Sector \subseteq DOMAIN buffer
<1>1. BufferInv(k)
  BY DEF Progress
<1>2. PICK l \in Nat : l = Len(Script(req.op))
  BY Scripts
<1>3. CASE req.op = "identify" \/ k > l
  BY <1>1, <1>2, <1>3 DEF BufferInv
<1>4. CASE req.op # "identify" /\ k <= l
  <2>1. DOMAIN buffer = 0 .. BufferSectors(req.count) * SectorSize - 1
    BY <1>1, <1>2, <1>4 DEF BufferInv
  <2>2. req.count \in Nat /\ req.count >= 1
    BY <1>4, Requests
  <2>3. PICK b \in Nat : b = BufferSectors(req.count) * SectorSize /\ Sector \subseteq 0 .. b - 1
    BY <2>2, BufferRoom
  <2> QED
    BY <2>1, <2>3
<1> QED
  BY <1>2, <1>3, <1>4

\* ReadData, of find_devices and of a request.
LEMMA ReadDataInv ==
  ASSUME Inv, ReadData
  PROVE  Inv'
<1>1. At("insw") /\ UNCHANGED <<kind, ready, cmd, disk, status, info, req, output>>
  BY DEF ReadData
<1>2. \/ /\ lba \in Lba /\ state' \in {"data_in", "idle"} /\ wrong' = wrong
         /\ regs' \in {regs, [regs EXCEPT !["count"] = 0]}
         /\ buffer' = [i \in DOMAIN buffer |->
                          IF i < SectorSize THEN disk[lba * SectorSize + i] ELSE buffer[i]]
      \/ /\ wrong' = TRUE /\ state' = state /\ regs' = regs
         /\ buffer' = [i \in DOMAIN buffer |-> IF i < SectorSize THEN Junk ELSE buffer[i]]
  BY DEF ReadData
<1>3. TypeOK /\ (state \in {"accepted", "busy"} => cmd # "none")
  BY DEF Inv
<1>4. PICK k \in 1 .. Len(Script(req.op)) + 1 : Progress(k)
  BY DEF Inv
<1>5. /\ k \in 1 .. Len(Script(req.op)) /\ k + 1 \in 1 .. Len(Script(req.op)) + 1
      /\ Script(req.op)[k] = "insw" /\ todo' = From(Script(req.op), k + 1)
  BY <1>1, <1>4, DriverStep
<1>6. DOMAIN buffer' = DOMAIN buffer
  BY <1>2
<1>7. PICK l \in Nat : l = Len(Script(req.op))
  BY Scripts
<1>8. k \in Nat /\ k <= l
  BY <1>5, <1>7
<1>9. req.op # "identify" => k = 13 /\ k + 1 <= l
  <2>1. SUFFICES ASSUME req.op # "identify" PROVE k = 13 /\ k + 1 <= l
    OBVIOUS
  <2>2. k = 13
    BY <1>3, <1>5, <2>1, DataSteps
  <2>3. l \in {14, 31}
    BY <1>3, <1>7, <2>1, Requests, ScriptLengths
  <2> QED
    BY <2>2, <2>3
<1>10. BufferInv(k + 1)'
  <2>1. CASE req.op = "identify"
    BY <1>1, <1>4, <1>6, <2>1 DEF Progress, BufferInv
  <2>2. CASE req.op # "identify"
    <3>1. DOMAIN buffer = 0 .. BufferSectors(req.count) * SectorSize - 1
      BY <1>4, <1>7, <1>8, <2>2 DEF Progress, BufferInv
    <3> QED
      BY <1>1, <1>6, <1>7, <1>8, <1>9, <2>2, <3>1 DEF BufferInv
  <2> QED
    BY <2>1, <2>2
<1>11. DataInv(k + 1)'
  <2>1. SUFFICES ASSUME Sound', req.op # "identify" PROVE DataInv(k + 1)'
    BY <1>1 DEF DataInv
  <2>2. k = 13 /\ k + 1 = 14
    BY <1>9, <2>1
  <2>3. /\ ~wrong /\ Sound /\ lba \in Lba /\ regs' \in {regs, [regs EXCEPT !["count"] = 0]}
        /\ buffer' = [i \in DOMAIN buffer |->
                         IF i < SectorSize THEN disk[lba * SectorSize + i] ELSE buffer[i]]
    BY <1>1, <1>2, <2>1 DEF Sound
  <2>4. Registers(k) /\ Wanted' = Wanted
    BY <1>1, <1>4, <2>1, <2>3 DEF Progress, DataInv, Wanted
  <2>5. lba = Wanted
    BY <1>3, <2>1, <2>2, <2>4, AtWanted, Requests
  <2>6. Registers(k + 1)'
    BY <1>3, <2>2, <2>3, <2>4 DEF Registers, TypeOK, Register
  <2>7. \A i \in Sector : i \in DOMAIN buffer /\ i < SectorSize
    BY <1>3, <1>4, <1>7, <1>8, <2>1, BufferBytes, Sizes DEF Sector
  <2>8. \A i \in Sector : buffer'[i] = OnDisk(i)'
    BY <1>1, <2>3, <2>4, <2>5, <2>7 DEF OnDisk
  <2> QED
    BY <1>1, <2>2, <2>6, <2>8 DEF DataInv
<1>12. Progress(k + 1)'
  BY <1>1, <1>5, <1>10, <1>11 DEF Progress
<1>13. \A i \in DOMAIN buffer' : buffer'[i] \in Value
  <2>1. ASSUME NEW i \in DOMAIN buffer
        PROVE  buffer'[i] \in Value
    <3>1. buffer[i] \in Value /\ Junk \in Value /\ i \in Nat
      BY <1>3, <1>4, BufferBytes DEF TypeOK, Value
    <3>2. i < SectorSize /\ lba \in Lba => disk[lba * SectorSize + i] \in Value
      <4>1. SUFFICES ASSUME i < SectorSize, lba \in Lba
                     PROVE  disk[lba * SectorSize + i] \in Value
        OBVIOUS
      <4>2. i \in Sector
        BY <3>1, <4>1, Sizes DEF Sector
      <4>3. lba * SectorSize + i \in Address
        BY <4>1, <4>2, SectorOnDisk
      <4> QED
        BY <1>3, <4>3 DEF TypeOK, Value
    <3> QED
      BY <1>2, <3>1, <3>2
  <2> QED
    BY <1>6, <2>1
<1>14. /\ state' \in {"idle", "accepted", "busy", "data_in", "data_out", "error"}
       /\ state' \in {"accepted", "busy"} => cmd' # "none"
       /\ wrong' \in BOOLEAN /\ regs' \in [Register -> 0 .. 255]
  <2>1. regs \in [Register -> 0 .. 255] /\ wrong \in BOOLEAN /\ 0 \in 0 .. 255
    BY <1>3 DEF TypeOK
  <2>2. wrong' \in BOOLEAN
    BY <1>2, <2>1, Zenon
  <2>3. regs' = regs \/ regs' = [regs EXCEPT !["count"] = 0]
    BY <1>2
  <2>4. regs' \in [Register -> 0 .. 255]
    BY <2>1, <2>3
  <2>5. /\ state' \in {"idle", "accepted", "busy", "data_in", "data_out", "error"}
        /\ state' \in {"accepted", "busy"} => cmd' # "none"
    BY <1>1, <1>2, <1>3 DEF TypeOK
  <2> QED
    BY <2>2, <2>4, <2>5
<1>15. TypeOK'
  BY <1>1, <1>3, <1>13, <1>14 DEF TypeOK, Value
<1> QED
  BY <1>1, <1>5, <1>12, <1>14, <1>15 DEF Inv

\* The copy of write_bytes: what is asked for goes over what the disk has.
LEMMA CopyInv ==
  ASSUME Inv, Copy
  PROVE  Inv'
<1>1. /\ At("copy") /\ UNCHANGED <<kind, state, ready, cmd, regs, disk, status, info, req, output, wrong>>
      /\ buffer' = [i \in DOMAIN buffer |-> IF Asked(i) THEN req.value ELSE buffer[i]]
  BY DEF Copy, deviceVars, Asked
<1>2. TypeOK /\ (state \in {"accepted", "busy"} => cmd # "none")
  BY DEF Inv
<1>3. PICK k \in 1 .. Len(Script(req.op)) + 1 : Progress(k)
  BY DEF Inv
<1>4. /\ k \in 1 .. Len(Script(req.op)) /\ k + 1 \in 1 .. Len(Script(req.op)) + 1
      /\ Script(req.op)[k] = "copy" /\ todo' = From(Script(req.op), k + 1)
  BY <1>1, <1>3, DriverStep
<1>5. req.op = "write" /\ k = 14
  BY <1>2, <1>4, DataSteps
<1>6. PICK l \in Nat : l = Len(Script(req.op)) /\ k <= l /\ k + 1 <= l
  <2>1. PICK l \in Nat : l = Len(Script(req.op))
    BY Scripts
  <2>2. l = 31
    BY <1>5, <2>1, ScriptLengths
  <2>3. k <= l /\ k + 1 <= l
    BY <1>5, <2>2
  <2> QED
    BY <2>1, <2>3
<1>7. DOMAIN buffer' = DOMAIN buffer
  BY <1>1
<1>8. BufferInv(k + 1)'
  <2>1. DOMAIN buffer = 0 .. BufferSectors(req.count) * SectorSize - 1
    BY <1>3, <1>5, <1>6 DEF Progress, BufferInv
  <2> QED
    BY <1>1, <1>5, <1>6, <1>7, <2>1 DEF BufferInv
<1>9. DataInv(k + 1)'
  <2>1. SUFFICES ASSUME Sound' PROVE DataInv(k + 1)'
    BY DEF DataInv
  <2>2. Sound
    BY <1>1, <2>1 DEF Sound
  <2>3. /\ Registers(k)
        /\ \A i \in Sector : buffer[i] = OnDisk(i)
    BY <1>3, <1>5, <2>2 DEF Progress, DataInv
  <2>4. Sector \subseteq DOMAIN buffer
    BY <1>2, <1>3, <1>5, <1>6, BufferBytes
  <2>5. \A i \in Sector : buffer'[i] = IF Asked(i) THEN req.value ELSE OnDisk(i)
    BY <1>1, <2>3, <2>4
  <2>6. \A i : (OnDisk(i) = OnDisk(i)' /\ Asked(i) = Asked(i)')
    BY <1>1 DEF OnDisk, Wanted, Asked, offset
  <2>7. k + 1 # 14 /\ req.op # "read" /\ Registers(k + 1)'
    BY <1>1, <1>5, <2>3 DEF Registers, Wanted
  <2>8. \A i \in Sector : buffer'[i] = IF Asked(i)' THEN req'.value ELSE OnDisk(i)'
    BY <1>1, <2>5, <2>6
  <2> QED
    BY <1>1, <2>7, <2>8 DEF DataInv
<1>10. Progress(k + 1)'
  BY <1>1, <1>4, <1>8, <1>9 DEF Progress
<1>11. \A i \in DOMAIN buffer' : buffer'[i] \in Value
  <2>1. req.value \in Value
    BY <1>2, <1>5, Requests
  <2>2. \A i \in DOMAIN buffer : buffer[i] \in Value
    BY <1>2 DEF TypeOK, Value
  <2> QED
    BY <1>1, <1>7, <2>1, <2>2
<1>12. TypeOK'
  BY <1>1, <1>2, <1>11 DEF TypeOK, Value
<1> QED
  BY <1>1, <1>2, <1>4, <1>10, <1>12 DEF Inv

\* What is known where a write puts the sector on the disk: in a sound request
\* the buffer has the sector with what is asked for in it.
LEMMA WriteFacts ==
  ASSUME Inv, At("outsw")
  PROVE  /\ req.op = "write" /\ Sector \subseteq DOMAIN buffer
         /\ \E k \in 1 .. Len(Script(req.op)) :
               /\ k = 27 /\ Len(Script(req.op)) = 31 /\ Progress(k)
               /\ todo' = From(Script(req.op), k + 1)
         /\ Sound => /\ lba = Wanted /\ Registers(27)
                     /\ \A i \in Sector : buffer[i] = IF Asked(i) THEN req.value ELSE OnDisk(i)
<1>1. TypeOK
  BY DEF Inv
<1>2. PICK k \in 1 .. Len(Script(req.op)) + 1 : Progress(k)
  BY DEF Inv
<1>3. /\ k \in 1 .. Len(Script(req.op)) /\ Script(req.op)[k] = "outsw"
      /\ todo' = From(Script(req.op), k + 1)
  BY <1>2, DriverStep
<1>4. req.op = "write" /\ k = 27
  BY <1>1, <1>3, DataSteps
<1>5. Len(Script(req.op)) = 31
  BY <1>4, ScriptLengths
<1>6. Sector \subseteq DOMAIN buffer
  <2>1. k <= Len(Script(req.op))
    <3>1. PICK l \in Nat : l = Len(Script(req.op))
      BY Scripts
    <3> QED
      BY <1>3, <3>1
  <2> QED
    BY <1>1, <1>2, <1>4, <2>1, BufferBytes
<1>7. ASSUME Sound
      PROVE  /\ lba = Wanted /\ Registers(27)
             /\ \A i \in Sector : buffer[i] = IF Asked(i) THEN req.value ELSE OnDisk(i)
  <2>1. DataInv(k)
    BY <1>2 DEF Progress
  <2>2. /\ Registers(27)
        /\ \A i \in Sector : buffer[i] = IF Asked(i) THEN req.value ELSE OnDisk(i)
    BY <1>4, <1>7, <2>1 DEF DataInv
  <2>3. lba = Wanted
    BY <1>1, <1>4, <2>2, AtWanted, Requests
  <2> QED
    BY <2>2, <2>3
<1> QED
  BY <1>2, <1>3, <1>4, <1>5, <1>6, <1>7

\* WriteData: the buffer's first sector goes to the disk.
LEMMA WriteDataInv ==
  ASSUME Inv, WriteData
  PROVE  Inv'
<1>1. At("outsw") /\ UNCHANGED <<kind, ready, status, info, req, buffer, output>>
  BY DEF WriteData
<1>2. \/ /\ state' = "busy" /\ cmd' \in {"commit", "write"} /\ wrong' = wrong
         /\ regs' = [regs EXCEPT !["count"] = 0]
         /\ disk' = [a \in Address |-> IF a \div SectorSize = lba
                                         THEN buffer[a % SectorSize] ELSE disk[a]]
      \/ /\ wrong' = TRUE /\ UNCHANGED <<state, cmd, regs, disk>>
  BY DEF WriteData
<1>3. TypeOK /\ (state \in {"accepted", "busy"} => cmd # "none")
  BY DEF Inv
<1>4. PICK k \in 1 .. Len(Script(req.op)) :
         /\ k = 27 /\ Len(Script(req.op)) = 31 /\ Progress(k)
         /\ todo' = From(Script(req.op), k + 1)
  BY <1>1, WriteFacts
<1>5. req.op = "write" /\ Sector \subseteq DOMAIN buffer
  BY <1>1, WriteFacts
<1>6. BufferInv(k + 1)'
  BY <1>1, <1>4, <1>5 DEF Progress, BufferInv
<1>7. DataInv(k + 1)'
  <2>1. SUFFICES ASSUME Sound' PROVE DataInv(k + 1)'
    BY DEF DataInv
  <2>2. Sound
    BY <1>1, <1>2, <2>1 DEF Sound
  <2>3. Registers(k + 1)'
    <3>1. Registers(27) /\ Wanted' = Wanted
      BY <1>1, <2>2, WriteFacts DEF Wanted
    <3>2. \A r \in Register \ {"count"} : regs'[r] = regs[r]
      BY <1>2, <1>3 DEF TypeOK
    <3> QED
      BY <1>4, <3>1, <3>2 DEF Registers, Register
  <2>4. k + 1 # 14 /\ k + 1 \notin 15 .. 27 /\ k + 1 # 15
    BY <1>4
  <2> QED
    BY <1>1, <2>3, <2>4 DEF DataInv
<1>8. Progress(k + 1)'
  BY <1>1, <1>4, <1>6, <1>7 DEF Progress
<1>9. disk' \in [Address -> Value]
  <2>1. disk \in [Address -> Value] /\ \A i \in DOMAIN buffer : buffer[i] \in Value
    BY <1>3 DEF TypeOK, Value
  <2>2. \A a \in Address : buffer[a % SectorSize] \in Value
    BY <1>5, <2>1, SectorOnDisk, ByteSplit
  <2> QED
    BY <1>2, <2>1, <2>2
<1>10. /\ state' \in {"idle", "accepted", "busy", "data_in", "data_out", "error"}
       /\ state' \in {"accepted", "busy"} => cmd' # "none"
       /\ cmd' \in Commands \cup {"none", "commit"}
       /\ wrong' \in BOOLEAN /\ regs' \in [Register -> 0 .. 255]
  <2>1. regs \in [Register -> 0 .. 255] /\ wrong \in BOOLEAN /\ 0 \in 0 .. 255
    BY <1>3 DEF TypeOK
  <2>2. wrong' \in BOOLEAN
    BY <1>2, <2>1, Zenon
  <2>3. regs' = regs \/ regs' = [regs EXCEPT !["count"] = 0]
    BY <1>2
  <2>4. regs' \in [Register -> 0 .. 255]
    BY <2>1, <2>3
  <2>5. /\ state' \in {"idle", "accepted", "busy", "data_in", "data_out", "error"}
        /\ state' \in {"accepted", "busy"} => cmd' # "none"
        /\ cmd' \in Commands \cup {"none", "commit"}
    BY <1>1, <1>2, <1>3 DEF TypeOK, Commands
  <2> QED
    BY <2>2, <2>4, <2>5
<1>11. TypeOK'
  BY <1>1, <1>3, <1>9, <1>10 DEF TypeOK, Value
<1>12. k + 1 \in 1 .. Len(Script(req.op)) + 1
  BY <1>4
<1> QED
  BY <1>1, <1>8, <1>10, <1>11, <1>12 DEF Inv

\* read_bytes and write_bytes return; read_bytes has copied what it was asked for.
LEMMA ReturnInv ==
  ASSUME Inv, Return
  PROVE  Inv'
<1>1. /\ At("return") /\ UNCHANGED <<kind, state, ready, cmd, regs, disk, status, info, req, wrong>>
      /\ buffer' = << >>
  BY DEF Return, deviceVars
<1>2. TypeOK /\ (state \in {"accepted", "busy"} => cmd # "none")
  BY DEF Inv
<1>3. PICK k \in 1 .. Len(Script(req.op)) + 1 : Progress(k)
  BY DEF Inv
<1>4. /\ k \in 1 .. Len(Script(req.op)) /\ k + 1 \in 1 .. Len(Script(req.op)) + 1
      /\ Script(req.op)[k] = "return" /\ todo' = From(Script(req.op), k + 1)
  BY <1>1, <1>3, DriverStep
<1>5. PICK l \in Nat : l = Len(Script(req.op))
  BY Scripts
<1>6. req.op # "identify" /\ k = l
  BY <1>2, <1>4, <1>5, DataSteps
<1>7. /\ req.op = "read" => l = 14
      /\ req.op = "write" => l = 31
      /\ req.op \in {"read", "write"}
  BY <1>2, <1>5, <1>6, ScriptLengths, Requests
<1>8. DOMAIN buffer' = {}
  BY <1>1
<1>9. k + 1 > l
  BY <1>6
<1>10. BufferInv(k + 1)'
  BY <1>1, <1>5, <1>8, <1>9 DEF BufferInv
<1>11. DataInv(k + 1)'
  <2>1. SUFFICES ASSUME Sound' PROVE DataInv(k + 1)'
    BY DEF DataInv
  <2>2. Sound
    BY <1>1, <2>1 DEF Sound
  <2>3. k >= 6 /\ Registers(k)
    BY <1>3, <1>6, <1>7, <2>2 DEF Progress, DataInv
  <2>4. Registers(k + 1)'
    BY <1>1, <2>3 DEF Registers, Wanted
  <2>5. ASSUME req.op = "read", NEW a \in DOMAIN output'
        PROVE  output'[a] = disk[a]
    <3>1. output' = [b \in req.loc .. req.loc + req.count - 1 |->
                        IF offset + (b - req.loc) \in DOMAIN buffer
                          THEN buffer[offset + (b - req.loc)] ELSE Junk]
      BY <2>5 DEF Return
    <3>2. /\ a \in req.loc .. req.loc + req.count - 1 /\ req.loc \in Nat /\ req.count \in Nat
          /\ offset \in Sector /\ req.loc = Wanted * SectorSize + offset /\ Wanted \in Lba
      BY <1>2, <1>6, <3>1, Requests
    <3>3. PICK i : i = offset + (a - req.loc)
      OBVIOUS
    <3>4. offset \in Nat /\ offset + req.count <= SectorSize
      BY <2>2, <3>2, Sizes DEF Sound, InOneSector, offset
    <3>5. i \in Sector
      <4>1. a \in Int /\ a >= req.loc /\ a <= req.loc + req.count - 1
        BY <3>2
      <4>2. i \in Nat /\ i < SectorSize
        BY <3>2, <3>3, <3>4, <4>1, Sizes
      <4> QED
        BY <4>2, Sizes DEF Sector
    <3>6. Wanted * SectorSize \in Nat
      BY <3>2, Sizes DEF Lba
    <3>7. a = Wanted * SectorSize + i
      BY <3>2, <3>3, <3>4, <3>6
    <3>8. i \in DOMAIN buffer
      BY <1>2, <1>3, <1>4, <1>5, <1>6, <3>5, BufferBytes
    <3>9. buffer[i] = OnDisk(i)
      <4>1. k = 14
        BY <1>6, <1>7, <2>5
      <4> QED
        BY <1>3, <1>6, <2>2, <3>5, <4>1 DEF Progress, DataInv
    <3>10. output'[a] = buffer[i]
      BY <3>1, <3>2, <3>3, <3>8
    <3> QED
      BY <3>7, <3>9, <3>10 DEF OnDisk
  <2>6. k + 1 # 14 /\ ~(req.op = "write" /\ k + 1 \in 15 .. 27)
    BY <1>6, <1>7
  <2> QED
    BY <1>1, <2>4, <2>5, <2>6 DEF DataInv
<1>12. Progress(k + 1)'
  BY <1>1, <1>4, <1>10, <1>11 DEF Progress
<1>13. TypeOK'
  BY <1>1, <1>2, <1>8 DEF TypeOK
<1> QED
  BY <1>1, <1>2, <1>4, <1>12, <1>13 DEF Inv

\* A whole script is still to be done.
LEMMA WholeScript ==
  ASSUME NEW op
  PROVE  From(Script(op), 1) = Script(op) /\ 1 \in 1 .. Len(Script(op)) + 1
         /\ Len(Script(op)) >= 1
<1>1. PICK s \in Seq(Step) : s = Script(op)
  BY Scripts
<1>2. Len(s) >= 1
  <2>1. \/ s = ReadBytesScript
        \/ s = WriteBytesScript
        \/ s = IdentifyScript
    BY <1>1 DEF Script
  <2>2. CASE s = ReadBytesScript
    BY <2>2, ReadSteps
  <2>3. CASE s = WriteBytesScript
    BY <2>3, WriteSteps
  <2>4. CASE s = IdentifyScript
    BY <2>4, IdentifySteps
  <2> QED
    BY <2>1, <2>2, <2>3, <2>4
<1>3. SubSeq(s, 1, Len(s)) = s
  BY <1>1, <1>2
<1> QED
  BY <1>1, <1>2, <1>3 DEF From

\* A request begins.
LEMMA CallInv ==
  ASSUME Inv, NEW r \in Request, Call(r)
  PROVE  Inv'
<1>1. /\ req' = r /\ wrong' = FALSE
      /\ UNCHANGED <<kind, state, ready, cmd, regs, disk, status, info>>
      /\ buffer' = [i \in 0 .. BufferSectors(r.count) * SectorSize - 1 |-> Junk]
      /\ r.op \in {"read", "write"}
  BY DEF Call, deviceVars, Request
<1>2. todo' = Script(r.op)
  BY <1>1 DEF Call, Script
<1>3. TypeOK /\ (state \in {"accepted", "busy"} => cmd # "none")
  BY DEF Inv
<1>4. /\ From(Script(r.op), 1) = todo' /\ 1 \in 1 .. Len(Script(r.op)) + 1
      /\ Len(Script(r.op)) >= 1
  BY <1>2, WholeScript
<1>5. BufferInv(1)'
  BY <1>1, <1>4 DEF BufferInv
<1>6. DataInv(1)'
  BY <1>1 DEF DataInv, Registers
<1>7. Progress(1)'
  BY <1>1, <1>4, <1>5, <1>6 DEF Progress
<1>8. TypeOK'
  BY <1>1, <1>3 DEF TypeOK
<1> QED
  BY <1>1, <1>3, <1>4, <1>7, <1>8 DEF Inv

\* At boot the device is still to be identified.
LEMMA InitInv == Init => Inv
<1>1. SUFFICES ASSUME Init PROVE Inv
  OBVIOUS
<1>2. req.op = "identify" /\ DOMAIN buffer = {} /\ todo = IdentifyScript /\ cmd = "none"
  BY <1>1 DEF Init, NoRequest
<1>3. todo = Script(req.op)
  BY <1>2 DEF Script
<1>4. Progress(1) /\ 1 \in 1 .. Len(Script(req.op)) + 1
  BY <1>2, <1>3, WholeScript DEF Progress, BufferInv, DataInv
<1>5. TypeOK
  <2>1. regs \in [Register -> 0 .. 255]
    BY <1>1 DEF Init
  <2>2. status \in StatusRegister /\ info \in DeviceInfoResult
    BY <1>1, StatusTyped DEF Init, Slave, DeviceInfoResult
  <2>3. wrong \in BOOLEAN /\ ready \in BOOLEAN
    BY <1>1 DEF Init
  <2> QED
    BY <1>1, <1>2, <2>1, <2>2, <2>3 DEF Init, TypeOK
<1>6. state \notin {"accepted", "busy"}
  BY <1>1 DEF Init
<1> QED
  BY <1>4, <1>5, <1>6 DEF Inv

\* Every step keeps the invariant.
LEMMA NextInv == Inv /\ [Next]_vars => Inv'
<1>1. SUFFICES ASSUME Inv, [Next]_vars PROVE Inv'
  OBVIOUS
<1>2. CASE Device
  BY <1>1, <1>2, DeviceInv
<1>3. CASE WAIT_NO_BUSY \/ WAIT_UNTIL_READY \/ \E r \in Register : IO_REG_SET(r)
  BY <1>1, <1>3, PollInv, IO_REG_SETInv
<1>4. CASE \E c \in Commands : COMMAND(c)
  BY <1>1, <1>4, COMMANDInv
<1>5. CASE ReadData \/ Copy \/ WriteData \/ Return
  BY <1>1, <1>5, ReadDataInv, CopyInv, WriteDataInv, ReturnInv
<1>6. CASE Select \/ ReadStatus \/ WhileBusy \/ ReadSignature \/ WhileBoth \/ create_device
  BY <1>1, <1>6, IdentifyingInv
<1>7. CASE \E r \in Request : Call(r)
  BY <1>1, <1>7, CallInv
<1>8. ASSUME UNCHANGED vars PROVE Inv'
  <2>1. UNCHANGED <<kind, state, ready, cmd, regs, disk, todo, status, info, req, buffer, output,
                  wrong>>
    BY <1>8 DEF vars, deviceVars
  <2>2. TypeOK /\ (state \in {"accepted", "busy"} => cmd # "none")
    BY <1>1 DEF Inv
  <2>3. TypeOK'
    BY <2>1, <2>2 DEF TypeOK
  <2>4. \E n \in 1 .. Len(Script(req'.op)) + 1 : Progress(n)'
    BY <1>1, <2>1, DeviceApart DEF Inv
  <2> QED
    BY <2>1, <2>2, <2>3, <2>4 DEF Inv
<1> QED
  BY <1>1, <1>2, <1>3, <1>4, <1>5, <1>6, <1>7, <1>8 DEF Next, Driver

\* Whatever driver and device do, the invariant holds.
THEOREM InvHolds == Spec => []Inv
<1>1. Init => Inv
  BY InitInv
<1>2. Inv /\ [Next]_vars => Inv'
  BY NextInv
<1> QED
  BY <1>1, <1>2, PTL DEF Spec

-----------------------------------------------------------------------------
(* What the driver promises.                                               *)

(***************************************************************************)
(* read_bytes returns what the disk has: for every size of the sectors and *)
(* of the disk, after a read inside one sector in which nothing went wrong *)
(* between driver and device (ata.cpp:205-222, 259-286).                   *)
(***************************************************************************)
THEOREM ReadsAreRight == Spec => []ReadsTheDisk
<1>1. Inv => ReadsTheDisk
  <2>1. SUFFICES ASSUME Inv, todo = <<>>, req.op = "read", ~wrong, InOneSector(req)
                 PROVE  \A a \in DOMAIN output : output[a] = disk[a]
    BY DEF Inv, ReadsTheDisk
  <2>2. PICK k \in 1 .. Len(Script(req.op)) + 1 : Progress(k)
    BY <2>1 DEF Inv
  <2>3. PICK s \in Seq(Step) : s = Script(req.op) /\ Len(s) = 14
    <3>1. PICK s \in Seq(Step) : s = Script(req.op)
      BY Scripts
    <3>2. Len(s) = 14
      BY <2>1, <3>1, ScriptLengths
    <3> QED
      BY <3>1, <3>2
  <2>4. k \in 1 .. 15 /\ SubSeq(s, k, Len(s)) = <<>>
    <3>1. k \in 1 .. Len(s) + 1 /\ todo = From(s, k)
      BY <2>2, <2>3 DEF Progress
    <3>2. From(s, k) = <<>>
      BY <2>1, <3>1
    <3>3. SubSeq(s, k, Len(s)) = <<>>
      BY <3>2 DEF From
    <3>4. k \in 1 .. 15
      BY <2>3, <3>1
    <3> QED
      BY <3>3, <3>4
  <2>5. k = 15
    <3>1. SUFFICES ASSUME k <= 14 PROVE FALSE
      BY <2>4
    <3>2. Len(SubSeq(s, k, Len(s))) = 14 - k + 1
      BY <2>3, <2>4, <3>1
    <3> QED
      BY <2>4, <3>1, <3>2
  <2> QED
    BY <2>1, <2>2, <2>5 DEF Progress, DataInv, Sound
<1> QED
  BY <1>1, InvHolds, PTL

(***************************************************************************)
(* What WriteData leaves on the disk in a sound request: the bytes asked   *)
(* for have the value asked for, and all others what they had.             *)
(***************************************************************************)
LEMMA WriteStep ==
  ASSUME Inv, WriteData, disk' # disk, Sound
  PROVE  /\ req.op = "write"
         /\ disk' = [a \in Address |-> IF a \in req.loc .. req.loc + req.count - 1
                                         THEN req.value ELSE disk[a]]
<1>1. /\ At("outsw")
      /\ disk' = [a \in Address |-> IF a \div SectorSize = lba
                                      THEN buffer[a % SectorSize] ELSE disk[a]]
  BY DEF WriteData
<1>2. TypeOK
  BY DEF Inv
<1>3. /\ req.op = "write" /\ lba = Wanted
      /\ \A i \in Sector : buffer[i] = IF Asked(i) THEN req.value ELSE OnDisk(i)
  BY <1>1, WriteFacts
<1>4. /\ req.loc \in Nat /\ req.count \in Nat /\ req.count >= 1
      /\ offset \in Sector /\ req.loc = lba * SectorSize + offset /\ lba \in Lba
  BY <1>2, <1>3, Requests
<1>5. offset \in Nat /\ offset + req.count <= SectorSize
  BY <1>4, Sizes DEF Sound, InOneSector, offset
<1>6. lba \in Nat /\ lba * SectorSize \in Nat
  BY <1>4, Sizes DEF Lba
<1>7. ASSUME NEW a \in Address
      PROVE  disk'[a] = IF a \in req.loc .. req.loc + req.count - 1 THEN req.value ELSE disk[a]
  <2>1. a \in Nat
    BY SectorOnDisk
  <2>2. CASE a \div SectorSize = lba
    <3>1. PICK i \in Sector : i = a % SectorSize /\ a = lba * SectorSize + i
      BY <2>1, <2>2, ByteSplit
    <3>2. i \in Nat
      BY Sizes
    <3>3. Asked(i) <=> a \in req.loc .. req.loc + req.count - 1
      BY <1>4, <1>5, <1>6, <3>1, <3>2 DEF Asked
    <3>4. disk'[a] = IF Asked(i) THEN req.value ELSE disk[a]
      BY <1>1, <1>3, <2>2, <3>1 DEF OnDisk
    <3> QED
      BY <3>3, <3>4
  <2>3. CASE a \div SectorSize # lba
    <3>1. a \notin req.loc .. req.loc + req.count - 1
      <4>1. SUFFICES ASSUME a \in req.loc .. req.loc + req.count - 1 PROVE FALSE
        OBVIOUS
      <4>2. PICK i : i = offset + (a - req.loc)
        OBVIOUS
      <4>3. i \in Sector /\ a = lba * SectorSize + i
        BY <1>4, <1>5, <1>6, <2>1, <4>1, <4>2, Sizes DEF Sector
      <4>4. a \div SectorSize = lba
        BY <1>6, <4>3, SplitIsUnique
      <4> QED
        BY <2>3, <4>4
    <3> QED
      BY <1>1, <2>3, <3>1
  <2> QED
    BY <2>2, <2>3
<1> QED
  BY <1>1, <1>3, <1>7

(***************************************************************************)
(* The disk changes only by a write, in one step, just in the bytes asked  *)
(* for and to the value asked for: for every size of the sectors and of    *)
(* the disk, in a request inside one sector in which nothing went wrong    *)
(* between driver and device (ata.cpp:224-242).                            *)
(***************************************************************************)
THEOREM WritesAreRight == Spec => WritesWhatWasAsked
<1> DEFINE Asks ==
      disk' # disk /\ ~wrong /\ InOneSector(req) =>
          /\ req.op = "write"
          /\ disk' = [a \in Address |-> IF a \in req.loc .. req.loc + req.count - 1
                                          THEN req.value ELSE disk[a]]
<1>1. Inv /\ [Next]_vars => Asks
  <2>1. SUFFICES ASSUME Inv, [Next]_vars, disk' # disk, ~wrong, InOneSector(req)
                 PROVE  Asks
    OBVIOUS
  <2>2. WriteData
    <3>1. UNCHANGED vars => disk' = disk
      BY DEF vars
    <3>2. Device => disk' = disk
      BY DEF Device, DeviceBusy, DeviceDone, DeviceError
    <3>3. /\ WAIT_NO_BUSY \/ WAIT_UNTIL_READY => disk' = disk
          /\ Select \/ ReadStatus \/ WhileBusy \/ ReadSignature \/ WhileBoth => disk' = disk
          /\ \A r \in Register : IO_REG_SET(r) => disk' = disk
      BY DEF WAIT_NO_BUSY, WAIT_UNTIL_READY, Select, ReadStatus, WhileBusy, ReadSignature,
             WhileBoth, Loop, IO_REG_SET
    <3>4. ASSUME NEW c \in Commands, COMMAND(c) PROVE disk' = disk
      BY <3>4 DEF COMMAND
    <3>5. ReadData \/ Copy \/ Return \/ create_device => disk' = disk
      BY DEF ReadData, Copy, Return, create_device
    <3>6. ASSUME NEW r \in Request, Call(r) PROVE disk' = disk
      BY <3>6 DEF Call
    <3> QED
      BY <2>1, <3>1, <3>2, <3>3, <3>4, <3>5, <3>6 DEF Next, Driver
  <2> QED
    BY <2>1, <2>2, WriteStep DEF Sound
<1>2. Inv /\ [Next]_vars => [Asks]_vars
  BY <1>1
<1> QED
  BY <1>2, InvHolds, PTL DEF Spec, WritesWhatWasAsked
=============================================================================
