-------------------------------- MODULE Ata ---------------------------------
(***************************************************************************)
(* The ATA driver (kernel/drivers/ata.cpp) and the device it polls.  The   *)
(* driver works through a script, the steps of the function it is in; the  *)
(* device, which is not part of the repository, goes its own way between   *)
(* them: it takes a moment to show that it is busy, it answers after any   *)
(* time or with an error, and it does not take registers while it is busy. *)
(* Timer::sleep, by which the driver means to give it time, is empty       *)
(* (timer.cpp:27-36).                                                      *)
(*                                                                         *)
(* Junk is what memory holds that nobody wrote.                            *)
(* A write fills its bytes with one value.                                 *)
(***************************************************************************)
EXTENDS Naturals, Sequences, FiniteSets

CONSTANTS
    SectorSize,   \* SECTOR_SIZE_BYTES
    Sectors,      \* of the disk
    Blank,        \* the bytes of the disk in the beginning
    Byte          \* bytes that are written

ASSUME AtaAssumption ==
    /\ SectorSize \in Nat \ {0} /\ Sectors \in Nat \ {0}
    /\ Sectors <= 268435456  \* 28 bits
    /\ Byte \cup {Blank} \subseteq STRING \ {"junk"}

Junk == "junk"
Address == 0 .. Sectors * SectorSize - 1
Lba == 0 .. Sectors - 1

\* Requests inside the disk, of up to a byte more than a sector.
Request ==
    {r \in [op : {"read"}, loc : Address, count : 1 .. SectorSize + 1, value : {Junk}]
        \cup [op : {"write"}, loc : Address, count : 1 .. SectorSize + 1, value : Byte] :
        r.loc + r.count <= Sectors * SectorSize}

VARIABLES
    kind,    \* what is at the primary bus
    state,   \* what the device does
    ready,   \* RDY; after an error it may be clear
    cmd,     \* the last command it took
    regs,    \* what is in its registers, by Register
    disk,    \* its bytes
    todo,    \* the rest of the driver's script
    status,  \* what _get_device_info has read of the status register
    info,    \* what it has found out about the master
    req,     \* the request
    buffer,  \* of read_bytes and write_bytes
    output,  \* the caller's, by address of the disk
    wrong    \* history: driver and device missed each other in this request

deviceVars == <<state, ready, cmd, regs>>
vars == <<kind, deviceVars, disk, todo, status, info, req, buffer, output, wrong>>

\* At boot there is no request yet: find_devices identifies the device.
NoRequest == [op |-> "identify", loc |-> 0, count |-> 0, value |-> Junk]

\* What is known of a device, and what {} says of the slave.
DeviceInfoResult == [found : BOOLEAN, not_ata : BOOLEAN]
Slave == [found |-> FALSE, not_ata |-> FALSE]

\* What the driver writes to each register for a request to sector n; "head" has
\* other bits as well, always the same.
Register == {"head", "count", "low", "mid", "high"}
Part(r, n) == CASE r = "head" -> (n \div 16777216) % 16
                [] r = "high" -> (n \div 65536) % 256
                [] r = "mid" -> (n \div 256) % 256
                [] r = "low" -> n % 256
                [] r = "count" -> 1

\* The flags of the status register that the driver looks at; Zero is its
\* value when none is set.
StatusRegister == [Bsy : BOOLEAN, Rdy : BOOLEAN, Drq : BOOLEAN, Err : BOOLEAN]
Zero == [Bsy |-> FALSE, Rdy |-> FALSE, Drq |-> FALSE, Err |-> FALSE]

\* _get_device_info and create_device.
IdentifyScript == <<"select", "no_busy", "ready", "identify", "status", "while_busy",
                    "signature", "while_both", "insw", "create">>

Init ==
    /\ kind \in {"ata", "atapi", "empty", "floating"}
    /\ state = "idle" /\ ready = TRUE /\ cmd = "none" /\ regs = [r \in Register |-> 0]
    /\ disk = [a \in Address |-> Blank]
    /\ todo = IdentifyScript
    /\ status = Zero /\ info = Slave
    /\ req = NoRequest
    /\ buffer = << >> /\ output = << >>
    /\ wrong = FALSE

-----------------------------------------------------------------------------
(* The device.                                                             *)

\* READ_BYTE of the status register; a floating bus reads as ones.
Status == [Bsy |-> state = "busy" \/ kind = "floating", Rdy |-> ready /\ kind # "empty",
           Drq |-> state \in {"data_in", "data_out"} \/ kind = "floating",
           Err |-> state = "error" \/ kind = "floating"]

\* Status shows BSY.
DeviceBusy ==
    /\ state = "accepted"
    /\ state' = "busy"
    /\ UNCHANGED <<kind, ready, cmd, regs, disk, todo, status, info, req, buffer, output, wrong>>

DeviceDone ==
    /\ state = "busy" /\ ~(kind = "atapi" /\ cmd \in {"identify", "read", "write"})
    /\ state' = CASE cmd \in {"identify", "read"} -> "data_in"
                  [] cmd = "write" -> "data_out"
                  [] cmd \in {"flush", "commit"} -> "idle"
    /\ UNCHANGED <<kind, ready, cmd, regs, disk, todo, status, info, req, buffer, output, wrong>>

\* "Bit is clear when drive is spun down, or after an error" (ata.h:100).
DeviceError ==
    /\ state = "busy" /\ cmd \in {"identify", "read", "write"}
    /\ state' = "error" /\ ready' \in BOOLEAN
    /\ UNCHANGED <<kind, cmd, regs, disk, todo, status, info, req, buffer, output, wrong>>

Device == DeviceBusy \/ DeviceDone \/ DeviceError

\* The sector that its registers name.  When not all of them were taken it may be
\* any, even one that the disk does not have.
lba == 16777216 * regs["head"] + 65536 * regs["high"] + 256 * regs["mid"] + regs["low"]

\* The count is 0 after a transfer, and before a command that stands for 256.
LastSector == regs["count"] = 1

\* It takes a command when it is not busy with another.
Takes(c) ==
    IF state \in {"accepted", "busy"}
      THEN wrong' = TRUE /\ UNCHANGED <<state, ready, cmd>>
      ELSE state' = "accepted" /\ ready' = TRUE /\ cmd' = c /\ UNCHANGED wrong

-----------------------------------------------------------------------------
(* The driver.                                                             *)

\* WAIT_NO_BUSY and WAIT_UNTIL_READY.
Poll == <<"no_busy", "ready">>

\* SET_HEAD, SET_SECTOR_COUNT and SET_LBA; nobody waits for the device before.
Setup == <<"head", "count", "low", "mid", "high">>

\* ReadSectors; COMMAND polls as well.
ReadScript == Setup \o Poll \o Poll \o <<"read">> \o Poll \o <<"insw">>

\* WriteSectors.
WriteScript ==
    Setup \o Poll \o Poll \o <<"write">> \o Poll \o <<"outsw">> \o Poll \o <<"flush">>

\* Mutant of WriteBytesScript: the sector is not read first.
BlindWriteScript == <<"copy">> \o WriteScript \o <<"return">>

\* write_bytes.
WriteBytesScript == ReadScript \o <<"copy">> \o WriteScript \o <<"return">>

\* read_bytes.
ReadBytesScript == ReadScript \o <<"return">>

\* Whole sectors that count bytes fill; the offset is not counted.
BufferSectors(count) == (count + SectorSize - 1) \div SectorSize

\* Mutant of offset: a request begins at a sector.
NoOffset == 0

offset == req.loc % SectorSize

Call(r) ==
    /\ todo = <<>> /\ info.found
    /\ req' = r
    /\ buffer' = [i \in 0 .. BufferSectors(r.count) * SectorSize - 1 |-> Junk]
    /\ output' = << >>
    /\ wrong' = FALSE
    /\ todo' = IF r.op = "read" THEN ReadBytesScript ELSE WriteBytesScript
    /\ UNCHANGED <<kind, deviceVars, disk, status, info>>

At(step) == todo # <<>> /\ Head(todo) = step /\ todo' = Tail(todo)

\* SELECT, which writes to the data port, and the three LBA registers.
Select ==
    /\ At("select")
    /\ regs' = [regs EXCEPT !["low"] = 0, !["mid"] = 0, !["high"] = 0]
    /\ UNCHANGED <<kind, state, ready, cmd, disk, status, info, req, buffer, output, wrong>>

\* Mutant of WAIT_NO_BUSY: it loops while BSY is clear.
WaitForBusy ==
    /\ At("no_busy") /\ Status.Bsy
    /\ UNCHANGED <<kind, deviceVars, disk, status, info, req, buffer, output, wrong>>

WAIT_NO_BUSY ==
    /\ At("no_busy") /\ ~Status.Bsy
    /\ UNCHANGED <<kind, deviceVars, disk, status, info, req, buffer, output, wrong>>

WAIT_UNTIL_READY ==
    /\ At("ready") /\ Status.Rdy
    /\ UNCHANGED <<kind, deviceVars, disk, status, info, req, buffer, output, wrong>>

\* A device that is busy may not take it.
IO_REG_SET(r) ==
    /\ At(r)
    /\ \/ /\ regs' = [regs EXCEPT ![r] = Part(r, req.loc \div SectorSize)]
          /\ UNCHANGED wrong
       \/ state \in {"accepted", "busy"} /\ wrong' = TRUE /\ UNCHANGED regs
    /\ UNCHANGED <<kind, state, ready, cmd, disk, status, info, req, buffer, output>>

\* The rest of COMMAND.
COMMAND(c) ==
    /\ At(c) /\ Takes(c)
    /\ UNCHANGED <<kind, regs, disk, status, info, req, buffer, output>>

\* The first look at the status after the command decides whether a device was
\* found.
ReadStatus ==
    /\ todo # <<>> /\ Head(todo) = "status"
    /\ status' = Status
    /\ info' = [info EXCEPT !.found = Status # Zero]
    /\ todo' = IF Status = Zero THEN <<"create">> ELSE Tail(todo)
    /\ UNCHANGED <<kind, deviceVars, disk, req, buffer, output, wrong>>

\* A loop that reads the status as long as the one it has read says so.
Loop(step, again) ==
    /\ todo # <<>> /\ Head(todo) = step
    /\ IF again THEN status' = Status /\ UNCHANGED todo
                 ELSE todo' = Tail(todo) /\ UNCHANGED status
    /\ UNCHANGED <<kind, deviceVars, disk, info, req, buffer, output, wrong>>

WhileBusy == Loop("while_busy", status.Bsy)

\* The loop that means to wait for either DRQ or ERR wants both to go on.
WhileBoth == Loop("while_both", ~info.not_ata /\ status.Drq /\ status.Err)

\* LBAmid and LBAhigh: a packet device that has aborted IDENTIFY leaves its
\* signature there, others the zeros that were written.
ReadSignature ==
    /\ At("signature")
    /\ info' = [info EXCEPT !.not_ata = kind = "atapi" /\ state = "error"]
    /\ UNCHANGED <<kind, deviceVars, disk, status, req, buffer, output, wrong>>

\* rep_insw and the loop of _get_device_info: one sector, whatever the request.
ReadData ==
    /\ At("insw")
    /\ IF state = "data_in" /\ lba \in Lba
         THEN /\ state' = IF cmd = "read" /\ ~LastSector THEN "data_in" ELSE "idle"
              /\ regs' = IF cmd = "read" THEN [regs EXCEPT !["count"] = 0] ELSE regs
              /\ UNCHANGED wrong
              /\ buffer' = [i \in DOMAIN buffer |->
                               IF i < SectorSize THEN disk[lba * SectorSize + i] ELSE buffer[i]]
         ELSE /\ wrong' = TRUE /\ UNCHANGED <<state, regs>>
              /\ buffer' = [i \in DOMAIN buffer |-> IF i < SectorSize THEN Junk ELSE buffer[i]]
    /\ UNCHANGED <<kind, ready, cmd, disk, status, info, req, output>>

\* memcpy to the buffer of write_bytes; past its end it destroys the heap.
Copy ==
    /\ At("copy") /\ offset + req.count - 1 \in DOMAIN buffer
    /\ buffer' = [i \in DOMAIN buffer |->
                     IF i \in offset .. offset + req.count - 1 THEN req.value ELSE buffer[i]]
    /\ UNCHANGED <<kind, deviceVars, disk, status, info, req, output, wrong>>

\* rep_outsw: one sector; the device waits for more if the count says so.
WriteData ==
    /\ At("outsw")
    /\ IF state = "data_out" /\ lba \in Lba
         THEN /\ state' = "busy" /\ cmd' = IF LastSector THEN "commit" ELSE "write"
              /\ regs' = [regs EXCEPT !["count"] = 0]
              /\ UNCHANGED wrong
              /\ disk' = [a \in Address |-> IF a \div SectorSize = lba
                                              THEN buffer[a % SectorSize] ELSE disk[a]]
         ELSE wrong' = TRUE /\ UNCHANGED <<state, cmd, regs, disk>>
    /\ UNCHANGED <<kind, ready, status, info, req, buffer, output>>

\* create_device panics if nothing was found or if neither was an ATA device, and
\* the slave never is not one.
create_device ==
    /\ At("create")
    /\ info.found \/ Slave.found
    /\ ~(info.not_ata /\ Slave.not_ata)
    /\ status' = Zero
    /\ UNCHANGED <<kind, deviceVars, disk, info, req, buffer, output, wrong>>

\* read_bytes copies, what lies behind the buffer is junk; the buffer is freed.
Return ==
    /\ At("return")
    /\ output' = IF req.op # "read" THEN << >> ELSE
                   [a \in req.loc .. req.loc + req.count - 1 |->
                       LET i == offset + (a - req.loc)
                       IN  IF i \in DOMAIN buffer THEN buffer[i] ELSE Junk]
    /\ buffer' = << >>
    /\ UNCHANGED <<kind, deviceVars, disk, status, info, req, wrong>>

Commands == {"identify", "read", "write", "flush"}

Driver ==
    \/ Select \/ WAIT_NO_BUSY \/ WAIT_UNTIL_READY
    \/ \E r \in Register : IO_REG_SET(r)
    \/ \E c \in Commands : COMMAND(c)
    \/ ReadStatus \/ WhileBusy \/ ReadSignature \/ WhileBoth
    \/ ReadData \/ Copy \/ WriteData \/ Return
    \/ create_device

Next == Device \/ Driver \/ \E r \in Request : Call(r)

\* The driver goes on, and a device that is there answers.
Spec == Init /\ [][Next]_vars /\ WF_vars(Driver) /\ WF_vars(Device)

-----------------------------------------------------------------------------

\* The variables have values of their types.
TypeOK ==
    /\ kind \in {"ata", "atapi", "empty", "floating"}
    /\ state \in {"idle", "accepted", "busy", "data_in", "data_out", "error"}
    /\ ready \in BOOLEAN /\ cmd \in Commands \cup {"none", "commit"}
    /\ regs \in [Register -> 0 .. 255]
    /\ disk \in [Address -> Byte \cup {Blank, Junk}]
    /\ req \in Request \cup {NoRequest} /\ info \in DeviceInfoResult
    /\ status \in StatusRegister
    /\ \A i \in DOMAIN buffer : buffer[i] \in Byte \cup {Blank, Junk}
    /\ wrong \in BOOLEAN

InOneSector(r) == (r.loc % SectorSize) + r.count <= SectorSize

(***************************************************************************)
(* read_bytes returns the bytes of the disk, for a request inside one      *)
(* sector and as long as nothing went wrong with the device               *)
(* (ata.cpp:205-222, 259-286).  Besides, all variables have values of      *)
(* their types.                                                            *)
(***************************************************************************)
ReadsTheDisk ==
    /\ TypeOK
    /\ todo = <<>> /\ req.op = "read" /\ ~wrong /\ InOneSector(req)
        => \A a \in DOMAIN output : output[a] = disk[a]

(***************************************************************************)
(* The disk changes only by a write, in one step, in the bytes asked for   *)
(* and to the value asked for, although the driver writes a whole sector   *)
(* it has read before; under the same conditions (ata.cpp:224-242).        *)
(***************************************************************************)
WritesWhatWasAsked ==
    [][disk' # disk /\ ~wrong /\ InOneSector(req) =>
          /\ req.op = "write"
          /\ disk' = [a \in Address |-> IF a \in req.loc .. req.loc + req.count - 1
                                          THEN req.value ELSE disk[a]]]_vars

(***************************************************************************)
(* Every function of the driver returns, unless there is no device, the    *)
(* device is not ready after an error, or a copy destroyed the heap        *)
(* (ata.cpp:66-84, 235).                                                   *)
(***************************************************************************)
FunctionsReturn ==
    todo # <<>> ~> \/ todo = <<>>
                   \/ kind \in {"empty", "floating"}
                   \/ ~ready
                   \/ Head(todo) = "copy" /\ ~InOneSector(req)
=============================================================================
