------------------------------ MODULE MmcLink ------------------------------
(***************************************************************************)
(* The SD card driver of the BIOS (mmc.asm) and the card, connected by the *)
(* three lines that the driver toggles one instruction at a time.          *)
(*                                                                         *)
(* Every action is one write of the driver to a line, after which mmcClock *)
(* looks at the lines, or the driver's decision after a whole byte.  The   *)
(* driver's registers: d0, the counters of its loops, and where it is: in  *)
(* which call (`call'), sending or awaiting which command (`phase'), at    *)
(* which byte of it (`at').  The user may reset the machine between any    *)
(* two instructions: the latch drops the lines, the program starts again,  *)
(* the card is not told.                                                   *)
(*                                                                         *)
(* The branch of MMCWriteSector that follows an accepted command 24 is     *)
(* left out: no card of mmc.c accepts it (SectorDevice, Refuse).               *)
(***************************************************************************)
EXTENDS MmcCard

CONSTANTS
  DummyBytes,     \* bytes clocked before selecting the card: 10
  Cmd0Tries,      \* 10
  Acmd41Tries,    \* 4096
  BusyTries,      \* 32768
  ResponseTries,  \* 256
  TokenTries,     \* 256
  Requests,       \* sectors the file system asks for
  MaxResets       \* bound: resets by the user

ASSUME MmcLinkAssumption ==
  /\ DummyBytes \in Nat /\ DummyBytes * 8 >= PowerUpClocks
  /\ {Acmd41Tries, BusyTries, ResponseTries, TokenTries} \subseteq Nat \ {0}
  /\ Cmd0Tries \in Nat \ {0, 1}   \* the first may be lost to a command that a reset cut off
  /\ Requests \subseteq Nat /\ MaxResets \in Nat

VARIABLES
  card,       \* Mmc and the miso of Spi
  lines,      \* the latch: chip select, MOSI, clock
  call,       \* the driver routine that runs, or "idle"
  phase, at, bits, d0, count, tries,
  request,    \* D1 of MMCReadSector
  buffer,     \* what A0 points to
  status,     \* what the last call returned
  ready,      \* the device was registered: OsBootMediaStatus is 0
  spoilt,     \* history: the last reset left the card amid something
  resets

registers == <<phase, at, bits, d0, count, tries>>
vars == <<card, lines, call, registers, request, buffer, status, ready, spoilt, resets>>

Phases == {"none", "cmd0", "cmd8", "cmd55", "acmd41", "cmd17", "cmd24"}
Places == {"none", "dummy", "select", "busy", "send", "answer", "return", "r7",
           "token", "data", "trailer"}
Calls  == {"boot", "idle", "MMCInit", "MMCReadSector", "MMCWriteSector"}

WaitTimeout == 257      \* MMC_ERR_WAIT_TIMEOUT
ResponseTimeout == 258  \* MMC_ERR_RESP_TIMEOUT

Largest == BusyTries + ResponseTries + TokenTries + SectorSize + DummyBytes + 6

TypeOK ==
  /\ card \in Cards /\ lines \in Lines
  /\ call \in Calls /\ phase \in Phases /\ at \in Places
  /\ bits \in 0 .. 8 /\ d0 \in Byte \cup {WaitTimeout, ResponseTimeout}
  /\ count \in 0 .. Largest /\ tries \in 0 .. Cmd0Tries + Acmd41Tries
  /\ request \in Requests \cup {0} /\ buffer \in SectorData
  /\ status \in {"none", "ok", "error"} /\ ready \in BOOLEAN /\ spoilt \in BOOLEAN
  /\ resets \in 0 .. MaxResets

Init ==
  /\ \E inserted \in BOOLEAN : card = NewCard(inserted)
  /\ lines = LinesOff /\ call = "boot"
  /\ phase = "none" /\ at = "none" /\ bits = 0 /\ d0 = 0 /\ count = 0 /\ tries = 0
  /\ request = 0 /\ buffer = [i \in 0 .. SectorSize - 1 |-> 0]
  /\ status = "none" /\ ready = FALSE /\ spoilt = FALSE /\ resets = 0
-----------------------------------------------------------------------------
(***************************************************************************)
(* Writing the lines.                                                      *)
(***************************************************************************)
Write(new) == lines' = new /\ card' = Clocked(card, new)
Hold == UNCHANGED <<lines, card>>

\* Start reading, or sending, a byte.
Receive(place) == at' = place /\ bits' = 8 /\ d0' = 0
Send(byte) == at' = "send" /\ bits' = 8 /\ d0' = byte

\* The next bit: MmcReadBit with MOSI high, or the high half of MmcSendBit.
TopBit(byte) == byte \div 128
Raise ==
  /\ bits > 0 /\ lines.clk = 0
  /\ Write([lines EXCEPT !.clk = 1, !.mosi = IF at = "send" THEN TopBit(d0) ELSE 1])
  /\ d0' = ((d0 * 2) % 256) + (IF at = "send" THEN 0 ELSE card'.miso)
  /\ UNCHANGED <<call, phase, at, bits, count, tries, request, buffer, status, ready,
                 spoilt, resets>>

\* The low half of the next bit, or of the end of the byte.
Lower ==
  /\ bits > 0 /\ lines.clk = 1
  /\ bits' = bits - 1
  /\ Write([lines EXCEPT !.clk = 0, !.mosi = IF at = "send" /\ bits > 1 THEN TopBit(d0) ELSE 1])
  /\ UNCHANGED <<call, phase, at, d0, count, tries, request, buffer, status, ready,
                 spoilt, resets>>

ByteDone(place) == at = place /\ bits = 0

\* The end of a call deselects the card.
Finish(result) ==
  /\ Write([lines EXCEPT !.cs = 0])
  /\ call' = "idle" /\ status' = result
  /\ phase' = "none" /\ at' = "none" /\ bits' = 0 /\ d0' = 0 /\ count' = 0 /\ tries' = 0
-----------------------------------------------------------------------------
(***************************************************************************)
(* MMCSendCommandInt and MmcWaitBusy.                                      *)
(***************************************************************************)
Command(code, s) ==
  <<code, (s \div 16777216) % 256, (s \div 65536) % 256, (s \div 256) % 256, s % 256, 255>>

Frame(p, s) ==
  CASE p = "cmd0"   -> <<64, 0, 0, 0, 0, 149>>
    [] p = "cmd8"   -> <<72, 0, 0, 1, 170, 135>>
    [] p = "cmd55"  -> <<119, 0, 0, 0, 0, 255>>
    [] p = "acmd41" -> <<105, 64, 0, 0, 0, 255>>
    [] p = "cmd17"  -> Command(81, s)
    [] p = "cmd24"  -> Command(88, s)

SendCommand(p) == phase' = p /\ at' = "select" /\ bits' = 0 /\ d0' = 0 /\ count' = 0

Select ==
  /\ at = "select"
  /\ Write([lines EXCEPT !.cs = 1])
  /\ Receive("busy") /\ count' = BusyTries
  /\ UNCHANGED <<call, phase, tries, request, buffer, status, ready, spoilt, resets>>

\* A loop that reads bytes until one is not $FF (or is), or gives up.
Again == count > 1 /\ count' = count - 1 /\ Receive(at)
GiveUp(error) == count = 1 /\ count' = 0 /\ at' = "return" /\ bits' = 0 /\ d0' = error

Busy ==
  /\ ByteDone("busy") /\ Hold
  /\ \/ d0 = 255 /\ Send(Frame(phase, request)[1]) /\ count' = 1
     \/ d0 # 255 /\ (Again \/ GiveUp(WaitTimeout))
  /\ UNCHANGED <<call, phase, tries, request, buffer, status, ready, spoilt, resets>>

Sent ==
  /\ ByteDone("send") /\ Hold
  /\ IF count < 6 THEN Send(Frame(phase, request)[count + 1]) /\ count' = count + 1
     ELSE Receive("answer") /\ count' = ResponseTries
  /\ UNCHANGED <<call, phase, tries, request, buffer, status, ready, spoilt, resets>>

Answer ==
  /\ ByteDone("answer") /\ Hold
  /\ \/ d0 # 255 /\ at' = "return" /\ count' = 0 /\ UNCHANGED <<bits, d0>>
     \/ d0 = 255 /\ (Again \/ GiveUp(ResponseTimeout))
  /\ UNCHANGED <<call, phase, tries, request, buffer, status, ready, spoilt, resets>>
-----------------------------------------------------------------------------
(***************************************************************************)
(* MMCInit, once the machine has started.                                  *)
(***************************************************************************)
StartInit ==
  /\ call = "boot"
  /\ call' = "MMCInit" /\ phase' = "none"
  /\ Write([lines EXCEPT !.cs = 0])
  /\ Receive("dummy") /\ count' = DummyBytes /\ tries' = Cmd0Tries
  /\ UNCHANGED <<request, buffer, status, ready, spoilt, resets>>

Dummy ==
  /\ ByteDone("dummy") /\ Hold
  /\ IF count > 1 THEN Again /\ phase' = phase ELSE SendCommand("cmd0")
  /\ UNCHANGED <<call, tries, request, buffer, status, ready, spoilt, resets>>

\* The device is registered when MMCInit succeeds (InitStorageDevices).
EndInit(result) ==
  /\ Finish("none") /\ ready' = (result = "ok")
  /\ UNCHANGED <<request, buffer, spoilt, resets>>

Proceed ==
  /\ Hold /\ UNCHANGED <<call, request, buffer, status, ready, spoilt, resets>>

\* Command 0 is tried again; the faulty variant gives up at once.
NeverRetry == FALSE
MayRetry == tries > 1

Cmd0Returns ==
  /\ phase = "cmd0" /\ at = "return"
  /\ \/ d0 <= 1 /\ SendCommand("cmd8") /\ tries' = 0 /\ Proceed
     \/ d0 > 1 /\ MayRetry /\ SendCommand("cmd0") /\ tries' = tries - 1 /\ Proceed
     \/ d0 > 1 /\ ~MayRetry /\ EndInit("error")

Cmd8Returns ==
  /\ phase = "cmd8" /\ at = "return"
  /\ \/ d0 <= 1 /\ Receive("r7") /\ count' = 4 /\ UNCHANGED <<phase, tries>> /\ Proceed
     \/ d0 > 1 /\ EndInit("error")

\* The four bytes of the answer to command 8 are not looked at.
R7 ==
  /\ ByteDone("r7")
  /\ \/ Again /\ UNCHANGED <<phase, tries>>
     \/ count = 1 /\ SendCommand("cmd55") /\ tries' = Acmd41Tries
  /\ Proceed

Cmd55Returns ==
  /\ phase = "cmd55" /\ at = "return"
  /\ \/ d0 <= 1 /\ SendCommand("acmd41") /\ UNCHANGED tries /\ Proceed
     \/ d0 > 1 /\ EndInit("error")

\* Only the low byte of the result is compared.
Acmd41Returns ==
  /\ phase = "acmd41" /\ at = "return"
  /\ \/ d0 % 256 = 1 /\ tries > 1 /\ SendCommand("cmd55") /\ tries' = tries - 1 /\ Proceed
     \/ d0 % 256 = 1 /\ tries = 1 /\ EndInit("error")
     \/ d0 % 256 = 0 /\ EndInit("ok")
     \/ d0 % 256 > 1 /\ EndInit("error")
-----------------------------------------------------------------------------
(***************************************************************************)
(* MMCReadSector and MMCWriteSector.                                       *)
(***************************************************************************)
StartCall(routine, command) ==
  /\ call = "idle" /\ ready
  /\ \E s \in Requests : request' = s
  /\ call' = routine /\ status' = "none"
  /\ SendCommand(command)
  /\ Hold /\ UNCHANGED <<tries, buffer, ready, spoilt, resets>>

MMCReadSector == StartCall("MMCReadSector", "cmd17")
MMCWriteSector == StartCall("MMCWriteSector", "cmd24")

EndCall(result) == Finish(result) /\ UNCHANGED <<request, buffer, ready, spoilt, resets>>

ProceedReading == Hold /\ UNCHANGED <<call, phase, tries, request, status, ready, spoilt, resets>>

Cmd17Returns ==
  /\ phase = "cmd17" /\ at = "return"
  /\ \/ d0 = 0 /\ Receive("token") /\ count' = TokenTries /\ UNCHANGED buffer /\ ProceedReading
     \/ d0 # 0 /\ EndCall("error")

Token ==
  /\ ByteDone("token")
  /\ \/ d0 = 254 /\ Receive("data") /\ count' = SectorSize /\ UNCHANGED buffer /\ ProceedReading
     \/ d0 # 254 /\ Again /\ UNCHANGED buffer /\ ProceedReading
     \/ d0 # 254 /\ count = 1 /\ EndCall("error")

\* Bytes after the data that are read and thrown away: two of checksum and one
\* more.
Trailing == 3

Data ==
  /\ ByteDone("data")
  /\ buffer' = [buffer EXCEPT ![SectorSize - count] = d0]
  /\ IF count > 1 THEN Again ELSE Receive("trailer") /\ count' = Trailing
  /\ ProceedReading

Trailer ==
  /\ ByteDone("trailer")
  /\ \/ Again /\ UNCHANGED buffer /\ ProceedReading
     \/ count = 1 /\ EndCall("ok")

Cmd24Returns ==
  /\ phase = "cmd24" /\ at = "return"
  /\ EndCall(IF d0 = 0 THEN "ok" ELSE "error")
-----------------------------------------------------------------------------
\* The user resets the machine: addrLatchReset, and the program starts again.
\* Nothing resets the card; it sees the falling clock, if it was high.
Streaming(c) ==
  {c.state, c.nextState} \cap {"READ_SECTOR_TOKEN", "READ_SECTOR", "READ_SECTOR_CRC"} # {}
HalfInitialised(c) ==
  ~c.initialised /\ (c.expectedCommand > 0 \/ c.nextState = "AFTER_COMMAND_RESPONSE")

Reset ==
  /\ resets < MaxResets
  /\ Write(LinesOff)
  /\ call' = "boot" /\ status' = "none" /\ ready' = FALSE
  /\ phase' = "none" /\ at' = "none" /\ bits' = 0 /\ d0' = 0 /\ count' = 0 /\ tries' = 0
  /\ spoilt' = (Streaming(card') \/ HalfInitialised(card'))
  /\ resets' = resets + 1
  /\ UNCHANGED <<request, buffer>>

Driver ==
  \/ Raise \/ Lower \/ Select \/ Busy \/ Sent \/ Answer
  \/ StartInit \/ Dummy \/ Cmd0Returns \/ Cmd8Returns \/ R7 \/ Cmd55Returns \/ Acmd41Returns
  \/ Cmd17Returns \/ Token \/ Data \/ Trailer \/ Cmd24Returns

\* Without a device the file system asks for nothing.
NoDevice == call = "idle" /\ ~ready /\ UNCHANGED vars

Next == Driver \/ MMCReadSector \/ MMCWriteSector \/ Reset \/ NoDevice
Spec == Init /\ [][Next]_vars /\ WF_vars(Driver)
-----------------------------------------------------------------------------
(***************************************************************************)
(* What is right about it.  `spoilt' excepts what follows a reset in the   *)
(* middle of an initialisation or of a sector; without a reset it is FALSE. *)
(***************************************************************************)

\* MMCInit finds the card that is inserted, also after a reset that caught the
\* driver anywhere in a command: the bytes the card has of it stay in its shift
\* register, spoil the first command 0, and the second one is accepted.
InitSucceeds ==
  call = "idle" /\ ~ready /\ card.cardInserted => spoilt

\* The comment of mmc.c (`Go back to init state', command 0) read as a promise:
\* wherever a reset finds the card, MMCInit makes it work again.
InitAlwaysSucceeds ==
  call = "idle" /\ ~ready => ~card.cardInserted

\* What the storage layer sees is a SectorDevice: every call returns, a read
\* with the bytes of the sector that was asked for, and a write refused: the
\* card never takes the bytes of a write for commands.
Device == INSTANCE SectorDevice WITH
  Sectors <- Requests, present <- card.cardInserted, sound <- ~spoilt, asked <- request,
  mode <- CASE call \in {"boot", "MMCInit"} -> "starting"
            [] call = "MMCReadSector"       -> "reading"
            [] call = "MMCWriteSector"      -> "writing"
            [] call = "idle"                -> IF ready THEN "ready" ELSE "absent",
  answer <- [kind |-> status, bytes |-> IF status = "ok" THEN buffer ELSE <<>>]
ImplementsDevice == Device!Spec
=============================================================================
