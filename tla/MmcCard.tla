------------------------------ MODULE MmcCard ------------------------------
(***************************************************************************)
(* The emulated SD card (mmc.c), a state machine driven by the edges of a  *)
(* clock line that software toggles.  A card is a record with the fields   *)
(* of Mmc; Clocked(card, lines) is the card after mmcClock has looked at   *)
(* the lines of the SPI bus.                                               *)
(*                                                                         *)
(* Bytes are numbers, `command' the eight bytes of the 64-bit shift        *)
(* register.  Sector and power-up lengths are constants; what a sector     *)
(* holds is the constant Disk.                                             *)
(***************************************************************************)
EXTENDS Integers, Sequences

CONSTANTS
  PowerUpClocks,  \* clocks before the card listens: 73
  SectorSize,     \* bytes of a sector: 512
  Capacity,       \* sectors of the card
  SectorSpace,    \* 2^23: sector * 512 wraps, numbers apart by this are the same
  Disk            \* what the sectors hold

Byte == 0 .. 255
SectorData == [0 .. SectorSize - 1 -> Byte]

ASSUME MmcCardAssumption ==
  /\ PowerUpClocks \in Nat \ {0} /\ SectorSize \in Nat \ {0}
  /\ SectorSpace \in Nat \ {0} /\ SectorSpace <= 8388608 /\ Capacity \in 1 .. SectorSpace
  /\ Disk \in [0 .. Capacity - 1 -> SectorData]

States == {"WAIT_CLOCKS", "WAIT_BYTE", "WRITE_BYTE", "WAIT_COMMAND", "AFTER_COMMAND_RESPONSE",
           "READ_SECTOR_TOKEN", "READ_SECTOR", "READ_SECTOR_CRC"}

\* The lines the software drives, off after a reset of the latch.
Lines == [cs : {0, 1}, mosi : {0, 1}, clk : {0, 1}]
LinesOff == [cs |-> 0, mosi |-> 0, clk |-> 0]

NoCommand == <<0, 0, 0, 0, 0, 0, 0, 0>>

NewCard(inserted) ==
  [state |-> "WAIT_CLOCKS", nextState |-> "WAIT_CLOCKS", clocks |-> 0, input |-> 0,
   output |-> 0, lastByte |-> 0, command |-> NoCommand, commandPtr |-> 0,
   expectedCommand |-> 0, initialised |-> FALSE, okResponse |-> FALSE,
   responsePtr |-> 0, bytesLeft |-> 0, sectorBuffer |-> [i \in 0 .. SectorSize - 1 |-> 0],
   miso |-> 0, lastClock |-> 0, cardInserted |-> inserted]

Commands == [1 .. 8 -> Byte]
Clocks == (0 .. 7) \cup (0 .. PowerUpClocks)
Lengths == (0 .. 2) \cup (0 .. SectorSize)

Cards ==
  [state : States, nextState : States, clocks : Clocks, input : Byte, output : Byte,
   lastByte : Byte, command : Commands, commandPtr : 0 .. 6, expectedCommand : 0 .. 3,
   initialised : BOOLEAN, okResponse : BOOLEAN, responsePtr : 0 .. 4,
   bytesLeft : Lengths, sectorBuffer : SectorData,
   miso : {0, 1}, lastClock : {0, 1}, cardInserted : BOOLEAN]

\* The commands the card wants before it is initialised, in order.
ExpectedCommands == [e \in 0 .. 3 |->
  CASE e = 0 -> [command |-> <<0, 0, 64, 0, 0, 0, 0, 149>>, response |-> <<>>, ok |-> 1, error |-> 0]
    [] e = 1 -> [command |-> <<0, 0, 72, 0, 0, 1, 170, 135>>, response |-> <<0, 0, 17, 170>>,
                 ok |-> 2, error |-> 1]
    [] e = 2 -> [command |-> <<0, 0, 119, 0, 0, 0, 0, 255>>, response |-> <<>>, ok |-> 3, error |-> 2]
    [] e = 3 -> [command |-> <<0, 0, 105, 64, 0, 0, 0, 255>>, response |-> <<>>,
                 ok |-> -1, error |-> 2]]

\* 1 << n
Bit == [n \in 0 .. 7 |-> <<1, 2, 4, 8, 16, 32, 64, 128>>[n + 1]]
-----------------------------------------------------------------------------
\* Bits in and out.
ResetRead(c) == [c EXCEPT !.clocks = 7, !.input = 0, !.miso = 1]

InitWaitByte(c, next) ==
  [ResetRead(c) EXCEPT !.state = "WAIT_BYTE", !.nextState = next]

WriteBit(c) == [c EXCEPT !.miso = c.output \div 128]

InitWriteByte(c, next) ==
  WriteBit([ResetRead(c) EXCEPT !.state = "WRITE_BYTE", !.nextState = next])

WaitClocks(c, lines) ==
  LET seen == c.clocks + lines.clk
  IN  IF lines.cs = 1 THEN [c EXCEPT !.clocks = 0]
      ELSE IF seen >= PowerUpClocks THEN InitWaitByte(c, "WAIT_COMMAND")
      ELSE [c EXCEPT !.clocks = seen]

\* A byte is thrown away when the card is not selected; the faulty variant
\* keeps the bits it has.
DeselectedKeeping(c) == [c EXCEPT !.miso = 1]
Deselected(c) == [ResetRead(c) EXCEPT !.commandPtr = 0]

WaitByte(c, lines) ==
  CASE lines.cs = 0 -> Deselected(c)
    [] lines.cs = 1 /\ lines.clk = 0 -> [c EXCEPT !.miso = 1]
    [] lines.cs = 1 /\ lines.clk = 1 ->
         LET input == c.input + lines.mosi * Bit[c.clocks]
         IN  IF c.clocks > 0
             THEN [c EXCEPT !.input = input, !.clocks = @ - 1]
             ELSE [ResetRead(c) EXCEPT !.lastByte = input, !.state = c.nextState]

\* `output' is a byte; the faulty variant keeps the bit that is shifted out.
ShiftedWide(output) == output * 2
Shifted(output) == (output * 2) % 256

WriteByte(c, lines) ==
  CASE lines.clk = 0 -> WriteBit(c)
    [] lines.clk = 1 /\ c.clocks = 0 -> [c EXCEPT !.state = c.nextState]
    [] lines.clk = 1 /\ c.clocks > 0 ->
         [c EXCEPT !.clocks = @ - 1, !.output = Shifted(@)]
-----------------------------------------------------------------------------
\* Commands.  The sector number is 32 bits of the command; the multiplication
\* by the sector size drops the high ones.
Sector(c) == ((c.command[5] * 256 + c.command[6]) * 256 + c.command[7]) % SectorSpace

\* A sector that does not exist leaves the buffer as it was; the result of
\* readSectorFunc is ignored.  The faulty variant reads only once.
FetchOnce(c) ==
  IF Sector(c) < Capacity /\ c.sectorBuffer[0] = 0
  THEN [c EXCEPT !.sectorBuffer = Disk[Sector(c)]] ELSE c
FetchSector(c) ==
  IF Sector(c) < Capacity THEN [c EXCEPT !.sectorBuffer = Disk[Sector(c)]] ELSE c

ReadCommand(c) ==
  InitWriteByte([FetchSector(c) EXCEPT !.command = NoCommand, !.commandPtr = 0, !.output = 0],
                "READ_SECTOR_TOKEN")

\* Command 0 takes an initialised card back to the start.
BackToInit(c) == [c EXCEPT !.expectedCommand = 0, !.initialised = FALSE]

Respond(c) ==
  LET expected == ExpectedCommands[c.expectedCommand]
      answered == IF c.command = expected.command
                  THEN [c EXCEPT !.output = 0, !.responsePtr = 0, !.okResponse = TRUE]
                  ELSE [c EXCEPT !.output = 4, !.expectedCommand = expected.error,
                                 !.okResponse = FALSE]
  IN  InitWriteByte([answered EXCEPT !.commandPtr = 0], "AFTER_COMMAND_RESPONSE")

Execute(c) ==
  LET code == c.command[3]
  IN  CASE c.initialised /\ code = 81 -> ReadCommand(c)
        [] c.initialised /\ code = 64 -> Respond(BackToInit(c))
        [] OTHER                      -> Respond(c)

WaitCommand(c, lines) ==
  LET longer == [c EXCEPT !.command = Append(Tail(@), c.lastByte), !.commandPtr = @ + 1]
  IN  CASE lines.clk = 1 -> c
        [] lines.clk = 0 /\ c.commandPtr = 0 /\ c.lastByte = 255 ->
             InitWaitByte(c, "WAIT_COMMAND")
        [] OTHER ->
             IF longer.commandPtr < 6 THEN InitWaitByte(longer, "WAIT_COMMAND")
             ELSE Execute(longer)

\* After the answer: the rest of the response, or the next expected command.
Accepted(c) ==
  LET ok == ExpectedCommands[c.expectedCommand].ok
  IN  IF ok = -1 THEN [c EXCEPT !.initialised = TRUE] ELSE [c EXCEPT !.expectedCommand = ok]

AfterCommandResponse(c, lines) ==
  LET done == [c EXCEPT !.command = NoCommand]
      response == ExpectedCommands[c.expectedCommand].response
  IN  CASE lines.clk = 1 -> c
        [] lines.clk = 0 /\ ~c.okResponse -> InitWaitByte(done, "WAIT_COMMAND")
        [] lines.clk = 0 /\ c.okResponse /\ c.responsePtr < Len(response) ->
             [InitWriteByte([done EXCEPT !.output = response[c.responsePtr + 1]],
                            "AFTER_COMMAND_RESPONSE") EXCEPT !.responsePtr = @ + 1]
        [] OTHER -> InitWaitByte(Accepted(done), "WAIT_COMMAND")
-----------------------------------------------------------------------------
\* The data of a sector: a token, the bytes, two bytes of checksum.
ReadSectorToken(c, lines) ==
  IF lines.clk = 1 THEN c
  ELSE [InitWriteByte([c EXCEPT !.output = 254], "READ_SECTOR") EXCEPT !.bytesLeft = SectorSize]

ReadSector(c, lines) ==
  LET left == c.bytesLeft - 1
      sent == [c EXCEPT !.output = c.sectorBuffer[SectorSize - c.bytesLeft],
                        !.bytesLeft = IF left > 0 THEN left ELSE 2]
  IN  IF lines.clk = 1 THEN c
      ELSE InitWriteByte(sent, IF left > 0 THEN "READ_SECTOR" ELSE "READ_SECTOR_CRC")

ReadSectorCrc(c, lines) ==
  CASE lines.clk = 1 -> c
    [] lines.clk = 0 /\ c.bytesLeft = 0 ->
         InitWaitByte([c EXCEPT !.command = NoCommand, !.commandPtr = 0], "WAIT_COMMAND")
    [] lines.clk = 0 /\ c.bytesLeft > 0 ->
         InitWriteByte([c EXCEPT !.output = 0, !.bytesLeft = @ - 1], "READ_SECTOR_CRC")

Step(c, lines) ==
  CASE c.state = "WAIT_CLOCKS"            -> WaitClocks(c, lines)
    [] c.state = "WAIT_BYTE"              -> WaitByte(c, lines)
    [] c.state = "WRITE_BYTE"             -> WriteByte(c, lines)
    [] c.state = "WAIT_COMMAND"           -> WaitCommand(c, lines)
    [] c.state = "AFTER_COMMAND_RESPONSE" -> AfterCommandResponse(c, lines)
    [] c.state = "READ_SECTOR_TOKEN"      -> ReadSectorToken(c, lines)
    [] c.state = "READ_SECTOR"            -> ReadSector(c, lines)
    [] c.state = "READ_SECTOR_CRC"        -> ReadSectorCrc(c, lines)

\* mmcClock: only an edge counts.  Without a card the last level is not noted.
Clocked(c, lines) ==
  CASE lines.clk = c.lastClock -> c
    [] lines.clk # c.lastClock /\ ~c.cardInserted -> [c EXCEPT !.miso = 1]
    [] lines.clk # c.lastClock /\ c.cardInserted -> [Step(c, lines) EXCEPT !.lastClock = lines.clk]
=============================================================================
