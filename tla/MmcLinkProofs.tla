---------------------------- MODULE MmcLinkProofs ----------------------------
(***************************************************************************)
(* What holds of MmcLink for every length of a sector, every disk and      *)
(* every number of resets, proved: the types of the card and the driver,   *)
(* that MMCInit succeeds, and that every step of the two is a step of      *)
(* SectorDevice or a stutter.                                              *)
(*                                                                         *)
(* A byte takes sixteen edges of the clock.  The invariant says what the   *)
(* card holds between two bytes, for every place of the driver (About,     *)
(* Returned), and how far both sides have come within one (Hears, Tells).  *)
(***************************************************************************)
EXTENDS MmcLink, SequenceTheorems, TLAPS

-----------------------------------------------------------------------------
(***************************************************************************)
(* Types.                                                                  *)
(***************************************************************************)
Handlers == {"AFTER_COMMAND_RESPONSE", "READ_SECTOR_TOKEN", "READ_SECTOR", "READ_SECTOR_CRC"}

\* The card, whatever was done to it.
CardOk(c) ==
  /\ c \in Cards /\ c.commandPtr <= 5
  /\ c.initialised => c.expectedCommand \in {2, 3}
  /\ c.state = "WAIT_CLOCKS" => /\ c.nextState = "WAIT_CLOCKS" /\ c.clocks < PowerUpClocks
                                /\ ~c.initialised /\ c.expectedCommand = 0
  /\ c.state # "WAIT_CLOCKS" => c.nextState # "WAIT_CLOCKS" /\ c.clocks \in 0 .. 7
  /\ c.state = "WAIT_BYTE" => c.nextState = "WAIT_COMMAND" /\ c.input + 2 * Bit[c.clocks] <= 256
  /\ c.state = "WRITE_BYTE" => c.nextState \in Handlers
  /\ c.state \in Handlers \cup {"WAIT_COMMAND"} => c.nextState = c.state /\ c.lastClock = 1
  /\ c.nextState = "AFTER_COMMAND_RESPONSE" => c.commandPtr = 0
  /\ c.nextState = "READ_SECTOR" => c.bytesLeft \in 1 .. SectorSize
  /\ c.nextState = "READ_SECTOR_CRC" => c.bytesLeft \in 0 .. 2

BytePlaces == {"dummy", "busy", "send", "answer", "r7", "token", "data", "trailer"}
Tries(place) ==
  CASE place = "dummy"   -> DummyBytes
    [] place = "busy"    -> BusyTries
    [] place = "send"    -> 6
    [] place = "answer"  -> ResponseTries
    [] place = "r7"      -> 4
    [] place = "token"   -> TokenTries
    [] place = "data"    -> SectorSize
    [] place = "trailer" -> 3

\* The driver, whatever the card answers: its registers, the lines, where it is
\* and how often it has tried, and what the calls have returned.
Registers(place, b, d, n) ==
  /\ place \in Places /\ b \in 0 .. 8
  /\ place \in BytePlaces => d \in Byte /\ n \in 1 .. Tries(place)
  /\ place \notin BytePlaces => b = 0 /\ d \in Byte \cup {WaitTimeout, ResponseTimeout} /\ n = 0
Levels(place, b, l) ==
  /\ l \in Lines /\ (b = 0 => l.clk = 0)
  /\ place \in {"none", "dummy"} => l.cs = 0
  /\ place \in BytePlaces \cup {"return"} /\ place # "dummy" => l.cs = 1
Course(routine, p, place) ==
  /\ routine \in Calls /\ p \in Phases
  /\ place = "none" <=> routine \in {"boot", "idle"}
  /\ place \in {"none", "dummy"} <=> p = "none"
  /\ place = "dummy" \/ p \in {"cmd0", "cmd8", "cmd55", "acmd41"} => routine = "MMCInit"
  /\ p = "cmd17" => routine = "MMCReadSector"
  /\ p = "cmd24" => routine = "MMCWriteSector"
  /\ place = "r7" => p = "cmd8"
  /\ place \in {"token", "data", "trailer"} => p = "cmd17"
Attempts(p, place, t) ==
  /\ t \in 0 .. Cmd0Tries + Acmd41Tries
  /\ p = "cmd0" => t \in 1 .. Cmd0Tries
  /\ place = "dummy" => t = Cmd0Tries
  /\ p \in {"cmd55", "acmd41"} => t \in 1 .. Acmd41Tries
Results(routine, r, s) ==
  /\ r \in BOOLEAN /\ s \in {"none", "ok", "error"}
  /\ routine \in {"boot", "MMCInit"} => ~r /\ s = "none"
  /\ routine \in {"MMCReadSector", "MMCWriteSector"} => r /\ s = "none"
Asked(s, b) == s \in Requests \cup {0} /\ b \in SectorData

DriverOk ==
  /\ Registers(at, bits, d0, count) /\ Levels(at, bits, lines)
  /\ Course(call, phase, at) /\ Attempts(phase, at, tries) /\ Results(call, ready, status)
  /\ Asked(request, buffer)
  /\ spoilt \in BOOLEAN /\ resets \in 0 .. MaxResets

CardRuns == /\ CardOk(card)
            /\ card.lastClock = IF card.cardInserted THEN lines.clk ELSE 0

-----------------------------------------------------------------------------
(***************************************************************************)
(* Bits.                                                                   *)
(***************************************************************************)
Pow == [n \in 0 .. 8 |-> <<1, 2, 4, 8, 16, 32, 64, 128, 256>>[n + 1]]

\* The lowest l bits of a byte, at its top.
Low(v, l) == (v % Pow[l]) * Pow[8 - l]

\* Of a byte v from the driver, all but l bits have reached the card.
Hears(c, v, l) ==
  /\ c.miso = 1 /\ c.nextState = "WAIT_COMMAND"
  /\ l > 0 => c.state = "WAIT_BYTE" /\ c.clocks = l - 1 /\ c.input = v - (v % Pow[l])
  /\ l = 0 => c.state = "WAIT_COMMAND" /\ c.lastByte = v

\* Of a byte v from the card, all but l bits have been clocked out.
Tells(c, v, next, l) ==
  /\ c.nextState = next
  /\ l > 0 => c.state = "WRITE_BYTE" /\ c.clocks = l - 1 /\ c.output = Low(v, l)
  /\ l = 0 => c.state = next
  /\ c.lastClock = 0 => c.miso = c.output \div 128

\* What the driver's register then has of the byte, or has left to send.
Carries(d, v, place, l) == d = IF place = "send" THEN Low(v, l) ELSE v \div Pow[l]

-----------------------------------------------------------------------------
(***************************************************************************)
(* Bytes.  Command p, for sector s, is sent for the last time but t - 1.   *)
(***************************************************************************)
\* Nothing of a command has reached the card.
Clean(c) == c.commandPtr = 0 /\ c.command = NoCommand
Expects(c, e) == ~c.initialised /\ c.expectedCommand = e

\* What the card waits for when the driver sends the command.
Stage(c, p) ==
  /\ p = "cmd0"   => c.initialised \/ Expects(c, 0)
  /\ p = "cmd8"   => Expects(c, 1)
  /\ p = "cmd55"  => Expects(c, 2)
  /\ p = "acmd41" => Expects(c, 3)
  /\ p \in {"cmd17", "cmd24"} => c.initialised

\* The card has k bytes of the command, below those of an earlier one that a
\* reset has cut off; then command 0 can be tried again.
Stale(p, t) == p = "cmd0" /\ t > 1
Holds(c, p, s, t, k) ==
  /\ c.commandPtr = k
  /\ \A i \in 1 .. k : c.command[8 - k + i] = Frame(p, s)[i]
  /\ Stale(p, t) \/ \A j \in 1 .. 8 - k : c.command[j] = 0

\* The card has read the sector.
Fetched(c, s) ==
  /\ Clean(c) /\ c.initialised
  /\ s < Capacity => c.sectorBuffer = Disk[s]

\* What the card made of the command.
Judged(c, p, s, t) ==
  /\ p = "cmd0"   => Expects(c, 0) /\ (c.okResponse \/ t > 1)
  /\ p = "cmd8"   => Expects(c, 1) /\ c.okResponse
  /\ p = "cmd55"  => Expects(c, 2) /\ c.okResponse
  /\ p = "acmd41" => Expects(c, 3) /\ c.okResponse
  /\ p = "cmd17"  => Fetched(c, s)
  /\ p = "cmd24"  => c.initialised /\ ~c.okResponse
  /\ c.commandPtr = 0 /\ (p # "cmd17" /\ c.okResponse => c.responsePtr = 0)

Response == <<0, 0, 17, 170>>

\* The card while byte n of a place is on the line.
About(c, p, s, t, place, n) ==
  /\ place = "busy"    => Stage(c, p) /\ Holds(c, p, s, t, 0)
  /\ place = "send"    => Stage(c, p) /\ Holds(c, p, s, t, n - 1)
  /\ place = "answer"  => Judged(c, p, s, t)
  /\ place = "r7"      => Clean(c) /\ Expects(c, 1) /\ c.okResponse /\ c.responsePtr = 5 - n
  /\ place = "token"   => Fetched(c, s) /\ c.bytesLeft = SectorSize
  /\ place = "data"    => Fetched(c, s) /\ c.bytesLeft = IF n > 1 THEN n - 1 ELSE 2
  /\ place = "trailer" => Clean(c) /\ c.initialised /\ (n > 1 => c.bytesLeft = n - 2)

Speaks(place, n) == place \in {"answer", "r7", "token", "data"} \/ (place = "trailer" /\ n > 1)

\* What the card says in it, and what it does behind it.
Says(c, p, place, n) ==
  CASE place = "answer"  -> IF p = "cmd17" \/ c.okResponse THEN 0 ELSE 4
    [] place = "r7"      -> Response[5 - n]
    [] place = "token"   -> 254
    [] place = "data"    -> c.sectorBuffer[SectorSize - n]
    [] place = "trailer" -> IF n > 1 THEN 0 ELSE 255
    [] place = "busy"    -> 255
Behind(p, place, n) ==
  CASE place = "answer"  -> IF p = "cmd17" THEN "READ_SECTOR_TOKEN" ELSE "AFTER_COMMAND_RESPONSE"
    [] place = "r7"      -> "AFTER_COMMAND_RESPONSE"
    [] place = "token"   -> "READ_SECTOR"
    [] place = "data"    -> IF n > 1 THEN "READ_SECTOR" ELSE "READ_SECTOR_CRC"
    [] place = "trailer" -> "READ_SECTOR_CRC"

\* The byte that the driver sends in it; reading, it keeps the line high.
Sends(p, s, place, n) == IF place = "send" THEN Frame(p, s)[n] ELSE 255

\* Byte n of a place is on the line, but for l bits of it.
OnLine(c, p, s, t, place, n, l) ==
  /\ About(c, p, s, t, place, n)
  /\ Speaks(place, n)  => Tells(c, Says(c, p, place, n), Behind(p, place, n), l)
  /\ ~Speaks(place, n) => Hears(c, Sends(p, s, place, n), l)

\* Between two commands.
Rests(c) == Hears(c, 255, 8) /\ c.commandPtr = 0
RestsExpecting(c, e) == Rests(c) /\ Clean(c) /\ Expects(c, e)
RestsInitialised(c) == Rests(c) /\ Clean(c) /\ c.initialised

\* After the answer to a command.
Returned(c, p, s, t, d) ==
  /\ p = "cmd0"   => (d = 0 /\ RestsExpecting(c, 1)) \/ (d = 4 /\ t > 1 /\ RestsExpecting(c, 0))
  /\ p = "cmd8"   => d = 0 /\ OnLine(c, p, s, t, "r7", 4, 8)
  /\ p = "cmd55"  => d = 0 /\ RestsExpecting(c, 3)
  /\ p = "acmd41" => d = 0 /\ RestsInitialised(c)
  /\ p = "cmd17"  => d = 0 /\ OnLine(c, p, s, t, "token", 1, 8)
  /\ p = "cmd24"  => d = 4 /\ RestsInitialised(c)

\* After byte n of a place.
Passed(c, p, s, t, place, n, d) ==
  /\ place = "busy"    => d = 255 /\ OnLine(c, p, s, t, "send", 1, 8)
  /\ place = "send"    => IF n < 6 THEN OnLine(c, p, s, t, "send", n + 1, 8)
                          ELSE OnLine(c, p, s, t, "answer", 1, 8)
  /\ place = "answer"  => Returned(c, p, s, t, d)
  /\ place = "r7"      => IF n > 1 THEN OnLine(c, p, s, t, "r7", n - 1, 8)
                          ELSE RestsExpecting(c, 2)
  /\ place = "token"   => d = 254 /\ OnLine(c, p, s, t, "data", SectorSize, 8)
  /\ place = "data"    => /\ s < Capacity => d = Disk[s][SectorSize - n]
                          /\ IF n > 1 THEN OnLine(c, p, s, t, "data", n - 1, 8)
                             ELSE OnLine(c, p, s, t, "trailer", 3, 8)
  /\ place = "trailer" => IF n > 1 THEN OnLine(c, p, s, t, "trailer", n - 1, 8)
                          ELSE RestsInitialised(c)

\* Byte n of a place is on the line, b bits of it or of its last edge are left
\* to the driver, whose register is d; or it has passed.
Byteway(c, p, s, t, place, n, b, clk, d) ==
  IF b > 0
  THEN /\ OnLine(c, p, s, t, place, n, b - clk)
       /\ Carries(d, IF place = "send" THEN Sends(p, s, place, n) ELSE Says(c, p, place, n),
                  place, b - clk)
  ELSE Passed(c, p, s, t, place, n, d)

\* All but the last n bytes of sector s are in the buffer.
Filled(s, b, n) == s < Capacity => \A i \in 0 .. SectorSize - n - 1 : b[i] = Disk[s][i]

-----------------------------------------------------------------------------
(***************************************************************************)
(* Starting.                                                               *)
(***************************************************************************)
\* What a reset may leave the card at so that MMCInit still works.
Restorable(c) ==
  \/ c.state = "WAIT_CLOCKS"
  \/ c.state = "WAIT_BYTE" /\ Stage(c, "cmd0")
  \/ c.state = "WRITE_BYTE" /\ c.nextState = "AFTER_COMMAND_RESPONSE" /\ c.initialised

\* The dummy clocks that are left suffice to take it from there to rest.
ClocksLeft == 8 * (count - 1) + bits - lines.clk
Wakes(c, left) ==
  \/ c.state = "WAIT_CLOCKS" /\ PowerUpClocks - c.clocks <= left
  \/ c.state = "WAIT_BYTE" /\ Stage(c, "cmd0") /\ (Rests(c) \/ left > 0 \/ c.lastClock = 1)
  \/ /\ c.state = "WRITE_BYTE" /\ c.nextState = "AFTER_COMMAND_RESPONSE" /\ c.initialised
     /\ c.clocks + 1 <= left
  \/ c.state = "AFTER_COMMAND_RESPONSE" /\ c.initialised

-----------------------------------------------------------------------------
(***************************************************************************)
(* The invariant.                                                          *)
(***************************************************************************)
\* Driver and card are at the same bit of the same byte.
InStep ==
  /\ call = "boot" => Restorable(card)
  /\ call = "idle" => ready /\ RestsInitialised(card)
  /\ at = "dummy"  => Wakes(card, ClocksLeft)
  /\ at = "select" => Rests(card) /\ Stage(card, phase) /\ (Stale(phase, tries) \/ Clean(card))
  /\ at = "return" => Returned(card, phase, request, tries, d0)
  /\ at \in BytePlaces \ {"dummy"} =>
       Byteway(card, phase, request, tries, at, count, bits, lines.clk, d0)
  /\ at = "data" => Filled(request, buffer, count)
  /\ at = "trailer" => Filled(request, buffer, 0)

\* Without a card every byte reads as 255.
Absent ==
  /\ ~spoilt /\ ~ready /\ call \in {"boot", "MMCInit", "idle"} /\ phase \in {"none", "cmd0"}
  /\ card.state = "WAIT_CLOCKS"
  /\ at \in {"busy", "answer"} => Carries(d0, 255, at, bits - lines.clk)
  /\ at = "return" => d0 = ResponseTimeout

Inv ==
  /\ DriverOk /\ CardRuns
  /\ card.cardInserted /\ ~spoilt => InStep
  /\ ~card.cardInserted => Absent

-----------------------------------------------------------------------------
(***************************************************************************)
(* The arithmetic of a byte that is shifted, bit by bit.                   *)
(***************************************************************************)
LEMMA Powers ==
  /\ Pow[0] = 1 /\ Pow[1] = 2 /\ Pow[2] = 4 /\ Pow[3] = 8 /\ Pow[4] = 16
  /\ Pow[5] = 32 /\ Pow[6] = 64 /\ Pow[7] = 128 /\ Pow[8] = 256
<1> DEFINE T == <<1, 2, 4, 8, 16, 32, 64, 128, 256>>
<1>1. \A n \in 0 .. 8 : Pow[n] = T[n + 1]
  BY DEF Pow
<1>2. T[1] = 1 /\ T[2] = 2 /\ T[3] = 4 /\ T[4] = 8 /\ T[5] = 16 /\ T[6] = 32 /\ T[7] = 64
      /\ T[8] = 128 /\ T[9] = 256
  OBVIOUS
<1> HIDE DEF T
<1>3. QED
  BY <1>1, <1>2

LEMMA Bits ==
  /\ Bit[0] = 1 /\ Bit[1] = 2 /\ Bit[2] = 4 /\ Bit[3] = 8 /\ Bit[4] = 16
  /\ Bit[5] = 32 /\ Bit[6] = 64 /\ Bit[7] = 128
<1> DEFINE T == <<1, 2, 4, 8, 16, 32, 64, 128>>
<1>1. \A n \in 0 .. 7 : Bit[n] = T[n + 1]
  BY DEF Bit
<1>2. T[1] = 1 /\ T[2] = 2 /\ T[3] = 4 /\ T[4] = 8 /\ T[5] = 16 /\ T[6] = 32 /\ T[7] = 64
      /\ T[8] = 128
  OBVIOUS
<1> HIDE DEF T
<1>3. QED
  BY <1>1, <1>2

\* One bit of a byte that goes to the card: what the driver has left of it,
\* and what the card has of it.
LEMMA BitSent ==
  ASSUME NEW v \in Byte, NEW l \in 1 .. 8, NEW w, w = Low(v, l)
  PROVE  /\ w \in Byte /\ w \div 128 \in {0, 1}
         /\ (w * 2) % 256 = Low(v, l - 1)
         /\ (v - (v % Pow[l])) + (w \div 128) * Bit[l - 1] = v - (v % Pow[l - 1])
<1> v \in 0 .. 255
  BY DEF Byte
<1>1. CASE l = 1
  <2>1. Pow[l] = 2 /\ Pow[8 - l] = 128 /\ Pow[l - 1] = 1 /\ Pow[8 - (l - 1)] = 256 /\ Bit[l - 1] = 1
    BY <1>1, Powers, Bits
  <2>2. w = (v % 2) * 128 /\ Low(v, l - 1) = (v % 1) * 256
    BY ONLY <2>1, w = Low(v, l) DEF Low
  <2>3. QED
    BY ONLY <2>1, <2>2, v \in 0 .. 255 DEF Byte
<1>2. CASE l = 2
  <2>1. Pow[l] = 4 /\ Pow[8 - l] = 64 /\ Pow[l - 1] = 2 /\ Pow[8 - (l - 1)] = 128 /\ Bit[l - 1] = 2
    BY <1>2, Powers, Bits
  <2>2. w = (v % 4) * 64 /\ Low(v, l - 1) = (v % 2) * 128
    BY ONLY <2>1, w = Low(v, l) DEF Low
  <2>3. QED
    BY ONLY <2>1, <2>2, v \in 0 .. 255 DEF Byte
<1>3. CASE l = 3
  <2>1. Pow[l] = 8 /\ Pow[8 - l] = 32 /\ Pow[l - 1] = 4 /\ Pow[8 - (l - 1)] = 64 /\ Bit[l - 1] = 4
    BY <1>3, Powers, Bits
  <2>2. w = (v % 8) * 32 /\ Low(v, l - 1) = (v % 4) * 64
    BY ONLY <2>1, w = Low(v, l) DEF Low
  <2>3. QED
    BY ONLY <2>1, <2>2, v \in 0 .. 255 DEF Byte
<1>4. CASE l = 4
  <2>1. Pow[l] = 16 /\ Pow[8 - l] = 16 /\ Pow[l - 1] = 8 /\ Pow[8 - (l - 1)] = 32 /\ Bit[l - 1] = 8
    BY <1>4, Powers, Bits
  <2>2. w = (v % 16) * 16 /\ Low(v, l - 1) = (v % 8) * 32
    BY ONLY <2>1, w = Low(v, l) DEF Low
  <2>3. QED
    BY ONLY <2>1, <2>2, v \in 0 .. 255 DEF Byte
<1>5. CASE l = 5
  <2>1. Pow[l] = 32 /\ Pow[8 - l] = 8 /\ Pow[l - 1] = 16 /\ Pow[8 - (l - 1)] = 16 /\ Bit[l - 1] = 16
    BY <1>5, Powers, Bits
  <2>2. w = (v % 32) * 8 /\ Low(v, l - 1) = (v % 16) * 16
    BY ONLY <2>1, w = Low(v, l) DEF Low
  <2>3. QED
    BY ONLY <2>1, <2>2, v \in 0 .. 255 DEF Byte
<1>6. CASE l = 6
  <2>1. Pow[l] = 64 /\ Pow[8 - l] = 4 /\ Pow[l - 1] = 32 /\ Pow[8 - (l - 1)] = 8 /\ Bit[l - 1] = 32
    BY <1>6, Powers, Bits
  <2>2. w = (v % 64) * 4 /\ Low(v, l - 1) = (v % 32) * 8
    BY ONLY <2>1, w = Low(v, l) DEF Low
  <2>3. QED
    BY ONLY <2>1, <2>2, v \in 0 .. 255 DEF Byte
<1>7. CASE l = 7
  <2>1. Pow[l] = 128 /\ Pow[8 - l] = 2 /\ Pow[l - 1] = 64 /\ Pow[8 - (l - 1)] = 4 /\ Bit[l - 1] = 64
    BY <1>7, Powers, Bits
  <2>2. w = (v % 128) * 2 /\ Low(v, l - 1) = (v % 64) * 4
    BY ONLY <2>1, w = Low(v, l) DEF Low
  <2>3. QED
    BY ONLY <2>1, <2>2, v \in 0 .. 255 DEF Byte
<1>8. CASE l = 8
  <2>1. Pow[l] = 256 /\ Pow[8 - l] = 1 /\ Pow[l - 1] = 128 /\ Pow[8 - (l - 1)] = 2 /\ Bit[l - 1] = 128
    BY <1>8, Powers, Bits
  <2>2. w = (v % 256) * 1 /\ Low(v, l - 1) = (v % 128) * 2
    BY ONLY <2>1, w = Low(v, l) DEF Low
  <2>3. QED
    BY ONLY <2>1, <2>2, v \in 0 .. 255 DEF Byte
<1>9. QED
  BY <1>1, <1>2, <1>3, <1>4, <1>5, <1>6, <1>7, <1>8

\* One bit of a byte that the card says: what it has left to say, and what the
\* driver has heard.
LEMMA BitHeard ==
  ASSUME NEW v \in Byte, NEW l \in 1 .. 8
  PROVE  /\ v \div Pow[l] \in Byte
         /\ (((v \div Pow[l]) * 2) % 256) + (Low(v, l) \div 128) = v \div Pow[l - 1]
<1> v \in 0 .. 255
  BY DEF Byte
<1>1. CASE l = 1
  <2>1. Pow[l] = 2 /\ Pow[8 - l] = 128 /\ Pow[l - 1] = 1 /\ Pow[8 - (l - 1)] = 256 /\ Bit[l - 1] = 1
    BY <1>1, Powers, Bits
  <2>2. Low(v, l) = (v % 2) * 128
    BY ONLY <2>1 DEF Low
  <2>3. QED
    BY ONLY <2>1, <2>2, v \in 0 .. 255 DEF Byte
<1>2. CASE l = 2
  <2>1. Pow[l] = 4 /\ Pow[8 - l] = 64 /\ Pow[l - 1] = 2 /\ Pow[8 - (l - 1)] = 128 /\ Bit[l - 1] = 2
    BY <1>2, Powers, Bits
  <2>2. Low(v, l) = (v % 4) * 64
    BY ONLY <2>1 DEF Low
  <2>3. QED
    BY ONLY <2>1, <2>2, v \in 0 .. 255 DEF Byte
<1>3. CASE l = 3
  <2>1. Pow[l] = 8 /\ Pow[8 - l] = 32 /\ Pow[l - 1] = 4 /\ Pow[8 - (l - 1)] = 64 /\ Bit[l - 1] = 4
    BY <1>3, Powers, Bits
  <2>2. Low(v, l) = (v % 8) * 32
    BY ONLY <2>1 DEF Low
  <2>3. QED
    BY ONLY <2>1, <2>2, v \in 0 .. 255 DEF Byte
<1>4. CASE l = 4
  <2>1. Pow[l] = 16 /\ Pow[8 - l] = 16 /\ Pow[l - 1] = 8 /\ Pow[8 - (l - 1)] = 32 /\ Bit[l - 1] = 8
    BY <1>4, Powers, Bits
  <2>2. Low(v, l) = (v % 16) * 16
    BY ONLY <2>1 DEF Low
  <2>3. QED
    BY ONLY <2>1, <2>2, v \in 0 .. 255 DEF Byte
<1>5. CASE l = 5
  <2>1. Pow[l] = 32 /\ Pow[8 - l] = 8 /\ Pow[l - 1] = 16 /\ Pow[8 - (l - 1)] = 16 /\ Bit[l - 1] = 16
    BY <1>5, Powers, Bits
  <2>2. Low(v, l) = (v % 32) * 8
    BY ONLY <2>1 DEF Low
  <2>3. QED
    BY ONLY <2>1, <2>2, v \in 0 .. 255 DEF Byte
<1>6. CASE l = 6
  <2>1. Pow[l] = 64 /\ Pow[8 - l] = 4 /\ Pow[l - 1] = 32 /\ Pow[8 - (l - 1)] = 8 /\ Bit[l - 1] = 32
    BY <1>6, Powers, Bits
  <2>2. Low(v, l) = (v % 64) * 4
    BY ONLY <2>1 DEF Low
  <2>3. QED
    BY ONLY <2>1, <2>2, v \in 0 .. 255 DEF Byte
<1>7. CASE l = 7
  <2>1. Pow[l] = 128 /\ Pow[8 - l] = 2 /\ Pow[l - 1] = 64 /\ Pow[8 - (l - 1)] = 4 /\ Bit[l - 1] = 64
    BY <1>7, Powers, Bits
  <2>2. Low(v, l) = (v % 128) * 2
    BY ONLY <2>1 DEF Low
  <2>3. QED
    BY ONLY <2>1, <2>2, v \in 0 .. 255 DEF Byte
<1>8. CASE l = 8
  <2>1. Pow[l] = 256 /\ Pow[8 - l] = 1 /\ Pow[l - 1] = 128 /\ Pow[8 - (l - 1)] = 2 /\ Bit[l - 1] = 128
    BY <1>8, Powers, Bits
  <2>2. Low(v, l) = (v % 256) * 1
    BY ONLY <2>1 DEF Low
  <2>3. QED
    BY ONLY <2>1, <2>2, v \in 0 .. 255 DEF Byte
<1>9. QED
  BY <1>1, <1>2, <1>3, <1>4, <1>5, <1>6, <1>7, <1>8

-----------------------------------------------------------------------------
(***************************************************************************)
(* The commands, byte by byte.                                             *)
(***************************************************************************)
\* x is the shift register m after byte b.
ShiftedIn(m, b, x) == x \in Commands /\ x[8] = b /\ \A i \in 1 .. 7 : x[i] = m[i + 1]

LEMMA ShiftIn ==
  ASSUME NEW m \in Commands, NEW b \in Byte, NEW x, x = Append(Tail(m), b)
  PROVE  ShiftedIn(m, b, x)
<1> DEFINE q == <<m[1], m[2], m[3], m[4], m[5], m[6], m[7], m[8]>>
<1>1. q \in Seq(Byte) /\ Len(q) = 8 /\ m = q
  <2>1. m[1] \in Byte /\ m[2] \in Byte /\ m[3] \in Byte /\ m[4] \in Byte
        /\ m[5] \in Byte /\ m[6] \in Byte /\ m[7] \in Byte /\ m[8] \in Byte
    BY DEF Commands
  <2>2. q \in Seq(Byte) /\ Len(q) = 8
    BY <2>1
  <2>3. m = q
    BY ONLY m \in Commands DEF Commands
  <2>4. QED
    BY <2>2, <2>3
<1>2. /\ Tail(m) \in Seq(Byte) /\ Len(Tail(m)) = 7
      /\ \A i \in 1 .. 7 : Tail(m)[i] = m[i + 1]
  <2> HIDE DEF q
  <2>1. m \in Seq(Byte) /\ m # << >> /\ Len(m) = 8
    BY <1>1, EmptySeq
  <2>2. Tail(m) \in Seq(Byte) /\ Len(Tail(m)) = Len(m) - 1
        /\ \A i \in 1 .. Len(Tail(m)) : Tail(m)[i] = m[i + 1]
    BY ONLY <2>1, HeadTailProperties
  <2>3. PICK t : t = Tail(m)
    OBVIOUS
  <2>4. t \in Seq(Byte) /\ Len(t) = Len(m) - 1 /\ \A i \in 1 .. Len(t) : t[i] = m[i + 1]
    BY ONLY <2>2, <2>3, Zenon
  <2>5. t \in Seq(Byte) /\ Len(t) = 7 /\ \A i \in 1 .. 7 : t[i] = m[i + 1]
    BY ONLY <2>1, <2>4
  <2>6. QED
    BY ONLY <2>3, <2>5, Zenon
<1>3. PICK t \in Seq(Byte) : t = Tail(m) /\ Len(t) = 7 /\ \A i \in 1 .. 7 : t[i] = m[i + 1]
  BY <1>2
<1>4. x \in Seq(Byte) /\ Len(x) = 8 /\ x[8] = b /\ \A i \in 1 .. 7 : x[i] = t[i]
  <2>1. /\ Append(t, b) \in Seq(Byte) /\ Len(Append(t, b)) = Len(t) + 1
        /\ \A i \in 1 .. Len(t) : Append(t, b)[i] = t[i]
        /\ Append(t, b)[Len(t) + 1] = b
    BY ONLY t \in Seq(Byte), b \in Byte, AppendProperties
  <2>2. x = Append(t, b)
    BY <1>3
  <2>3. x \in Seq(Byte) /\ Len(x) = Len(t) + 1 /\ x[Len(t) + 1] = b
        /\ \A i \in 1 .. Len(t) : x[i] = t[i]
    BY ONLY <2>1, <2>2, Zenon
  <2>4. Len(t) = 7 /\ \A i \in 1 .. 7 : t[i] = m[i + 1]
    BY <1>3
  <2>5. QED
    BY ONLY <2>3, <2>4
<1>5. x \in Commands
  BY <1>4, LenProperties DEF Commands
<1>6. QED
  BY <1>3, <1>4, <1>5 DEF ShiftedIn

LEMMA SameBytes ==
  ASSUME NEW x \in Commands, NEW y \in Commands,
         \A i \in 1 .. 8 : x[i] = y[i]
  PROVE  x = y
BY DEF Commands

LEMMA NoCommandIs ==
  NoCommand \in Commands /\ \A i \in 1 .. 8 : NoCommand[i] = 0
<1>1. NoCommand = [i \in 1 .. 8 |-> 0]
  BY DEF NoCommand
<1>2. QED
  BY <1>1 DEF Byte, Commands

LEMMA Expected ==
  /\ ExpectedCommands[0] = [command |-> <<0, 0, 64, 0, 0, 0, 0, 149>>, response |-> <<>>, ok |-> 1, error |-> 0]
  /\ ExpectedCommands[1] = [command |-> <<0, 0, 72, 0, 0, 1, 170, 135>>, response |-> <<0, 0, 17, 170>>,
                            ok |-> 2, error |-> 1]
  /\ ExpectedCommands[2] = [command |-> <<0, 0, 119, 0, 0, 0, 0, 255>>, response |-> <<>>, ok |-> 3, error |-> 2]
  /\ ExpectedCommands[3] = [command |-> <<0, 0, 105, 64, 0, 0, 0, 255>>, response |-> <<>>,
                            ok |-> -1, error |-> 2]
BY DEF ExpectedCommands

\* The bytes the driver sends.
LEMMA FrameBytes ==
  ASSUME NEW p \in Phases \ {"none"}, NEW s \in Nat
  PROVE  /\ \A i \in 1 .. 6 : Frame(p, s)[i] \in Byte
         /\ Frame(p, s)[1] # 255
<1> DEFINE C(code) == Command(code, s)
<1>1. ASSUME NEW code \in 0 .. 254
      PROVE  (\A i \in 1 .. 6 : C(code)[i] \in Byte) /\ C(code)[1] # 255
  <2>1. \A n \in Nat : n % 256 \in Byte
    BY DEF Byte
  <2>2. s \div 16777216 \in Nat /\ s \div 65536 \in Nat /\ s \div 256 \in Nat
    BY SMT
  <2>3. PICK a \in Byte, b \in Byte, c \in Byte, d \in Byte :
          C(code) = <<code, a, b, c, d, 255>>
    BY <2>1, <2>2, SMT DEF Command
  <2>4. QED
    BY ONLY <2>3, code \in 0 .. 254 DEF Byte
<1>2. CASE p = "cmd17"
  <2>1. Frame(p, s) = C(81)
    BY <1>2 DEF Frame
  <2>2. QED
    BY <1>1, <2>1
<1>3. CASE p = "cmd24"
  <2>1. Frame(p, s) = C(88)
    BY <1>3 DEF Frame
  <2>2. QED
    BY <1>1, <2>1
<1>4. CASE p \notin {"cmd17", "cmd24"}
  <2>1. CASE p = "cmd0"
    <3>1. PICK f : f = <<64, 0, 0, 0, 0, 149>>
      OBVIOUS
    <3>2. (\A i \in 1 .. 6 : f[i] \in Byte) /\ f[1] # 255
      BY ONLY <3>1 DEF Byte
    <3>3. Frame(p, s) = f
      BY <2>1, <3>1 DEF Frame
    <3>4. QED
      BY <3>2, <3>3
  <2>2. CASE p = "cmd8"
    <3>1. PICK f : f = <<72, 0, 0, 1, 170, 135>>
      OBVIOUS
    <3>2. (\A i \in 1 .. 6 : f[i] \in Byte) /\ f[1] # 255
      BY ONLY <3>1 DEF Byte
    <3>3. Frame(p, s) = f
      BY <2>2, <3>1 DEF Frame
    <3>4. QED
      BY <3>2, <3>3
  <2>3. CASE p = "cmd55"
    <3>1. PICK f : f = <<119, 0, 0, 0, 0, 255>>
      OBVIOUS
    <3>2. (\A i \in 1 .. 6 : f[i] \in Byte) /\ f[1] # 255
      BY ONLY <3>1 DEF Byte
    <3>3. Frame(p, s) = f
      BY <2>3, <3>1 DEF Frame
    <3>4. QED
      BY <3>2, <3>3
  <2>4. CASE p = "acmd41"
    <3>1. PICK f : f = <<105, 64, 0, 0, 0, 255>>
      OBVIOUS
    <3>2. (\A i \in 1 .. 6 : f[i] \in Byte) /\ f[1] # 255
      BY ONLY <3>1 DEF Byte
    <3>3. Frame(p, s) = f
      BY <2>4, <3>1 DEF Frame
    <3>4. QED
      BY <3>2, <3>3
  <2>5. QED
    BY <1>4, <2>1, <2>2, <2>3, <2>4 DEF Phases
<1>5. QED
  BY <1>2, <1>3, <1>4

\* The 32 bits of a sector, taken apart and put together.
LEMMA SectorSent ==
  ASSUME NEW s \in Nat, s < Capacity, NEW c,
         \A i \in 1 .. 6 : c.command[2 + i] = Frame("cmd17", s)[i]
  PROVE  Sector(c) = s /\ c.command[3] = 81
<1> DEFINE F == Frame("cmd17", s)
<1>1. PICK w \in Nat, x \in Nat, y \in Nat, z \in Nat :
        /\ x = (s \div 65536) % 256 /\ y = (s \div 256) % 256 /\ z = s % 256
        /\ F = <<81, w, x, y, z, 255>>
  <2>1. F = <<81, (s \div 16777216) % 256, (s \div 65536) % 256, (s \div 256) % 256, s % 256, 255>>
    BY SMT DEF Frame, Command
  <2>2. \A n \in Nat : n % 256 \in Nat
    OBVIOUS
  <2>3. s \div 16777216 \in Nat /\ s \div 65536 \in Nat /\ s \div 256 \in Nat
    BY SMT
  <2> HIDE DEF F
  <2>4. QED
    BY ONLY <2>1, <2>2, <2>3, s \in Nat, SMT
<1> HIDE DEF F
<1>2. F[1] = 81 /\ F[3] = x /\ F[4] = y /\ F[5] = z
  BY ONLY <1>1
<1>3. \A i \in 1 .. 6 : c.command[2 + i] = F[i]
  BY DEF F
<1>4. c.command[3] = 81 /\ c.command[5] = x /\ c.command[6] = y /\ c.command[7] = z
  BY ONLY <1>2, <1>3
<1>5. s < 8388608 /\ SectorSpace \in Nat /\ s < SectorSpace
  <2>1. SectorSpace \in Nat /\ SectorSpace <= 8388608 /\ Capacity \in 1 .. SectorSpace
    BY ONLY MmcCardAssumption, SMT
  <2>2. QED
    BY ONLY <2>1, s \in Nat, s < Capacity, SMT
<1>6. (x * 256 + y) * 256 + z = s
  BY ONLY <1>1, <1>5, s \in Nat, SMT
<1>7. s % SectorSpace = s
  BY ONLY <1>5, s \in Nat, SMT
<1>8. QED
  BY ONLY <1>4, <1>6, <1>7 DEF Sector

-----------------------------------------------------------------------------
(***************************************************************************)
(* The card at an edge of the clock.                                       *)
(***************************************************************************)
\* What the bits of a byte leave as it is.
Kept(c, d) ==
  /\ d.command = c.command /\ d.commandPtr = c.commandPtr
  /\ d.expectedCommand = c.expectedCommand /\ d.initialised = c.initialised
  /\ d.okResponse = c.okResponse /\ d.responsePtr = c.responsePtr
  /\ d.bytesLeft = c.bytesLeft /\ d.sectorBuffer = c.sectorBuffer

\* The card is about to hear a byte, or to say one.
Begins(d) ==
  /\ d.state = "WAIT_BYTE" /\ d.nextState = "WAIT_COMMAND" /\ d.clocks = 7
  /\ d.input = 0 /\ d.miso = 1 /\ d.lastClock = 0
Utters(d, v, next) ==
  /\ d.state = "WRITE_BYTE" /\ d.nextState = next /\ d.clocks = 7
  /\ d.output = v /\ d.miso = v \div 128 /\ d.lastClock = 0

\* The lines have an edge of the clock for the card.
Edge(c, l) == c \in Cards /\ c.cardInserted /\ l \in Lines /\ l.clk # c.lastClock

LEMMA Members ==
  /\ 0 .. 7 \subseteq Clocks /\ 0 .. 2 \subseteq Lengths /\ SectorSize \in Lengths
  /\ 0 \in Byte /\ 4 \in Byte /\ 254 \in Byte /\ 255 \in Byte
  /\ \A v \in Byte : v \div 128 \in {0, 1}
  /\ {"WAIT_CLOCKS", "WAIT_BYTE", "WRITE_BYTE", "WAIT_COMMAND", "AFTER_COMMAND_RESPONSE",
      "READ_SECTOR_TOKEN", "READ_SECTOR", "READ_SECTOR_CRC"} \subseteq States
BY MmcCardAssumption DEF Byte, States, Clocks, Lengths

LEMMA ReadingIs ==
  ASSUME NEW c \in Cards, NEW d, d = [InitWaitByte(c, "WAIT_COMMAND") EXCEPT !.lastClock = 0]
  PROVE  Begins(d) /\ Kept(c, d) /\ d \in Cards /\ d.cardInserted = c.cardInserted
<1>1. d = [c EXCEPT !.clocks = 7, !.input = 0, !.miso = 1, !.state = "WAIT_BYTE",
                    !.nextState = "WAIT_COMMAND", !.lastClock = 0]
  BY DEF Cards, InitWaitByte, ResetRead
<1>2. Begins(d) /\ Kept(c, d) /\ d.cardInserted = c.cardInserted
  BY <1>1 DEF Cards, Begins, Kept
<1>3. PICK v \in Byte, n \in Clocks, q \in States, next \in States, m \in {0, 1}, k \in {0, 1} :
        v = 0 /\ n = 7 /\ q = "WAIT_BYTE" /\ next = "WAIT_COMMAND" /\ m = 1 /\ k = 0
  BY Members
<1>4. d \in Cards
  BY ONLY c \in Cards, <1>1, <1>3, v \in Byte, n \in Clocks, q \in States, next \in States,
          m \in {0, 1}, k \in {0, 1} DEF Cards
<1>5. QED
  BY <1>2, <1>4

LEMMA WritingIs ==
  ASSUME NEW c \in Cards, NEW next \in States, NEW w, w = InitWriteByte(c, next),
         NEW d, d = [w EXCEPT !.lastClock = 0]
  PROVE  /\ Utters(d, c.output, next) /\ Kept(c, d) /\ d \in Cards
         /\ w \in Cards /\ Kept(c, w) /\ d.cardInserted = c.cardInserted
<1>1. PICK m \in {0, 1} : m = c.output \div 128
  BY Members DEF Cards
<1>2. w = [c EXCEPT !.clocks = 7, !.input = 0, !.state = "WRITE_BYTE", !.nextState = next, !.miso = m]
  <2>1. PICK u : u = [c EXCEPT !.clocks = 7, !.input = 0, !.miso = 1, !.state = "WRITE_BYTE",
                               !.nextState = next]
    OBVIOUS
  <2>2. InitWriteByte(c, next) = WriteBit(u)
    BY <2>1 DEF Cards, InitWriteByte, ResetRead
  <2>3. u.output = c.output
    BY <2>1 DEF Cards
  <2>4. w = [u EXCEPT !.miso = m]
    BY ONLY <1>1, <2>2, <2>3, w = InitWriteByte(c, next) DEF WriteBit
  <2>5. QED
    BY ONLY <2>1, <2>4, c \in Cards DEF Cards
<1>3. PICK v \in Byte, n \in Clocks, q \in States, k \in {0, 1} :
        v = 0 /\ n = 7 /\ q = "WRITE_BYTE" /\ k = 0
  BY Members
<1>4. w \in Cards
  BY ONLY c \in Cards, next \in States, m \in {0, 1}, <1>2, <1>3, v \in Byte, n \in Clocks,
          q \in States DEF Cards
<1>5. d = [w EXCEPT !.lastClock = k]
  BY <1>3
<1>6. d \in Cards
  BY ONLY <1>4, <1>5, k \in {0, 1} DEF Cards
<1>7. Kept(c, w) /\ w.cardInserted = c.cardInserted
  BY ONLY <1>2, c \in Cards DEF Cards, Kept
<1>8. Kept(c, d) /\ d.cardInserted = c.cardInserted
  BY ONLY <1>4, <1>5, <1>7 DEF Cards, Kept
<1>9. Utters(d, c.output, next)
  BY ONLY <1>1, <1>2, <1>3, <1>5, c \in Cards DEF Cards, Utters
<1>10. QED
  BY <1>4, <1>6, <1>7, <1>8, <1>9

\* WAIT_COMMAND: a byte of all ones before a command is no command.
LEMMA WaitCommandIdle ==
  ASSUME NEW c, NEW l, Edge(c, l), NEW d, d = Clocked(c, l), c.state = "WAIT_COMMAND", l.clk = 0,
         c.commandPtr = 0, c.lastByte = 255
  PROVE  Begins(d) /\ Kept(c, d) /\ d \in Cards /\ d.cardInserted = c.cardInserted
<1>1. Step(c, l) = InitWaitByte(c, "WAIT_COMMAND")
  BY DEF Edge, Cards, Step, WaitCommand
<1>2. d = [InitWaitByte(c, "WAIT_COMMAND") EXCEPT !.lastClock = 0]
  BY <1>1 DEF Edge, Clocked
<1>3. c \in Cards
  BY DEF Edge
<1>4. QED
  BY ONLY <1>2, <1>3, ReadingIs

\* The command with the byte that has come in.
Longer(c) == [c EXCEPT !.command = Append(Tail(c.command), c.lastByte), !.commandPtr = c.commandPtr + 1]

LEMMA LongerIs ==
  ASSUME NEW c \in Cards, c.commandPtr <= 5, NEW x, x = Longer(c)
  PROVE  /\ x \in Cards /\ x.commandPtr = c.commandPtr + 1
         /\ \A i \in 1 .. 7 : x.command[i] = c.command[i + 1]
         /\ x.command[8] = c.lastByte
         /\ x.expectedCommand = c.expectedCommand /\ x.initialised = c.initialised
         /\ x.okResponse = c.okResponse /\ x.responsePtr = c.responsePtr
         /\ x.bytesLeft = c.bytesLeft /\ x.sectorBuffer = c.sectorBuffer
         /\ x.cardInserted = c.cardInserted
<1>1. PICK m : m = Append(Tail(c.command), c.lastByte)
  OBVIOUS
<1>2. c.command \in Commands /\ c.lastByte \in Byte /\ c.commandPtr \in 0 .. 6
  BY DEF Cards
<1>3. m \in Commands /\ m[8] = c.lastByte /\ \A i \in 1 .. 7 : m[i] = c.command[i + 1]
  <2>1. PICK q \in Commands, v \in Byte : q = c.command /\ v = c.lastByte
    BY <1>2
  <2>2. m = Append(Tail(q), v)
    BY ONLY <1>1, <2>1
  <2>3. ShiftedIn(q, v, m)
    BY ONLY q \in Commands, v \in Byte, <2>2, ShiftIn
  <2>4. QED
    BY ONLY <2>1, <2>3 DEF ShiftedIn
<1>4. PICK k \in 0 .. 6 : k = c.commandPtr + 1
  BY <1>2
<1>5. x = [c EXCEPT !.command = m, !.commandPtr = k]
  BY <1>1, <1>4 DEF Longer
<1>6. x \in Cards
  BY ONLY c \in Cards, <1>3, k \in 0 .. 6, <1>5 DEF Cards
<1>7. /\ x.command = m /\ x.commandPtr = k
      /\ x.expectedCommand = c.expectedCommand /\ x.initialised = c.initialised
      /\ x.okResponse = c.okResponse /\ x.responsePtr = c.responsePtr
      /\ x.bytesLeft = c.bytesLeft /\ x.sectorBuffer = c.sectorBuffer
      /\ x.cardInserted = c.cardInserted
  BY ONLY <1>5, c \in Cards DEF Cards
<1>8. QED
  BY ONLY <1>3, <1>4, <1>6, <1>7

LEMMA WaitCommandMore ==
  ASSUME NEW c, NEW l, Edge(c, l), NEW d, d = Clocked(c, l), c.state = "WAIT_COMMAND", l.clk = 0,
         ~(c.commandPtr = 0 /\ c.lastByte = 255), c.commandPtr < 5
  PROVE  Begins(d) /\ Kept(Longer(c), d) /\ d \in Cards /\ d.cardInserted = c.cardInserted
<1>1. c \in Cards /\ c.commandPtr \in 0 .. 6
  BY DEF Edge, Cards
<1>2. PICK x : x = Longer(c)
  OBVIOUS
<1>3. x \in Cards /\ x.commandPtr = c.commandPtr + 1 /\ x.cardInserted = c.cardInserted
  BY ONLY <1>1, <1>2, c.commandPtr < 5, LongerIs
<1>4. Step(c, l) = WaitCommand(c, l)
  BY DEF Edge, Cards, Step
<1>5. WaitCommand(c, l) = InitWaitByte(x, "WAIT_COMMAND")
  BY ONLY <1>1, <1>2, <1>3, l.clk = 0, c.commandPtr < 5, ~(c.commandPtr = 0 /\ c.lastByte = 255)
     DEF WaitCommand, Longer
<1>6. d = [InitWaitByte(x, "WAIT_COMMAND") EXCEPT !.lastClock = 0]
  BY <1>4, <1>5 DEF Edge, Clocked
<1>7. QED
  BY ONLY <1>2, <1>3, <1>6, ReadingIs

\* The sixth byte of a command.
SixthByte(c, l, x) ==
  /\ Edge(c, l) /\ c.state = "WAIT_COMMAND" /\ l.clk = 0 /\ c.commandPtr = 5
  /\ x = Longer(c)

LEMMA SixthIs ==
  ASSUME NEW c, NEW l, NEW x, SixthByte(c, l, x), NEW d, d = Clocked(c, l)
  PROVE  x \in Cards /\ d = [Execute(x) EXCEPT !.lastClock = 0]
<1>1. c \in Cards /\ c.commandPtr = 5 /\ x = Longer(c) /\ l.clk = 0
  BY DEF SixthByte, Edge
<1>2. x \in Cards /\ x.commandPtr = 6
  BY ONLY <1>1, LongerIs
<1>3. Step(c, l) = WaitCommand(c, l)
  BY DEF SixthByte, Edge, Cards, Step
<1>4. WaitCommand(c, l) = Execute(x)
  BY ONLY <1>1, <1>2 DEF WaitCommand, Longer
<1>5. d = [Execute(x) EXCEPT !.lastClock = 0]
  BY <1>3, <1>4 DEF SixthByte, Edge, Clocked
<1>6. QED
  BY <1>2, <1>5

LEMMA CommandReads ==
  ASSUME NEW c, NEW l, NEW x, SixthByte(c, l, x), NEW d, d = Clocked(c, l),
         x.initialised, x.command[3] = 81
  PROVE  /\ Utters(d, 0, "READ_SECTOR_TOKEN") /\ d \in Cards
         /\ d.command = NoCommand /\ d.commandPtr = 0 /\ d.initialised
         /\ d.expectedCommand = x.expectedCommand /\ d.cardInserted = x.cardInserted
         /\ Sector(x) < Capacity => d.sectorBuffer = Disk[Sector(x)]
<1>1. x \in Cards /\ d = [Execute(x) EXCEPT !.lastClock = 0]
  BY SixthIs
<1>2. Execute(x) = ReadCommand(x)
  BY ONLY x.initialised, x.command[3] = 81 DEF Execute
<1>3. PICK n \in Nat : n = Sector(x)
  <2>1. x.command \in Commands
    BY <1>1 DEF Cards
  <2>2. PICK i \in Nat, j \in Nat, k \in Nat :
          i = x.command[5] /\ j = x.command[6] /\ k = x.command[7]
    <3>1. x.command[5] \in Byte /\ x.command[6] \in Byte /\ x.command[7] \in Byte
      BY ONLY <2>1 DEF Commands
    <3>2. \A v \in Byte : v \in Nat
      BY DEF Byte
    <3>3. QED
      BY ONLY <3>1, <3>2
  <2>3. ((i * 256 + j) * 256 + k) % SectorSpace \in Nat
    BY MmcCardAssumption
  <2>4. QED
    BY ONLY <2>2, <2>3 DEF Sector
<1>4. PICK data \in SectorData : data = IF n < Capacity THEN Disk[n] ELSE x.sectorBuffer
  BY <1>1, <1>3, MmcCardAssumption DEF Cards
<1>5. PICK f : f = [x EXCEPT !.sectorBuffer = data, !.command = NoCommand, !.commandPtr = 0, !.output = 0]
  OBVIOUS
<1>6. [FetchSector(x) EXCEPT !.command = NoCommand, !.commandPtr = 0, !.output = 0] = f
  BY ONLY <1>1, <1>3, <1>4, <1>5 DEF FetchSector, Cards
<1>7. ReadCommand(x) = InitWriteByte(f, "READ_SECTOR_TOKEN")
  BY ONLY <1>6 DEF ReadCommand
<1>8. f \in Cards
  <2>1. PICK none \in Commands, v \in Byte, k \in 0 .. 6 : none = NoCommand /\ v = 0 /\ k = 0
    BY NoCommandIs, Members
  <2>2. f = [x EXCEPT !.sectorBuffer = data, !.command = none, !.commandPtr = k, !.output = v]
    BY ONLY <1>5, <2>1
  <2>3. x \in Cards
    BY <1>1
  <2>4. QED
    BY ONLY none \in Commands, v \in Byte, k \in 0 .. 6, data \in SectorData, <2>2, <2>3 DEF Cards
<1>9. d = [InitWriteByte(f, "READ_SECTOR_TOKEN") EXCEPT !.lastClock = 0] /\ "READ_SECTOR_TOKEN" \in States
  BY ONLY <1>1, <1>2, <1>7, Members
<1>10. Utters(d, f.output, "READ_SECTOR_TOKEN") /\ Kept(f, d) /\ d \in Cards
       /\ d.cardInserted = f.cardInserted
  BY ONLY <1>8, <1>9, WritingIs
<1>11. /\ f.output = 0 /\ f.command = NoCommand /\ f.commandPtr = 0 /\ f.initialised
       /\ f.sectorBuffer = data /\ f.expectedCommand = x.expectedCommand
       /\ f.cardInserted = x.cardInserted
  BY ONLY <1>1, <1>5, x.initialised DEF Cards
<1>12. QED
  BY ONLY <1>3, <1>4, <1>10, <1>11 DEF Kept

\* Any other command is compared with the one that is expected.
Wanted(x) == IF x.initialised /\ x.command[3] = 64 THEN 0 ELSE x.expectedCommand

LEMMA CommandResponds ==
  ASSUME NEW c, NEW l, NEW x, SixthByte(c, l, x), NEW d, d = Clocked(c, l),
         ~(x.initialised /\ x.command[3] = 81), NEW e, e = Wanted(x)
  PROVE  /\ d.commandPtr = 0 /\ d.initialised = (x.initialised /\ x.command[3] # 64)
         /\ d \in Cards /\ d.cardInserted = x.cardInserted
         /\ x.command = ExpectedCommands[e].command =>
              /\ Utters(d, 0, "AFTER_COMMAND_RESPONSE") /\ d.okResponse /\ d.responsePtr = 0
              /\ d.expectedCommand = e
         /\ x.command # ExpectedCommands[e].command =>
              /\ Utters(d, 4, "AFTER_COMMAND_RESPONSE") /\ ~d.okResponse
              /\ d.expectedCommand = ExpectedCommands[e].error
<1>1. x \in Cards /\ d = [Execute(x) EXCEPT !.lastClock = 0]
  BY SixthIs
<1>2. PICK i \in BOOLEAN : i = (x.initialised /\ x.command[3] # 64)
  OBVIOUS
<1>3. e \in 0 .. 3
  BY ONLY <1>1, e = Wanted(x) DEF Wanted, Cards
<1>4. PICK f \in Cards : /\ f = [x EXCEPT !.expectedCommand = e, !.initialised = i]
                         /\ Execute(x) = Respond(f)
  <2>1. PICK f : f = [x EXCEPT !.expectedCommand = e, !.initialised = i]
    OBVIOUS
  <2>2. f \in Cards
    BY ONLY <1>1, <1>3, i \in BOOLEAN, <2>1 DEF Cards
  <2>3. CASE x.initialised /\ x.command[3] = 64
    <3>1. Execute(x) = Respond(BackToInit(x))
      BY ONLY <2>3 DEF Execute
    <3>2. f = BackToInit(x)
      BY ONLY <1>1, <1>2, <2>1, <2>3, e = Wanted(x) DEF Cards, BackToInit, Wanted
    <3>3. QED
      BY <2>1, <2>2, <3>1, <3>2
  <2>4. CASE ~(x.initialised /\ x.command[3] = 64)
    <3>1. Execute(x) = Respond(x)
      BY ONLY <2>4, ~(x.initialised /\ x.command[3] = 81) DEF Execute
    <3>2. f = x
      <4>1. e = x.expectedCommand
        BY ONLY <2>4, e = Wanted(x) DEF Wanted
      <4>2. i = x.initialised
        BY ONLY <1>1, <1>2, <2>4 DEF Cards
      <4>3. QED
        BY ONLY <1>1, <2>1, <4>1, <4>2 DEF Cards
    <3>3. QED
      BY <2>1, <2>2, <3>1, <3>2
  <2>5. QED
    BY <2>3, <2>4
<1>5. PICK w : w = ExpectedCommands[e]
  OBVIOUS
<1>6. w.error \in 0 .. 3
  BY <1>3, <1>5, Expected
<1>7. /\ f.expectedCommand = e /\ f.initialised = i /\ f.command = x.command
      /\ f.cardInserted = x.cardInserted
  BY ONLY <1>1, <1>4 DEF Cards
<1>8. PICK g : g = [(IF x.command = w.command
                     THEN [f EXCEPT !.output = 0, !.responsePtr = 0, !.okResponse = TRUE]
                     ELSE [f EXCEPT !.output = 4, !.expectedCommand = w.error, !.okResponse = FALSE])
                    EXCEPT !.commandPtr = 0]
  OBVIOUS
<1>9. Respond(f) = InitWriteByte(g, "AFTER_COMMAND_RESPONSE")
  BY ONLY <1>5, <1>7, <1>8 DEF Respond
<1>10. g \in Cards /\ g.initialised = i /\ g.commandPtr = 0 /\ g.cardInserted = x.cardInserted
  <2>1. PICK v \in Byte, ok \in BOOLEAN, r \in 0 .. 4, n \in 0 .. 3, k \in 0 .. 6 :
          g = [f EXCEPT !.output = v, !.responsePtr = r, !.okResponse = ok, !.expectedCommand = n,
                        !.commandPtr = k] /\ k = 0
    <3>1. CASE x.command = w.command
      <4>1. g = [f EXCEPT !.output = 0, !.responsePtr = 0, !.okResponse = TRUE,
                          !.expectedCommand = e, !.commandPtr = 0]
        BY ONLY <1>7, <1>8, <3>1, f \in Cards DEF Cards
      <4>2. 0 \in Byte /\ TRUE \in BOOLEAN /\ 0 \in 0 .. 4 /\ 0 \in 0 .. 6
        BY Members
      <4>3. QED
        BY <1>3, <4>1, <4>2, Zenon
    <3>2. CASE x.command # w.command
      <4>1. PICK r \in 0 .. 4 : r = f.responsePtr
        BY ONLY f \in Cards DEF Cards
      <4>2. g = [f EXCEPT !.output = 4, !.responsePtr = r, !.okResponse = FALSE,
                          !.expectedCommand = w.error, !.commandPtr = 0]
        BY ONLY <1>8, <3>2, <4>1, f \in Cards DEF Cards
      <4>3. 4 \in Byte /\ FALSE \in BOOLEAN /\ 0 \in 0 .. 6
        BY Members
      <4>4. QED
        BY <1>6, <4>2, <4>3, Zenon
    <3>3. QED
      BY <3>1, <3>2
  <2>2. g \in Cards
    BY ONLY v \in Byte, ok \in BOOLEAN, r \in 0 .. 4, n \in 0 .. 3, k \in 0 .. 6, <2>1,
            f \in Cards DEF Cards
  <2>3. g.initialised = i /\ g.commandPtr = 0 /\ g.cardInserted = x.cardInserted
    BY ONLY <1>7, <2>1, f \in Cards DEF Cards
  <2>4. QED
    BY <2>2, <2>3
<1>11. PICK u : u = InitWriteByte(g, "AFTER_COMMAND_RESPONSE") /\ d = [u EXCEPT !.lastClock = 0]
                /\ "AFTER_COMMAND_RESPONSE" \in States
  BY ONLY <1>1, <1>4, <1>9, Members
<1>12. Utters(d, g.output, "AFTER_COMMAND_RESPONSE") /\ Kept(g, d) /\ d \in Cards
       /\ d.cardInserted = g.cardInserted
  <2>1. g \in Cards
    BY <1>10
  <2>2. QED
    BY ONLY <1>11, <2>1, WritingIs
<1>13. x.command = w.command => g.output = 0 /\ g.okResponse /\ g.responsePtr = 0 /\ g.expectedCommand = e
  BY ONLY <1>7, <1>8, f \in Cards DEF Cards
<1>14. x.command # w.command => g.output = 4 /\ ~g.okResponse /\ g.expectedCommand = w.error
  BY ONLY <1>8, f \in Cards DEF Cards
<1>15. QED
  BY ONLY <1>2, <1>5, <1>10, <1>12, <1>13, <1>14 DEF Kept

\* After the answer to a command: Behind(c, l) says that the card has just
\* spoken a byte and looks at what to do next.
Spoken(c, l, handler) == Edge(c, l) /\ c.state = handler /\ l.clk = 0

\* What a handler leaves as it is.
SameSector(c, d) ==
  /\ d.sectorBuffer = c.sectorBuffer /\ d.cardInserted = c.cardInserted /\ d \in Cards

LEMMA ResponseRefused ==
  ASSUME NEW c, NEW l, Spoken(c, l, "AFTER_COMMAND_RESPONSE"), NEW d, d = Clocked(c, l), ~c.okResponse
  PROVE  /\ Begins(d) /\ SameSector(c, d) /\ d.command = NoCommand /\ d.commandPtr = c.commandPtr
         /\ d.expectedCommand = c.expectedCommand /\ d.initialised = c.initialised
         /\ ~d.okResponse /\ d.bytesLeft = c.bytesLeft
<1>1. c \in Cards /\ l.clk = 0
  BY DEF Spoken, Edge
<1>2. PICK none \in Commands : none = NoCommand
  BY NoCommandIs
<1>3. PICK g : g = [c EXCEPT !.command = none]
  OBVIOUS
<1>4. g \in Cards
  BY ONLY <1>1, <1>3, none \in Commands DEF Cards
<1>5. Step(c, l) = AfterCommandResponse(c, l)
  BY DEF Spoken, Edge, Cards, Step
<1>6. AfterCommandResponse(c, l) = InitWaitByte(g, "WAIT_COMMAND")
  BY ONLY <1>1, <1>2, <1>3, ~c.okResponse DEF AfterCommandResponse
<1>7. d = [InitWaitByte(g, "WAIT_COMMAND") EXCEPT !.lastClock = 0]
  BY <1>5, <1>6 DEF Spoken, Edge, Clocked
<1>8. Begins(d) /\ Kept(g, d) /\ d \in Cards /\ d.cardInserted = g.cardInserted
  BY ONLY <1>4, <1>7, ReadingIs
<1>9. /\ g.command = NoCommand /\ g.commandPtr = c.commandPtr /\ g.expectedCommand = c.expectedCommand
      /\ g.initialised = c.initialised /\ g.okResponse = c.okResponse /\ g.bytesLeft = c.bytesLeft
      /\ g.sectorBuffer = c.sectorBuffer /\ g.cardInserted = c.cardInserted
  BY ONLY <1>1, <1>2, <1>3 DEF Cards
<1>10. QED
  BY ONLY <1>8, <1>9, ~c.okResponse DEF Kept, SameSector

LEMMA ResponseGoesOn ==
  ASSUME NEW c, NEW l, Spoken(c, l, "AFTER_COMMAND_RESPONSE"), NEW d, d = Clocked(c, l), c.okResponse,
         c.expectedCommand = 1, c.responsePtr < 4
  PROVE  /\ Utters(d, Response[c.responsePtr + 1], "AFTER_COMMAND_RESPONSE") /\ SameSector(c, d)
         /\ d.command = NoCommand /\ d.commandPtr = c.commandPtr
         /\ d.expectedCommand = 1 /\ d.initialised = c.initialised
         /\ d.okResponse /\ d.responsePtr = c.responsePtr + 1 /\ d.bytesLeft = c.bytesLeft
<1>1. c \in Cards /\ l.clk = 0
  BY DEF Spoken, Edge
<1>2. PICK none \in Commands : none = NoCommand
  BY NoCommandIs
<1>3. PICK r \in 0 .. 4 : r = c.responsePtr + 1 /\ c.responsePtr \in 0 .. 3
  BY ONLY <1>1, c.responsePtr < 4 DEF Cards
<1>4. PICK v \in Byte : v = Response[c.responsePtr + 1]
  BY <1>3 DEF Response, Byte
<1>5. PICK g : g = [c EXCEPT !.command = none, !.output = v]
  OBVIOUS
<1>6. g \in Cards
  <2>1. PICK h \in Cards : h = [c EXCEPT !.command = none]
    BY ONLY <1>1, none \in Commands DEF Cards
  <2>2. g = [h EXCEPT !.output = v]
    BY ONLY <1>1, <1>5, <2>1 DEF Cards
  <2>3. QED
    BY ONLY <2>1, <2>2, v \in Byte DEF Cards
<1>7. Step(c, l) = AfterCommandResponse(c, l)
  BY DEF Spoken, Edge, Cards, Step
<1>8. ExpectedCommands[c.expectedCommand].response = Response
  BY Expected DEF Response
<1>9. Len(Response) = 4
  BY DEF Response
<1>10. [[c EXCEPT !.command = NoCommand] EXCEPT !.output = Response[c.responsePtr + 1]] = g
  BY ONLY <1>1, <1>2, <1>4, <1>5 DEF Cards
<1>11. AfterCommandResponse(c, l) =
         [InitWriteByte(g, "AFTER_COMMAND_RESPONSE") EXCEPT !.responsePtr = @ + 1]
  BY ONLY <1>1, <1>8, <1>9, <1>10, c.okResponse, c.responsePtr < 4 DEF AfterCommandResponse
<1>12. PICK w, h : w = InitWriteByte(g, "AFTER_COMMAND_RESPONSE") /\ h = [w EXCEPT !.lastClock = 0]
  OBVIOUS
<1>13. /\ Utters(h, g.output, "AFTER_COMMAND_RESPONSE") /\ Kept(g, h) /\ h \in Cards
       /\ w \in Cards /\ Kept(g, w) /\ h.cardInserted = g.cardInserted
  <2>1. "AFTER_COMMAND_RESPONSE" \in States
    BY Members
  <2>2. QED
    BY ONLY <1>6, <1>12, <2>1, WritingIs
<1>14. /\ g.command = NoCommand /\ g.commandPtr = c.commandPtr /\ g.expectedCommand = 1
       /\ g.initialised = c.initialised /\ g.okResponse /\ g.bytesLeft = c.bytesLeft
       /\ g.sectorBuffer = c.sectorBuffer /\ g.cardInserted = c.cardInserted /\ g.output = v
       /\ g.responsePtr = c.responsePtr
  BY ONLY <1>1, <1>2, <1>5, c.okResponse, c.expectedCommand = 1 DEF Cards
<1>15. d = [h EXCEPT !.responsePtr = r]
  <2>1. w.responsePtr = c.responsePtr
    BY ONLY <1>13, <1>14 DEF Kept
  <2>2. d = [[w EXCEPT !.responsePtr = @ + 1] EXCEPT !.lastClock = 0]
    BY <1>7, <1>11, <1>12 DEF Spoken, Edge, Clocked
  <2>3. d = [w EXCEPT !.responsePtr = r, !.lastClock = 0]
    BY ONLY <1>3, <1>13, <2>1, <2>2 DEF Cards
  <2>4. QED
    BY ONLY <1>12, <1>13, <2>3 DEF Cards
<1>16. d \in Cards
  BY ONLY <1>13, <1>15, r \in 0 .. 4 DEF Cards
<1>17. /\ d.command = h.command /\ d.commandPtr = h.commandPtr /\ d.expectedCommand = h.expectedCommand
       /\ d.initialised = h.initialised /\ d.okResponse = h.okResponse /\ d.bytesLeft = h.bytesLeft
       /\ d.sectorBuffer = h.sectorBuffer /\ d.cardInserted = h.cardInserted /\ d.responsePtr = r
  BY ONLY <1>13, <1>15 DEF Cards
<1>18. Utters(d, v, "AFTER_COMMAND_RESPONSE")
  BY ONLY <1>13, <1>14, <1>15 DEF Utters, Cards
<1>19. QED
  BY ONLY <1>3, <1>4, <1>13, <1>14, <1>16, <1>17, <1>18 DEF Kept, SameSector

LEMMA ResponseAccepted ==
  ASSUME NEW c, NEW l, Spoken(c, l, "AFTER_COMMAND_RESPONSE"), NEW d, d = Clocked(c, l), c.okResponse,
         ~(c.expectedCommand = 1 /\ c.responsePtr < 4)
  PROVE  /\ Begins(d) /\ SameSector(c, d) /\ d.command = NoCommand /\ d.commandPtr = c.commandPtr
         /\ d.expectedCommand = IF c.expectedCommand < 3 THEN c.expectedCommand + 1 ELSE 3
         /\ d.initialised = (c.initialised \/ c.expectedCommand = 3) /\ d.bytesLeft = c.bytesLeft
<1>1. c \in Cards /\ l.clk = 0
  BY DEF Spoken, Edge
<1>2. PICK none \in Commands : none = NoCommand
  BY NoCommandIs
<1>3. PICK e \in 0 .. 3 : e = IF c.expectedCommand < 3 THEN c.expectedCommand + 1 ELSE 3
  BY <1>1 DEF Cards
<1>4. PICK i \in BOOLEAN : i = (c.initialised \/ c.expectedCommand = 3)
  OBVIOUS
<1>5. PICK g : g = [c EXCEPT !.command = none, !.expectedCommand = e, !.initialised = i]
  OBVIOUS
<1>6. g \in Cards
  BY ONLY <1>1, <1>5, none \in Commands, e \in 0 .. 3, i \in BOOLEAN DEF Cards
<1>7. Step(c, l) = AfterCommandResponse(c, l)
  BY DEF Spoken, Edge, Cards, Step
<1>8. PICK done : done = [c EXCEPT !.command = NoCommand]
  OBVIOUS
<1>9. ~(c.responsePtr < Len(ExpectedCommands[c.expectedCommand].response))
  <2>1. c.expectedCommand \in 0 .. 3 /\ c.responsePtr \in 0 .. 4
    BY ONLY <1>1 DEF Cards
  <2>2. CASE c.expectedCommand = 1
    <3>1. ExpectedCommands[c.expectedCommand].response = Response
      BY <2>2, Expected DEF Response
    <3>2. Len(Response) = 4
      BY DEF Response
    <3>3. QED
      BY ONLY <2>1, <2>2, <3>1, <3>2, ~(c.expectedCommand = 1 /\ c.responsePtr < 4)
  <2>3. CASE c.expectedCommand # 1
    <3>1. ExpectedCommands[c.expectedCommand].response = << >>
      BY ONLY <2>1, <2>3, Expected
    <3>2. Len(<< >>) = 0
      OBVIOUS
    <3>3. QED
      BY ONLY <2>1, <3>1, <3>2
  <2>4. QED
    BY <2>2, <2>3
<1>10. AfterCommandResponse(c, l) = InitWaitByte(Accepted(done), "WAIT_COMMAND")
  BY ONLY <1>1, <1>8, <1>9, c.okResponse DEF AfterCommandResponse
<1>11. Accepted(done) = g
  <2>1. done.expectedCommand = c.expectedCommand /\ c.expectedCommand \in 0 .. 3
    BY ONLY <1>1, <1>8 DEF Cards
  <2>2. CASE c.expectedCommand = 3
    <3>1. Accepted(done) = [done EXCEPT !.initialised = TRUE]
      BY ONLY <2>1, <2>2, Expected DEF Accepted
    <3>2. e = c.expectedCommand
      BY ONLY <1>3, <2>2
    <3>3. i = TRUE
      BY ONLY <1>4, <2>2, i \in BOOLEAN, Zenon
    <3>4. QED
      BY ONLY <1>1, <1>2, <1>5, <1>8, <3>1, <3>2, <3>3 DEF Cards
  <2>3. CASE c.expectedCommand # 3
    <3>1. ExpectedCommands[c.expectedCommand].ok = e /\ e # -1
      BY ONLY <1>3, <2>1, <2>3, Expected
    <3>2. Accepted(done) = [done EXCEPT !.expectedCommand = e]
      BY ONLY <2>1, <3>1 DEF Accepted
    <3>3. i = c.initialised
      BY ONLY <1>1, <1>4, <2>3 DEF Cards
    <3>4. QED
      BY ONLY <1>1, <1>2, <1>5, <1>8, <3>2, <3>3 DEF Cards
  <2>4. QED
    BY <2>2, <2>3
<1>12. d = [InitWaitByte(g, "WAIT_COMMAND") EXCEPT !.lastClock = 0]
  BY <1>7, <1>10, <1>11 DEF Spoken, Edge, Clocked
<1>13. Begins(d) /\ Kept(g, d) /\ d \in Cards /\ d.cardInserted = g.cardInserted
  BY ONLY <1>6, <1>12, ReadingIs
<1>14. /\ g.command = NoCommand /\ g.commandPtr = c.commandPtr /\ g.expectedCommand = e
       /\ g.initialised = i /\ g.bytesLeft = c.bytesLeft
       /\ g.sectorBuffer = c.sectorBuffer /\ g.cardInserted = c.cardInserted
  BY ONLY <1>1, <1>2, <1>5 DEF Cards
<1>15. QED
  BY ONLY <1>3, <1>4, <1>13, <1>14 DEF Kept, SameSector

\* The data of a sector.
SameCommand(c, d) ==
  /\ d.command = c.command /\ d.commandPtr = c.commandPtr /\ d.expectedCommand = c.expectedCommand
  /\ d.initialised = c.initialised

LEMMA TokenIs ==
  ASSUME NEW c, NEW l, Spoken(c, l, "READ_SECTOR_TOKEN"), NEW d, d = Clocked(c, l)
  PROVE  /\ Utters(d, 254, "READ_SECTOR") /\ SameCommand(c, d) /\ SameSector(c, d)
         /\ d.bytesLeft = SectorSize
<1>1. c \in Cards /\ l.clk = 0
  BY DEF Spoken, Edge
<1>2. PICK v \in Byte, n \in Lengths : v = 254 /\ n = SectorSize
  BY Members
<1>3. PICK g : g = [c EXCEPT !.output = v]
  OBVIOUS
<1>4. g \in Cards
  BY ONLY <1>1, <1>3, v \in Byte DEF Cards
<1>5. Step(c, l) = ReadSectorToken(c, l)
  BY DEF Spoken, Edge, Cards, Step
<1>6. PICK w, h : w = InitWriteByte(g, "READ_SECTOR") /\ h = [w EXCEPT !.lastClock = 0]
  OBVIOUS
<1>7. /\ Utters(h, g.output, "READ_SECTOR") /\ Kept(g, h) /\ h \in Cards
      /\ w \in Cards /\ Kept(g, w) /\ h.cardInserted = g.cardInserted
  <2>1. "READ_SECTOR" \in States
    BY Members
  <2>2. QED
    BY ONLY <1>4, <1>6, <2>1, WritingIs
<1>8. ReadSectorToken(c, l) = [w EXCEPT !.bytesLeft = n]
  BY ONLY <1>1, <1>2, <1>3, <1>6 DEF ReadSectorToken
<1>9. d = [h EXCEPT !.bytesLeft = n]
  <2>1. d = [[w EXCEPT !.bytesLeft = n] EXCEPT !.lastClock = 0]
    BY <1>5, <1>8 DEF Spoken, Edge, Clocked
  <2>2. QED
    BY ONLY <1>6, <1>7, <2>1 DEF Cards
<1>10. d \in Cards
  BY ONLY <1>7, <1>9, n \in Lengths DEF Cards
<1>11. /\ d.command = h.command /\ d.commandPtr = h.commandPtr /\ d.expectedCommand = h.expectedCommand
       /\ d.initialised = h.initialised /\ d.bytesLeft = n
       /\ d.sectorBuffer = h.sectorBuffer /\ d.cardInserted = h.cardInserted
  BY ONLY <1>7, <1>9 DEF Cards
<1>12. Utters(d, v, "READ_SECTOR")
  <2>1. g.output = v
    BY ONLY <1>1, <1>3 DEF Cards
  <2>2. QED
    BY ONLY <1>7, <1>9, <2>1 DEF Utters, Cards
<1>13. /\ g.command = c.command /\ g.commandPtr = c.commandPtr /\ g.expectedCommand = c.expectedCommand
       /\ g.initialised = c.initialised /\ g.sectorBuffer = c.sectorBuffer
       /\ g.cardInserted = c.cardInserted
  BY ONLY <1>1, <1>3 DEF Cards
<1>14. QED
  BY ONLY <1>2, <1>7, <1>10, <1>11, <1>12, <1>13 DEF Kept, SameSector, SameCommand

LEMMA SectorIs ==
  ASSUME NEW c, NEW l, Spoken(c, l, "READ_SECTOR"), NEW d, d = Clocked(c, l),
         c.bytesLeft \in 1 .. SectorSize
  PROVE  /\ Utters(d, c.sectorBuffer[SectorSize - c.bytesLeft],
                   IF c.bytesLeft > 1 THEN "READ_SECTOR" ELSE "READ_SECTOR_CRC")
         /\ SameCommand(c, d) /\ SameSector(c, d)
         /\ d.bytesLeft = IF c.bytesLeft > 1 THEN c.bytesLeft - 1 ELSE 2
<1>1. c \in Cards /\ l.clk = 0
  BY DEF Spoken, Edge
<1>2. SectorSize \in Nat
  BY MmcCardAssumption
<1>3. PICK v \in Byte : v = c.sectorBuffer[SectorSize - c.bytesLeft]
  <2>1. SectorSize - c.bytesLeft \in 0 .. SectorSize - 1
    BY <1>2
  <2>2. c.sectorBuffer \in SectorData
    BY <1>1 DEF Cards
  <2>3. QED
    BY ONLY <2>1, <2>2 DEF SectorData
<1>4. PICK n \in Lengths : n = IF c.bytesLeft - 1 > 0 THEN c.bytesLeft - 1 ELSE 2
  BY <1>2 DEF Lengths
<1>5. PICK next \in States : next = IF c.bytesLeft - 1 > 0 THEN "READ_SECTOR" ELSE "READ_SECTOR_CRC"
  BY Members
<1>6. PICK g : g = [c EXCEPT !.output = v, !.bytesLeft = n]
  OBVIOUS
<1>7. g \in Cards
  BY ONLY <1>1, <1>6, v \in Byte, n \in Lengths DEF Cards
<1>8. Step(c, l) = ReadSector(c, l)
  BY DEF Spoken, Edge, Cards, Step
<1>9. ReadSector(c, l) = InitWriteByte(g, next)
  BY ONLY <1>1, <1>3, <1>4, <1>5, <1>6 DEF ReadSector
<1>10. PICK w : w = InitWriteByte(g, next) /\ d = [w EXCEPT !.lastClock = 0]
  BY <1>8, <1>9 DEF Spoken, Edge, Clocked
<1>11. Utters(d, g.output, next) /\ Kept(g, d) /\ d \in Cards /\ d.cardInserted = g.cardInserted
  BY ONLY <1>7, <1>10, next \in States, WritingIs
<1>12. /\ g.command = c.command /\ g.commandPtr = c.commandPtr /\ g.expectedCommand = c.expectedCommand
       /\ g.initialised = c.initialised /\ g.sectorBuffer = c.sectorBuffer
       /\ g.cardInserted = c.cardInserted /\ g.output = v /\ g.bytesLeft = n
  BY ONLY <1>1, <1>6 DEF Cards
<1>13. /\ n = IF c.bytesLeft > 1 THEN c.bytesLeft - 1 ELSE 2
       /\ next = IF c.bytesLeft > 1 THEN "READ_SECTOR" ELSE "READ_SECTOR_CRC"
  BY <1>2, <1>4, <1>5
<1>14. QED
  BY ONLY <1>3, <1>11, <1>12, <1>13 DEF Kept, SameSector, SameCommand

LEMMA CrcGoesOn ==
  ASSUME NEW c, NEW l, Spoken(c, l, "READ_SECTOR_CRC"), NEW d, d = Clocked(c, l), c.bytesLeft \in 1 .. 2
  PROVE  /\ Utters(d, 0, "READ_SECTOR_CRC") /\ SameCommand(c, d) /\ SameSector(c, d)
         /\ d.bytesLeft = c.bytesLeft - 1
<1>1. c \in Cards /\ l.clk = 0
  BY DEF Spoken, Edge
<1>2. PICK v \in Byte, n \in Lengths : v = 0 /\ n = c.bytesLeft - 1
  <2>1. c.bytesLeft - 1 \in Lengths
    BY DEF Lengths
  <2>2. QED
    BY <2>1, Members
<1>3. PICK g : g = [c EXCEPT !.output = v, !.bytesLeft = n]
  OBVIOUS
<1>4. g \in Cards
  BY ONLY <1>1, <1>3, v \in Byte, n \in Lengths DEF Cards
<1>5. Step(c, l) = ReadSectorCrc(c, l)
  BY DEF Spoken, Edge, Cards, Step
<1>6. ReadSectorCrc(c, l) = InitWriteByte(g, "READ_SECTOR_CRC")
  BY ONLY <1>1, <1>2, <1>3, c.bytesLeft \in 1 .. 2 DEF ReadSectorCrc
<1>7. PICK w : w = InitWriteByte(g, "READ_SECTOR_CRC") /\ d = [w EXCEPT !.lastClock = 0]
  BY <1>5, <1>6 DEF Spoken, Edge, Clocked
<1>8. Utters(d, g.output, "READ_SECTOR_CRC") /\ Kept(g, d) /\ d \in Cards
      /\ d.cardInserted = g.cardInserted
  <2>1. "READ_SECTOR_CRC" \in States
    BY Members
  <2>2. QED
    BY ONLY <1>4, <1>7, <2>1, WritingIs
<1>9. /\ g.command = c.command /\ g.commandPtr = c.commandPtr /\ g.expectedCommand = c.expectedCommand
      /\ g.initialised = c.initialised /\ g.sectorBuffer = c.sectorBuffer
      /\ g.cardInserted = c.cardInserted /\ g.output = v /\ g.bytesLeft = n
  BY ONLY <1>1, <1>3 DEF Cards
<1>10. QED
  BY ONLY <1>2, <1>8, <1>9 DEF Kept, SameSector, SameCommand

LEMMA CrcEnds ==
  ASSUME NEW c, NEW l, Spoken(c, l, "READ_SECTOR_CRC"), NEW d, d = Clocked(c, l), c.bytesLeft = 0
  PROVE  /\ Begins(d) /\ SameSector(c, d) /\ d.command = NoCommand /\ d.commandPtr = 0
         /\ d.expectedCommand = c.expectedCommand /\ d.initialised = c.initialised
<1>1. c \in Cards /\ l.clk = 0
  BY DEF Spoken, Edge
<1>2. PICK none \in Commands, k \in 0 .. 6 : none = NoCommand /\ k = 0
  BY NoCommandIs
<1>3. PICK g : g = [c EXCEPT !.command = none, !.commandPtr = k]
  OBVIOUS
<1>4. g \in Cards
  BY ONLY <1>1, <1>3, none \in Commands, k \in 0 .. 6 DEF Cards
<1>5. Step(c, l) = ReadSectorCrc(c, l)
  BY DEF Spoken, Edge, Cards, Step
<1>6. ReadSectorCrc(c, l) = InitWaitByte(g, "WAIT_COMMAND")
  BY ONLY <1>1, <1>2, <1>3, c.bytesLeft = 0 DEF ReadSectorCrc
<1>7. d = [InitWaitByte(g, "WAIT_COMMAND") EXCEPT !.lastClock = 0]
  BY <1>5, <1>6 DEF Spoken, Edge, Clocked
<1>8. Begins(d) /\ Kept(g, d) /\ d \in Cards /\ d.cardInserted = g.cardInserted
  BY ONLY <1>4, <1>7, ReadingIs
<1>9. /\ g.command = NoCommand /\ g.commandPtr = 0 /\ g.expectedCommand = c.expectedCommand
      /\ g.initialised = c.initialised /\ g.sectorBuffer = c.sectorBuffer
      /\ g.cardInserted = c.cardInserted
  BY ONLY <1>1, <1>2, <1>3 DEF Cards
<1>10. QED
  BY ONLY <1>8, <1>9 DEF Kept, SameSector

\* The bits of a byte for the card.
LEMMA BitIn ==
  ASSUME NEW c, NEW l, Edge(c, l), c.state = "WAIT_BYTE", l.cs = 1, l.clk = 1,
         c.clocks \in 0 .. 7, c.input + 2 * Bit[c.clocks] <= 256, c.nextState = "WAIT_COMMAND",
         NEW d, d = Clocked(c, l), NEW v, v = c.input + l.mosi * Bit[c.clocks]
  PROVE  /\ d \in Cards /\ Kept(c, d) /\ d.lastClock = 1 /\ d.nextState = c.nextState
         /\ d.cardInserted = c.cardInserted /\ v \in Byte
         /\ c.clocks > 0 => /\ d.state = "WAIT_BYTE" /\ d.clocks = c.clocks - 1 /\ d.miso = c.miso
                            /\ d.input = v /\ d.input + 2 * Bit[d.clocks] <= 256
         /\ c.clocks = 0 => d.state = c.nextState /\ d.lastByte = v /\ d.miso = 1 /\ d.clocks = 7
<1>1. c \in Cards /\ l \in Lines /\ c.cardInserted
  BY DEF Edge
<1>2. PICK n \in 0 .. 7, i \in 0 .. 255, m \in {0, 1} : n = c.clocks /\ i = c.input /\ m = l.mosi
  BY <1>1 DEF Cards, Lines, Byte
<1>3. Bit[n] \in 1 .. 128 /\ (n > 0 => Bit[n] = 2 * Bit[n - 1])
  BY ONLY n \in 0 .. 7, Bits
<1>4. v \in 0 .. 255 /\ (n > 0 => v + 2 * Bit[n - 1] <= 256)
  <2>1. v = i + m * Bit[n] /\ i + 2 * Bit[n] <= 256
    BY ONLY <1>2, v = c.input + l.mosi * Bit[c.clocks], c.input + 2 * Bit[c.clocks] <= 256
  <2>2. PICK b \in 1 .. 128 : b = Bit[n]
    BY ONLY <1>3
  <2>3. m * b = 0 \/ m * b = b
    OBVIOUS
  <2>4. v \in 0 .. 255 /\ v + b <= 256
    <3>1. v = i + m * b /\ i + 2 * b <= 256
      BY ONLY <2>1, <2>2
    <3>2. QED
      BY ONLY <2>3, <3>1, i \in 0 .. 255, b \in 1 .. 128
  <2>5. QED
    BY ONLY <1>3, <2>2, <2>4, n \in 0 .. 7
<1>5. v \in Byte
  BY <1>4 DEF Byte
<1>6. Step(c, l) = WaitByte(c, l) /\ d = [WaitByte(c, l) EXCEPT !.lastClock = 1]
  BY <1>1 DEF Edge, Cards, Step, Clocked
<1>7. CASE n > 0
  <2>1. PICK k \in Clocks : k = n - 1
    BY <1>7, Members
  <2>2. WaitByte(c, l) = [c EXCEPT !.input = v, !.clocks = k]
    BY ONLY <1>1, <1>2, <1>7, <2>1, l.cs = 1, l.clk = 1, v = c.input + l.mosi * Bit[c.clocks]
       DEF WaitByte, Cards
  <2>3. PICK o \in {0, 1} : o = 1
    OBVIOUS
  <2>4. d = [c EXCEPT !.input = v, !.clocks = k, !.lastClock = o]
    BY ONLY <1>1, <1>6, <2>2, <2>3 DEF Cards
  <2>5. d \in Cards
    BY ONLY <1>1, <2>4, <1>5, k \in Clocks, o \in {0, 1} DEF Cards
  <2>6. /\ d.lastClock = 1 /\ d.nextState = c.nextState /\ d.cardInserted = c.cardInserted
        /\ d.state = "WAIT_BYTE" /\ d.clocks = k /\ d.miso = c.miso /\ d.input = v
    BY ONLY <1>1, <2>3, <2>4, c.state = "WAIT_BYTE" DEF Cards
  <2>7. Kept(c, d)
    BY ONLY <1>1, <2>4 DEF Cards, Kept
  <2>8. d.input + 2 * Bit[d.clocks] <= 256
    BY ONLY <1>4, <1>7, <2>1, <2>6
  <2>9. QED
    BY ONLY <1>2, <1>5, <1>7, <2>1, <2>5, <2>6, <2>7, <2>8
<1>8. CASE n = 0
  <2>1. PICK k \in Clocks, z \in Byte, m1 \in {0, 1}, o \in {0, 1}, q \in States :
          k = 7 /\ z = 0 /\ m1 = 1 /\ o = 1 /\ q = c.nextState
    BY <1>1, Members DEF Cards
  <2>2. WaitByte(c, l) = [c EXCEPT !.clocks = k, !.input = z, !.miso = m1, !.lastByte = v, !.state = q]
    <3>1. c.clocks = 0 /\ l.cs = 1 /\ l.clk = 1 /\ ~(c.clocks > 0)
      BY <1>2, <1>8
    <3>2. WaitByte(c, l) = [ResetRead(c) EXCEPT !.lastByte = c.input + l.mosi * Bit[c.clocks],
                                                !.state = c.nextState]
      BY ONLY <3>1 DEF WaitByte
    <3>3. ResetRead(c) = [c EXCEPT !.clocks = k, !.input = z, !.miso = m1]
      BY ONLY <2>1 DEF ResetRead
    <3>4. c.input + l.mosi * Bit[c.clocks] = v
      OBVIOUS
    <3>5. QED
      BY ONLY <1>1, <2>1, <3>2, <3>3, <3>4 DEF Cards
  <2>3. d = [c EXCEPT !.clocks = k, !.input = z, !.miso = m1, !.lastByte = v, !.state = q, !.lastClock = o]
    BY ONLY <1>1, <1>6, <2>1, <2>2 DEF Cards
  <2>4. d \in Cards
    BY ONLY <1>1, <2>3, <1>5, k \in Clocks, z \in Byte, m1 \in {0, 1}, o \in {0, 1}, q \in States
       DEF Cards
  <2>5. /\ d.lastClock = 1 /\ d.nextState = c.nextState /\ d.cardInserted = c.cardInserted
        /\ d.state = c.nextState /\ d.clocks = 7 /\ d.miso = 1 /\ d.lastByte = v
    BY ONLY <1>1, <2>1, <2>3 DEF Cards
  <2>6. Kept(c, d)
    BY ONLY <1>1, <2>3 DEF Cards, Kept
  <2>7. QED
    BY ONLY <1>2, <1>5, <1>8, <2>4, <2>5, <2>6
<1>9. QED
  BY <1>7, <1>8

\* Fields that bits do not touch, and the clock.
SameByte(c, d) ==
  /\ d.state = c.state /\ d.nextState = c.nextState /\ d.clocks = c.clocks /\ d.input = c.input
  /\ d.output = c.output /\ d.lastByte = c.lastByte

LEMMA BitInFalls ==
  ASSUME NEW c, NEW l, Edge(c, l), c.state = "WAIT_BYTE", l.cs = 1, l.clk = 0, NEW d, d = Clocked(c, l)
  PROVE  /\ d \in Cards /\ Kept(c, d) /\ SameByte(c, d) /\ d.lastClock = 0 /\ d.miso = 1
         /\ d.cardInserted = c.cardInserted
<1>1. c \in Cards /\ c.cardInserted
  BY DEF Edge
<1>2. Step(c, l) = WaitByte(c, l) /\ d = [WaitByte(c, l) EXCEPT !.lastClock = 0]
  BY <1>1 DEF Edge, Cards, Step, Clocked
<1>3. WaitByte(c, l) = [c EXCEPT !.miso = 1]
  BY ONLY l.cs = 1, l.clk = 0 DEF WaitByte
<1>4. PICK m \in {0, 1}, o \in {0, 1} : m = 1 /\ o = 0
  OBVIOUS
<1>5. d = [c EXCEPT !.miso = m, !.lastClock = o]
  BY ONLY <1>1, <1>2, <1>3, <1>4 DEF Cards
<1>6. d \in Cards
  BY ONLY <1>1, <1>5, m \in {0, 1}, o \in {0, 1} DEF Cards
<1>7. Kept(c, d) /\ SameByte(c, d)
  BY ONLY <1>1, <1>5 DEF Cards, Kept, SameByte
<1>8. d.lastClock = 0 /\ d.miso = 1 /\ d.cardInserted = c.cardInserted
  BY ONLY <1>1, <1>4, <1>5 DEF Cards
<1>9. QED
  BY <1>6, <1>7, <1>8

LEMMA BitDropped ==
  ASSUME NEW c, NEW l, Edge(c, l), c.state = "WAIT_BYTE", l.cs = 0, NEW d, d = Clocked(c, l)
  PROVE  /\ d \in Cards /\ Kept([c EXCEPT !.commandPtr = 0], d) /\ d.lastClock = l.clk
         /\ d.state = "WAIT_BYTE" /\ d.nextState = c.nextState /\ d.clocks = 7 /\ d.input = 0
         /\ d.miso = 1 /\ d.cardInserted = c.cardInserted
<1>1. c \in Cards /\ c.cardInserted /\ l \in Lines
  BY DEF Edge
<1>2. Step(c, l) = WaitByte(c, l) /\ d = [WaitByte(c, l) EXCEPT !.lastClock = l.clk]
  BY <1>1 DEF Edge, Cards, Step, Clocked
<1>3. PICK z \in Byte, n \in Clocks, m \in {0, 1}, k \in 0 .. 6, o \in {0, 1} :
        z = 0 /\ n = 7 /\ m = 1 /\ k = 0 /\ o = l.clk
  BY <1>1, Members DEF Lines
<1>4. WaitByte(c, l) = [c EXCEPT !.clocks = n, !.input = z, !.miso = m, !.commandPtr = k]
  BY ONLY <1>1, <1>3, l.cs = 0 DEF WaitByte, Deselected, ResetRead, Cards
<1>5. d = [c EXCEPT !.clocks = n, !.input = z, !.miso = m, !.commandPtr = k, !.lastClock = o]
  BY ONLY <1>1, <1>2, <1>3, <1>4 DEF Cards
<1>6. d \in Cards
  BY ONLY <1>1, <1>5, n \in Clocks, z \in Byte, m \in {0, 1}, k \in 0 .. 6, o \in {0, 1} DEF Cards
<1>7. Kept([c EXCEPT !.commandPtr = 0], d)
  BY ONLY <1>1, <1>3, <1>5 DEF Cards, Kept
<1>8. /\ d.lastClock = l.clk /\ d.state = "WAIT_BYTE" /\ d.nextState = c.nextState /\ d.clocks = 7
      /\ d.input = 0 /\ d.miso = 1 /\ d.cardInserted = c.cardInserted
  BY ONLY <1>1, <1>3, <1>5, c.state = "WAIT_BYTE" DEF Cards
<1>9. QED
  BY <1>6, <1>7, <1>8

\* The bits of a byte from the card.
LEMMA BitOut ==
  ASSUME NEW c, NEW l, Edge(c, l), c.state = "WRITE_BYTE", l.clk = 1, c.clocks \in 0 .. 7,
         NEW d, d = Clocked(c, l)
  PROVE  /\ d \in Cards /\ Kept(c, d) /\ d.lastClock = 1 /\ d.nextState = c.nextState
         /\ d.cardInserted = c.cardInserted /\ d.miso = c.miso
         /\ c.clocks > 0 => /\ d.state = "WRITE_BYTE" /\ d.clocks = c.clocks - 1
                            /\ d.output = (c.output * 2) % 256
         /\ c.clocks = 0 => d.state = c.nextState /\ d.clocks = 0
<1>1. c \in Cards /\ l \in Lines /\ c.cardInserted
  BY DEF Edge
<1>2. Step(c, l) = WriteByte(c, l) /\ d = [WriteByte(c, l) EXCEPT !.lastClock = 1]
  BY <1>1 DEF Edge, Cards, Step, Clocked
<1>3. PICK o \in {0, 1} : o = 1
  OBVIOUS
<1>4. CASE c.clocks > 0
  <2>1. PICK k \in Clocks : k = c.clocks - 1
    BY <1>4, Members
  <2>2. PICK w \in Byte : w = (c.output * 2) % 256
    <3>1. c.output \in Nat
      BY <1>1 DEF Cards, Byte
    <3>2. (c.output * 2) % 256 \in 0 .. 255
      BY ONLY <3>1
    <3>3. QED
      BY ONLY <3>2 DEF Byte
  <2>3. WriteByte(c, l) = [c EXCEPT !.clocks = k, !.output = w]
    BY ONLY <1>1, <1>4, <2>1, <2>2, l.clk = 1 DEF WriteByte, Shifted, Cards
  <2>4. d = [c EXCEPT !.clocks = k, !.output = w, !.lastClock = o]
    BY ONLY <1>1, <1>2, <1>3, <2>3 DEF Cards
  <2>5. d \in Cards
    BY ONLY <1>1, <2>4, k \in Clocks, w \in Byte, o \in {0, 1} DEF Cards
  <2>6. Kept(c, d)
    BY ONLY <1>1, <2>4 DEF Cards, Kept
  <2>7. /\ d.lastClock = 1 /\ d.nextState = c.nextState /\ d.cardInserted = c.cardInserted
        /\ d.miso = c.miso /\ d.state = "WRITE_BYTE" /\ d.clocks = k /\ d.output = w
    BY ONLY <1>1, <1>3, <2>4, c.state = "WRITE_BYTE" DEF Cards
  <2>8. QED
    BY ONLY <1>4, <2>1, <2>2, <2>5, <2>6, <2>7
<1>5. CASE c.clocks = 0
  <2>1. PICK q \in States : q = c.nextState
    BY <1>1 DEF Cards
  <2>2. WriteByte(c, l) = [c EXCEPT !.state = q]
    BY ONLY <1>5, <2>1, l.clk = 1 DEF WriteByte
  <2>3. d = [c EXCEPT !.state = q, !.lastClock = o]
    BY ONLY <1>1, <1>2, <1>3, <2>2 DEF Cards
  <2>4. d \in Cards
    BY ONLY <1>1, <2>3, q \in States, o \in {0, 1} DEF Cards
  <2>5. Kept(c, d)
    BY ONLY <1>1, <2>3 DEF Cards, Kept
  <2>6. /\ d.lastClock = 1 /\ d.nextState = c.nextState /\ d.cardInserted = c.cardInserted
        /\ d.miso = c.miso /\ d.state = q /\ d.clocks = c.clocks
    BY ONLY <1>1, <1>3, <2>3 DEF Cards
  <2>7. QED
    BY ONLY <1>5, <2>1, <2>4, <2>5, <2>6
<1>6. QED
  BY <1>4, <1>5

LEMMA BitOutFalls ==
  ASSUME NEW c, NEW l, Edge(c, l), c.state = "WRITE_BYTE", l.clk = 0, NEW d, d = Clocked(c, l)
  PROVE  /\ d \in Cards /\ Kept(c, d) /\ SameByte(c, d) /\ d.lastClock = 0
         /\ d.miso = d.output \div 128 /\ d.cardInserted = c.cardInserted
<1>1. c \in Cards /\ c.cardInserted
  BY DEF Edge
<1>2. Step(c, l) = WriteByte(c, l) /\ d = [WriteByte(c, l) EXCEPT !.lastClock = 0]
  BY <1>1 DEF Edge, Cards, Step, Clocked
<1>3. PICK m \in {0, 1}, o \in {0, 1} : m = c.output \div 128 /\ o = 0
  BY <1>1, Members DEF Cards
<1>4. WriteByte(c, l) = [c EXCEPT !.miso = m]
  BY ONLY <1>3, l.clk = 0 DEF WriteByte, WriteBit
<1>5. d = [c EXCEPT !.miso = m, !.lastClock = o]
  BY ONLY <1>1, <1>2, <1>3, <1>4 DEF Cards
<1>6. d \in Cards
  BY ONLY <1>1, <1>5, m \in {0, 1}, o \in {0, 1} DEF Cards
<1>7. Kept(c, d) /\ SameByte(c, d)
  BY ONLY <1>1, <1>5 DEF Cards, Kept, SameByte
<1>8. d.lastClock = 0 /\ d.miso = m /\ d.cardInserted = c.cardInserted /\ d.output = c.output
  BY ONLY <1>1, <1>3, <1>5 DEF Cards
<1>9. QED
  BY ONLY <1>3, <1>6, <1>7, <1>8

\* Waking up.
LEMMA Counting ==
  ASSUME NEW c, NEW l, Edge(c, l), c.state = "WAIT_CLOCKS", c.clocks + l.clk < PowerUpClocks \/ l.cs = 1,
         NEW d, d = Clocked(c, l)
  PROVE  /\ d \in Cards /\ Kept(c, d) /\ d.lastClock = l.clk /\ d.state = "WAIT_CLOCKS"
         /\ d.nextState = c.nextState /\ d.cardInserted = c.cardInserted /\ d.miso = c.miso
         /\ d.clocks = IF l.cs = 1 THEN 0 ELSE c.clocks + l.clk
<1>1. c \in Cards /\ l \in Lines /\ c.cardInserted
  BY DEF Edge
<1>2. Step(c, l) = WaitClocks(c, l) /\ d = [WaitClocks(c, l) EXCEPT !.lastClock = l.clk]
  BY <1>1 DEF Edge, Cards, Step, Clocked
<1>3. PICK k \in Clocks, o \in {0, 1} : k = (IF l.cs = 1 THEN 0 ELSE c.clocks + l.clk) /\ o = l.clk
  <2>1. PowerUpClocks \in Nat
    BY MmcCardAssumption
  <2>2. c.clocks \in Nat /\ l.clk \in {0, 1}
    BY <1>1, <2>1 DEF Cards, Lines, Clocks
  <2>3. QED
    BY ONLY <2>1, <2>2, c.clocks + l.clk < PowerUpClocks \/ l.cs = 1 DEF Clocks
<1>4. WaitClocks(c, l) = [c EXCEPT !.clocks = k]
  <2>1. PowerUpClocks \in Nat
    BY MmcCardAssumption
  <2>2. c.clocks \in Nat /\ l.clk \in {0, 1}
    BY <1>1, <2>1 DEF Cards, Lines, Clocks
  <2>3. QED
    BY ONLY <1>3, <2>1, <2>2, c.clocks + l.clk < PowerUpClocks \/ l.cs = 1 DEF WaitClocks
<1>5. d = [c EXCEPT !.clocks = k, !.lastClock = o]
  BY ONLY <1>1, <1>2, <1>3, <1>4 DEF Cards
<1>6. d \in Cards
  BY ONLY <1>1, <1>5, k \in Clocks, o \in {0, 1} DEF Cards
<1>7. Kept(c, d)
  BY ONLY <1>1, <1>5 DEF Cards, Kept
<1>8. /\ d.lastClock = o /\ d.state = "WAIT_CLOCKS" /\ d.nextState = c.nextState
      /\ d.cardInserted = c.cardInserted /\ d.miso = c.miso /\ d.clocks = k
  BY ONLY <1>1, <1>5, c.state = "WAIT_CLOCKS" DEF Cards
<1>9. QED
  BY ONLY <1>3, <1>6, <1>7, <1>8

LEMMA Waking ==
  ASSUME NEW c, NEW l, Edge(c, l), c.state = "WAIT_CLOCKS", c.clocks + l.clk >= PowerUpClocks, l.cs = 0,
         NEW d, d = Clocked(c, l)
  PROVE  /\ d \in Cards /\ Kept(c, d) /\ d.lastClock = l.clk /\ d.state = "WAIT_BYTE"
         /\ d.nextState = "WAIT_COMMAND" /\ d.cardInserted = c.cardInserted /\ d.miso = 1
         /\ d.clocks = 7 /\ d.input = 0
<1>1. c \in Cards /\ l \in Lines /\ c.cardInserted
  BY DEF Edge
<1>2. Step(c, l) = WaitClocks(c, l) /\ d = [WaitClocks(c, l) EXCEPT !.lastClock = l.clk]
  BY <1>1 DEF Edge, Cards, Step, Clocked
<1>3. WaitClocks(c, l) = InitWaitByte(c, "WAIT_COMMAND")
  BY ONLY c.clocks + l.clk >= PowerUpClocks, l.cs = 0 DEF WaitClocks
<1>4. PICK z \in Byte, n \in Clocks, m \in {0, 1}, o \in {0, 1}, q \in States, r \in States :
        z = 0 /\ n = 7 /\ m = 1 /\ o = l.clk /\ q = "WAIT_BYTE" /\ r = "WAIT_COMMAND"
  BY <1>1, Members DEF Lines
<1>5. d = [c EXCEPT !.clocks = n, !.input = z, !.miso = m, !.state = q, !.nextState = r, !.lastClock = o]
  BY ONLY <1>1, <1>2, <1>3, <1>4 DEF Cards, InitWaitByte, ResetRead
<1>6. d \in Cards
  BY ONLY <1>1, <1>5, z \in Byte, n \in Clocks, m \in {0, 1}, o \in {0, 1}, q \in States, r \in States
     DEF Cards
<1>7. Kept(c, d)
  BY ONLY <1>1, <1>5 DEF Cards, Kept
<1>8. /\ d.lastClock = o /\ d.state = q /\ d.nextState = r
      /\ d.cardInserted = c.cardInserted /\ d.miso = m /\ d.clocks = n /\ d.input = z
  BY ONLY <1>1, <1>5 DEF Cards
<1>9. QED
  BY ONLY <1>4, <1>6, <1>7, <1>8

-----------------------------------------------------------------------------
(***************************************************************************)
(* The card, whatever the lines do.                                        *)
(***************************************************************************)
LEMMA BeginsOk ==
  ASSUME NEW d \in Cards, Begins(d), d.commandPtr <= 5, d.initialised => d.expectedCommand \in {2, 3}
  PROVE  CardOk(d)
<1>1. /\ d.state = "WAIT_BYTE" /\ d.nextState = "WAIT_COMMAND" /\ d.clocks = 7 /\ d.input = 0
      /\ d.lastClock = 0
  BY DEF Begins
<1>2. d.input + 2 * Bit[d.clocks] <= 256 /\ d.clocks \in 0 .. 7
  BY <1>1, Bits
<1>3. QED
  BY ONLY d \in Cards, d.commandPtr <= 5, d.initialised => d.expectedCommand \in {2, 3}, <1>1, <1>2
     DEF CardOk, Handlers

LEMMA UttersOk ==
  ASSUME NEW d \in Cards, NEW v, NEW next \in Handlers, Utters(d, v, next), d.commandPtr <= 5,
         d.initialised => d.expectedCommand \in {2, 3},
         next = "AFTER_COMMAND_RESPONSE" => d.commandPtr = 0,
         next = "READ_SECTOR" => d.bytesLeft \in 1 .. SectorSize,
         next = "READ_SECTOR_CRC" => d.bytesLeft \in 0 .. 2
  PROVE  CardOk(d)
<1>1. d.state = "WRITE_BYTE" /\ d.nextState = next /\ d.clocks \in 0 .. 7 /\ d.lastClock = 0
  BY DEF Utters
<1>2. QED
  BY ONLY d \in Cards, d.commandPtr <= 5, d.initialised => d.expectedCommand \in {2, 3}, next \in Handlers,
          next = "AFTER_COMMAND_RESPONSE" => d.commandPtr = 0,
          next = "READ_SECTOR" => d.bytesLeft \in 1 .. SectorSize,
          next = "READ_SECTOR_CRC" => d.bytesLeft \in 0 .. 2, <1>1 DEF CardOk, Handlers

LEMMA WaitByteOk ==
  ASSUME NEW c, CardOk(c), NEW l, Edge(c, l), NEW d, d = Clocked(c, l), c.state = "WAIT_BYTE"
  PROVE  CardOk(d) /\ d.lastClock = l.clk /\ d.cardInserted = c.cardInserted
<1>1. /\ c \in Cards /\ c.commandPtr <= 5 /\ (c.initialised => c.expectedCommand \in {2, 3})
      /\ c.nextState = "WAIT_COMMAND" /\ c.input + 2 * Bit[c.clocks] <= 256 /\ c.clocks \in 0 .. 7
  BY DEF CardOk
<1>2. l.cs \in {0, 1} /\ l.clk \in {0, 1}
  BY DEF Edge, Lines
<1>3. CASE l.cs = 0
  <2>1. /\ d \in Cards /\ Kept([c EXCEPT !.commandPtr = 0], d) /\ d.lastClock = l.clk
        /\ d.state = "WAIT_BYTE" /\ d.nextState = c.nextState /\ d.clocks = 7 /\ d.input = 0
        /\ d.miso = 1 /\ d.cardInserted = c.cardInserted
    BY <1>3, BitDropped
  <2>2. d.commandPtr = 0 /\ d.initialised = c.initialised /\ d.expectedCommand = c.expectedCommand
    BY ONLY <1>1, <2>1 DEF Kept, Cards
  <2>3. d.input + 2 * Bit[d.clocks] <= 256
    BY ONLY <2>1, Bits
  <2>4. CardOk(d)
    BY ONLY <1>1, <2>1, <2>2, <2>3 DEF CardOk, Handlers
  <2>5. QED
    BY <2>1, <2>4
<1>4. CASE l.cs = 1 /\ l.clk = 0
  <2>1. /\ d \in Cards /\ Kept(c, d) /\ SameByte(c, d) /\ d.lastClock = 0 /\ d.miso = 1
        /\ d.cardInserted = c.cardInserted
    BY <1>4, BitInFalls
  <2>2. CardOk(d)
    BY ONLY <1>1, <2>1, c.state = "WAIT_BYTE" DEF CardOk, Handlers, Kept, SameByte
  <2>3. QED
    BY <1>4, <2>1, <2>2
<1>5. CASE l.cs = 1 /\ l.clk = 1
  <2>1. PICK v : v = c.input + l.mosi * Bit[c.clocks]
    OBVIOUS
  <2>2. /\ d \in Cards /\ Kept(c, d) /\ d.lastClock = 1 /\ d.nextState = c.nextState
        /\ d.cardInserted = c.cardInserted /\ v \in Byte
        /\ c.clocks > 0 => /\ d.state = "WAIT_BYTE" /\ d.clocks = c.clocks - 1 /\ d.miso = c.miso
                           /\ d.input = v /\ d.input + 2 * Bit[d.clocks] <= 256
        /\ c.clocks = 0 => d.state = c.nextState /\ d.lastByte = v /\ d.miso = 1 /\ d.clocks = 7
    BY ONLY Edge(c, l), <1>1, <1>5, <2>1, c.state = "WAIT_BYTE", d = Clocked(c, l), BitIn
  <2>3. CardOk(d)
    <3>1. CASE c.clocks > 0
      BY ONLY <1>1, <2>2, <3>1 DEF CardOk, Handlers, Kept
    <3>2. CASE c.clocks = 0
      BY ONLY <1>1, <2>2, <3>2 DEF CardOk, Handlers, Kept
    <3>3. QED
      BY ONLY <1>1, <3>1, <3>2
  <2>4. QED
    BY <1>5, <2>2, <2>3
<1>6. QED
  BY <1>2, <1>3, <1>4, <1>5

LEMMA WriteByteOk ==
  ASSUME NEW c, CardOk(c), NEW l, Edge(c, l), NEW d, d = Clocked(c, l), c.state = "WRITE_BYTE"
  PROVE  CardOk(d) /\ d.lastClock = l.clk /\ d.cardInserted = c.cardInserted
<1>1. c \in Cards /\ c.clocks \in 0 .. 7 /\ c.nextState \in Handlers
  BY DEF CardOk
<1>2. l.clk \in {0, 1}
  BY DEF Edge, Lines
<1>3. CASE l.clk = 0
  <2>1. /\ d \in Cards /\ Kept(c, d) /\ SameByte(c, d) /\ d.lastClock = 0
        /\ d.miso = d.output \div 128 /\ d.cardInserted = c.cardInserted
    BY <1>3, BitOutFalls
  <2>2. CardOk(d)
    BY ONLY CardOk(c), <1>1, <2>1, c.state = "WRITE_BYTE" DEF CardOk, Handlers, Kept, SameByte
  <2>3. QED
    BY <1>3, <2>1, <2>2
<1>4. CASE l.clk = 1
  <2>1. /\ d \in Cards /\ Kept(c, d) /\ d.lastClock = 1 /\ d.nextState = c.nextState
        /\ d.cardInserted = c.cardInserted /\ d.miso = c.miso
        /\ c.clocks > 0 => /\ d.state = "WRITE_BYTE" /\ d.clocks = c.clocks - 1
                           /\ d.output = (c.output * 2) % 256
        /\ c.clocks = 0 => d.state = c.nextState /\ d.clocks = 0
    BY ONLY Edge(c, l), <1>1, <1>4, c.state = "WRITE_BYTE", d = Clocked(c, l), BitOut
  <2>2. CardOk(d)
    <3>1. CASE c.clocks > 0
      BY ONLY CardOk(c), <1>1, <2>1, <3>1, c.state = "WRITE_BYTE" DEF CardOk, Handlers, Kept
    <3>2. CASE c.clocks = 0
      BY ONLY CardOk(c), <1>1, <2>1, <3>2, c.state = "WRITE_BYTE" DEF CardOk, Handlers, Kept
    <3>3. QED
      BY ONLY <1>1, <3>1, <3>2
  <2>3. QED
    BY <1>4, <2>1, <2>2
<1>5. QED
  BY <1>2, <1>3, <1>4

LEMMA WaitCommandOk ==
  ASSUME NEW c, CardOk(c), NEW l, Edge(c, l), NEW d, d = Clocked(c, l), c.state = "WAIT_COMMAND",
         l.clk = 0
  PROVE  CardOk(d) /\ d.lastClock = 0 /\ d.cardInserted = c.cardInserted
<1>1. c \in Cards /\ c.commandPtr \in 0 .. 5 /\ (c.initialised => c.expectedCommand \in {2, 3})
  BY DEF CardOk, Cards
<1>2. CASE c.commandPtr = 0 /\ c.lastByte = 255
  <2>1. Begins(d) /\ Kept(c, d) /\ d \in Cards /\ d.cardInserted = c.cardInserted
    BY <1>2, WaitCommandIdle
  <2>2. d.commandPtr <= 5 /\ (d.initialised => d.expectedCommand \in {2, 3})
    BY ONLY <1>1, <2>1 DEF Kept
  <2>3. CardOk(d)
    BY ONLY <2>1, <2>2, BeginsOk
  <2>4. QED
    BY ONLY <2>1, <2>3 DEF Begins
<1>3. PICK x : x = Longer(c)
  OBVIOUS
<1>4. /\ x \in Cards /\ x.commandPtr = c.commandPtr + 1
      /\ x.expectedCommand = c.expectedCommand /\ x.initialised = c.initialised
      /\ x.cardInserted = c.cardInserted
  BY ONLY <1>1, <1>3, LongerIs
<1>5. CASE ~(c.commandPtr = 0 /\ c.lastByte = 255) /\ c.commandPtr < 5
  <2>1. Begins(d) /\ Kept(x, d) /\ d \in Cards /\ d.cardInserted = c.cardInserted
    BY <1>3, <1>5, WaitCommandMore
  <2>2. d.commandPtr <= 5 /\ (d.initialised => d.expectedCommand \in {2, 3})
    BY ONLY <1>1, <1>4, <1>5, <2>1 DEF Kept
  <2>3. CardOk(d)
    BY ONLY <2>1, <2>2, BeginsOk
  <2>4. QED
    BY ONLY <2>1, <2>3 DEF Begins
<1>6. CASE c.commandPtr = 5
  <2>1. SixthByte(c, l, x)
    BY <1>3, <1>6 DEF SixthByte
  <2>2. CASE x.initialised /\ x.command[3] = 81
    <3>1. /\ Utters(d, 0, "READ_SECTOR_TOKEN") /\ d \in Cards /\ d.commandPtr = 0
          /\ d.initialised /\ d.expectedCommand = x.expectedCommand
          /\ d.cardInserted = x.cardInserted
      BY ONLY <2>1, <2>2, d = Clocked(c, l), CommandReads
    <3>2. d.expectedCommand \in {2, 3} /\ d.commandPtr <= 5
      BY ONLY <1>1, <1>4, <2>2, <3>1
    <3>3. "READ_SECTOR_TOKEN" \in Handlers
      BY DEF Handlers
    <3>4. CardOk(d)
      BY ONLY <3>1, <3>2, <3>3, UttersOk
    <3>5. QED
      BY ONLY <1>4, <3>1, <3>4 DEF Utters
  <2>3. CASE ~(x.initialised /\ x.command[3] = 81)
    <3>1. PICK e : e = Wanted(x)
      OBVIOUS
    <3>2. /\ d.commandPtr = 0 /\ d.initialised = (x.initialised /\ x.command[3] # 64)
          /\ d \in Cards /\ d.cardInserted = x.cardInserted
          /\ x.command = ExpectedCommands[e].command =>
               /\ Utters(d, 0, "AFTER_COMMAND_RESPONSE") /\ d.okResponse /\ d.responsePtr = 0
               /\ d.expectedCommand = e
          /\ x.command # ExpectedCommands[e].command =>
               /\ Utters(d, 4, "AFTER_COMMAND_RESPONSE") /\ ~d.okResponse
               /\ d.expectedCommand = ExpectedCommands[e].error
      BY ONLY <2>1, <2>3, <3>1, d = Clocked(c, l), CommandResponds
    <3>3. d.initialised => x.initialised /\ e = c.expectedCommand /\ e \in {2, 3}
      BY ONLY <1>1, <1>4, <3>1, <3>2 DEF Wanted
    <3>4. d.initialised => d.expectedCommand \in {2, 3}
      <4>1. e \in {2, 3} => ExpectedCommands[e].error = 2
        BY Expected
      <4>2. d.expectedCommand = e \/ d.expectedCommand = ExpectedCommands[e].error
        BY ONLY <3>2
      <4>3. QED
        BY ONLY <3>3, <4>1, <4>2
    <3>5. PICK v : Utters(d, v, "AFTER_COMMAND_RESPONSE")
      BY ONLY <3>2
    <3>6. "AFTER_COMMAND_RESPONSE" \in Handlers
      BY DEF Handlers
    <3>7. d \in Cards /\ d.commandPtr = 0 /\ d.commandPtr <= 5
      BY ONLY <3>2
    <3>8. CardOk(d)
      BY ONLY <3>4, <3>5, <3>6, <3>7, UttersOk
    <3>9. QED
      BY ONLY <1>4, <3>2, <3>5, <3>8 DEF Utters
  <2>4. QED
    BY <2>2, <2>3
<1>7. QED
  BY ONLY <1>1, <1>2, <1>5, <1>6

LEMMA ResponseOk ==
  ASSUME NEW c, CardOk(c), NEW l, Spoken(c, l, "AFTER_COMMAND_RESPONSE"), NEW d, d = Clocked(c, l)
  PROVE  CardOk(d) /\ d.lastClock = 0 /\ d.cardInserted = c.cardInserted
<1>1. /\ c \in Cards /\ c.commandPtr = 0 /\ (c.initialised => c.expectedCommand \in {2, 3})
      /\ c.expectedCommand \in 0 .. 3
  BY DEF CardOk, Cards, Spoken, Handlers
<1>2. CASE ~c.okResponse
  <2>1. /\ Begins(d) /\ SameSector(c, d) /\ d.commandPtr = c.commandPtr
        /\ d.expectedCommand = c.expectedCommand /\ d.initialised = c.initialised
    BY <1>2, ResponseRefused
  <2>2. d \in Cards /\ d.commandPtr <= 5 /\ (d.initialised => d.expectedCommand \in {2, 3})
    BY ONLY <1>1, <2>1 DEF SameSector
  <2>3. QED
    BY ONLY <2>1, <2>2, BeginsOk DEF Begins, SameSector
<1>3. CASE c.okResponse /\ c.expectedCommand = 1 /\ c.responsePtr < 4
  <2>1. PICK v : /\ Utters(d, v, "AFTER_COMMAND_RESPONSE") /\ SameSector(c, d)
                 /\ d.commandPtr = c.commandPtr /\ d.expectedCommand = 1
                 /\ d.initialised = c.initialised
    BY <1>3, ResponseGoesOn
  <2>2. /\ d \in Cards /\ d.commandPtr = 0 /\ d.commandPtr <= 5 /\ ~d.initialised
        /\ "AFTER_COMMAND_RESPONSE" \in Handlers
    BY ONLY <1>1, <1>3, <2>1 DEF SameSector, Handlers
  <2>3. CardOk(d)
    BY ONLY <2>1, <2>2, UttersOk
  <2>4. QED
    BY ONLY <2>1, <2>3 DEF Utters, SameSector
<1>4. CASE c.okResponse /\ ~(c.expectedCommand = 1 /\ c.responsePtr < 4)
  <2>1. /\ Begins(d) /\ SameSector(c, d) /\ d.commandPtr = c.commandPtr
        /\ d.expectedCommand = IF c.expectedCommand < 3 THEN c.expectedCommand + 1 ELSE 3
        /\ d.initialised = (c.initialised \/ c.expectedCommand = 3)
    BY <1>4, ResponseAccepted
  <2>2. d \in Cards /\ d.commandPtr <= 5 /\ (d.initialised => d.expectedCommand \in {2, 3})
    <3>1. c.initialised \/ c.expectedCommand = 3 => d.expectedCommand = 3
      BY ONLY <1>1, <2>1
    <3>2. d.initialised => c.initialised \/ c.expectedCommand = 3
      BY ONLY <2>1, Zenon
    <3>3. d \in Cards /\ d.commandPtr <= 5
      BY ONLY <1>1, <2>1 DEF SameSector
    <3>4. QED
      BY ONLY <3>1, <3>2, <3>3
  <2>3. QED
    BY ONLY <2>1, <2>2, BeginsOk DEF Begins, SameSector
<1>5. QED
  BY <1>2, <1>3, <1>4

LEMMA SectorOk ==
  ASSUME NEW c, CardOk(c), NEW l, NEW d, d = Clocked(c, l),
         NEW handler \in {"READ_SECTOR_TOKEN", "READ_SECTOR", "READ_SECTOR_CRC"}, Spoken(c, l, handler)
  PROVE  CardOk(d) /\ d.lastClock = 0 /\ d.cardInserted = c.cardInserted
<1>1. /\ c \in Cards /\ c.commandPtr <= 5 /\ (c.initialised => c.expectedCommand \in {2, 3})
      /\ c.state = handler /\ c.nextState = handler
  BY DEF CardOk, Spoken, Handlers
<1>2. {"READ_SECTOR", "READ_SECTOR_CRC"} \subseteq Handlers /\ SectorSize \in 1 .. SectorSize
  BY MmcCardAssumption DEF Handlers
<1>3. ASSUME NEW v, NEW next \in {"READ_SECTOR", "READ_SECTOR_CRC"}, Utters(d, v, next),
             SameCommand(c, d), SameSector(c, d),
             d.bytesLeft \in IF next = "READ_SECTOR" THEN 1 .. SectorSize ELSE 0 .. 2
      PROVE  CardOk(d) /\ d.lastClock = 0 /\ d.cardInserted = c.cardInserted
  <2>1. d \in Cards /\ d.commandPtr <= 5 /\ (d.initialised => d.expectedCommand \in {2, 3})
    BY ONLY <1>1, SameCommand(c, d), SameSector(c, d) DEF SameCommand, SameSector
  <2>2. next = "READ_SECTOR" => d.bytesLeft \in 1 .. SectorSize
    BY ONLY <1>3
  <2>3. next = "READ_SECTOR_CRC" => d.bytesLeft \in 0 .. 2
    BY ONLY <1>3
  <2>4. next # "AFTER_COMMAND_RESPONSE" /\ next \in Handlers
    BY ONLY <1>2, next \in {"READ_SECTOR", "READ_SECTOR_CRC"}
  <2>5. CardOk(d)
    BY ONLY <2>1, <2>2, <2>3, <2>4, Utters(d, v, next), UttersOk
  <2>6. QED
    BY ONLY <2>5, Utters(d, v, next), SameSector(c, d) DEF Utters, SameSector
<1>4. CASE handler = "READ_SECTOR_TOKEN"
  <2>1. Utters(d, 254, "READ_SECTOR") /\ SameCommand(c, d) /\ SameSector(c, d) /\ d.bytesLeft = SectorSize
    BY <1>4, TokenIs
  <2>2. d.bytesLeft \in IF "READ_SECTOR" = "READ_SECTOR" THEN 1 .. SectorSize ELSE 0 .. 2
    BY ONLY <1>2, <2>1
  <2>3. QED
    BY ONLY <1>3, <2>1, <2>2
<1>5. CASE handler = "READ_SECTOR"
  <2>1. c.bytesLeft \in 1 .. SectorSize
    BY <1>1, <1>5 DEF CardOk
  <2>2. PICK v, next : /\ next = IF c.bytesLeft > 1 THEN "READ_SECTOR" ELSE "READ_SECTOR_CRC"
                       /\ Utters(d, v, next) /\ SameCommand(c, d) /\ SameSector(c, d)
                       /\ d.bytesLeft = IF c.bytesLeft > 1 THEN c.bytesLeft - 1 ELSE 2
    BY <1>5, <2>1, SectorIs
  <2>3. SectorSize \in Nat
    BY MmcCardAssumption
  <2>4. d.bytesLeft \in IF next = "READ_SECTOR" THEN 1 .. SectorSize ELSE 0 .. 2
    BY ONLY <2>1, <2>2, <2>3
  <2>5. next \in {"READ_SECTOR", "READ_SECTOR_CRC"}
    BY ONLY <2>2
  <2>6. QED
    BY ONLY <1>3, <2>2, <2>4, <2>5
<1>6. CASE handler = "READ_SECTOR_CRC"
  <2>1. c.bytesLeft \in 0 .. 2
    BY <1>1, <1>6 DEF CardOk
  <2>2. CASE c.bytesLeft = 0
    <3>1. /\ Begins(d) /\ SameSector(c, d) /\ d.commandPtr = 0
          /\ d.expectedCommand = c.expectedCommand /\ d.initialised = c.initialised
      BY <1>6, <2>2, CrcEnds
    <3>2. d \in Cards /\ d.commandPtr <= 5 /\ (d.initialised => d.expectedCommand \in {2, 3})
      BY ONLY <1>1, <3>1 DEF SameSector
    <3>3. QED
      BY ONLY <3>1, <3>2, BeginsOk DEF Begins, SameSector
  <2>3. CASE c.bytesLeft \in 1 .. 2
    <3>1. /\ Utters(d, 0, "READ_SECTOR_CRC") /\ SameCommand(c, d) /\ SameSector(c, d)
          /\ d.bytesLeft = c.bytesLeft - 1
      BY <1>6, <2>3, CrcGoesOn
    <3>2. d.bytesLeft \in IF "READ_SECTOR_CRC" = "READ_SECTOR" THEN 1 .. SectorSize ELSE 0 .. 2
      BY ONLY <2>3, <3>1
    <3>3. QED
      BY ONLY <1>3, <3>1, <3>2
  <2>4. QED
    BY ONLY <2>1, <2>2, <2>3
<1>7. QED
  BY <1>4, <1>5, <1>6

LEMMA ClockedOk ==
  ASSUME NEW c, CardOk(c), NEW l \in Lines, NEW d, d = Clocked(c, l)
  PROVE  /\ CardOk(d) /\ d.cardInserted = c.cardInserted
         /\ d.lastClock = IF c.cardInserted THEN l.clk ELSE c.lastClock
<1>1. /\ c \in Cards /\ c.state \in States /\ c.cardInserted \in BOOLEAN
      /\ c.lastClock \in {0, 1} /\ l.clk \in {0, 1}
  BY DEF CardOk, Cards, Lines
<1>2. CASE l.clk = c.lastClock
  BY <1>2 DEF Clocked
<1>3. CASE l.clk # c.lastClock /\ ~c.cardInserted
  <2>1. PICK m \in {0, 1} : m = 1
    OBVIOUS
  <2>2. d = [c EXCEPT !.miso = m]
    BY ONLY <1>3, <2>1, d = Clocked(c, l) DEF Clocked
  <2>3. d \in Cards
    BY ONLY <1>1, <2>2, m \in {0, 1} DEF Cards
  <2>4. Kept(c, d) /\ SameByte(c, d) /\ d.lastClock = c.lastClock /\ d.cardInserted = c.cardInserted
    BY ONLY <1>1, <2>2 DEF Cards, Kept, SameByte
  <2>5. CardOk(d)
    BY ONLY CardOk(c), <2>3, <2>4 DEF CardOk, Kept, SameByte, Handlers
  <2>6. QED
    BY <1>3, <2>4, <2>5
<1>4. CASE l.clk # c.lastClock /\ c.cardInserted
  <2>1. Edge(c, l)
    BY <1>1, <1>4 DEF Edge
  <2>2. CASE c.state = "WAIT_CLOCKS"
    <3>1. /\ c.nextState = "WAIT_CLOCKS" /\ c.clocks < PowerUpClocks /\ ~c.initialised
          /\ c.expectedCommand = 0 /\ c.commandPtr <= 5 /\ PowerUpClocks \in Nat \ {0}
      BY <2>2, MmcCardAssumption DEF CardOk
    <3>2. l.cs \in {0, 1} /\ c.clocks \in Nat
      BY <1>1, <3>1 DEF Lines, Cards, Clocks
    <3>3. CASE c.clocks + l.clk < PowerUpClocks \/ l.cs = 1
      <4>1. /\ d \in Cards /\ Kept(c, d) /\ d.lastClock = l.clk /\ d.state = "WAIT_CLOCKS"
            /\ d.nextState = c.nextState /\ d.cardInserted = c.cardInserted
            /\ d.clocks = IF l.cs = 1 THEN 0 ELSE c.clocks + l.clk
        BY ONLY <2>1, <2>2, <3>3, d = Clocked(c, l), Counting
      <4>2. d.clocks < PowerUpClocks
        BY ONLY <3>1, <3>2, <3>3, <4>1
      <4>3. CardOk(d)
        BY ONLY <3>1, <4>1, <4>2 DEF CardOk, Kept, Handlers
      <4>4. QED
        BY <1>4, <4>1, <4>3
    <3>4. CASE c.clocks + l.clk >= PowerUpClocks /\ l.cs = 0
      <4>1. /\ d \in Cards /\ Kept(c, d) /\ d.lastClock = l.clk /\ d.state = "WAIT_BYTE"
            /\ d.nextState = "WAIT_COMMAND" /\ d.cardInserted = c.cardInserted /\ d.clocks = 7
            /\ d.input = 0
        BY ONLY <2>1, <2>2, <3>4, d = Clocked(c, l), Waking
      <4>2. d.input + 2 * Bit[d.clocks] <= 256
        BY ONLY <4>1, Bits
      <4>3. CardOk(d)
        BY ONLY <3>1, <4>1, <4>2 DEF CardOk, Kept, Handlers
      <4>4. QED
        BY <1>4, <4>1, <4>3
    <3>5. QED
      BY ONLY <1>1, <3>1, <3>2, <3>3, <3>4
  <2>3. CASE c.state = "WAIT_BYTE"
    BY <1>4, <2>1, <2>3, WaitByteOk
  <2>4. CASE c.state = "WRITE_BYTE"
    BY <1>4, <2>1, <2>4, WriteByteOk
  <2>5. ASSUME c.state \in Handlers \cup {"WAIT_COMMAND"}
        PROVE  l.clk = 0
    BY ONLY CardOk(c), <1>1, <1>4, <2>5 DEF CardOk
  <2>6. CASE c.state = "WAIT_COMMAND"
    BY <1>4, <2>1, <2>5, <2>6, WaitCommandOk
  <2>7. CASE c.state = "AFTER_COMMAND_RESPONSE"
    <3>1. Spoken(c, l, "AFTER_COMMAND_RESPONSE") /\ l.clk = 0
      BY <2>1, <2>5, <2>7 DEF Spoken, Handlers
    <3>2. QED
      BY <1>4, <3>1, ResponseOk
  <2>8. CASE c.state \in {"READ_SECTOR_TOKEN", "READ_SECTOR", "READ_SECTOR_CRC"}
    <3>1. Spoken(c, l, c.state) /\ l.clk = 0
      BY <2>1, <2>5, <2>8 DEF Spoken, Handlers
    <3>2. PICK handler \in {"READ_SECTOR_TOKEN", "READ_SECTOR", "READ_SECTOR_CRC"} :
            Spoken(c, l, handler)
      BY <2>8, <3>1
    <3>3. CardOk(d) /\ d.lastClock = 0 /\ d.cardInserted = c.cardInserted
      BY <3>2, SectorOk
    <3>4. QED
      BY <1>4, <3>1, <3>3
  <2>9. QED
    BY <1>1, <2>2, <2>3, <2>4, <2>6, <2>7, <2>8 DEF States
<1>5. QED
  BY <1>2, <1>3, <1>4

-----------------------------------------------------------------------------
(***************************************************************************)
(* The types of the driver.                                                *)
(***************************************************************************)
LEMMA Sizes ==
  /\ DummyBytes \in Nat \ {0} /\ Cmd0Tries \in Nat \ {0, 1} /\ Acmd41Tries \in Nat \ {0}
  /\ BusyTries \in Nat \ {0} /\ ResponseTries \in Nat \ {0} /\ TokenTries \in Nat \ {0}
  /\ SectorSize \in Nat \ {0} /\ PowerUpClocks \in Nat \ {0} /\ MaxResets \in Nat
  /\ DummyBytes * 8 >= PowerUpClocks
BY MmcLinkAssumption, MmcCardAssumption

LEMMA TriesAre ==
  /\ Tries("dummy") = DummyBytes /\ Tries("busy") = BusyTries /\ Tries("send") = 6
  /\ Tries("answer") = ResponseTries /\ Tries("r7") = 4 /\ Tries("token") = TokenTries
  /\ Tries("data") = SectorSize /\ Tries("trailer") = 3
BY DEF Tries

LEMMA TriesFit ==
  /\ \A place \in BytePlaces : Tries(place) \in 1 .. Largest /\ Tries(place) \in Nat
  /\ Largest \in Nat
<1>1. Largest \in Nat
  BY Sizes DEF Largest
<1>2. ASSUME NEW place \in BytePlaces
      PROVE  Tries(place) \in 1 .. Largest /\ Tries(place) \in Nat
  <2>1. Tries(place) \in {DummyBytes, BusyTries, 6, ResponseTries, 4, TokenTries, SectorSize, 3}
    BY TriesAre DEF BytePlaces
  <2>2. QED
    BY ONLY <2>1, Sizes DEF Largest
<1>3. QED
  BY <1>1, <1>2

\* The card after the driver has written to the lines.
LEMMA Written ==
  ASSUME CardRuns, NEW new \in Lines, Write(new)
  PROVE  CardRuns' /\ lines' = new /\ lines' \in Lines
<1>1. PICK c, d : c = card /\ d = card' /\ d = Clocked(c, new) /\ CardOk(c)
  BY DEF Write, CardRuns
<1>2. /\ CardOk(d) /\ d.cardInserted = c.cardInserted
      /\ d.lastClock = IF c.cardInserted THEN new.clk ELSE c.lastClock
  BY ONLY <1>1, new \in Lines, ClockedOk
<1>3. lines' = new
  BY DEF Write
<1>4. QED
  BY <1>1, <1>2, <1>3 DEF CardRuns

LEMMA Held ==
  ASSUME CardRuns, lines \in Lines, Hold
  PROVE  CardRuns' /\ lines' = lines /\ lines' \in Lines /\ card' = card
BY DEF Hold, CardRuns

LEMMA TypesFollow ==
  ASSUME DriverOk, CardRuns
  PROVE  TypeOK
<1>1. at \in BytePlaces => count \in 0 .. Largest
  BY TriesFit DEF DriverOk, Registers
<1>2. at \notin BytePlaces => count \in 0 .. Largest
  BY TriesFit DEF DriverOk, Registers
<1>3. /\ at \in Places /\ bits \in 0 .. 8 /\ d0 \in Byte \cup {WaitTimeout, ResponseTimeout}
  BY DEF DriverOk, Registers
<1>4. QED
  BY <1>1, <1>2, <1>3 DEF DriverOk, CardRuns, CardOk, Levels, Course, Attempts, Results, Asked, TypeOK

\* The registers of a new place.
LEMMA NewRegisters ==
  /\ \A place \in BytePlaces : \A n \in 1 .. Tries(place) : Registers(place, 8, 0, n)
  /\ \A v \in Byte, n \in 1 .. 6 : Registers("send", 8, v, n)
  /\ Registers("select", 0, 0, 0) /\ Registers("none", 0, 0, 0)
  /\ \A v \in Byte \cup {WaitTimeout, ResponseTimeout} : Registers("return", 0, v, 0)
<1>1. ASSUME NEW place \in BytePlaces, NEW n \in 1 .. Tries(place)
      PROVE  Registers(place, 8, 0, n)
  BY Members DEF Registers, BytePlaces, Places
<1>2. ASSUME NEW v \in Byte, NEW n \in 1 .. 6
      PROVE  Registers("send", 8, v, n)
  BY TriesAre DEF Registers, BytePlaces, Places
<1>3. Registers("select", 0, 0, 0) /\ Registers("none", 0, 0, 0)
  BY Members DEF Registers, BytePlaces, Places
<1>4. ASSUME NEW v \in Byte \cup {WaitTimeout, ResponseTimeout}
      PROVE  Registers("return", 0, v, 0)
  BY DEF Registers, BytePlaces, Places
<1>5. QED
  BY <1>1, <1>2, <1>3, <1>4

\* A loop that reads bytes.
LEMMA Loops ==
  ASSUME NEW place \in BytePlaces, NEW n \in 1 .. Tries(place)
  PROVE  /\ n > 1 => Registers(place, 8, 0, n - 1)
         /\ \A e \in {WaitTimeout, ResponseTimeout} : Registers("return", 0, e, 0)
<1>1. n > 1 => n - 1 \in 1 .. Tries(place)
  BY TriesFit
<1>2. QED
  BY <1>1, NewRegisters

\* The lines, at a place where the card is selected and between two bytes.
LEMMA LevelsHeld ==
  ASSUME NEW place, NEW b, NEW l, Levels(place, b, l), b = 0,
         place \in BytePlaces \cup {"return"}, place # "dummy",
         NEW next \in BytePlaces \cup {"return", "select"}, next # "dummy", NEW b1 \in Nat
  PROVE  Levels(next, b1, l)
BY DEF Levels, BytePlaces

\* The next byte, or the next command, of the call.
LEMMA Proceeds ==
  ASSUME DriverOk, CardRuns, Hold, bits = 0, at \in BytePlaces \cup {"return"}, at # "dummy",
         at' \in BytePlaces \cup {"return", "select"}, at' # "dummy",
         Registers(at', bits', d0', count'), Course(call, phase', at'), Attempts(phase', at', tries'),
         Asked(request, buffer'), UNCHANGED <<call, request, status, ready, spoilt, resets>>
  PROVE  DriverOk' /\ CardRuns'
<1>1. /\ Levels(at, bits, lines) /\ Results(call, ready, status)
      /\ spoilt \in BOOLEAN /\ resets \in 0 .. MaxResets
  BY DEF DriverOk
<1>2. CardRuns' /\ lines' = lines
  BY <1>1, Held DEF Levels
<1>3. bits' \in Nat
  BY DEF Registers
<1>4. Levels(at', bits', lines)
  BY ONLY <1>1, <1>3, bits = 0, at \in BytePlaces \cup {"return"}, at # "dummy",
          at' \in BytePlaces \cup {"return", "select"}, at' # "dummy", LevelsHeld
<1>5. QED
  BY <1>1, <1>2, <1>4 DEF DriverOk

LEMMA Typed ==
  ASSUME DriverOk
  PROVE  /\ Registers(at, bits, d0, count) /\ Levels(at, bits, lines) /\ Course(call, phase, at)
         /\ Attempts(phase, at, tries) /\ Results(call, ready, status) /\ Asked(request, buffer)
         /\ spoilt \in BOOLEAN /\ resets \in 0 .. MaxResets
         /\ request \in Nat /\ tries \in Nat /\ ready \in BOOLEAN
         /\ bits \in Nat /\ bits \in 0 .. 8 /\ d0 \in Nat /\ lines \in Lines
         /\ at \in BytePlaces => count \in 1 .. Tries(at)
<1>1. Requests \cup {0} \subseteq Nat
  BY MmcLinkAssumption
<1>2. d0 \in Nat
  BY DEF DriverOk, Registers, Byte, WaitTimeout, ResponseTimeout
<1>3. QED
  BY <1>1, <1>2, Sizes DEF DriverOk, Registers, Levels, Attempts, Asked, Results

LEMMA BusyTypes ==
  ASSUME DriverOk, CardRuns, Busy
  PROVE  DriverOk' /\ CardRuns'
<1>1. at = "busy" /\ bits = 0 /\ Hold
  BY DEF Busy, ByteDone
<1>2. count \in 1 .. Tries("busy")
  BY <1>1, Typed DEF BytePlaces
<1>3. Registers(at', bits', d0', count') /\ at' \in {"busy", "send", "return"}
  <2>1. CASE d0 = 255 /\ Send(Frame(phase, request)[1]) /\ count' = 1
    <3>1. phase \in Phases \ {"none"} /\ request \in Nat
      BY <1>1, Typed DEF Course
    <3>2. Frame(phase, request)[1] \in Byte
      BY ONLY <3>1, FrameBytes
    <3>3. Registers("send", 8, Frame(phase, request)[1], 1)
      BY ONLY <3>2, NewRegisters
    <3>4. QED
      BY ONLY <2>1, <3>3 DEF Send
  <2>2. CASE d0 # 255 /\ Again
    <3>1. Registers("busy", 8, 0, count - 1)
      BY ONLY <1>2, <2>2, Loops DEF Again, BytePlaces
    <3>2. QED
      BY ONLY <1>1, <2>2, <3>1 DEF Again, Receive
  <2>3. CASE d0 # 255 /\ GiveUp(WaitTimeout)
    <3>1. Registers("return", 0, WaitTimeout, 0)
      BY ONLY NewRegisters
    <3>2. QED
      BY ONLY <2>3, <3>1 DEF GiveUp
  <2>4. QED
    BY <2>1, <2>2, <2>3 DEF Busy
<1>4. UNCHANGED <<call, phase, tries, request, buffer, status, ready, spoilt, resets>>
  BY DEF Busy
<1>5. Course(call, phase', at') /\ Attempts(phase', at', tries')
  BY ONLY <1>1, <1>3, <1>4, DriverOk, Typed DEF Course, Attempts
<1>6. Asked(request, buffer')
  BY ONLY <1>4, DriverOk, Typed
<1>7. QED
  BY ONLY <1>1, <1>3, <1>4, <1>5, <1>6, DriverOk, CardRuns, Proceeds DEF BytePlaces

LEMMA SentTypes ==
  ASSUME DriverOk, CardRuns, Sent
  PROVE  DriverOk' /\ CardRuns'
<1>1. at = "send" /\ bits = 0 /\ Hold
  BY DEF Sent, ByteDone
<1>2. count \in 1 .. 6
  BY <1>1, Typed, TriesAre DEF BytePlaces
<1>3. Registers(at', bits', d0', count') /\ at' \in {"send", "answer"}
  <2>1. CASE count < 6
    <3>1. phase \in Phases \ {"none"} /\ request \in Nat
      BY <1>1, Typed DEF Course
    <3>2. Frame(phase, request)[count + 1] \in Byte
      BY ONLY <1>2, <2>1, <3>1, FrameBytes
    <3>3. count + 1 \in 1 .. 6
      BY <1>2, <2>1
    <3>4. Registers("send", 8, Frame(phase, request)[count + 1], count + 1)
      BY ONLY <3>2, <3>3, NewRegisters
    <3>5. QED
      BY <2>1, <3>4 DEF Send, Sent
  <2>2. CASE ~(count < 6)
    <3>1. ResponseTries \in 1 .. Tries("answer") /\ "answer" \in BytePlaces
      BY Sizes, TriesAre DEF BytePlaces
    <3>2. Registers("answer", 8, 0, ResponseTries)
      BY ONLY <3>1, NewRegisters
    <3>3. QED
      BY <2>2, <3>2 DEF Receive, Sent
  <2>3. QED
    BY <2>1, <2>2
<1>4. UNCHANGED <<call, phase, tries, request, buffer, status, ready, spoilt, resets>>
  BY DEF Sent
<1>5. Course(call, phase', at') /\ Attempts(phase', at', tries')
  BY ONLY <1>1, <1>3, <1>4, DriverOk, Typed DEF Course, Attempts
<1>6. Asked(request, buffer')
  BY ONLY <1>4, DriverOk, Typed
<1>7. QED
  BY ONLY <1>1, <1>3, <1>4, <1>5, <1>6, DriverOk, CardRuns, Proceeds DEF BytePlaces

LEMMA AnswerTypes ==
  ASSUME DriverOk, CardRuns, Answer
  PROVE  DriverOk' /\ CardRuns'
<1>1. at = "answer" /\ bits = 0 /\ Hold
  BY DEF Answer, ByteDone
<1>2. count \in 1 .. Tries("answer")
  BY <1>1, Typed DEF BytePlaces
<1>3. Registers(at', bits', d0', count') /\ at' \in {"answer", "return"}
  <2>1. CASE d0 # 255 /\ at' = "return" /\ count' = 0 /\ UNCHANGED <<bits, d0>>
    <3>1. d0 \in Byte
      BY <1>1, Typed DEF Registers, BytePlaces
    <3>2. Registers("return", 0, d0, 0)
      BY ONLY <3>1, NewRegisters
    <3>3. QED
      BY ONLY <1>1, <2>1, <3>2
  <2>2. CASE d0 = 255 /\ Again
    <3>1. Registers("answer", 8, 0, count - 1)
      BY ONLY <1>2, <2>2, Loops DEF Again, BytePlaces
    <3>2. QED
      BY ONLY <1>1, <2>2, <3>1 DEF Again, Receive
  <2>3. CASE d0 = 255 /\ GiveUp(ResponseTimeout)
    <3>1. Registers("return", 0, ResponseTimeout, 0)
      BY ONLY NewRegisters
    <3>2. QED
      BY ONLY <2>3, <3>1 DEF GiveUp
  <2>4. QED
    BY <2>1, <2>2, <2>3 DEF Answer
<1>4. UNCHANGED <<call, phase, tries, request, buffer, status, ready, spoilt, resets>>
  BY DEF Answer
<1>5. Course(call, phase', at') /\ Attempts(phase', at', tries')
  BY ONLY <1>1, <1>3, <1>4, DriverOk, Typed DEF Course, Attempts
<1>6. Asked(request, buffer')
  BY ONLY <1>4, DriverOk, Typed
<1>7. QED
  BY ONLY <1>1, <1>3, <1>4, <1>5, <1>6, DriverOk, CardRuns, Proceeds DEF BytePlaces

LEMMA SelectedLines ==
  ASSUME NEW l \in Lines, NEW v \in {0, 1}
  PROVE  \E k \in Lines : k = [l EXCEPT !.cs = v] /\ k.cs = v /\ k.clk = l.clk
<1>1. PICK k : k = [l EXCEPT !.cs = v]
  OBVIOUS
<1>2. k \in Lines /\ k.cs = v /\ k.clk = l.clk
  BY <1>1 DEF Lines
<1>3. QED
  BY <1>1, <1>2

LEMMA SelectTypes ==
  ASSUME DriverOk, CardRuns, Select
  PROVE  DriverOk' /\ CardRuns'
<1>1. at = "select" /\ Write([lines EXCEPT !.cs = 1]) /\ Receive("busy") /\ count' = BusyTries
  BY DEF Select
<1>2. PICK l \in Lines : l = [lines EXCEPT !.cs = 1] /\ l.cs = 1
  BY Typed, 1 \in {0, 1}, SelectedLines
<1>3. CardRuns' /\ lines' = l
  BY <1>1, <1>2, Written
<1>4. Registers("busy", 8, 0, BusyTries)
  <2>1. BusyTries \in 1 .. Tries("busy") /\ "busy" \in BytePlaces
    BY Sizes, TriesAre DEF BytePlaces
  <2>2. QED
    BY ONLY <2>1, NewRegisters
<1>5. Levels("busy", 8, l)
  BY <1>2 DEF Levels
<1>6. UNCHANGED <<call, phase, tries, request, buffer, status, ready, spoilt, resets>>
  BY DEF Select
<1>7. Course(call, phase, "busy") /\ Attempts(phase, "busy", tries)
  BY ONLY <1>1, DriverOk, Typed DEF Course, Attempts
<1>8. QED
  BY <1>1, <1>3, <1>4, <1>5, <1>6, <1>7 DEF DriverOk, Receive

LEMMA RaiseTypes ==
  ASSUME DriverOk, CardRuns, Raise
  PROVE  /\ DriverOk' /\ CardRuns' /\ at \in BytePlaces /\ d0 \in Byte
         /\ lines'.cs = lines.cs /\ lines'.clk = 1
         /\ lines'.mosi = IF at = "send" THEN TopBit(d0) ELSE 1
         /\ lines' \in Lines /\ card' = Clocked(card, lines') /\ card'.miso \in {0, 1}
<1>1. at \in BytePlaces /\ d0 \in Byte
  BY Typed DEF Registers, Raise
<1>2. PICK m \in {0, 1} : m = IF at = "send" THEN TopBit(d0) ELSE 1
  BY <1>1, Members DEF TopBit
<1>3. PICK l \in Lines : /\ l = [lines EXCEPT !.clk = 1, !.mosi = m] /\ l.cs = lines.cs /\ l.clk = 1
                         /\ l.mosi = m
  <2>1. lines \in Lines
    BY Typed
  <2>2. PICK l : l = [lines EXCEPT !.clk = 1, !.mosi = m]
    OBVIOUS
  <2>3. l \in Lines /\ l.cs = lines.cs /\ l.clk = 1 /\ l.mosi = m
    BY ONLY <2>1, <2>2, m \in {0, 1} DEF Lines
  <2>4. QED
    BY ONLY <2>2, <2>3
<1>4. Write(l)
  BY <1>2, <1>3 DEF Raise
<1>5. CardRuns' /\ lines' = l
  BY <1>4, Written
<1>6. card'.miso \in {0, 1}
  BY <1>5 DEF CardRuns, CardOk, Cards
<1>7. d0' \in Byte
  <2>1. PICK r \in {0, 1}, v \in 0 .. 255 : v = d0 /\ r = IF at = "send" THEN 0 ELSE card'.miso
    BY <1>1, <1>6 DEF Byte
  <2>2. d0' = ((v * 2) % 256) + r
    BY <2>1 DEF Raise
  <2>3. ((v * 2) % 256) + r \in 0 .. 255
    BY ONLY v \in 0 .. 255, r \in {0, 1}
  <2>4. QED
    BY <2>2, <2>3 DEF Byte
<1>8. UNCHANGED <<call, phase, at, bits, count, tries, request, buffer, status, ready, spoilt, resets>>
  BY DEF Raise
<1>9. Registers(at, bits, d0', count)
  BY <1>1, <1>7, Typed DEF Registers
<1>10. Levels(at, bits, l)
  BY <1>1, <1>3, Typed DEF Levels, Raise
<1>11. DriverOk'
  BY <1>5, <1>8, <1>9, <1>10 DEF DriverOk
<1>12. QED
  BY <1>1, <1>2, <1>3, <1>4, <1>5, <1>6, <1>11 DEF Write

LEMMA LowerTypes ==
  ASSUME DriverOk, CardRuns, Lower
  PROVE  /\ DriverOk' /\ CardRuns' /\ at \in BytePlaces /\ d0 \in Byte
         /\ lines'.cs = lines.cs /\ lines'.clk = 0 /\ bits \in 1 .. 8
         /\ lines' \in Lines /\ card' = Clocked(card, lines')
<1>1. at \in BytePlaces /\ d0 \in Byte /\ bits \in 1 .. 8
  BY Typed DEF Registers, Lower
<1>2. PICK m \in {0, 1} : m = IF at = "send" /\ bits > 1 THEN TopBit(d0) ELSE 1
  BY <1>1, Members DEF TopBit
<1>3. PICK l \in Lines : /\ l = [lines EXCEPT !.clk = 0, !.mosi = m] /\ l.cs = lines.cs /\ l.clk = 0
  <2>1. lines \in Lines
    BY Typed
  <2>2. PICK l : l = [lines EXCEPT !.clk = 0, !.mosi = m]
    OBVIOUS
  <2>3. l \in Lines /\ l.cs = lines.cs /\ l.clk = 0 /\ l.mosi = m
    BY ONLY <2>1, <2>2, m \in {0, 1} DEF Lines
  <2>4. QED
    BY ONLY <2>2, <2>3
<1>4. Write(l)
  BY <1>2, <1>3 DEF Lower
<1>5. CardRuns' /\ lines' = l
  BY <1>4, Written
<1>6. /\ bits' = bits - 1
      /\ UNCHANGED <<call, phase, at, d0, count, tries, request, buffer, status, ready, spoilt, resets>>
  BY DEF Lower
<1>7. Registers(at, bits', d0, count)
  BY <1>1, <1>6, Typed DEF Registers
<1>8. Levels(at, bits', l)
  BY <1>1, <1>3, Typed DEF Levels
<1>9. DriverOk'
  BY <1>5, <1>6, <1>7, <1>8 DEF DriverOk
<1>10. QED
  BY <1>1, <1>3, <1>4, <1>5, <1>9 DEF Write

LEMMA StartInitTypes ==
  ASSUME DriverOk, CardRuns, StartInit
  PROVE  DriverOk' /\ CardRuns' /\ lines'.cs = 0 /\ lines'.clk = 0 /\ lines.clk = 0 /\ card' = card
<1>1. /\ call = "boot" /\ call' = "MMCInit" /\ phase' = "none" /\ Write([lines EXCEPT !.cs = 0])
      /\ Receive("dummy") /\ count' = DummyBytes /\ tries' = Cmd0Tries
      /\ UNCHANGED <<request, buffer, status, ready, spoilt, resets>>
  BY DEF StartInit
<1>2. at = "none" /\ bits = 0 /\ lines.clk = 0
  BY <1>1, Typed DEF Course, Levels, Registers, BytePlaces
<1>3. PICK l \in Lines : l = [lines EXCEPT !.cs = 0] /\ l.cs = 0 /\ l.clk = 0
  <2>1. lines \in Lines
    BY Typed
  <2>2. QED
    BY ONLY <1>2, <2>1, 0 \in {0, 1}, SelectedLines
<1>4. CardRuns' /\ lines' = l
  BY <1>1, <1>3, Written
<1>5. Registers("dummy", 8, 0, DummyBytes)
  <2>1. DummyBytes \in 1 .. Tries("dummy") /\ "dummy" \in BytePlaces
    BY Sizes, TriesAre DEF BytePlaces
  <2>2. QED
    BY ONLY <2>1, NewRegisters
<1>6. Levels("dummy", 8, l)
  BY <1>3 DEF Levels
<1>7. Course("MMCInit", "none", "dummy")
  BY DEF Course, Calls, Phases
<1>8. Attempts("none", "dummy", Cmd0Tries)
  BY Sizes DEF Attempts
<1>9. Results("MMCInit", ready, status)
  BY <1>1, Typed DEF Results
<1>10. DriverOk'
  BY <1>1, <1>4, <1>5, <1>6, <1>7, <1>8, <1>9 DEF DriverOk, Receive
<1>11. card' = card
  <2>1. card.lastClock = 0
    BY <1>2 DEF CardRuns
  <2>2. card' = Clocked(card, l)
    BY <1>1, <1>3 DEF Write
  <2>3. QED
    BY <1>3, <2>1, <2>2 DEF Clocked
<1>12. QED
  BY <1>2, <1>3, <1>4, <1>10, <1>11

LEMMA DummyTypes ==
  ASSUME DriverOk, CardRuns, Dummy
  PROVE  DriverOk' /\ CardRuns'
<1>1. at = "dummy" /\ bits = 0 /\ Hold /\ UNCHANGED <<call, tries, request, buffer, status, ready, spoilt, resets>>
  BY DEF Dummy, ByteDone
<1>2. CardRuns' /\ lines' = lines
  BY <1>1, Typed, Held
<1>3. count \in 1 .. Tries("dummy") /\ lines \in Lines /\ lines.clk = 0 /\ lines.cs = 0
  BY <1>1, Typed DEF BytePlaces, Levels
<1>4. phase = "none" /\ call = "MMCInit" /\ tries = Cmd0Tries
  BY <1>1, Typed DEF Course, Attempts
<1>5. CASE count > 1
  <2>1. Again /\ phase' = phase
    BY <1>5 DEF Dummy
  <2>2. Registers("dummy", 8, 0, count - 1)
    BY ONLY <1>3, <1>5, Loops DEF BytePlaces
  <2>3. Registers(at', bits', d0', count') /\ at' = "dummy" /\ bits' = 8
    BY ONLY <1>1, <2>1, <2>2 DEF Again, Receive
  <2>4. Levels(at', bits', lines)
    BY ONLY <1>3, <2>3 DEF Levels
  <2>5. Course(call, phase, "dummy") /\ Attempts(phase, "dummy", tries)
    BY <1>1, Typed
  <2>6. QED
    BY <1>1, <1>2, <2>1, <2>3, <2>4, <2>5 DEF DriverOk
<1>6. CASE ~(count > 1)
  <2>1. SendCommand("cmd0")
    BY <1>6 DEF Dummy
  <2>2. Registers(at', bits', d0', count') /\ at' = "select" /\ bits' = 0 /\ phase' = "cmd0"
    BY ONLY <2>1, NewRegisters DEF SendCommand
  <2>3. Levels(at', bits', lines)
    BY ONLY <1>3, <2>2 DEF Levels, BytePlaces
  <2>4. Course(call, phase', at')
    BY ONLY <1>4, <2>2 DEF Course, Calls, Phases
  <2>5. Attempts(phase', at', tries)
    BY ONLY <1>4, <2>2, Sizes DEF Attempts
  <2>6. QED
    BY <1>1, <1>2, <2>2, <2>3, <2>4, <2>5 DEF DriverOk
<1>7. QED
  BY <1>5, <1>6

\* The end of a call.
LEMMA FinishTypes ==
  ASSUME DriverOk, CardRuns, bits = 0, NEW result \in {"none", "ok", "error"}, Finish(result),
         ready' \in BOOLEAN, Asked(request', buffer'), UNCHANGED <<spoilt, resets>>
  PROVE  /\ DriverOk' /\ CardRuns' /\ card' = card /\ lines'.clk = 0 /\ lines'.cs = 0
<1>1. lines \in Lines /\ lines.clk = 0
  BY Typed DEF Levels
<1>2. PICK l \in Lines : l = [lines EXCEPT !.cs = 0] /\ l.cs = 0 /\ l.clk = 0
  BY ONLY <1>1, 0 \in {0, 1}, SelectedLines
<1>3. Write(l)
  BY <1>2 DEF Finish
<1>4. CardRuns' /\ lines' = l
  BY <1>3, Written
<1>5. Registers("none", 0, 0, 0)
  BY NewRegisters
<1>6. Levels("none", 0, l)
  BY <1>2 DEF Levels, BytePlaces
<1>7. Course("idle", "none", "none") /\ Attempts("none", "none", 0) /\ Results("idle", ready', result)
  BY Sizes DEF Course, Attempts, Results, Calls, Phases
<1>8. spoilt \in BOOLEAN /\ resets \in 0 .. MaxResets
  BY Typed
<1>9. DriverOk'
  BY <1>4, <1>5, <1>6, <1>7, <1>8 DEF DriverOk, Finish
<1>10. card' = card
  <2>1. card.lastClock = 0
    BY <1>1 DEF CardRuns
  <2>2. card' = Clocked(card, l)
    BY <1>3 DEF Write
  <2>3. QED
    BY <1>2, <2>1, <2>2 DEF Clocked
<1>11. QED
  BY <1>2, <1>4, <1>9, <1>10

LEMMA EndInitTypes ==
  ASSUME DriverOk, CardRuns, bits = 0, NEW result, EndInit(result)
  PROVE  /\ DriverOk' /\ CardRuns' /\ card' = card
<1>1. Finish("none") /\ ready' \in BOOLEAN /\ UNCHANGED <<request, buffer, spoilt, resets>>
  BY DEF EndInit
<1>2. Asked(request', buffer')
  BY <1>1, Typed
<1>3. QED
  BY ONLY <1>1, <1>2, DriverOk, CardRuns, bits = 0, FinishTypes

LEMMA EndCallTypes ==
  ASSUME DriverOk, CardRuns, bits = 0, NEW result \in {"ok", "error"}, EndCall(result)
  PROVE  /\ DriverOk' /\ CardRuns' /\ card' = card
<1>1. Finish(result) /\ UNCHANGED <<request, buffer, ready, spoilt, resets>>
  BY DEF EndCall
<1>2. Asked(request', buffer') /\ ready' \in BOOLEAN
  BY <1>1, Typed
<1>3. QED
  BY ONLY <1>1, <1>2, DriverOk, CardRuns, bits = 0, result \in {"ok", "error"}, FinishTypes

\* The next command of MMCInit.
LEMMA NextCommand ==
  ASSUME DriverOk, CardRuns, bits = 0, at \in BytePlaces \cup {"return"}, at # "dummy",
         NEW p \in {"cmd0", "cmd8", "cmd55", "acmd41"}, call = "MMCInit", SendCommand(p), Proceed,
         tries' \in 0 .. Cmd0Tries + Acmd41Tries, p = "cmd0" => tries' \in 1 .. Cmd0Tries,
         p \in {"cmd55", "acmd41"} => tries' \in 1 .. Acmd41Tries
  PROVE  DriverOk' /\ CardRuns'
<1>1. Hold /\ UNCHANGED <<call, request, buffer, status, ready, spoilt, resets>>
  BY DEF Proceed
<1>2. Registers(at', bits', d0', count') /\ at' = "select" /\ phase' = p
  BY NewRegisters DEF SendCommand
<1>3. Course(call, phase', at')
  BY ONLY <1>2, call = "MMCInit", p \in {"cmd0", "cmd8", "cmd55", "acmd41"} DEF Course, Calls, Phases
<1>4. Attempts(phase', at', tries')
  BY ONLY <1>2, tries' \in 0 .. Cmd0Tries + Acmd41Tries, p = "cmd0" => tries' \in 1 .. Cmd0Tries,
          p \in {"cmd55", "acmd41"} => tries' \in 1 .. Acmd41Tries DEF Attempts
<1>5. Asked(request, buffer')
  BY <1>1, Typed
<1>6. QED
  BY ONLY <1>1, <1>2, <1>3, <1>4, <1>5, DriverOk, CardRuns, bits = 0, Proceeds,
          at \in BytePlaces \cup {"return"}, at # "dummy"

LEMMA Cmd0Types ==
  ASSUME DriverOk, CardRuns, Cmd0Returns
  PROVE  DriverOk' /\ CardRuns'
<1>1. phase = "cmd0" /\ at = "return" /\ bits = 0 /\ call = "MMCInit" /\ tries \in 1 .. Cmd0Tries
  BY Typed DEF Cmd0Returns, Registers, BytePlaces, Course, Attempts
<1>2. CASE d0 <= 1 /\ SendCommand("cmd8") /\ tries' = 0 /\ Proceed
  <2>1. tries' \in 0 .. Cmd0Tries + Acmd41Tries
    BY <1>2, Sizes
  <2>2. QED
    BY ONLY <1>1, <1>2, <2>1, DriverOk, CardRuns, NextCommand
<1>3. CASE d0 > 1 /\ MayRetry /\ SendCommand("cmd0") /\ tries' = tries - 1 /\ Proceed
  <2>1. tries' \in 0 .. Cmd0Tries + Acmd41Tries /\ tries' \in 1 .. Cmd0Tries
    BY ONLY <1>1, <1>3, Sizes DEF MayRetry
  <2>2. QED
    BY ONLY <1>1, <1>3, <2>1, DriverOk, CardRuns, NextCommand
<1>4. CASE d0 > 1 /\ ~MayRetry /\ EndInit("error")
  BY ONLY <1>1, <1>4, DriverOk, CardRuns, EndInitTypes
<1>5. QED
  BY <1>2, <1>3, <1>4 DEF Cmd0Returns

LEMMA Cmd8Types ==
  ASSUME DriverOk, CardRuns, Cmd8Returns
  PROVE  DriverOk' /\ CardRuns'
<1>1. phase = "cmd8" /\ at = "return" /\ bits = 0 /\ call = "MMCInit"
  BY Typed DEF Cmd8Returns, Registers, BytePlaces, Course
<1>2. CASE d0 <= 1 /\ Receive("r7") /\ count' = 4 /\ UNCHANGED <<phase, tries>> /\ Proceed
  <2>1. Hold /\ UNCHANGED <<call, request, buffer, status, ready, spoilt, resets>>
    BY <1>2 DEF Proceed
  <2>2. 4 \in 1 .. Tries("r7") /\ "r7" \in BytePlaces
    BY TriesAre DEF BytePlaces
  <2>3. Registers("r7", 8, 0, 4)
    BY ONLY <2>2, NewRegisters
  <2>4. Registers(at', bits', d0', count') /\ at' = "r7"
    BY ONLY <1>2, <2>3 DEF Receive
  <2>5. Course(call, phase', at') /\ Attempts(phase', at', tries') /\ Asked(request, buffer')
    BY ONLY <1>1, <1>2, <2>1, <2>4, DriverOk, Typed DEF Course, Attempts
  <2>6. QED
    BY ONLY <1>1, <2>1, <2>2, <2>4, <2>5, DriverOk, CardRuns, Proceeds
<1>3. CASE d0 > 1 /\ EndInit("error")
  BY ONLY <1>1, <1>3, DriverOk, CardRuns, EndInitTypes
<1>4. QED
  BY <1>2, <1>3 DEF Cmd8Returns

LEMMA R7Types ==
  ASSUME DriverOk, CardRuns, R7
  PROVE  DriverOk' /\ CardRuns'
<1>1. at = "r7" /\ bits = 0 /\ Proceed /\ "r7" \in BytePlaces
  BY DEF R7, ByteDone, BytePlaces
<1>2. count \in 1 .. Tries("r7") /\ phase = "cmd8" /\ call = "MMCInit"
  BY <1>1, Typed DEF Course
<1>3. CASE Again /\ UNCHANGED <<phase, tries>>
  <2>1. Hold /\ UNCHANGED <<call, request, buffer, status, ready, spoilt, resets>>
    BY <1>1 DEF Proceed
  <2>2. Registers("r7", 8, 0, count - 1)
    BY ONLY <1>1, <1>2, <1>3, Loops DEF Again
  <2>3. Registers(at', bits', d0', count') /\ at' = "r7"
    BY ONLY <1>1, <1>3, <2>2 DEF Again, Receive
  <2>4. Course(call, phase', at') /\ Attempts(phase', at', tries') /\ Asked(request, buffer')
    BY ONLY <1>1, <1>3, <2>1, <2>3, DriverOk, Typed
  <2>5. QED
    BY ONLY <1>1, <2>1, <2>3, <2>4, DriverOk, CardRuns, Proceeds
<1>4. CASE count = 1 /\ SendCommand("cmd55") /\ tries' = Acmd41Tries
  <2>1. tries' \in 0 .. Cmd0Tries + Acmd41Tries /\ tries' \in 1 .. Acmd41Tries
    BY ONLY <1>4, Sizes
  <2>2. QED
    BY ONLY <1>1, <1>2, <1>4, <2>1, DriverOk, CardRuns, NextCommand
<1>5. QED
  BY <1>3, <1>4 DEF R7

LEMMA Cmd55Types ==
  ASSUME DriverOk, CardRuns, Cmd55Returns
  PROVE  DriverOk' /\ CardRuns'
<1>1. phase = "cmd55" /\ at = "return" /\ bits = 0 /\ call = "MMCInit" /\ tries \in 1 .. Acmd41Tries
  BY Typed DEF Cmd55Returns, Registers, BytePlaces, Course, Attempts
<1>2. CASE d0 <= 1 /\ SendCommand("acmd41") /\ UNCHANGED tries /\ Proceed
  <2>1. tries' \in 0 .. Cmd0Tries + Acmd41Tries /\ tries' \in 1 .. Acmd41Tries
    BY ONLY <1>1, <1>2, Sizes
  <2>2. QED
    BY ONLY <1>1, <1>2, <2>1, DriverOk, CardRuns, NextCommand
<1>3. CASE d0 > 1 /\ EndInit("error")
  BY ONLY <1>1, <1>3, DriverOk, CardRuns, EndInitTypes
<1>4. QED
  BY <1>2, <1>3 DEF Cmd55Returns

LEMMA Acmd41Types ==
  ASSUME DriverOk, CardRuns, Acmd41Returns
  PROVE  DriverOk' /\ CardRuns'
<1>1. phase = "acmd41" /\ at = "return" /\ bits = 0 /\ call = "MMCInit" /\ tries \in 1 .. Acmd41Tries
  BY Typed DEF Acmd41Returns, Registers, BytePlaces, Course, Attempts
<1>2. CASE tries > 1 /\ SendCommand("cmd55") /\ tries' = tries - 1 /\ Proceed
  <2>1. tries' \in 0 .. Cmd0Tries + Acmd41Tries /\ tries' \in 1 .. Acmd41Tries
    BY ONLY <1>1, <1>2, Sizes
  <2>2. QED
    BY ONLY <1>1, <1>2, <2>1, DriverOk, CardRuns, NextCommand
<1>3. CASE EndInit("error") \/ EndInit("ok")
  BY ONLY <1>1, <1>3, DriverOk, CardRuns, EndInitTypes
<1>4. QED
  BY <1>2, <1>3 DEF Acmd41Returns

LEMMA StartCallTypes ==
  ASSUME DriverOk, CardRuns, NEW routine, NEW command, StartCall(routine, command),
         \/ routine = "MMCReadSector" /\ command = "cmd17"
         \/ routine = "MMCWriteSector" /\ command = "cmd24"
  PROVE  DriverOk' /\ CardRuns'
<1>1. /\ call = "idle" /\ ready /\ request' \in Requests /\ call' = routine /\ status' = "none"
      /\ SendCommand(command) /\ Hold /\ UNCHANGED <<tries, buffer, ready, spoilt, resets>>
  BY DEF StartCall
<1>2. at = "none" /\ bits = 0 /\ lines \in Lines /\ lines.clk = 0
  BY <1>1, Typed DEF Course, Levels, Registers, BytePlaces
<1>3. CardRuns' /\ lines' = lines
  BY <1>1, <1>2, Held
<1>4. Registers(at', bits', d0', count') /\ at' = "select" /\ phase' = command /\ bits' = 0
  BY <1>1, NewRegisters DEF SendCommand
<1>5. Levels("select", 0, lines)
  BY <1>2 DEF Levels, BytePlaces
<1>6. Course(routine, command, "select") /\ Results(routine, ready, "none")
  BY <1>1, Typed DEF Course, Calls, Phases, Results
<1>7. Attempts(command, "select", tries)
  BY Typed DEF Attempts
<1>8. Asked(request', buffer)
  BY <1>1, Typed DEF Asked
<1>9. spoilt \in BOOLEAN /\ resets \in 0 .. MaxResets
  BY Typed
<1>10. QED
  BY <1>1, <1>3, <1>4, <1>5, <1>6, <1>7, <1>8, <1>9 DEF DriverOk

LEMMA Cmd17Types ==
  ASSUME DriverOk, CardRuns, Cmd17Returns
  PROVE  DriverOk' /\ CardRuns'
<1>1. phase = "cmd17" /\ at = "return" /\ bits = 0 /\ call = "MMCReadSector"
  BY Typed DEF Cmd17Returns, Registers, BytePlaces, Course
<1>2. CASE Receive("token") /\ count' = TokenTries /\ UNCHANGED buffer /\ ProceedReading
  <2>1. Hold /\ UNCHANGED <<call, phase, tries, request, status, ready, spoilt, resets>>
    BY <1>2 DEF ProceedReading
  <2>2. TokenTries \in 1 .. Tries("token") /\ "token" \in BytePlaces
    BY Sizes, TriesAre DEF BytePlaces
  <2>3. Registers("token", 8, 0, TokenTries)
    BY ONLY <2>2, NewRegisters
  <2>4. Registers(at', bits', d0', count') /\ at' = "token"
    BY ONLY <1>2, <2>3 DEF Receive
  <2>5. Course(call, phase', at') /\ Attempts(phase', at', tries') /\ Asked(request, buffer')
    BY ONLY <1>1, <1>2, <2>1, <2>4, DriverOk, Typed DEF Course, Attempts
  <2>6. QED
    BY ONLY <1>1, <2>1, <2>2, <2>4, <2>5, DriverOk, CardRuns, Proceeds
<1>3. CASE EndCall("error")
  BY ONLY <1>1, <1>3, DriverOk, CardRuns, EndCallTypes
<1>4. QED
  BY <1>2, <1>3 DEF Cmd17Returns

LEMMA TokenTypes ==
  ASSUME DriverOk, CardRuns, Token
  PROVE  DriverOk' /\ CardRuns'
<1>1. at = "token" /\ bits = 0 /\ "token" \in BytePlaces
  BY DEF Token, ByteDone, BytePlaces
<1>2. count \in 1 .. Tries("token") /\ phase = "cmd17" /\ call = "MMCReadSector"
  BY <1>1, Typed DEF Course
<1>3. CASE Receive("data") /\ count' = SectorSize /\ UNCHANGED buffer /\ ProceedReading
  <2>1. Hold /\ UNCHANGED <<call, phase, tries, request, status, ready, spoilt, resets>>
    BY <1>3 DEF ProceedReading
  <2>2. SectorSize \in 1 .. Tries("data") /\ "data" \in BytePlaces
    BY Sizes, TriesAre DEF BytePlaces
  <2>3. Registers("data", 8, 0, SectorSize)
    BY ONLY <2>2, NewRegisters
  <2>4. Registers(at', bits', d0', count') /\ at' = "data"
    BY ONLY <1>3, <2>3 DEF Receive
  <2>5. Course(call, phase', at') /\ Attempts(phase', at', tries') /\ Asked(request, buffer')
    BY ONLY <1>1, <1>2, <1>3, <2>1, <2>4, DriverOk, Typed DEF Course, Attempts
  <2>6. QED
    BY ONLY <1>1, <2>1, <2>2, <2>4, <2>5, DriverOk, CardRuns, Proceeds
<1>4. CASE Again /\ UNCHANGED buffer /\ ProceedReading
  <2>1. Hold /\ UNCHANGED <<call, phase, tries, request, status, ready, spoilt, resets>>
    BY <1>4 DEF ProceedReading
  <2>2. Registers("token", 8, 0, count - 1)
    BY ONLY <1>1, <1>2, <1>4, Loops DEF Again
  <2>3. Registers(at', bits', d0', count') /\ at' = "token"
    BY ONLY <1>1, <1>4, <2>2 DEF Again, Receive
  <2>4. Course(call, phase', at') /\ Attempts(phase', at', tries') /\ Asked(request, buffer')
    BY ONLY <1>1, <1>4, <2>1, <2>3, DriverOk, Typed
  <2>5. QED
    BY ONLY <1>1, <2>1, <2>3, <2>4, DriverOk, CardRuns, Proceeds
<1>5. CASE EndCall("error")
  BY ONLY <1>1, <1>5, DriverOk, CardRuns, EndCallTypes
<1>6. QED
  BY <1>3, <1>4, <1>5 DEF Token

LEMMA DataTypes ==
  ASSUME DriverOk, CardRuns, Data
  PROVE  /\ DriverOk' /\ CardRuns'
         /\ buffer \in SectorData /\ SectorSize - count \in 0 .. SectorSize - 1 /\ d0 \in Byte
<1>1. at = "data" /\ bits = 0 /\ "data" \in BytePlaces /\ ProceedReading
  BY DEF Data, ByteDone, BytePlaces
<1>2. count \in 1 .. SectorSize /\ count \in 1 .. Tries("data") /\ phase = "cmd17" /\ d0 \in Byte
  BY <1>1, Typed, TriesAre DEF Course, Registers
<1>3. Hold /\ UNCHANGED <<call, phase, tries, request, status, ready, spoilt, resets>>
  BY <1>1 DEF ProceedReading
<1>4. buffer \in SectorData /\ SectorSize - count \in 0 .. SectorSize - 1
  BY <1>2, Typed, Sizes DEF Asked
<1>5. buffer' \in SectorData
  <2>1. PICK v \in Byte, i \in 0 .. SectorSize - 1, b \in SectorData :
               v = d0 /\ i = SectorSize - count /\ b = buffer
    BY <1>2, <1>4
  <2>2. buffer' = [b EXCEPT ![i] = v]
    BY <2>1 DEF Data
  <2>3. QED
    BY <2>2 DEF SectorData
<1>6. Registers(at', bits', d0', count') /\ at' \in {"data", "trailer"}
  <2>1. CASE count > 1
    <3>1. Registers("data", 8, 0, count - 1)
      BY ONLY <1>1, <1>2, <2>1, Loops
    <3>2. Again
      BY <2>1 DEF Data
    <3>3. QED
      BY ONLY <1>1, <3>1, <3>2 DEF Again, Receive
  <2>2. CASE ~(count > 1)
    <3>1. 3 \in 1 .. Tries("trailer") /\ "trailer" \in BytePlaces
      BY TriesAre DEF BytePlaces
    <3>2. Registers("trailer", 8, 0, 3)
      BY ONLY <3>1, NewRegisters
    <3>3. QED
      BY <2>2, <3>2 DEF Data, Receive, Trailing
  <2>3. QED
    BY <2>1, <2>2
<1>7. Asked(request, buffer')
  BY <1>5, Typed DEF Asked
<1>8. Course(call, phase', at') /\ Attempts(phase', at', tries')
  BY ONLY <1>1, <1>2, <1>3, <1>6, DriverOk, Typed DEF Course, Attempts
<1>9. DriverOk' /\ CardRuns'
  BY ONLY <1>1, <1>3, <1>6, <1>7, <1>8, DriverOk, CardRuns, Proceeds DEF BytePlaces
<1>10. QED
  BY <1>2, <1>4, <1>9

LEMMA TrailerTypes ==
  ASSUME DriverOk, CardRuns, Trailer
  PROVE  DriverOk' /\ CardRuns'
<1>1. at = "trailer" /\ bits = 0 /\ "trailer" \in BytePlaces
  BY DEF Trailer, ByteDone, BytePlaces
<1>2. count \in 1 .. Tries("trailer") /\ phase = "cmd17" /\ call = "MMCReadSector"
  BY <1>1, Typed DEF Course
<1>3. CASE Again /\ UNCHANGED buffer /\ ProceedReading
  <2>1. Hold /\ UNCHANGED <<call, phase, tries, request, status, ready, spoilt, resets>>
    BY <1>3 DEF ProceedReading
  <2>2. Registers("trailer", 8, 0, count - 1)
    BY ONLY <1>1, <1>2, <1>3, Loops DEF Again
  <2>3. Registers(at', bits', d0', count') /\ at' = "trailer"
    BY ONLY <1>1, <1>3, <2>2 DEF Again, Receive
  <2>4. Course(call, phase', at') /\ Attempts(phase', at', tries') /\ Asked(request, buffer')
    BY ONLY <1>1, <1>3, <2>1, <2>3, DriverOk, Typed
  <2>5. QED
    BY ONLY <1>1, <2>1, <2>3, <2>4, DriverOk, CardRuns, Proceeds
<1>4. CASE EndCall("ok")
  BY ONLY <1>1, <1>4, DriverOk, CardRuns, EndCallTypes
<1>5. QED
  BY <1>3, <1>4 DEF Trailer

LEMMA Cmd24Types ==
  ASSUME DriverOk, CardRuns, Cmd24Returns
  PROVE  DriverOk' /\ CardRuns'
<1>1. bits = 0
  BY Typed DEF Cmd24Returns, Registers, BytePlaces
<1>2. PICK result \in {"ok", "error"} : EndCall(result)
  BY DEF Cmd24Returns
<1>3. QED
  BY ONLY <1>1, <1>2, DriverOk, CardRuns, EndCallTypes

LEMMA ResetTypes ==
  ASSUME DriverOk, CardRuns, Reset
  PROVE  /\ DriverOk' /\ CardRuns' /\ lines'.clk = 0 /\ lines'.cs = 0 /\ LinesOff \in Lines
         /\ card' = Clocked(card, LinesOff)
<1>1. /\ Write(LinesOff) /\ call' = "boot" /\ status' = "none" /\ ready' = FALSE
      /\ phase' = "none" /\ at' = "none" /\ bits' = 0 /\ d0' = 0 /\ count' = 0 /\ tries' = 0
      /\ resets' = resets + 1 /\ resets < MaxResets /\ UNCHANGED <<request, buffer>>
  BY DEF Reset
<1>2. LinesOff \in Lines /\ LinesOff.clk = 0 /\ LinesOff.cs = 0
  BY DEF Lines, LinesOff
<1>3. CardRuns' /\ lines' = LinesOff
  BY <1>1, <1>2, Written
<1>4. Registers("none", 0, 0, 0)
  BY NewRegisters
<1>5. Levels("none", 0, LinesOff)
  BY <1>2 DEF Levels, BytePlaces
<1>6. Course("boot", "none", "none") /\ Attempts("none", "none", 0) /\ Results("boot", FALSE, "none")
  BY Sizes DEF Course, Attempts, Results, Calls, Phases
<1>7. Asked(request, buffer) /\ resets + 1 \in 0 .. MaxResets
  BY <1>1, Typed, Sizes
<1>8. spoilt' \in BOOLEAN
  <2>1. spoilt' = (Streaming(card') \/ HalfInitialised(card'))
    BY DEF Reset
  <2>2. (Streaming(card') \/ HalfInitialised(card')) \in BOOLEAN
    OBVIOUS
  <2>3. QED
    BY ONLY <2>1, <2>2
<1>9. DriverOk'
  BY <1>1, <1>3, <1>4, <1>5, <1>6, <1>7, <1>8 DEF DriverOk
<1>10. QED
  BY <1>1, <1>2, <1>3, <1>9 DEF Write

LEMMA StartTypes ==
  ASSUME Init
  PROVE  DriverOk /\ CardRuns /\ lines.clk = 0
<1>1. PICK inserted \in BOOLEAN : card = NewCard(inserted)
  BY DEF Init
<1>2. CardOk(card) /\ card.lastClock = 0
  <2>1. PICK c \in Cards : c = NewCard(inserted)
    <3>1. NewCard(inserted).sectorBuffer \in SectorData
      BY DEF NewCard, SectorData, Byte
    <3>2. NoCommand \in Commands
      BY DEF NoCommand, Commands, Byte
    <3>3. 0 \in Clocks /\ 0 \in Lengths /\ 0 \in Byte
      BY Sizes DEF Clocks, Lengths, Byte
    <3>4. PICK s1 \in States, s2 \in States, n \in Clocks, e \in 0 .. 3, r \in 0 .. 4, p \in 0 .. 6 :
            /\ s1 = "WAIT_CLOCKS" /\ s2 = "WAIT_CLOCKS" /\ n = 0 /\ e = 0 /\ r = 0 /\ p = 0
      BY <3>3 DEF States
    <3>5. PICK b1 \in Byte, b2 \in Byte, b3 \in Byte, f1 \in BOOLEAN, f2 \in BOOLEAN,
               m1 \in {0, 1}, m2 \in {0, 1} :
            /\ b1 = 0 /\ b2 = 0 /\ b3 = 0 /\ f1 = FALSE /\ f2 = FALSE /\ m1 = 0 /\ m2 = 0
      BY <3>3
    <3>6. PICK k \in Commands, len \in Lengths, data \in SectorData :
            k = NoCommand /\ len = 0 /\ data = NewCard(inserted).sectorBuffer
      BY <3>1, <3>2, <3>3
    <3>7. NewCard(inserted).sectorBuffer = [i \in 0 .. SectorSize - 1 |-> 0]
      BY DEF NewCard
    <3>8. NewCard(inserted) =
            [state |-> s1, nextState |-> s2, clocks |-> n, input |-> b1, output |-> b2, lastByte |-> b3,
             command |-> k, commandPtr |-> p, expectedCommand |-> e, initialised |-> f1,
             okResponse |-> f2, responsePtr |-> r, bytesLeft |-> len, sectorBuffer |-> data,
             miso |-> m1, lastClock |-> m2, cardInserted |-> inserted]
      BY <3>4, <3>7, <3>5, <3>6 DEF NewCard
    <3>9. NewCard(inserted) \in Cards
      BY <3>8 DEF Cards
    <3>10. QED
      BY ONLY <3>9
  <2>2. QED
    BY <1>1, <2>1, Sizes DEF CardOk, NewCard, Handlers
<1>3. LinesOff \in Lines /\ LinesOff.clk = 0 /\ LinesOff.cs = 0
  BY DEF Lines, LinesOff
<1>4. Registers("none", 0, 0, 0)
  BY NewRegisters
<1>5. Levels("none", 0, LinesOff)
  BY <1>3 DEF Levels, BytePlaces
<1>6. Course("boot", "none", "none") /\ Attempts("none", "none", 0) /\ Results("boot", FALSE, "none")
  BY Sizes DEF Course, Attempts, Results, Calls, Phases
<1>7. buffer \in SectorData
  BY DEF Init, SectorData, Byte
<1>8. /\ lines = LinesOff /\ call = "boot" /\ phase = "none" /\ at = "none" /\ bits = 0 /\ d0 = 0
      /\ count = 0 /\ tries = 0 /\ request = 0 /\ status = "none" /\ ready = FALSE
      /\ spoilt = FALSE /\ resets = 0
  BY DEF Init
<1>9. Asked(request, buffer)
  BY <1>7, <1>8 DEF Asked
<1>10. DriverOk
  <2>1. 0 \in 0 .. MaxResets
    BY Sizes
  <2>2. FALSE \in BOOLEAN
    OBVIOUS
  <2>3. QED
    BY ONLY <1>4, <1>5, <1>6, <1>8, <1>9, <2>1, <2>2 DEF DriverOk
<1>11. CardRuns
  BY <1>2, <1>3, <1>8 DEF CardRuns
<1>12. QED
  BY <1>3, <1>8, <1>10, <1>11

LEMMA NextTypes ==
  ASSUME DriverOk, CardRuns, [Next]_vars
  PROVE  DriverOk' /\ CardRuns'
<1>1. CASE Raise
  BY <1>1, RaiseTypes
<1>2. CASE Lower
  BY <1>2, LowerTypes
<1>3. CASE Select
  BY <1>3, SelectTypes
<1>4. CASE Busy
  BY <1>4, BusyTypes
<1>5. CASE Sent
  BY <1>5, SentTypes
<1>6. CASE Answer
  BY <1>6, AnswerTypes
<1>7. CASE StartInit
  BY <1>7, StartInitTypes
<1>8. CASE Dummy
  BY <1>8, DummyTypes
<1>9. CASE Cmd0Returns
  BY <1>9, Cmd0Types
<1>10. CASE Cmd8Returns
  BY <1>10, Cmd8Types
<1>11. CASE R7
  BY <1>11, R7Types
<1>12. CASE Cmd55Returns
  BY <1>12, Cmd55Types
<1>13. CASE Acmd41Returns
  BY <1>13, Acmd41Types
<1>14. CASE Cmd17Returns
  BY <1>14, Cmd17Types
<1>15. CASE Token
  BY <1>15, TokenTypes
<1>16. CASE Data
  BY <1>16, DataTypes
<1>17. CASE Trailer
  BY <1>17, TrailerTypes
<1>18. CASE Cmd24Returns
  BY <1>18, Cmd24Types
<1>19. CASE MMCReadSector \/ MMCWriteSector
  BY <1>19, StartCallTypes DEF MMCReadSector, MMCWriteSector
<1>20. CASE Reset
  BY <1>20, ResetTypes
<1>21. CASE UNCHANGED vars
  BY <1>21 DEF vars, registers, DriverOk, CardRuns
<1>22. QED
  BY <1>1, <1>2, <1>3, <1>4, <1>5, <1>6, <1>7, <1>8, <1>9, <1>10, <1>11, <1>12, <1>13, <1>14,
     <1>15, <1>16, <1>17, <1>18, <1>19, <1>20, <1>21 DEF Next, Driver, NoDevice

\* The card's shift registers and counters and the driver's keep their bounds,
\* whatever bits the two exchange and wherever a reset cuts them off: every
\* byte the card shifts is a byte, the buffer of the driver is never overrun.
THEOREM LinkTypes == Spec => []TypeOK
<1>1. Init => DriverOk /\ CardRuns
  BY StartTypes
<1>2. (DriverOk /\ CardRuns) /\ [Next]_vars => (DriverOk /\ CardRuns)'
  BY NextTypes
<1>3. DriverOk /\ CardRuns => TypeOK
  BY TypesFollow
<1>4. QED
  BY <1>1, <1>2, <1>3, PTL DEF Spec

-----------------------------------------------------------------------------
(***************************************************************************)
(* A bit of a byte.                                                        *)
(***************************************************************************)
\* The line is high for every bit of 255.
LEMMA HighLine ==
  \A l \in 1 .. 8 : Low(255, l) \div 128 = 1
<1>1. \A l \in 1 .. 8 : l \in {1, 2, 3, 4, 5, 6, 7, 8}
  OBVIOUS
<1>2. QED
  BY <1>1, Powers DEF Low

LEMMA WholeByte ==
  /\ \A v \in Byte : v % Pow[8] = v /\ v % Pow[0] = 0 /\ v \div Pow[0] = v /\ v \div Pow[8] = 0
  /\ \A v \in Byte : Low(v, 8) = v
<1>1. \A v \in Byte : v % 256 = v /\ v % 1 = 0 /\ v \div 1 = v /\ v \div 256 = 0 /\ v * 1 = v
  BY DEF Byte
<1>2. QED
  BY <1>1, Powers DEF Low

LEMMA HearsRises ==
  ASSUME NEW c, CardOk(c), NEW l, Edge(c, l), l.cs = 1, l.clk = 1, NEW v \in Byte, NEW n \in 1 .. 8,
         Hears(c, v, n), l.mosi = Low(v, n) \div 128, NEW d, d = Clocked(c, l)
  PROVE  Hears(d, v, n - 1) /\ Kept(c, d)
<1>1. /\ c.state = "WAIT_BYTE" /\ c.clocks = n - 1 /\ c.input = v - (v % Pow[n])
      /\ c.nextState = "WAIT_COMMAND" /\ c.miso = 1
  BY DEF Hears
<1>2. c.clocks \in 0 .. 7 /\ c.input + 2 * Bit[c.clocks] <= 256
  BY <1>1 DEF CardOk
<1>3. PICK x : x = c.input + l.mosi * Bit[c.clocks]
  OBVIOUS
<1>4. x = v - (v % Pow[n - 1])
  <2>1. PICK w : w = Low(v, n)
    OBVIOUS
  <2>2. (v - (v % Pow[n])) + (w \div 128) * Bit[n - 1] = v - (v % Pow[n - 1])
    BY ONLY <2>1, v \in Byte, n \in 1 .. 8, BitSent
  <2>3. QED
    BY ONLY <1>1, <1>3, <2>1, <2>2, l.mosi = Low(v, n) \div 128
<1>5. /\ Kept(c, d) /\ d.nextState = c.nextState
      /\ c.clocks > 0 => /\ d.state = "WAIT_BYTE" /\ d.clocks = c.clocks - 1 /\ d.miso = c.miso
                         /\ d.input = x
      /\ c.clocks = 0 => d.state = c.nextState /\ d.lastByte = x /\ d.miso = 1
  BY ONLY <1>1, <1>2, <1>3, Edge(c, l), l.cs = 1, l.clk = 1, d = Clocked(c, l), BitIn
<1>6. CASE n > 1
  BY ONLY <1>1, <1>4, <1>5, <1>6, n \in 1 .. 8 DEF Hears
<1>7. CASE n = 1
  <2>1. v % Pow[0] = 0 /\ v \in Nat
    BY WholeByte DEF Byte
  <2>2. x = v
    BY ONLY <1>4, <1>7, <2>1
  <2>3. QED
    BY ONLY <1>1, <1>5, <1>7, <2>2 DEF Hears
<1>8. QED
  BY <1>6, <1>7

LEMMA HearsFalls ==
  ASSUME NEW c, NEW l, Edge(c, l), l.cs = 1, l.clk = 0, NEW v, NEW n \in 1 .. 8,
         Hears(c, v, n), NEW d, d = Clocked(c, l)
  PROVE  Hears(d, v, n) /\ Kept(c, d)
<1>1. c.state = "WAIT_BYTE"
  BY DEF Hears
<1>2. Kept(c, d) /\ SameByte(c, d) /\ d.miso = 1
  BY ONLY <1>1, Edge(c, l), l.cs = 1, l.clk = 0, d = Clocked(c, l), BitInFalls
<1>3. QED
  BY ONLY <1>2, n \in 1 .. 8, Hears(c, v, n) DEF Hears, SameByte

LEMMA TellsRises ==
  ASSUME NEW c, NEW l, Edge(c, l), l.clk = 1, NEW v \in Byte, NEW next, NEW n \in 1 .. 8,
         Tells(c, v, next, n), NEW d, d = Clocked(c, l)
  PROVE  Tells(d, v, next, n - 1) /\ Kept(c, d) /\ d.miso = Low(v, n) \div 128
<1>1. c.state = "WRITE_BYTE" /\ c.clocks = n - 1 /\ c.output = Low(v, n) /\ c.nextState = next
  BY DEF Tells
<1>2. c.lastClock = 0 /\ c.miso = c.output \div 128
  <2>1. c.lastClock \in {0, 1} /\ c.lastClock # 1
    BY DEF Edge, Cards
  <2>2. QED
    BY <2>1 DEF Tells
<1>3. c.clocks \in 0 .. 7
  BY <1>1
<1>4. /\ Kept(c, d) /\ d.lastClock = 1 /\ d.nextState = c.nextState /\ d.miso = c.miso
      /\ c.clocks > 0 => /\ d.state = "WRITE_BYTE" /\ d.clocks = c.clocks - 1
                         /\ d.output = (c.output * 2) % 256
      /\ c.clocks = 0 => d.state = c.nextState
  BY ONLY <1>1, <1>3, Edge(c, l), l.clk = 1, d = Clocked(c, l), BitOut
<1>5. (c.output * 2) % 256 = Low(v, n - 1)
  BY ONLY <1>1, v \in Byte, n \in 1 .. 8, BitSent
<1>6. QED
  BY ONLY <1>1, <1>2, <1>4, <1>5, n \in 1 .. 8 DEF Tells

LEMMA TellsFalls ==
  ASSUME NEW c, NEW l, Edge(c, l), l.clk = 0, NEW v, NEW next, NEW n \in 1 .. 8,
         Tells(c, v, next, n), NEW d, d = Clocked(c, l)
  PROVE  Tells(d, v, next, n) /\ Kept(c, d)
<1>1. c.state = "WRITE_BYTE"
  BY DEF Tells
<1>2. Kept(c, d) /\ SameByte(c, d) /\ d.miso = d.output \div 128
  BY ONLY <1>1, Edge(c, l), l.clk = 0, d = Clocked(c, l), BitOutFalls
<1>3. QED
  BY ONLY <1>2, n \in 1 .. 8, Tells(c, v, next, n) DEF Tells, SameByte

-----------------------------------------------------------------------------
(***************************************************************************)
(* A bit of the byte that a place is about.                                *)
(***************************************************************************)
\* A place of the driver amid a byte.
Amid(p, s, place, n) ==
  /\ p \in Phases \ {"none"} /\ s \in Nat /\ place \in BytePlaces \ {"dummy"}
  /\ n \in 1 .. Tries(place)

\* The byte that the driver's register carries.
Carried(c, p, s, place, n) ==
  IF place = "send" THEN Sends(p, s, place, n) ELSE Says(c, p, place, n)

LEMMA AboutKept ==
  ASSUME NEW c, NEW d, Kept(c, d), NEW p, NEW s, NEW t, NEW place, NEW n
  PROVE  /\ About(c, p, s, t, place, n) => About(d, p, s, t, place, n)
         /\ Says(d, p, place, n) = Says(c, p, place, n)
         /\ Carried(d, p, s, place, n) = Carried(c, p, s, place, n)
<1>1. Says(d, p, place, n) = Says(c, p, place, n)
  BY DEF Kept, Says
<1>2. /\ Stage(c, p) => Stage(d, p)
      /\ \A k : Holds(c, p, s, t, k) => Holds(d, p, s, t, k)
      /\ Judged(c, p, s, t) => Judged(d, p, s, t)
      /\ Clean(c) => Clean(d)
      /\ Fetched(c, s) => Fetched(d, s)
      /\ \A e : Expects(c, e) => Expects(d, e)
  BY DEF Kept, Stage, Holds, Judged, Clean, Fetched, Expects
<1>3. /\ d.okResponse = c.okResponse /\ d.responsePtr = c.responsePtr /\ d.bytesLeft = c.bytesLeft
      /\ d.initialised = c.initialised
  BY DEF Kept
<1>4. About(c, p, s, t, place, n) => About(d, p, s, t, place, n)
  BY ONLY <1>2, <1>3 DEF About
<1>5. QED
  BY <1>1, <1>4 DEF Carried

LEMMA CarriedIsByte ==
  ASSUME NEW c \in Cards, NEW p, NEW s, NEW place, NEW n, Amid(p, s, place, n)
  PROVE  /\ Carried(c, p, s, place, n) \in Byte
         /\ Sends(p, s, place, n) \in Byte /\ (place # "send" => Sends(p, s, place, n) = 255)
         /\ ~Speaks(place, n) /\ place # "send" => Says(c, p, place, n) = 255
         /\ Speaks(place, n) => place # "send"
<1>1. place \in {"busy", "send", "answer", "r7", "token", "data", "trailer"}
  BY DEF Amid, BytePlaces
<1>2. Sends(p, s, place, n) \in Byte
  <2>1. CASE place = "send"
    <3>1. n \in 1 .. 6 /\ p \in Phases \ {"none"} /\ s \in Nat
      BY <2>1, TriesAre DEF Amid
    <3>2. Frame(p, s)[n] \in Byte
      BY ONLY <3>1, FrameBytes
    <3>3. QED
      BY <2>1, <3>2 DEF Sends
  <2>2. CASE place # "send"
    BY <2>2, Members DEF Sends
  <2>3. QED
    BY <2>1, <2>2
<1>3. place # "send" => Says(c, p, place, n) \in Byte
  <2>1. CASE place = "data"
    <3>1. c.sectorBuffer \in SectorData
      BY DEF Cards
    <3>2. SectorSize - n \in 0 .. SectorSize - 1
      BY <2>1, TriesAre, Sizes DEF Amid
    <3>3. QED
      BY ONLY <2>1, <3>1, <3>2 DEF Says, SectorData
  <2>2. CASE place = "r7"
    <3>1. n \in {1, 2, 3, 4}
      BY <2>2, TriesAre DEF Amid
    <3>2. Response[5 - n] \in 0 .. 255
      BY ONLY <3>1 DEF Response
    <3>3. QED
      BY ONLY <2>2, <3>2 DEF Says, Byte
  <2>3. CASE place \in {"answer", "token", "trailer", "busy"}
    BY <2>3, Members DEF Says
  <2>4. QED
    BY <1>1, <2>1, <2>2, <2>3
<1>4. ~Speaks(place, n) /\ place # "send" => Says(c, p, place, n) = 255
  BY <1>1 DEF Speaks, Says
<1>5. Speaks(place, n) => place # "send"
  BY DEF Speaks
<1>6. QED
  BY <1>2, <1>3, <1>4, <1>5 DEF Carried, Sends

\* A rising edge takes a bit of it, from the driver or from the card.
LEMMA OnLineRises ==
  ASSUME NEW c, CardOk(c), NEW l, Edge(c, l), l.cs = 1, l.clk = 1,
         NEW p, NEW s, NEW t, NEW place, NEW n, Amid(p, s, place, n), NEW b \in 1 .. 8,
         OnLine(c, p, s, t, place, n, b), NEW x, Carries(x, Carried(c, p, s, place, n), place, b),
         l.mosi = IF place = "send" THEN x \div 128 ELSE 1, NEW d, d = Clocked(c, l),
         NEW y, y = ((x * 2) % 256) + (IF place = "send" THEN 0 ELSE d.miso)
  PROVE  /\ OnLine(d, p, s, t, place, n, b - 1)
         /\ Carries(y, Carried(d, p, s, place, n), place, b - 1)
<1>1. PICK v : v = Carried(c, p, s, place, n)
  OBVIOUS
<1>2. PICK u : u = Sends(p, s, place, n)
  OBVIOUS
<1>3. c \in Cards
  BY DEF CardOk
<1>4. /\ v \in Byte /\ u \in Byte /\ (place # "send" => u = 255)
      /\ ~Speaks(place, n) /\ place # "send" => Says(c, p, place, n) = 255
      /\ Speaks(place, n) => place # "send"
  BY ONLY <1>1, <1>2, <1>3, Amid(p, s, place, n), CarriedIsByte
<1>5. /\ place = "send" => v = u
      /\ place # "send" => v = Says(c, p, place, n)
  BY <1>1, <1>2 DEF Carried
<1>6. /\ About(c, p, s, t, place, n)
      /\ Speaks(place, n)  => Tells(c, v, Behind(p, place, n), b)
      /\ ~Speaks(place, n) => Hears(c, u, b)
  BY <1>2, <1>4, <1>5 DEF OnLine
<1>7. x = IF place = "send" THEN Low(v, b) ELSE v \div Pow[b]
  BY <1>1 DEF Carries
<1>8. l.mosi = Low(u, b) \div 128
  <2>1. CASE place = "send"
    BY ONLY <1>5, <1>7, <2>1, l.mosi = IF place = "send" THEN x \div 128 ELSE 1
  <2>2. CASE place # "send"
    <3>1. Low(255, b) \div 128 = 1
      BY HighLine
    <3>2. QED
      BY ONLY <1>4, <2>2, <3>1, l.mosi = IF place = "send" THEN x \div 128 ELSE 1
  <2>3. QED
    BY <2>1, <2>2
<1>9. CASE Speaks(place, n)
  <2>1. PICK next : next = Behind(p, place, n)
    OBVIOUS
  <2>2. Tells(c, v, next, b)
    BY <1>6, <1>9, <2>1
  <2>3. Tells(d, v, next, b - 1) /\ Kept(c, d) /\ d.miso = Low(v, b) \div 128
    BY ONLY <1>4, <2>2, Edge(c, l), l.clk = 1, b \in 1 .. 8, d = Clocked(c, l), TellsRises
  <2>4. /\ About(d, p, s, t, place, n) /\ Says(d, p, place, n) = Says(c, p, place, n)
        /\ Carried(d, p, s, place, n) = v
    BY ONLY <1>1, <1>6, <2>3, AboutKept
  <2>5. OnLine(d, p, s, t, place, n, b - 1)
    BY ONLY <1>4, <1>5, <1>9, <2>1, <2>3, <2>4 DEF OnLine
  <2>6. y = v \div Pow[b - 1]
    <3>1. (((v \div Pow[b]) * 2) % 256) + (Low(v, b) \div 128) = v \div Pow[b - 1]
      BY ONLY <1>4, b \in 1 .. 8, BitHeard
    <3>2. y = ((x * 2) % 256) + d.miso /\ x = v \div Pow[b]
      BY <1>4, <1>7, <1>9
    <3>3. QED
      BY ONLY <2>3, <3>1, <3>2
  <2>7. QED
    BY <1>4, <1>9, <2>4, <2>5, <2>6 DEF Carries
<1>10. CASE ~Speaks(place, n)
  <2>1. Hears(c, u, b)
    BY <1>6, <1>10
  <2>2. Hears(d, u, b - 1) /\ Kept(c, d)
    BY ONLY <1>4, <1>8, <2>1, CardOk(c), Edge(c, l), l.cs = 1, l.clk = 1, b \in 1 .. 8,
            d = Clocked(c, l), HearsRises
  <2>3. /\ About(d, p, s, t, place, n) /\ Says(d, p, place, n) = Says(c, p, place, n)
        /\ Carried(d, p, s, place, n) = v
    BY ONLY <1>1, <1>6, <2>2, AboutKept
  <2>4. OnLine(d, p, s, t, place, n, b - 1)
    BY ONLY <1>2, <1>10, <2>2, <2>3 DEF OnLine
  <2>5. d.miso = 1
    BY <2>2 DEF Hears
  <2>6. CASE place = "send"
    <3>1. (x * 2) % 256 = Low(v, b - 1)
      BY ONLY <1>4, <1>7, <2>6, b \in 1 .. 8, BitSent
    <3>2. y = ((x * 2) % 256) + 0 /\ (x * 2) % 256 \in Int
      <4>1. x \in Byte
        BY ONLY <1>4, <1>7, <2>6, b \in 1 .. 8, BitSent
      <4>2. QED
        BY <2>6, <4>1 DEF Byte
    <3>3. y = Low(v, b - 1)
      BY ONLY <3>1, <3>2
    <3>4. QED
      BY <2>3, <2>4, <2>6, <3>3 DEF Carries
  <2>7. CASE place # "send"
    <3>1. v = 255
      BY <1>4, <1>5, <1>10, <2>7
    <3>2. (((v \div Pow[b]) * 2) % 256) + (Low(v, b) \div 128) = v \div Pow[b - 1]
      BY ONLY <1>4, b \in 1 .. 8, BitHeard
    <3>3. Low(v, b) \div 128 = 1
      BY <3>1, HighLine
    <3>4. y = ((x * 2) % 256) + 1 /\ x = v \div Pow[b]
      BY <1>7, <2>5, <2>7
    <3>5. y = v \div Pow[b - 1]
      BY ONLY <3>2, <3>3, <3>4
    <3>6. QED
      BY <2>3, <2>4, <2>7, <3>5 DEF Carries
  <2>8. QED
    BY <2>6, <2>7
<1>11. QED
  BY <1>9, <1>10

\* The falling edge after it changes nothing.
LEMMA OnLineFalls ==
  ASSUME NEW c, NEW l, Edge(c, l), l.cs = 1, l.clk = 0,
         NEW p, NEW s, NEW t, NEW place, NEW n, NEW b \in 1 .. 8,
         OnLine(c, p, s, t, place, n, b), NEW d, d = Clocked(c, l)
  PROVE  /\ OnLine(d, p, s, t, place, n, b)
         /\ Carried(d, p, s, place, n) = Carried(c, p, s, place, n)
<1>1. PICK u, v, next : u = Sends(p, s, place, n) /\ v = Says(c, p, place, n) /\ next = Behind(p, place, n)
  OBVIOUS
<1>2. /\ About(c, p, s, t, place, n)
      /\ Speaks(place, n)  => Tells(c, v, next, b)
      /\ ~Speaks(place, n) => Hears(c, u, b)
  BY <1>1 DEF OnLine
<1>3. Speaks(place, n) => Tells(d, v, next, b) /\ Kept(c, d)
  BY ONLY <1>2, Edge(c, l), l.clk = 0, b \in 1 .. 8, d = Clocked(c, l), TellsFalls
<1>4. ~Speaks(place, n) => Hears(d, u, b) /\ Kept(c, d)
  BY ONLY <1>2, Edge(c, l), l.cs = 1, l.clk = 0, b \in 1 .. 8, d = Clocked(c, l), HearsFalls
<1>5. Kept(c, d)
  BY <1>3, <1>4
<1>6. /\ About(d, p, s, t, place, n) /\ Says(d, p, place, n) = v
      /\ Carried(d, p, s, place, n) = Carried(c, p, s, place, n)
  BY ONLY <1>1, <1>2, <1>5, AboutKept
<1>7. OnLine(d, p, s, t, place, n, b)
  BY ONLY <1>1, <1>3, <1>4, <1>6 DEF OnLine
<1>8. QED
  BY <1>6, <1>7

-----------------------------------------------------------------------------
(***************************************************************************)
(* The end of a byte.                                                      *)
(***************************************************************************)
\* A new byte, after Begins and Utters.
LEMMA BeginsHears ==
  ASSUME NEW d, Begins(d), NEW v \in Byte
  PROVE  Hears(d, v, 8)
BY WholeByte DEF Begins, Hears, Byte

LEMMA UttersTells ==
  ASSUME NEW d, NEW v \in Byte, NEW next, Utters(d, v, next)
  PROVE  Tells(d, v, next, 8)
BY WholeByte DEF Utters, Tells, Byte

\* The edge behind the last bit of a byte.
Ending(c, l) == CardOk(c) /\ Edge(c, l) /\ l.clk = 0

LEMMA BusyEnds ==
  ASSUME NEW c, NEW l, Ending(c, l), NEW d, d = Clocked(c, l),
         NEW p \in Phases \ {"none"}, NEW s \in Nat, NEW t, NEW n,
         OnLine(c, p, s, t, "busy", n, 0)
  PROVE  OnLine(d, p, s, t, "send", 1, 8)
<1>1. /\ Stage(c, p) /\ Holds(c, p, s, t, 0) /\ Hears(c, 255, 0)
  BY DEF OnLine, About, Speaks, Sends
<1>2. c.state = "WAIT_COMMAND" /\ c.lastByte = 255 /\ c.commandPtr = 0
  BY <1>1 DEF Hears, Holds
<1>3. Begins(d) /\ Kept(c, d)
  BY ONLY <1>2, Ending(c, l), d = Clocked(c, l), WaitCommandIdle DEF Ending
<1>4. PICK v \in Byte : v = Frame(p, s)[1]
  BY FrameBytes
<1>5. Hears(d, v, 8)
  BY ONLY <1>3, v \in Byte, BeginsHears
<1>6. Stage(d, p) /\ Holds(d, p, s, t, 0)
  BY ONLY <1>1, <1>3 DEF Kept, Stage, Holds, Expects
<1>7. QED
  BY ONLY <1>4, <1>5, <1>6 DEF OnLine, About, Speaks, Sends

\* A byte of a command goes behind those the card has.
LEMMA HoldsMore ==
  ASSUME NEW c \in Cards, NEW p, NEW s, NEW t, NEW n \in 1 .. 6, Holds(c, p, s, t, n - 1),
         c.lastByte = Frame(p, s)[n], NEW x, x = Longer(c)
  PROVE  /\ x.commandPtr = n
         /\ \A i \in 1 .. n : x.command[8 - n + i] = Frame(p, s)[i]
         /\ Stale(p, t) \/ \A j \in 1 .. 8 - n : x.command[j] = 0
         /\ x \in Cards /\ x.expectedCommand = c.expectedCommand /\ x.initialised = c.initialised
<1>1. /\ c.commandPtr = n - 1 /\ \A i \in 1 .. n - 1 : c.command[8 - (n - 1) + i] = Frame(p, s)[i]
      /\ Stale(p, t) \/ \A j \in 1 .. 8 - (n - 1) : c.command[j] = 0
  BY DEF Holds
<1>2. /\ x \in Cards /\ x.commandPtr = c.commandPtr + 1
      /\ \A i \in 1 .. 7 : x.command[i] = c.command[i + 1]
      /\ x.command[8] = c.lastByte
      /\ x.expectedCommand = c.expectedCommand /\ x.initialised = c.initialised
  <2>1. c.commandPtr <= 5
    BY <1>1
  <2>2. QED
    BY ONLY <2>1, c \in Cards, x = Longer(c), LongerIs
<1>3. ASSUME NEW i \in 1 .. n
      PROVE  x.command[8 - n + i] = Frame(p, s)[i]
  <2>1. CASE i = n
    BY ONLY <1>2, <2>1, n \in 1 .. 6, c.lastByte = Frame(p, s)[n]
  <2>2. CASE i # n
    <3>1. i \in 1 .. n - 1 /\ 8 - n + i \in 1 .. 7 /\ (8 - n + i) + 1 = 8 - (n - 1) + i
      BY ONLY <2>2, n \in 1 .. 6, i \in 1 .. n
    <3>2. PICK k \in 1 .. 7 : k = 8 - n + i
      BY <3>1
    <3>3. x.command[k] = c.command[k + 1]
      BY ONLY <1>2, k \in 1 .. 7
    <3>4. QED
      BY ONLY <1>1, <3>1, <3>2, <3>3
  <2>3. QED
    BY <2>1, <2>2
<1>4. ASSUME ~Stale(p, t), NEW j \in 1 .. 8 - n
      PROVE  x.command[j] = 0
  <2>1. j \in 1 .. 7 /\ j + 1 \in 1 .. 8 - (n - 1)
    BY ONLY n \in 1 .. 6, j \in 1 .. 8 - n
  <2>2. x.command[j] = c.command[j + 1]
    BY ONLY <1>2, <2>1
  <2>3. QED
    BY ONLY <1>1, <1>4, <2>1, <2>2
<1>5. x.commandPtr = n
  BY ONLY <1>1, <1>2, n \in 1 .. 6
<1>6. QED
  BY <1>2, <1>3, <1>4, <1>5

LEMMA SendEnds ==
  ASSUME NEW c, NEW l, Ending(c, l), NEW d, d = Clocked(c, l),
         NEW p \in Phases \ {"none"}, NEW s \in Nat, NEW t, NEW n \in 1 .. 5,
         OnLine(c, p, s, t, "send", n, 0)
  PROVE  OnLine(d, p, s, t, "send", n + 1, 8)
<1>1. Stage(c, p) /\ Holds(c, p, s, t, n - 1) /\ Hears(c, Frame(p, s)[n], 0)
  BY DEF OnLine, About, Speaks, Sends
<1>2. c.state = "WAIT_COMMAND" /\ c.lastByte = Frame(p, s)[n] /\ c.commandPtr = n - 1
  BY <1>1 DEF Hears, Holds
<1>3. ~(c.commandPtr = 0 /\ c.lastByte = 255) /\ c.commandPtr < 5
  BY <1>2, FrameBytes
<1>4. PICK x : x = Longer(c)
  OBVIOUS
<1>5. Begins(d) /\ Kept(x, d)
  BY ONLY <1>2, <1>3, <1>4, Ending(c, l), d = Clocked(c, l), WaitCommandMore DEF Ending
<1>6. c \in Cards /\ n \in 1 .. 6
  BY DEF Ending, CardOk
<1>7. /\ x.commandPtr = n
      /\ \A i \in 1 .. n : x.command[8 - n + i] = Frame(p, s)[i]
      /\ Stale(p, t) \/ \A j \in 1 .. 8 - n : x.command[j] = 0
      /\ x.expectedCommand = c.expectedCommand /\ x.initialised = c.initialised
  BY ONLY <1>1, <1>2, <1>4, <1>6, HoldsMore
<1>8. PICK v \in Byte : v = Frame(p, s)[n + 1]
  BY FrameBytes
<1>9. Hears(d, v, 8)
  BY ONLY <1>5, v \in Byte, BeginsHears
<1>10. Holds(d, p, s, t, n)
  BY ONLY <1>5, <1>7 DEF Kept, Holds
<1>11. Stage(d, p)
  BY ONLY <1>1, <1>5, <1>7 DEF Kept, Stage, Expects
<1>12. (n + 1) - 1 = n
  BY n \in 1 .. 5
<1>13. QED
  BY ONLY <1>8, <1>9, <1>10, <1>11, <1>12 DEF OnLine, About, Speaks, Sends

\* A whole command, of which nothing is left of an earlier one.
Number(p) == CASE p = "cmd0" -> 0 [] p = "cmd8" -> 1 [] p = "cmd55" -> 2 [] p = "acmd41" -> 3

LEMMA WholeCommand ==
  ASSUME NEW k \in Commands, NEW p \in {"cmd0", "cmd8", "cmd55", "acmd41"}, NEW s,
         \A i \in 1 .. 6 : k[2 + i] = Frame(p, s)[i], k[1] = 0, k[2] = 0
  PROVE  k = ExpectedCommands[Number(p)].command
<1>1. PICK y : y = ExpectedCommands[Number(p)].command
  OBVIOUS
<1>2. k[3] = Frame(p, s)[1] /\ k[4] = Frame(p, s)[2] /\ k[5] = Frame(p, s)[3]
      /\ k[6] = Frame(p, s)[4] /\ k[7] = Frame(p, s)[5] /\ k[8] = Frame(p, s)[6]
  <2>1. /\ k[2 + 1] = Frame(p, s)[1] /\ k[2 + 2] = Frame(p, s)[2] /\ k[2 + 3] = Frame(p, s)[3]
        /\ k[2 + 4] = Frame(p, s)[4] /\ k[2 + 5] = Frame(p, s)[5] /\ k[2 + 6] = Frame(p, s)[6]
    OBVIOUS
  <2>2. QED
    BY ONLY <2>1
<1>3. y \in Commands /\ y[1] = 0 /\ y[2] = 0
      /\ y[3] = Frame(p, s)[1] /\ y[4] = Frame(p, s)[2] /\ y[5] = Frame(p, s)[3]
      /\ y[6] = Frame(p, s)[4] /\ y[7] = Frame(p, s)[5] /\ y[8] = Frame(p, s)[6]
  <2>1. CASE p = "cmd0"
    <3>1. y = <<0, 0, 64, 0, 0, 0, 0, 149>> /\ Frame(p, s) = <<64, 0, 0, 0, 0, 149>>
      BY <1>1, <2>1, Expected DEF Number, Frame
    <3>2. QED
      BY ONLY <3>1 DEF Commands, Byte
  <2>2. CASE p = "cmd8"
    <3>1. y = <<0, 0, 72, 0, 0, 1, 170, 135>> /\ Frame(p, s) = <<72, 0, 0, 1, 170, 135>>
      BY <1>1, <2>2, Expected DEF Number, Frame
    <3>2. QED
      BY ONLY <3>1 DEF Commands, Byte
  <2>3. CASE p = "cmd55"
    <3>1. y = <<0, 0, 119, 0, 0, 0, 0, 255>> /\ Frame(p, s) = <<119, 0, 0, 0, 0, 255>>
      BY <1>1, <2>3, Expected DEF Number, Frame
    <3>2. QED
      BY ONLY <3>1 DEF Commands, Byte
  <2>4. CASE p = "acmd41"
    <3>1. y = <<0, 0, 105, 64, 0, 0, 0, 255>> /\ Frame(p, s) = <<105, 64, 0, 0, 0, 255>>
      BY <1>1, <2>4, Expected DEF Number, Frame
    <3>2. QED
      BY ONLY <3>1 DEF Commands, Byte
  <2>5. QED
    BY <2>1, <2>2, <2>3, <2>4
<1>4. \A i \in 1 .. 8 : k[i] = y[i]
  BY ONLY <1>2, <1>3, k[1] = 0, k[2] = 0
<1>5. QED
  BY ONLY <1>1, <1>3, <1>4, k \in Commands, SameBytes

\* The sixth byte of a command: the card reads the sector, or answers.
LEMMA CommandEnds ==
  ASSUME NEW c, NEW l, Ending(c, l), NEW d, d = Clocked(c, l),
         NEW p \in Phases \ {"none"}, NEW s \in Nat, NEW t \in Nat,
         OnLine(c, p, s, t, "send", 6, 0)
  PROVE  OnLine(d, p, s, t, "answer", 1, 8)
<1>1. Stage(c, p) /\ Holds(c, p, s, t, 5) /\ Hears(c, Frame(p, s)[6], 0)
  BY DEF OnLine, About, Speaks, Sends
<1>2. c.state = "WAIT_COMMAND" /\ c.lastByte = Frame(p, s)[6] /\ c.commandPtr = 5
  BY <1>1 DEF Hears, Holds
<1>3. PICK x : x = Longer(c)
  OBVIOUS
<1>4. SixthByte(c, l, x)
  BY <1>2, <1>3 DEF SixthByte, Ending
<1>5. /\ \A i \in 1 .. 6 : x.command[2 + i] = Frame(p, s)[i]
      /\ Stale(p, t) \/ (x.command[1] = 0 /\ x.command[2] = 0)
      /\ x \in Cards /\ x.expectedCommand = c.expectedCommand /\ x.initialised = c.initialised
  <2>1. c \in Cards /\ 6 \in 1 .. 6 /\ Holds(c, p, s, t, 6 - 1)
    BY <1>1 DEF Ending, CardOk
  <2>2. /\ \A i \in 1 .. 6 : x.command[8 - 6 + i] = Frame(p, s)[i]
        /\ Stale(p, t) \/ \A j \in 1 .. 8 - 6 : x.command[j] = 0
        /\ x \in Cards /\ x.expectedCommand = c.expectedCommand /\ x.initialised = c.initialised
    BY ONLY <1>2, <1>3, <2>1, HoldsMore
  <2>3. \A i \in 1 .. 6 : 8 - 6 + i = 2 + i
    OBVIOUS
  <2>4. QED
    BY ONLY <2>2, <2>3
<1>6. Stage(x, p) /\ (x.initialised => x.expectedCommand \in {2, 3}) /\ x.command \in Commands
  <2>1. c.initialised => c.expectedCommand \in {2, 3}
    BY DEF Ending, CardOk
  <2>2. QED
    BY <1>1, <1>5, <2>1 DEF Stage, Expects, Cards
<1>7. x.command[3] = Frame(p, s)[1]
  <2>1. x.command[2 + 1] = Frame(p, s)[1]
    BY <1>5
  <2>2. QED
    BY ONLY <2>1
<1>8. CASE p = "cmd17"
  <2>1. x.initialised /\ x.command[3] = 81
    BY <1>6, <1>7, <1>8 DEF Stage, Frame, Command
  <2>2. /\ Utters(d, 0, "READ_SECTOR_TOKEN") /\ d.command = NoCommand /\ d.commandPtr = 0
        /\ d.initialised /\ (Sector(x) < Capacity => d.sectorBuffer = Disk[Sector(x)])
    BY ONLY <1>4, <2>1, d = Clocked(c, l), CommandReads
  <2>3. s < Capacity => Sector(x) = s
    BY <1>5, <1>8, SectorSent
  <2>4. Fetched(d, s)
    BY <2>2, <2>3 DEF Fetched, Clean
  <2>5. Tells(d, 0, "READ_SECTOR_TOKEN", 8)
    BY <2>2, Members, UttersTells
  <2>6. QED
    BY ONLY <1>8, <2>2, <2>4, <2>5 DEF OnLine, About, Judged, Speaks, Says, Behind
<1>9. CASE p # "cmd17"
  <2>1. PICK e : e = Wanted(x)
    OBVIOUS
  <2>2. ~(x.initialised /\ x.command[3] = 81)
    BY <1>6, <1>7, <1>9 DEF Phases, Stage, Frame, Command
  <2>3. /\ d.commandPtr = 0 /\ d.initialised = (x.initialised /\ x.command[3] # 64)
        /\ x.command = ExpectedCommands[e].command =>
             /\ Utters(d, 0, "AFTER_COMMAND_RESPONSE") /\ d.okResponse /\ d.responsePtr = 0
             /\ d.expectedCommand = e
        /\ x.command # ExpectedCommands[e].command =>
             /\ Utters(d, 4, "AFTER_COMMAND_RESPONSE") /\ ~d.okResponse
             /\ d.expectedCommand = ExpectedCommands[e].error
    BY ONLY <1>4, <2>1, <2>2, d = Clocked(c, l), CommandResponds
  <2>4. /\ Utters(d, Says(d, p, "answer", 1), "AFTER_COMMAND_RESPONSE")
        /\ Says(d, p, "answer", 1) \in Byte /\ (d.okResponse => d.responsePtr = 0)
    BY <1>9, <2>3, Members DEF Says
  <2>5. Tells(d, Says(d, p, "answer", 1), "AFTER_COMMAND_RESPONSE", 8)
    BY <2>4, UttersTells
  <2>6. Judged(d, p, s, t)
    <3>1. CASE p = "cmd24"
      <4>1. x.initialised /\ x.command[3] = 88
        BY <1>6, <1>7, <3>1 DEF Stage, Frame, Command
      <4>2. e \in {2, 3}
        BY <1>6, <2>1, <4>1 DEF Wanted
      <4>3. ExpectedCommands[e].command[3] \in {119, 105}
        BY <4>2, Expected
      <4>4. x.command # ExpectedCommands[e].command
        BY ONLY <4>1, <4>3
      <4>5. d.initialised /\ ~d.okResponse
        <5>1. x.command[3] # 64
          BY ONLY <4>1
        <5>2. QED
          BY ONLY <2>3, <4>1, <4>4, <5>1, Zenon
      <4>6. QED
        BY ONLY <2>3, <3>1, <4>5 DEF Judged
    <3>2. CASE p # "cmd24"
      <4>1. p \in {"cmd0", "cmd8", "cmd55", "acmd41"}
        BY <1>9, <3>2 DEF Phases
      <4>2. e = Number(p) /\ ~d.initialised
        <5>1. CASE p = "cmd0"
          <6>1. x.command[3] = 64
            BY <1>7, <5>1 DEF Frame
          <6>2. QED
            BY <1>6, <2>1, <2>3, <5>1, <6>1 DEF Stage, Expects, Wanted, Number
        <5>2. CASE p # "cmd0"
          BY <1>6, <2>1, <2>3, <4>1, <5>2 DEF Stage, Expects, Wanted, Number
        <5>3. QED
          BY <5>1, <5>2
      <4>3. Stale(p, t) \/ x.command = ExpectedCommands[e].command
        BY ONLY <1>5, <1>6, <4>1, <4>2, WholeCommand
      <4>4. p = "cmd0" => ExpectedCommands[e].error = 0
        BY <4>2, Expected DEF Number
      <4>5. /\ p = "cmd0" => Expects(d, 0) /\ (d.okResponse \/ t > 1)
            /\ p # "cmd0" => Expects(d, e) /\ d.okResponse
        BY ONLY <2>3, <4>2, <4>3, <4>4 DEF Expects, Stale, Number
      <4>6. QED
        BY ONLY <2>3, <2>4, <4>1, <4>2, <4>5 DEF Judged, Number
    <3>3. QED
      BY <3>1, <3>2
  <2>7. QED
    BY ONLY <1>9, <2>5, <2>6 DEF OnLine, About, Speaks, Behind
<1>10. QED
  BY <1>8, <1>9

\* After the answer to a command.
LEMMA RestsAfter ==
  ASSUME NEW d, Begins(d), d.command = NoCommand, d.commandPtr = 0
  PROVE  /\ Rests(d) /\ Clean(d)
         /\ \A e : Expects(d, e) => RestsExpecting(d, e)
         /\ d.initialised => RestsInitialised(d)
<1>1. Hears(d, 255, 8)
  BY Members, BeginsHears
<1>2. QED
  BY <1>1 DEF Rests, RestsExpecting, RestsInitialised, Clean

LEMMA AnswerEnds ==
  ASSUME NEW c, NEW l, Ending(c, l), NEW d, d = Clocked(c, l),
         NEW p \in Phases \ {"none"}, NEW s \in Nat, NEW t, NEW n,
         OnLine(c, p, s, t, "answer", n, 0)
  PROVE  Returned(d, p, s, t, Says(c, p, "answer", n))
<1>1. Judged(c, p, s, t) /\ c.state = Behind(p, "answer", n)
  BY DEF OnLine, About, Speaks, Tells
<1>2. PICK v : v = Says(c, p, "answer", n)
  OBVIOUS
<1>3. CASE p = "cmd17"
  <2>1. Spoken(c, l, "READ_SECTOR_TOKEN")
    BY <1>1, <1>3 DEF Behind, Spoken, Ending
  <2>2. /\ Utters(d, 254, "READ_SECTOR") /\ SameCommand(c, d) /\ SameSector(c, d)
        /\ d.bytesLeft = SectorSize
    BY ONLY <2>1, d = Clocked(c, l), TokenIs
  <2>3. Tells(d, 254, "READ_SECTOR", 8)
    BY <2>2, Members, UttersTells
  <2>4. Fetched(d, s)
    BY <1>1, <1>3, <2>2 DEF Judged, Fetched, Clean, SameCommand, SameSector
  <2>5. OnLine(d, p, s, t, "token", 1, 8)
    BY ONLY <2>2, <2>3, <2>4 DEF OnLine, About, Speaks, Says, Behind
  <2>6. v = 0
    BY <1>2, <1>3 DEF Says
  <2>7. QED
    BY ONLY <1>2, <1>3, <2>5, <2>6 DEF Returned
<1>4. CASE p # "cmd17"
  <2>1. Spoken(c, l, "AFTER_COMMAND_RESPONSE")
    BY <1>1, <1>4 DEF Behind, Spoken, Ending
  <2>2. v = IF c.okResponse THEN 0 ELSE 4
    BY <1>2, <1>4 DEF Says
  <2>3. c.commandPtr = 0 /\ (c.okResponse => c.responsePtr = 0)
    BY <1>1, <1>4 DEF Judged
  <2>4. CASE c.okResponse /\ p = "cmd8"
    <3>1. c.expectedCommand = 1 /\ c.responsePtr < 4 /\ c.responsePtr = 0 /\ ~c.initialised
      BY <1>1, <2>3, <2>4 DEF Judged, Expects
    <3>2. /\ Utters(d, Response[c.responsePtr + 1], "AFTER_COMMAND_RESPONSE")
          /\ d.command = NoCommand /\ d.commandPtr = c.commandPtr
          /\ d.expectedCommand = 1 /\ d.initialised = c.initialised
          /\ d.okResponse /\ d.responsePtr = c.responsePtr + 1
      BY ONLY <2>1, <2>4, <3>1, d = Clocked(c, l), ResponseGoesOn
    <3>3. /\ Clean(d) /\ Expects(d, 1) /\ d.responsePtr = 1
      BY ONLY <2>3, <3>1, <3>2 DEF Clean, Expects
    <3>4. Response[1] = 0 /\ 5 - 4 = 1 /\ c.responsePtr + 1 = 1
      BY <3>1 DEF Response
    <3>5. Tells(d, 0, "AFTER_COMMAND_RESPONSE", 8)
      BY <3>2, <3>4, Members, UttersTells
    <3>6. OnLine(d, p, s, t, "r7", 4, 8)
      BY ONLY <3>2, <3>3, <3>4, <3>5 DEF OnLine, About, Speaks, Says, Behind
    <3>7. QED
      BY ONLY <1>2, <2>2, <2>4, <3>6 DEF Returned
  <2>5. CASE c.okResponse /\ p # "cmd8"
    <3>1. p \in {"cmd0", "cmd55", "acmd41"}
      BY <1>1, <1>4, <2>5 DEF Judged, Phases
    <3>2. c.expectedCommand = (IF p = "cmd0" THEN 0 ELSE IF p = "cmd55" THEN 2 ELSE 3) /\ ~c.initialised
      BY <1>1, <3>1 DEF Judged, Expects
    <3>3. ~(c.expectedCommand = 1 /\ c.responsePtr < 4)
      BY <3>1, <3>2
    <3>4. /\ Begins(d) /\ d.command = NoCommand /\ d.commandPtr = c.commandPtr
          /\ d.expectedCommand = IF c.expectedCommand < 3 THEN c.expectedCommand + 1 ELSE 3
          /\ d.initialised = (c.initialised \/ c.expectedCommand = 3)
      BY ONLY <2>1, <2>5, <3>3, d = Clocked(c, l), ResponseAccepted
    <3>5. /\ \A e : Expects(d, e) => RestsExpecting(d, e)
          /\ d.initialised => RestsInitialised(d)
      BY ONLY <2>3, <3>4, RestsAfter
    <3>6. /\ p = "cmd0" => Expects(d, 1)
          /\ p = "cmd55" => Expects(d, 3)
          /\ p = "acmd41" => d.initialised
      <4>1. /\ p = "cmd0" => d.expectedCommand = 1 /\ c.expectedCommand # 3
            /\ p = "cmd55" => d.expectedCommand = 3 /\ c.expectedCommand # 3
            /\ p = "acmd41" => c.expectedCommand = 3
        BY ONLY <3>2, <3>4
      <4>2. QED
        BY ONLY <3>2, <3>4, <4>1, Zenon DEF Expects
    <3>7. v = 0
      BY <2>2, <2>5
    <3>8. QED
      BY ONLY <1>2, <3>1, <3>5, <3>6, <3>7 DEF Returned
  <2>6. CASE ~c.okResponse
    <3>1. (p = "cmd0" /\ t > 1 /\ Expects(c, 0)) \/ (p = "cmd24" /\ c.initialised)
      BY <1>1, <1>4, <2>6 DEF Judged, Phases
    <3>2. /\ Begins(d) /\ d.command = NoCommand /\ d.commandPtr = c.commandPtr
          /\ d.expectedCommand = c.expectedCommand /\ d.initialised = c.initialised
      BY ONLY <2>1, <2>6, d = Clocked(c, l), ResponseRefused
    <3>3. /\ \A e : Expects(d, e) => RestsExpecting(d, e)
          /\ d.initialised => RestsInitialised(d)
      BY ONLY <2>3, <3>2, RestsAfter
    <3>4. v = 4
      BY <2>2, <2>6
    <3>5. QED
      BY ONLY <1>2, <3>1, <3>2, <3>3, <3>4 DEF Returned, Expects
  <2>7. QED
    BY <2>4, <2>5, <2>6
<1>5. QED
  BY <1>3, <1>4

LEMMA R7Ends ==
  ASSUME NEW c, NEW l, Ending(c, l), NEW d, d = Clocked(c, l),
         NEW p, NEW s, NEW t, NEW n \in 1 .. 4, OnLine(c, p, s, t, "r7", n, 0)
  PROVE  IF n > 1 THEN OnLine(d, p, s, t, "r7", n - 1, 8) ELSE RestsExpecting(d, 2)
<1>1. /\ Clean(c) /\ Expects(c, 1) /\ c.okResponse /\ c.responsePtr = 5 - n
      /\ c.state = "AFTER_COMMAND_RESPONSE"
  BY DEF OnLine, About, Speaks, Tells, Behind
<1>2. Spoken(c, l, "AFTER_COMMAND_RESPONSE") /\ c.expectedCommand = 1 /\ ~c.initialised /\ c.commandPtr = 0
  BY <1>1 DEF Spoken, Ending, Expects, Clean
<1>3. CASE n > 1
  <2>1. c.responsePtr < 4
    BY <1>1, <1>3
  <2>2. /\ Utters(d, Response[c.responsePtr + 1], "AFTER_COMMAND_RESPONSE")
        /\ d.command = NoCommand /\ d.commandPtr = c.commandPtr
        /\ d.expectedCommand = 1 /\ d.initialised = c.initialised
        /\ d.okResponse /\ d.responsePtr = c.responsePtr + 1
    BY ONLY <1>1, <1>2, <2>1, d = Clocked(c, l), ResponseGoesOn
  <2>3. c.responsePtr + 1 = 5 - (n - 1) /\ 5 - (n - 1) \in 2 .. 4
    BY <1>1, <1>3
  <2>4. Clean(d) /\ Expects(d, 1)
    BY ONLY <1>2, <2>2 DEF Clean, Expects
  <2>5. Response[5 - (n - 1)] \in Byte
    <3>1. PICK k \in {2, 3, 4} : k = 5 - (n - 1)
      BY <2>3
    <3>2. Response[k] \in 0 .. 255
      BY ONLY k \in {2, 3, 4} DEF Response
    <3>3. QED
      BY <3>1, <3>2 DEF Byte
  <2>6. Tells(d, Response[5 - (n - 1)], "AFTER_COMMAND_RESPONSE", 8)
    BY ONLY <2>2, <2>3, <2>5, UttersTells
  <2>7. OnLine(d, p, s, t, "r7", n - 1, 8)
    BY ONLY <2>2, <2>3, <2>4, <2>6 DEF OnLine, About, Speaks, Says, Behind
  <2>8. QED
    BY <1>3, <2>7
<1>4. CASE ~(n > 1)
  <2>1. ~(c.expectedCommand = 1 /\ c.responsePtr < 4)
    BY <1>1, <1>4
  <2>2. /\ Begins(d) /\ d.command = NoCommand /\ d.commandPtr = c.commandPtr
        /\ d.expectedCommand = IF c.expectedCommand < 3 THEN c.expectedCommand + 1 ELSE 3
        /\ d.initialised = (c.initialised \/ c.expectedCommand = 3)
    BY ONLY <1>1, <1>2, <2>1, d = Clocked(c, l), ResponseAccepted
  <2>3. Expects(d, 2)
    <3>1. d.expectedCommand = 2 /\ c.expectedCommand # 3
      BY ONLY <1>2, <2>2
    <3>2. QED
      BY ONLY <1>2, <2>2, <3>1, Zenon DEF Expects
  <2>4. RestsExpecting(d, 2)
    BY ONLY <1>2, <2>2, <2>3, RestsAfter
  <2>5. QED
    BY <1>4, <2>4
<1>5. QED
  BY <1>3, <1>4

LEMMA TokenEnds ==
  ASSUME NEW c, NEW l, Ending(c, l), NEW d, d = Clocked(c, l),
         NEW p, NEW s \in Nat, NEW t, NEW n, OnLine(c, p, s, t, "token", n, 0)
  PROVE  OnLine(d, p, s, t, "data", SectorSize, 8)
<1>1. Fetched(c, s) /\ c.bytesLeft = SectorSize /\ c.state = "READ_SECTOR"
  BY DEF OnLine, About, Speaks, Tells, Behind
<1>2. Spoken(c, l, "READ_SECTOR") /\ c.bytesLeft \in 1 .. SectorSize /\ c \in Cards
  BY <1>1, Sizes DEF Spoken, Ending, CardOk
<1>3. PICK next : next = IF SectorSize > 1 THEN "READ_SECTOR" ELSE "READ_SECTOR_CRC"
  OBVIOUS
<1>4. /\ Utters(d, c.sectorBuffer[SectorSize - c.bytesLeft], next)
      /\ SameCommand(c, d) /\ SameSector(c, d)
      /\ d.bytesLeft = IF c.bytesLeft > 1 THEN c.bytesLeft - 1 ELSE 2
  BY ONLY <1>1, <1>2, <1>3, d = Clocked(c, l), SectorIs
<1>5. PICK v \in Byte : v = d.sectorBuffer[SectorSize - SectorSize]
                        /\ v = c.sectorBuffer[SectorSize - c.bytesLeft]
  <2>1. SectorSize - SectorSize \in 0 .. SectorSize - 1
    BY Sizes
  <2>2. d.sectorBuffer = c.sectorBuffer /\ c.sectorBuffer \in SectorData
    BY <1>2, <1>4 DEF SameSector, Cards
  <2>3. QED
    BY ONLY <1>1, <2>1, <2>2 DEF SectorData
<1>6. Tells(d, v, next, 8)
  BY ONLY <1>4, <1>5, v \in Byte, UttersTells
<1>7. Fetched(d, s)
  BY <1>1, <1>4 DEF Fetched, Clean, SameCommand, SameSector
<1>8. QED
  BY ONLY <1>1, <1>3, <1>4, <1>5, <1>6, <1>7 DEF OnLine, About, Speaks, Says, Behind

LEMMA DataEnds ==
  ASSUME NEW c, NEW l, Ending(c, l), NEW d, d = Clocked(c, l),
         NEW p, NEW s \in Nat, NEW t, NEW n \in 1 .. SectorSize, OnLine(c, p, s, t, "data", n, 0)
  PROVE  /\ s < Capacity => Says(c, p, "data", n) = Disk[s][SectorSize - n]
         /\ IF n > 1 THEN OnLine(d, p, s, t, "data", n - 1, 8)
            ELSE OnLine(d, p, s, t, "trailer", 3, 8)
<1>1. /\ Fetched(c, s) /\ c.bytesLeft = IF n > 1 THEN n - 1 ELSE 2
      /\ c.state = IF n > 1 THEN "READ_SECTOR" ELSE "READ_SECTOR_CRC"
  BY DEF OnLine, About, Speaks, Tells, Behind
<1>2. s < Capacity => Says(c, p, "data", n) = Disk[s][SectorSize - n]
  BY <1>1 DEF Says, Fetched
<1>3. CASE n > 1
  <2>1. Spoken(c, l, "READ_SECTOR") /\ c.bytesLeft \in 1 .. SectorSize /\ c \in Cards /\ c.bytesLeft = n - 1
    BY <1>1, <1>3, Sizes DEF Spoken, Ending, CardOk
  <2>2. PICK next : next = IF n - 1 > 1 THEN "READ_SECTOR" ELSE "READ_SECTOR_CRC"
    OBVIOUS
  <2>3. /\ Utters(d, c.sectorBuffer[SectorSize - c.bytesLeft], next)
        /\ SameCommand(c, d) /\ SameSector(c, d)
        /\ d.bytesLeft = IF c.bytesLeft > 1 THEN c.bytesLeft - 1 ELSE 2
    BY ONLY <2>1, <2>2, d = Clocked(c, l), SectorIs
  <2>4. PICK v \in Byte : v = d.sectorBuffer[SectorSize - (n - 1)]
                          /\ v = c.sectorBuffer[SectorSize - c.bytesLeft]
    <3>1. SectorSize - (n - 1) \in 0 .. SectorSize - 1
      BY <1>3, Sizes
    <3>2. d.sectorBuffer = c.sectorBuffer /\ c.sectorBuffer \in SectorData
      BY <2>1, <2>3 DEF SameSector, Cards
    <3>3. QED
      BY ONLY <2>1, <3>1, <3>2 DEF SectorData
  <2>5. Tells(d, v, next, 8)
    BY ONLY <2>3, <2>4, v \in Byte, UttersTells
  <2>6. Fetched(d, s)
    BY <1>1, <2>3 DEF Fetched, Clean, SameCommand, SameSector
  <2>7. OnLine(d, p, s, t, "data", n - 1, 8)
    BY ONLY <2>1, <2>2, <2>3, <2>4, <2>5, <2>6 DEF OnLine, About, Speaks, Says, Behind
  <2>8. QED
    BY <1>2, <1>3, <2>7
<1>4. CASE ~(n > 1)
  <2>1. Spoken(c, l, "READ_SECTOR_CRC") /\ c.bytesLeft = 2 /\ c.bytesLeft \in 1 .. 2
    BY <1>1, <1>4 DEF Spoken, Ending
  <2>2. /\ Utters(d, 0, "READ_SECTOR_CRC") /\ SameCommand(c, d) /\ SameSector(c, d)
        /\ d.bytesLeft = c.bytesLeft - 1
    BY ONLY <2>1, d = Clocked(c, l), CrcGoesOn
  <2>3. Tells(d, 0, "READ_SECTOR_CRC", 8)
    BY <2>2, Members, UttersTells
  <2>4. Clean(d) /\ d.initialised /\ d.bytesLeft = 1
    BY <1>1, <2>1, <2>2 DEF Fetched, Clean, SameCommand
  <2>5. 3 > 1 /\ 3 - 2 = 1
    OBVIOUS
  <2>6. OnLine(d, p, s, t, "trailer", 3, 8)
    BY ONLY <2>3, <2>4, <2>5 DEF OnLine, About, Speaks, Says, Behind
  <2>7. QED
    BY <1>2, <1>4, <2>6
<1>5. QED
  BY <1>3, <1>4

LEMMA TrailerEnds ==
  ASSUME NEW c, NEW l, Ending(c, l), NEW d, d = Clocked(c, l),
         NEW p, NEW s, NEW t, NEW n \in 1 .. 3, OnLine(c, p, s, t, "trailer", n, 0)
  PROVE  IF n > 1 THEN OnLine(d, p, s, t, "trailer", n - 1, 8) ELSE RestsInitialised(d)
<1>1. Clean(c) /\ c.initialised /\ (n > 1 => c.bytesLeft = n - 2 /\ c.state = "READ_SECTOR_CRC")
  BY DEF OnLine, About, Speaks, Tells, Behind
<1>2. CASE n = 3
  <2>1. Spoken(c, l, "READ_SECTOR_CRC") /\ c.bytesLeft = 1 /\ c.bytesLeft \in 1 .. 2
    BY <1>1, <1>2 DEF Spoken, Ending
  <2>2. /\ Utters(d, 0, "READ_SECTOR_CRC") /\ SameCommand(c, d) /\ d.bytesLeft = c.bytesLeft - 1
    BY ONLY <2>1, d = Clocked(c, l), CrcGoesOn
  <2>3. Tells(d, 0, "READ_SECTOR_CRC", 8)
    BY <2>2, Members, UttersTells
  <2>4. Clean(d) /\ d.initialised /\ d.bytesLeft = 2 - 2 /\ 2 > 1
    BY <1>1, <2>1, <2>2 DEF Clean, SameCommand
  <2>5. OnLine(d, p, s, t, "trailer", 2, 8)
    BY ONLY <2>3, <2>4 DEF OnLine, About, Speaks, Says, Behind
  <2>6. n > 1 /\ n - 1 = 2
    BY <1>2
  <2>7. QED
    BY ONLY <2>5, <2>6
<1>3. CASE n = 2
  <2>1. Spoken(c, l, "READ_SECTOR_CRC") /\ c.bytesLeft = 0
    BY <1>1, <1>3 DEF Spoken, Ending
  <2>2. /\ Begins(d) /\ d.command = NoCommand /\ d.commandPtr = 0 /\ d.initialised = c.initialised
    BY ONLY <2>1, d = Clocked(c, l), CrcEnds
  <2>3. Hears(d, 255, 8)
    BY <2>2, Members, BeginsHears
  <2>4. Clean(d) /\ d.initialised
    BY <1>1, <2>2 DEF Clean
  <2>5. ~(1 > 1)
    OBVIOUS
  <2>6. OnLine(d, p, s, t, "trailer", 1, 8)
    BY ONLY <2>3, <2>4, <2>5 DEF OnLine, About, Speaks, Sends
  <2>7. n > 1 /\ n - 1 = 1
    BY <1>3
  <2>8. QED
    BY ONLY <2>6, <2>7
<1>4. CASE n = 1
  <2>1. Hears(c, 255, 0)
    BY <1>4 DEF OnLine, Speaks, Sends
  <2>2. c.state = "WAIT_COMMAND" /\ c.lastByte = 255 /\ c.commandPtr = 0
    BY <1>1, <2>1 DEF Hears, Clean
  <2>3. Begins(d) /\ Kept(c, d)
    BY ONLY <2>2, Ending(c, l), d = Clocked(c, l), WaitCommandIdle DEF Ending
  <2>4. RestsInitialised(d)
    BY <1>1, <2>3, RestsAfter DEF Kept, Clean
  <2>5. QED
    BY <1>4, <2>4
<1>5. QED
  BY <1>2, <1>3, <1>4

\* After a byte: the next one of the place, or what the place leaves behind.
LEMMA ByteEnds ==
  ASSUME NEW c, NEW l, Ending(c, l), NEW d, d = Clocked(c, l), NEW p, NEW s, NEW t \in Nat,
         NEW place, NEW n, Amid(p, s, place, n), OnLine(c, p, s, t, place, n, 0),
         NEW x, Carries(x, Carried(c, p, s, place, n), place, 0)
  PROVE  Passed(d, p, s, t, place, n, x)
<1>1. /\ p \in Phases \ {"none"} /\ s \in Nat
      /\ place \in {"busy", "send", "answer", "r7", "token", "data", "trailer"}
  BY DEF Amid, BytePlaces
<1>2. place # "send" => x = Says(c, p, place, n)
  <2>1. c \in Cards
    BY DEF Ending, CardOk
  <2>2. Carried(c, p, s, place, n) \in Byte
    BY ONLY <2>1, Amid(p, s, place, n), CarriedIsByte
  <2>3. QED
    BY <2>2, WholeByte DEF Carries, Carried
<1>3. CASE place = "busy"
  <2>1. OnLine(d, p, s, t, "send", 1, 8)
    BY ONLY <1>1, <1>3, Ending(c, l), d = Clocked(c, l), OnLine(c, p, s, t, place, n, 0), BusyEnds
  <2>2. x = 255
    BY <1>2, <1>3 DEF Says
  <2>3. QED
    BY ONLY <1>3, <2>1, <2>2 DEF Passed
<1>4. CASE place = "send"
  <2>1. n \in 1 .. 6
    BY <1>4, TriesAre DEF Amid
  <2>2. CASE n = 6
    <3>1. OnLine(d, p, s, t, "answer", 1, 8)
      BY ONLY <1>1, <1>4, <2>2, t \in Nat, Ending(c, l), d = Clocked(c, l),
              OnLine(c, p, s, t, place, n, 0), CommandEnds
    <3>2. QED
      BY ONLY <1>4, <2>2, <3>1 DEF Passed
  <2>3. CASE n # 6
    <3>1. n \in 1 .. 5
      BY <2>1, <2>3
    <3>2. OnLine(d, p, s, t, "send", n + 1, 8)
      BY ONLY <1>1, <1>4, <3>1, Ending(c, l), d = Clocked(c, l), OnLine(c, p, s, t, place, n, 0), SendEnds
    <3>3. QED
      BY ONLY <1>4, <3>1, <3>2 DEF Passed
  <2>4. QED
    BY <2>2, <2>3
<1>5. CASE place = "answer"
  <2>1. Returned(d, p, s, t, Says(c, p, "answer", n))
    BY ONLY <1>1, <1>5, Ending(c, l), d = Clocked(c, l), OnLine(c, p, s, t, place, n, 0), AnswerEnds
  <2>2. QED
    BY ONLY <1>2, <1>5, <2>1 DEF Passed
<1>6. CASE place = "r7"
  <2>1. n \in 1 .. 4
    BY <1>6, TriesAre DEF Amid
  <2>2. IF n > 1 THEN OnLine(d, p, s, t, "r7", n - 1, 8) ELSE RestsExpecting(d, 2)
    BY ONLY <1>6, <2>1, Ending(c, l), d = Clocked(c, l), OnLine(c, p, s, t, place, n, 0), R7Ends
  <2>3. QED
    BY ONLY <1>6, <2>2 DEF Passed
<1>7. CASE place = "token"
  <2>1. OnLine(d, p, s, t, "data", SectorSize, 8)
    BY ONLY <1>1, <1>7, Ending(c, l), d = Clocked(c, l), OnLine(c, p, s, t, place, n, 0), TokenEnds
  <2>2. x = 254
    BY <1>2, <1>7 DEF Says
  <2>3. QED
    BY ONLY <1>7, <2>1, <2>2 DEF Passed
<1>8. CASE place = "data"
  <2>1. n \in 1 .. SectorSize
    BY <1>8, TriesAre DEF Amid
  <2>2. /\ s < Capacity => Says(c, p, "data", n) = Disk[s][SectorSize - n]
        /\ IF n > 1 THEN OnLine(d, p, s, t, "data", n - 1, 8)
           ELSE OnLine(d, p, s, t, "trailer", 3, 8)
    BY ONLY <1>1, <1>8, <2>1, Ending(c, l), d = Clocked(c, l), OnLine(c, p, s, t, place, n, 0), DataEnds
  <2>3. QED
    BY ONLY <1>2, <1>8, <2>2 DEF Passed
<1>9. CASE place = "trailer"
  <2>1. n \in 1 .. 3
    BY <1>9, TriesAre DEF Amid
  <2>2. IF n > 1 THEN OnLine(d, p, s, t, "trailer", n - 1, 8) ELSE RestsInitialised(d)
    BY ONLY <1>9, <2>1, Ending(c, l), d = Clocked(c, l), OnLine(c, p, s, t, place, n, 0), TrailerEnds
  <2>3. QED
    BY ONLY <1>9, <2>2 DEF Passed
<1>10. QED
  BY <1>1, <1>3, <1>4, <1>5, <1>6, <1>7, <1>8, <1>9

-----------------------------------------------------------------------------
(***************************************************************************)
(* Driver and card, bit by bit.                                            *)
(***************************************************************************)
Running == DriverOk /\ CardRuns /\ card.cardInserted /\ InStep

LEMMA InStepAtByte ==
  ASSUME DriverOk', at' \in BytePlaces \ {"dummy"},
         Byteway(card', phase', request', tries', at', count', bits', lines'.clk, d0'),
         at' = "data" => Filled(request', buffer', count'),
         at' = "trailer" => Filled(request', buffer', 0)
  PROVE  InStep'
<1>1. call' \notin {"boot", "idle"} /\ at' \notin {"dummy", "select", "return", "none"}
  BY DEF DriverOk, Course, BytePlaces
<1>2. QED
  BY <1>1 DEF InStep

LEMMA InStepAtSelect ==
  ASSUME DriverOk', at' = "select", Rests(card'), Stage(card', phase'),
         Stale(phase', tries') \/ Clean(card')
  PROVE  InStep'
<1>1. call' \notin {"boot", "idle"}
  BY DEF DriverOk, Course
<1>2. QED
  BY <1>1 DEF InStep, BytePlaces

LEMMA InStepAtIdle ==
  ASSUME at' = "none", call' = "idle", ready', RestsInitialised(card')
  PROVE  InStep'
BY DEF InStep, BytePlaces

\* What a place within a byte knows.
LEMMA AtByte ==
  ASSUME Running, at \in BytePlaces \ {"dummy"}
  PROVE  /\ Amid(phase, request, at, count) /\ tries \in Nat
         /\ Byteway(card, phase, request, tries, at, count, bits, lines.clk, d0)
         /\ bits \in 0 .. 8 /\ lines.cs = 1 /\ call \notin {"boot", "idle"}
         /\ at = "data" => Filled(request, buffer, count)
         /\ at = "trailer" => Filled(request, buffer, 0)
<1>1. /\ Registers(at, bits, d0, count) /\ Levels(at, bits, lines) /\ Course(call, phase, at)
      /\ request \in Nat /\ tries \in Nat /\ count \in 1 .. Tries(at) /\ bits \in 0 .. 8
  BY Typed DEF Running
<1>2. phase \in Phases \ {"none"} /\ call \notin {"boot", "idle"}
  BY <1>1 DEF Course, BytePlaces
<1>3. lines.cs = 1
  BY <1>1 DEF Levels
<1>4. QED
  BY <1>1, <1>2, <1>3 DEF Running, InStep, Amid

\* A byte that starts.
LEMMA FreshByte ==
  ASSUME NEW v \in Byte, NEW place
  PROVE  /\ place # "send" => Carries(0, v, place, 8)
         /\ place = "send" => Carries(v, v, place, 8)
BY WholeByte DEF Carries

LEMMA Reading ==
  ASSUME NEW c \in Cards, NEW p, NEW s, NEW t, NEW place, NEW n, Amid(p, s, place, n), place # "send",
         OnLine(c, p, s, t, place, n, 8)
  PROVE  Byteway(c, p, s, t, place, n, 8, 0, 0)
<1>1. PICK v \in Byte : v = Says(c, p, place, n)
  BY CarriedIsByte DEF Carried
<1>2. Carries(0, v, place, 8) /\ 8 - 0 = 8 /\ 8 > 0
  BY FreshByte
<1>3. QED
  BY ONLY <1>1, <1>2, place # "send", OnLine(c, p, s, t, place, n, 8) DEF Byteway

LEMMA Sending ==
  ASSUME NEW c, NEW p \in Phases \ {"none"}, NEW s \in Nat, NEW t, NEW n \in 1 .. 6,
         OnLine(c, p, s, t, "send", n, 8)
  PROVE  Byteway(c, p, s, t, "send", n, 8, 0, Frame(p, s)[n])
<1>1. PICK v \in Byte : v = Frame(p, s)[n]
  BY FrameBytes
<1>2. Carries(v, v, "send", 8) /\ 8 - 0 = 8 /\ 8 > 0
  BY FreshByte
<1>3. QED
  BY ONLY <1>1, <1>2, OnLine(c, p, s, t, "send", n, 8) DEF Byteway, Sends

-----------------------------------------------------------------------------
(***************************************************************************)
(* The dummy clocks.                                                       *)
(***************************************************************************)
LEMMA WakesRises ==
  ASSUME NEW c, CardOk(c), NEW l, Edge(c, l), l.cs = 0, l.clk = 1, NEW left \in Int, Wakes(c, left),
         NEW d, d = Clocked(c, l)
  PROVE  Wakes(d, left - 1)
<1>1. c.lastClock # 1
  BY DEF Edge
<1>2. CASE c.state = "WAIT_CLOCKS" /\ PowerUpClocks - c.clocks <= left
  <2>1. ~c.initialised /\ c.expectedCommand = 0 /\ c.clocks \in Nat /\ c.clocks < PowerUpClocks
    <3>1. c.clocks \in Clocks
      BY DEF CardOk, Cards
    <3>2. QED
      BY <1>2, <3>1, Sizes DEF CardOk, Clocks
  <2>2. CASE c.clocks + l.clk >= PowerUpClocks
    <3>1. d.state = "WAIT_BYTE" /\ d.lastClock = 1 /\ Kept(c, d)
      BY ONLY <1>2, <2>2, Edge(c, l), l.cs = 0, l.clk = 1, d = Clocked(c, l), Waking
    <3>2. Stage(d, "cmd0")
      BY ONLY <2>1, <3>1 DEF Stage, Expects, Kept
    <3>3. QED
      BY ONLY <3>1, <3>2 DEF Wakes
  <2>3. CASE ~(c.clocks + l.clk >= PowerUpClocks)
    <3>1. c.clocks + l.clk < PowerUpClocks
      BY <2>1, <2>3, Sizes
    <3>2. d.state = "WAIT_CLOCKS" /\ d.clocks = c.clocks + 1
      BY ONLY <1>2, <3>1, Edge(c, l), l.cs = 0, l.clk = 1, d = Clocked(c, l), Counting
    <3>3. PowerUpClocks - d.clocks <= left - 1
      BY <1>2, <2>1, <3>2, Sizes
    <3>4. QED
      BY ONLY <3>2, <3>3 DEF Wakes
  <2>4. QED
    BY <2>2, <2>3
<1>3. CASE c.state = "WAIT_BYTE" /\ Stage(c, "cmd0")
  <2>1. /\ Kept([c EXCEPT !.commandPtr = 0], d) /\ d.lastClock = 1 /\ d.state = "WAIT_BYTE"
    BY ONLY <1>3, Edge(c, l), l.cs = 0, l.clk = 1, d = Clocked(c, l), BitDropped
  <2>2. Stage(d, "cmd0")
    <3>1. c \in Cards
      BY DEF CardOk
    <3>2. d.initialised = c.initialised /\ d.expectedCommand = c.expectedCommand
      BY ONLY <2>1, <3>1 DEF Kept, Cards
    <3>3. QED
      BY ONLY <1>3, <3>2 DEF Stage, Expects
  <2>3. QED
    BY ONLY <2>1, <2>2 DEF Wakes
<1>4. CASE /\ c.state = "WRITE_BYTE" /\ c.nextState = "AFTER_COMMAND_RESPONSE" /\ c.initialised
           /\ c.clocks + 1 <= left
  <2>1. c.clocks \in 0 .. 7
    BY <1>4 DEF CardOk
  <2>2. /\ Kept(c, d) /\ d.nextState = c.nextState
        /\ c.clocks > 0 => d.state = "WRITE_BYTE" /\ d.clocks = c.clocks - 1
        /\ c.clocks = 0 => d.state = c.nextState
    BY ONLY <1>4, <2>1, Edge(c, l), l.clk = 1, d = Clocked(c, l), BitOut
  <2>3. d.initialised
    BY <1>4, <2>2 DEF Kept
  <2>4. c.clocks > 0 => d.clocks + 1 <= left - 1
    BY ONLY <1>4, <2>1, <2>2, left \in Int
  <2>5. QED
    BY ONLY <1>4, <2>1, <2>2, <2>3, <2>4 DEF Wakes
<1>5. c.state # "AFTER_COMMAND_RESPONSE"
  BY <1>1 DEF CardOk, Handlers
<1>6. QED
  BY ONLY <1>2, <1>3, <1>4, <1>5, Wakes(c, left) DEF Wakes

LEMMA WakesFalls ==
  ASSUME NEW c, CardOk(c), NEW l, Edge(c, l), l.cs = 0, l.clk = 0, NEW left \in Int, Wakes(c, left),
         NEW d, d = Clocked(c, l)
  PROVE  Wakes(d, left)
<1>1. CASE c.state = "WAIT_CLOCKS" /\ PowerUpClocks - c.clocks <= left
  <2>1. c.clocks \in Nat /\ c.clocks + l.clk < PowerUpClocks /\ c.clocks + l.clk = c.clocks
    <3>1. c.clocks \in Clocks
      BY DEF CardOk, Cards
    <3>2. QED
      BY <1>1, <3>1, Sizes DEF CardOk, Clocks
  <2>2. d.state = "WAIT_CLOCKS" /\ d.clocks = c.clocks + l.clk
    BY ONLY <1>1, <2>1, Edge(c, l), l.cs = 0, l.clk = 0, d = Clocked(c, l), Counting
  <2>3. QED
    BY ONLY <1>1, <2>1, <2>2 DEF Wakes
<1>2. CASE c.state = "WAIT_BYTE" /\ Stage(c, "cmd0")
  <2>1. /\ Kept([c EXCEPT !.commandPtr = 0], d) /\ d.state = "WAIT_BYTE" /\ d.nextState = c.nextState
        /\ d.clocks = 7 /\ d.input = 0 /\ d.miso = 1 /\ d.lastClock = 0
    BY ONLY <1>2, Edge(c, l), l.cs = 0, l.clk = 0, d = Clocked(c, l), BitDropped
  <2>2. /\ d.initialised = c.initialised /\ d.expectedCommand = c.expectedCommand /\ d.commandPtr = 0
    <3>1. c \in Cards
      BY DEF CardOk
    <3>2. QED
      BY ONLY <2>1, <3>1 DEF Kept, Cards
  <2>3. Stage(d, "cmd0")
    BY ONLY <1>2, <2>2 DEF Stage, Expects
  <2>4. Begins(d)
    BY <1>2, <2>1 DEF Begins, CardOk
  <2>5. Rests(d)
    BY <2>2, <2>4, Members, BeginsHears DEF Rests
  <2>6. QED
    BY ONLY <2>1, <2>3, <2>5 DEF Wakes
<1>3. CASE /\ c.state = "WRITE_BYTE" /\ c.nextState = "AFTER_COMMAND_RESPONSE" /\ c.initialised
           /\ c.clocks + 1 <= left
  <2>1. Kept(c, d) /\ SameByte(c, d)
    BY ONLY <1>3, Edge(c, l), l.clk = 0, d = Clocked(c, l), BitOutFalls
  <2>2. QED
    BY ONLY <1>3, <2>1 DEF Wakes, Kept, SameByte
<1>4. CASE c.state = "AFTER_COMMAND_RESPONSE" /\ c.initialised
  <2>1. Spoken(c, l, "AFTER_COMMAND_RESPONSE") /\ c.expectedCommand \in {2, 3} /\ c.commandPtr = 0
    BY <1>4 DEF Spoken, CardOk, Handlers
  <2>2. ~(c.expectedCommand = 1 /\ c.responsePtr < 4)
    BY ONLY <2>1
  <2>3. Begins(d) /\ d.initialised /\ d.commandPtr = 0 /\ d.command = NoCommand
    <3>1. CASE c.okResponse
      <4>1. Begins(d) /\ d.command = NoCommand /\ d.commandPtr = c.commandPtr
            /\ d.initialised = (c.initialised \/ c.expectedCommand = 3)
        BY ONLY <2>1, <2>2, <3>1, d = Clocked(c, l), ResponseAccepted
      <4>2. QED
        BY ONLY <1>4, <2>1, <4>1, Zenon
    <3>2. CASE ~c.okResponse
      BY ONLY <1>4, <2>1, <3>2, d = Clocked(c, l), ResponseRefused
    <3>3. QED
      BY <3>1, <3>2
  <2>4. Rests(d)
    BY ONLY <2>3, RestsAfter
  <2>5. QED
    BY ONLY <2>3, <2>4 DEF Wakes, Begins, Stage
<1>5. QED
  BY ONLY <1>1, <1>2, <1>3, <1>4, Wakes(c, left) DEF Wakes

-----------------------------------------------------------------------------
(***************************************************************************)
(* The steps keep the two in step.                                         *)
(***************************************************************************)
LEMMA RaiseInStep ==
  ASSUME Running, Raise
  PROVE  InStep'
<1>1. /\ DriverOk' /\ at \in BytePlaces /\ d0 \in Byte
      /\ lines'.cs = lines.cs /\ lines'.clk = 1 /\ lines' \in Lines /\ card' = Clocked(card, lines')
      /\ lines'.mosi = IF at = "send" THEN TopBit(d0) ELSE 1
  BY RaiseTypes DEF Running
<1>2. PICK c, l, d : c = card /\ l = lines' /\ d = card'
  OBVIOUS
<1>3. /\ bits > 0 /\ lines.clk = 0
      /\ d0' = ((d0 * 2) % 256) + (IF at = "send" THEN 0 ELSE card'.miso)
      /\ UNCHANGED <<call, phase, at, bits, count, tries, request, buffer>>
  BY DEF Raise
<1>4. CardOk(c) /\ Edge(c, l) /\ d = Clocked(c, l) /\ l.clk = 1
  <2>1. card.lastClock = 0 /\ CardOk(card) /\ card.cardInserted
    BY <1>3 DEF Running, CardRuns
  <2>2. QED
    BY <1>1, <1>2, <2>1 DEF Edge, CardOk
<1>5. CASE at = "dummy"
  <2>1. Wakes(c, ClocksLeft) /\ ClocksLeft \in Int /\ l.cs = 0
    <3>1. lines.cs = 0 /\ count \in 1 .. Tries("dummy") /\ bits \in Nat
      BY <1>5, Typed DEF Running, Levels, BytePlaces
    <3>2. count \in Nat
      BY <3>1, TriesFit DEF BytePlaces
    <3>3. QED
      BY <1>1, <1>2, <1>3, <1>5, <3>1, <3>2 DEF Running, InStep, ClocksLeft
  <2>2. Wakes(d, ClocksLeft - 1)
    BY ONLY <1>4, <2>1, WakesRises
  <2>3. ClocksLeft' = ClocksLeft - 1
    <3>1. count \in 1 .. Tries("dummy") /\ bits \in Nat
      BY <1>5, Typed DEF Running, BytePlaces
    <3>2. count \in Nat
      BY <3>1, TriesFit DEF BytePlaces
    <3>3. QED
      BY <1>1, <1>3, <3>1, <3>2 DEF ClocksLeft
  <2>4. call' \notin {"boot", "idle"}
    BY <1>1, <1>3, <1>5 DEF DriverOk, Course
  <2>5. QED
    BY <1>2, <1>3, <1>5, <2>2, <2>3, <2>4 DEF InStep
<1>6. CASE at # "dummy"
  <2>1. at \in BytePlaces \ {"dummy"}
    BY <1>1, <1>6
  <2>2. PICK p, s, t, place, n, b, x, y :
              /\ p = phase /\ s = request /\ t = tries /\ place = at /\ n = count /\ b = bits
              /\ x = d0 /\ y = d0'
    OBVIOUS
  <2>3. /\ Amid(p, s, place, n) /\ Byteway(c, p, s, t, place, n, b, 0, x)
        /\ b \in 1 .. 8 /\ l.cs = 1
    BY <1>1, <1>2, <1>3, <2>1, <2>2, AtByte
  <2>4. OnLine(c, p, s, t, place, n, b) /\ Carries(x, Carried(c, p, s, place, n), place, b)
    <3>1. b > 0 /\ b - 0 = b
      BY <2>3
    <3>2. QED
      BY ONLY <2>3, <3>1 DEF Byteway, Carried
  <2>5. /\ l.mosi = IF place = "send" THEN x \div 128 ELSE 1
        /\ y = ((x * 2) % 256) + (IF place = "send" THEN 0 ELSE d.miso)
    BY <1>1, <1>2, <1>3, <2>2 DEF TopBit
  <2>6. OnLine(d, p, s, t, place, n, b - 1) /\ Carries(y, Carried(d, p, s, place, n), place, b - 1)
    BY ONLY <1>4, <2>3, <2>4, <2>5, OnLineRises
  <2>7. Byteway(d, p, s, t, place, n, b, 1, y)
    BY ONLY <2>3, <2>6 DEF Byteway, Carried
  <2>8. Byteway(card', phase', request', tries', at', count', bits', lines'.clk, d0')
    BY <1>1, <1>2, <1>3, <2>2, <2>7
  <2>9. /\ at' = "data" => Filled(request', buffer', count')
        /\ at' = "trailer" => Filled(request', buffer', 0)
    BY <1>3, <2>1, AtByte
  <2>10. QED
    BY ONLY <1>1, <1>3, <2>1, <2>8, <2>9, InStepAtByte
<1>7. QED
  BY <1>5, <1>6

LEMMA LowerInStep ==
  ASSUME Running, Lower
  PROVE  InStep'
<1>1. /\ DriverOk' /\ at \in BytePlaces /\ bits \in 1 .. 8
      /\ lines'.cs = lines.cs /\ lines'.clk = 0 /\ lines' \in Lines /\ card' = Clocked(card, lines')
  BY LowerTypes DEF Running
<1>2. PICK c, l, d : c = card /\ l = lines' /\ d = card'
  OBVIOUS
<1>3. /\ lines.clk = 1 /\ bits' = bits - 1
      /\ UNCHANGED <<call, phase, at, d0, count, tries, request, buffer>>
  BY DEF Lower
<1>4. CardOk(c) /\ Edge(c, l) /\ d = Clocked(c, l) /\ l.clk = 0
  <2>1. card.lastClock = 1 /\ CardOk(card) /\ card.cardInserted
    BY <1>3 DEF Running, CardRuns
  <2>2. QED
    BY <1>1, <1>2, <2>1 DEF Edge, CardOk
<1>5. CASE at = "dummy"
  <2>1. count \in Nat
    <3>1. count \in 1 .. Tries("dummy")
      BY <1>5, Typed DEF Running, BytePlaces
    <3>2. QED
      BY <3>1, TriesFit DEF BytePlaces
  <2>2. Wakes(c, ClocksLeft) /\ ClocksLeft \in Int /\ l.cs = 0
    <3>1. lines.cs = 0
      BY <1>5, Typed DEF Running, Levels
    <3>2. QED
      BY <1>1, <1>2, <1>3, <1>5, <2>1, <3>1 DEF Running, InStep, ClocksLeft
  <2>3. Wakes(d, ClocksLeft)
    BY ONLY <1>4, <2>2, WakesFalls
  <2>4. ClocksLeft' = ClocksLeft
    BY <1>1, <1>3, <2>1 DEF ClocksLeft
  <2>5. call' \notin {"boot", "idle"}
    BY <1>1, <1>3, <1>5 DEF DriverOk, Course
  <2>6. QED
    BY <1>2, <1>3, <1>5, <2>3, <2>4, <2>5 DEF InStep
<1>6. CASE at # "dummy"
  <2>1. at \in BytePlaces \ {"dummy"}
    BY <1>1, <1>6
  <2>2. PICK p, s, t, place, n, b, x :
              /\ p = phase /\ s = request /\ t = tries /\ place = at /\ n = count /\ b = bits /\ x = d0
    OBVIOUS
  <2>3. /\ Amid(p, s, place, n) /\ Byteway(c, p, s, t, place, n, b, 1, x)
        /\ b \in 1 .. 8 /\ l.cs = 1 /\ t \in Nat
    BY <1>1, <1>2, <1>3, <2>1, <2>2, AtByte
  <2>4. OnLine(c, p, s, t, place, n, b - 1) /\ Carries(x, Carried(c, p, s, place, n), place, b - 1)
    <3>1. b > 0
      BY <2>3
    <3>2. QED
      BY ONLY <2>3, <3>1 DEF Byteway, Carried
  <2>5. Byteway(d, p, s, t, place, n, b - 1, 0, x)
    <3>1. CASE b = 1
      <4>1. OnLine(c, p, s, t, place, n, 0) /\ Carries(x, Carried(c, p, s, place, n), place, 0)
        BY ONLY <2>4, <3>1
      <4>2. Ending(c, l)
        BY ONLY <1>4 DEF Ending
      <4>3. Passed(d, p, s, t, place, n, x)
        BY ONLY <1>4, <2>3, <4>1, <4>2, ByteEnds
      <4>4. ~(b - 1 > 0)
        BY ONLY <3>1
      <4>5. QED
        BY ONLY <4>3, <4>4 DEF Byteway
    <3>2. CASE b # 1
      <4>1. PICK m \in 1 .. 8 : m = b - 1
        BY ONLY <2>3, <3>2
      <4>2. /\ OnLine(d, p, s, t, place, n, m)
            /\ Carried(d, p, s, place, n) = Carried(c, p, s, place, n)
        BY ONLY <1>4, <2>3, <2>4, <4>1, OnLineFalls
      <4>3. m > 0 /\ m - 0 = m
        BY ONLY m \in 1 .. 8
      <4>4. Byteway(d, p, s, t, place, n, m, 0, x)
        BY ONLY <2>4, <4>1, <4>2, <4>3 DEF Byteway, Carried
      <4>5. QED
        BY ONLY <4>1, <4>4
    <3>3. QED
      BY <3>1, <3>2
  <2>6. Byteway(card', phase', request', tries', at', count', bits', lines'.clk, d0')
    BY <1>1, <1>2, <1>3, <2>2, <2>5
  <2>7. /\ at' = "data" => Filled(request', buffer', count')
        /\ at' = "trailer" => Filled(request', buffer', 0)
    BY <1>3, <2>1, AtByte
  <2>8. QED
    BY ONLY <1>1, <1>3, <2>1, <2>6, <2>7, InStepAtByte
<1>7. QED
  BY <1>5, <1>6

LEMMA BytePassed ==
  ASSUME Running, at \in BytePlaces \ {"dummy"}, bits = 0
  PROVE  /\ Passed(card, phase, request, tries, at, count, d0) /\ lines.clk = 0 /\ card \in Cards
         /\ Amid(phase, request, at, count) /\ tries \in Nat
<1>1. Byteway(card, phase, request, tries, at, count, bits, lines.clk, d0) /\ tries \in Nat
      /\ Amid(phase, request, at, count)
  BY AtByte
<1>2. ~(bits > 0)
  OBVIOUS
<1>3. Levels(at, bits, lines)
  BY Typed DEF Running
<1>4. lines.clk = 0
  BY <1>3 DEF Levels
<1>5. Passed(card, phase, request, tries, at, count, d0)
  BY ONLY <1>1, <1>2 DEF Byteway
<1>6. QED
  BY <1>1, <1>4, <1>5 DEF Running, CardRuns, CardOk

\* The same card, at a byte to be read.
LEMMA InStepAtReading ==
  ASSUME Running, DriverOk', card' = card, lines'.clk = 0, bits' = 8, d0' = 0,
         at' \in BytePlaces \ {"dummy", "send"}, request' = request,
         OnLine(card, phase', request, tries', at', count', 8),
         at' = "data" => Filled(request', buffer', count'),
         at' = "trailer" => Filled(request', buffer', 0)
  PROVE  InStep'
<1>1. PICK c, p, s, t, place, n :
        c = card /\ p = phase' /\ s = request /\ t = tries' /\ place = at' /\ n = count'
  OBVIOUS
<1>2. Amid(p, s, place, n)
  <2>1. phase' \in Phases \ {"none"} /\ count' \in 1 .. Tries(at')
    BY DEF DriverOk, Course, Registers, BytePlaces
  <2>2. request \in Nat
    BY Typed DEF Running
  <2>3. QED
    BY <1>1, <2>1, <2>2 DEF Amid
<1>3. c \in Cards /\ place # "send" /\ OnLine(c, p, s, t, place, n, 8)
  BY <1>1 DEF Running, CardRuns, CardOk
<1>4. Byteway(c, p, s, t, place, n, 8, 0, 0)
  BY ONLY <1>2, <1>3, Reading
<1>5. Byteway(card', phase', request', tries', at', count', bits', lines'.clk, d0')
  BY <1>1, <1>4
<1>6. QED
  BY <1>5, InStepAtByte

LEMMA InStepAtSending ==
  ASSUME Running, DriverOk', card' = card, lines'.clk = 0, bits' = 8, at' = "send",
         UNCHANGED <<phase, request, tries>>, count' \in 1 .. 6, d0' = Frame(phase, request)[count'],
         OnLine(card, phase, request, tries, "send", count', 8)
  PROVE  InStep'
<1>1. PICK c, p, s, t, n : c = card /\ p = phase /\ s = request /\ t = tries /\ n = count'
  OBVIOUS
<1>2. p \in Phases \ {"none"} /\ s \in Nat
  <2>1. phase' \in Phases \ {"none"}
    BY DEF DriverOk, Course
  <2>2. request \in Nat
    BY Typed DEF Running
  <2>3. QED
    BY <1>1, <2>1, <2>2
<1>3. n \in 1 .. 6 /\ OnLine(c, p, s, t, "send", n, 8)
  BY <1>1
<1>4. Byteway(c, p, s, t, "send", n, 8, 0, Frame(p, s)[n])
  BY ONLY <1>2, <1>3, Sending
<1>5. Byteway(card', phase', request', tries', at', count', bits', lines'.clk, d0')
  BY <1>1, <1>4
<1>6. at' \in BytePlaces \ {"dummy"}
  BY DEF BytePlaces
<1>7. QED
  BY <1>5, <1>6, InStepAtByte

LEMMA StartInitInStep ==
  ASSUME Running, StartInit
  PROVE  InStep'
<1>1. DriverOk' /\ lines'.clk = 0 /\ lines.clk = 0 /\ card' = card
  BY StartInitTypes DEF Running
<1>2. call = "boot" /\ call' = "MMCInit" /\ at' = "dummy" /\ bits' = 8 /\ count' = DummyBytes
  BY DEF StartInit, Receive
<1>3. Restorable(card) /\ CardOk(card)
  BY <1>2 DEF Running, CardRuns, InStep
<1>4. ClocksLeft' = 8 * DummyBytes
  BY <1>1, <1>2, Sizes DEF ClocksLeft
<1>5. Wakes(card, 8 * DummyBytes)
  <2>1. PICK left \in Int : left = 8 * DummyBytes /\ left >= PowerUpClocks /\ left >= 8
    BY Sizes
  <2>2. CASE card.state = "WAIT_CLOCKS"
    <3>1. card.clocks \in Clocks
      BY <1>3 DEF CardOk, Cards
    <3>2. PowerUpClocks - card.clocks <= left
      BY ONLY <2>1, <3>1, Sizes DEF Clocks
    <3>3. QED
      BY ONLY <2>1, <2>2, <3>2 DEF Wakes
  <2>3. CASE card.state = "WAIT_BYTE" /\ Stage(card, "cmd0")
    BY <2>1, <2>3 DEF Wakes
  <2>4. CASE /\ card.state = "WRITE_BYTE" /\ card.nextState = "AFTER_COMMAND_RESPONSE"
             /\ card.initialised
    <3>1. card.clocks \in 0 .. 7
      BY <1>3, <2>4 DEF CardOk
    <3>2. card.clocks + 1 <= left
      BY <2>1, <3>1
    <3>3. QED
      BY ONLY <2>1, <2>4, <3>2 DEF Wakes
  <2>5. QED
    BY <1>3, <2>2, <2>3, <2>4 DEF Restorable
<1>6. QED
  BY <1>1, <1>2, <1>4, <1>5 DEF InStep, BytePlaces

LEMMA DummyInStep ==
  ASSUME Running, Dummy
  PROVE  InStep'
<1>1. DriverOk'
  BY DummyTypes DEF Running
<1>2. at = "dummy" /\ bits = 0 /\ card' = card /\ lines' = lines /\ UNCHANGED <<call, tries>>
  BY DEF Dummy, ByteDone, Hold
<1>3. count \in 1 .. Tries("dummy") /\ lines.clk = 0 /\ tries = Cmd0Tries
  BY <1>2, Typed DEF Running, Levels, Attempts, BytePlaces
<1>4. count \in Nat /\ count >= 1
  BY <1>3, TriesFit DEF BytePlaces
<1>5. Wakes(card, 8 * (count - 1)) /\ CardOk(card) /\ card.lastClock = 0
  <2>1. ClocksLeft = 8 * (count - 1)
    BY <1>2, <1>3, <1>4 DEF ClocksLeft
  <2>2. QED
    BY <1>2, <1>3, <2>1 DEF Running, CardRuns, InStep
<1>6. CASE count > 1
  <2>1. at' = "dummy" /\ bits' = 8 /\ count' = count - 1
    BY <1>2, <1>6 DEF Dummy, Again, Receive
  <2>2. ClocksLeft' = 8 * (count - 1)
    BY <1>2, <1>3, <1>4, <2>1 DEF ClocksLeft
  <2>3. call' \notin {"boot", "idle"}
    BY <1>1, <2>1 DEF DriverOk, Course
  <2>4. QED
    BY <1>2, <1>5, <2>1, <2>2, <2>3 DEF InStep
<1>7. CASE ~(count > 1)
  <2>1. at' = "select" /\ phase' = "cmd0"
    BY <1>7 DEF Dummy, SendCommand
  <2>2. 8 * (count - 1) = 0
    BY <1>4, <1>7
  <2>3. card.state # "AFTER_COMMAND_RESPONSE" /\ card.clocks \in Clocks
    BY <1>5 DEF CardOk, Cards, Handlers
  <2>4. ~(card.state = "WAIT_CLOCKS" /\ PowerUpClocks - card.clocks <= 0)
    BY ONLY <1>5, <2>3, Sizes DEF CardOk, Clocks
  <2>5. ~(card.clocks + 1 <= 0) /\ ~(0 > 0) /\ card.lastClock # 1
    BY ONLY <1>5, <2>3, Sizes DEF Clocks
  <2>6. Rests(card) /\ Stage(card, "cmd0")
    <3>1. Wakes(card, 0)
      BY ONLY <1>5, <2>2
    <3>2. QED
      BY ONLY <2>3, <2>4, <2>5, <3>1, Zenon DEF Wakes
  <2>7. Stale("cmd0", tries')
    BY <1>2, <1>3, Sizes DEF Stale
  <2>8. QED
    BY <1>1, <1>2, <2>1, <2>6, <2>7, InStepAtSelect
<1>8. QED
  BY <1>6, <1>7

LEMMA SelectInStep ==
  ASSUME Running, Select
  PROVE  InStep'
<1>1. DriverOk'
  BY SelectTypes DEF Running
<1>2. /\ at = "select" /\ Write([lines EXCEPT !.cs = 1]) /\ at' = "busy" /\ bits' = 8 /\ d0' = 0
      /\ UNCHANGED <<phase, tries, request>>
  BY DEF Select, Receive
<1>3. lines.clk = 0 /\ lines \in Lines
  BY <1>2, Typed DEF Running, Levels, Registers, BytePlaces
<1>4. card' = card /\ lines'.clk = 0
  <2>1. PICK l \in Lines : l = [lines EXCEPT !.cs = 1] /\ l.clk = 0
    BY ONLY <1>3, 1 \in {0, 1}, SelectedLines
  <2>2. card.lastClock = 0
    BY <1>3 DEF Running, CardRuns
  <2>3. card' = Clocked(card, l) /\ lines' = l
    BY <1>2, <2>1 DEF Write
  <2>4. QED
    BY <2>1, <2>2, <2>3 DEF Clocked
<1>5. Rests(card) /\ Stage(card, phase) /\ (Stale(phase, tries) \/ Clean(card))
  BY <1>2 DEF Running, InStep
<1>6. Holds(card, phase, request, tries, 0)
  <2>1. card.commandPtr = 0
    BY <1>5 DEF Rests
  <2>2. Clean(card) => \A j \in 1 .. 8 : card.command[j] = 0
    BY NoCommandIs DEF Clean
  <2>3. 8 - 0 = 8 /\ \A i \in 1 .. 0 : FALSE
    OBVIOUS
  <2>4. QED
    BY ONLY <1>5, <2>1, <2>2, <2>3 DEF Holds
<1>7. OnLine(card, phase, request, tries, "busy", count', 8)
  BY <1>5, <1>6 DEF OnLine, About, Speaks, Sends, Rests
<1>8. "busy" \in BytePlaces \ {"dummy", "send"}
  BY DEF BytePlaces
<1>9. QED
  BY <1>1, <1>2, <1>4, <1>7, <1>8, InStepAtReading

LEMMA BusyInStep ==
  ASSUME Running, Busy
  PROVE  InStep'
<1>1. DriverOk'
  BY BusyTypes DEF Running
<1>2. at = "busy" /\ bits = 0 /\ card' = card /\ lines' = lines /\ UNCHANGED <<phase, tries, request>>
  BY DEF Busy, ByteDone, Hold
<1>3. "busy" \in BytePlaces \ {"dummy"}
  BY DEF BytePlaces
<1>4. Passed(card, phase, request, tries, "busy", count, d0) /\ lines.clk = 0
  BY <1>2, <1>3, BytePassed
<1>5. d0 = 255 /\ OnLine(card, phase, request, tries, "send", 1, 8)
  BY ONLY <1>4 DEF Passed
<1>6. at' = "send" /\ bits' = 8 /\ d0' = Frame(phase, request)[1] /\ count' = 1
  BY <1>5 DEF Busy, Send
<1>7. QED
  BY <1>1, <1>2, <1>4, <1>5, <1>6, InStepAtSending

LEMMA SentInStep ==
  ASSUME Running, Sent
  PROVE  InStep'
<1>1. DriverOk'
  BY SentTypes DEF Running
<1>2. at = "send" /\ bits = 0 /\ card' = card /\ lines' = lines /\ UNCHANGED <<phase, tries, request>>
  BY DEF Sent, ByteDone, Hold
<1>3. "send" \in BytePlaces \ {"dummy"} /\ "answer" \in BytePlaces \ {"dummy", "send"}
  BY DEF BytePlaces
<1>4. Passed(card, phase, request, tries, "send", count, d0) /\ lines.clk = 0 /\ count \in 1 .. 6
  BY <1>2, <1>3, BytePassed, TriesAre DEF Amid
<1>5. CASE count < 6
  <2>1. OnLine(card, phase, request, tries, "send", count + 1, 8)
    BY ONLY <1>4, <1>5 DEF Passed
  <2>2. at' = "send" /\ bits' = 8 /\ d0' = Frame(phase, request)[count + 1] /\ count' = count + 1
    BY <1>5 DEF Sent, Send
  <2>3. count' \in 1 .. 6
    BY <1>4, <1>5, <2>2
  <2>4. QED
    BY <1>1, <1>2, <1>4, <2>1, <2>2, <2>3, InStepAtSending
<1>6. CASE ~(count < 6)
  <2>1. OnLine(card, phase, request, tries, "answer", 1, 8)
    BY ONLY <1>4, <1>6 DEF Passed
  <2>2. at' = "answer" /\ bits' = 8 /\ d0' = 0
    BY <1>6 DEF Sent, Receive
  <2>3. OnLine(card, phase, request, tries, "answer", count', 8)
    BY ONLY <2>1 DEF OnLine, About, Speaks, Says, Behind
  <2>4. QED
    BY <1>1, <1>2, <1>3, <1>4, <2>2, <2>3, InStepAtReading
<1>7. QED
  BY <1>5, <1>6

LEMMA AnswerInStep ==
  ASSUME Running, Answer
  PROVE  InStep'
<1>1. DriverOk'
  BY AnswerTypes DEF Running
<1>2. /\ at = "answer" /\ bits = 0 /\ card' = card
      /\ UNCHANGED <<call, phase, tries, request, buffer>>
  BY DEF Answer, ByteDone, Hold
<1>3. "answer" \in BytePlaces \ {"dummy"}
  BY DEF BytePlaces
<1>4. Passed(card, phase, request, tries, "answer", count, d0) /\ phase \in Phases \ {"none"}
  BY <1>2, <1>3, BytePassed DEF Amid
<1>5. Returned(card, phase, request, tries, d0)
  BY ONLY <1>4 DEF Passed
<1>6. d0 \in {0, 4}
  BY ONLY <1>4, <1>5 DEF Returned, Phases
<1>7. at' = "return" /\ UNCHANGED d0
  BY <1>6 DEF Answer
<1>8. call' \notin {"boot", "idle"}
  BY <1>1, <1>7 DEF DriverOk, Course
<1>9. QED
  BY <1>2, <1>5, <1>7, <1>8 DEF InStep, BytePlaces

\* What the return of a command knows.
LEMMA AtReturn ==
  ASSUME Running, at = "return"
  PROVE  /\ Returned(card, phase, request, tries, d0) /\ bits = 0 /\ lines.clk = 0
         /\ ready \in BOOLEAN /\ (call \in {"MMCReadSector", "MMCWriteSector"} => ready)
         /\ phase = "cmd17" => call = "MMCReadSector"
         /\ phase = "cmd24" => call = "MMCWriteSector"
<1>1. Registers(at, bits, d0, count) /\ Levels(at, bits, lines) /\ Course(call, phase, at)
      /\ Results(call, ready, status)
  BY Typed DEF Running
<1>2. bits = 0
  BY <1>1 DEF Registers, BytePlaces
<1>3. QED
  BY <1>1, <1>2 DEF Running, InStep, Levels, Course, Results

LEMMA Cmd0InStep ==
  ASSUME Running, Cmd0Returns
  PROVE  InStep'
<1>1. DriverOk' /\ phase = "cmd0" /\ at = "return"
  BY Cmd0Types DEF Running, Cmd0Returns
<1>2. (d0 = 0 /\ RestsExpecting(card, 1)) \/ (d0 = 4 /\ tries > 1 /\ RestsExpecting(card, 0))
  BY <1>1, AtReturn DEF Returned
<1>3. CASE d0 = 0 /\ RestsExpecting(card, 1)
  <2>1. SendCommand("cmd8") /\ card' = card
    BY <1>3 DEF Cmd0Returns, Proceed, Hold
  <2>2. at' = "select" /\ phase' = "cmd8"
    BY <2>1 DEF SendCommand
  <2>3. Rests(card) /\ Stage(card, "cmd8") /\ Clean(card)
    BY <1>3 DEF RestsExpecting, Stage
  <2>4. QED
    BY <1>1, <2>1, <2>2, <2>3, InStepAtSelect
<1>4. CASE d0 = 4 /\ tries > 1 /\ RestsExpecting(card, 0)
  <2>1. SendCommand("cmd0") /\ card' = card
    BY <1>4 DEF Cmd0Returns, MayRetry, Proceed, Hold
  <2>2. at' = "select" /\ phase' = "cmd0"
    BY <2>1 DEF SendCommand
  <2>3. Rests(card) /\ Stage(card, "cmd0") /\ Clean(card)
    BY <1>4 DEF RestsExpecting, Stage
  <2>4. QED
    BY <1>1, <2>1, <2>2, <2>3, InStepAtSelect
<1>5. QED
  BY <1>2, <1>3, <1>4

LEMMA Cmd8InStep ==
  ASSUME Running, Cmd8Returns
  PROVE  InStep'
<1>1. DriverOk' /\ phase = "cmd8" /\ at = "return"
  BY Cmd8Types DEF Running, Cmd8Returns
<1>2. d0 = 0 /\ OnLine(card, phase, request, tries, "r7", 4, 8) /\ lines.clk = 0
  BY <1>1, AtReturn DEF Returned
<1>3. /\ at' = "r7" /\ bits' = 8 /\ d0' = 0 /\ count' = 4 /\ card' = card /\ lines' = lines
      /\ UNCHANGED <<phase, tries, request>>
  BY <1>2 DEF Cmd8Returns, Receive, Proceed, Hold
<1>4. "r7" \in BytePlaces \ {"dummy", "send"}
  BY DEF BytePlaces
<1>5. QED
  BY <1>1, <1>2, <1>3, <1>4, InStepAtReading

LEMMA R7InStep ==
  ASSUME Running, R7
  PROVE  InStep'
<1>1. DriverOk'
  BY R7Types DEF Running
<1>2. at = "r7" /\ bits = 0 /\ card' = card /\ lines' = lines /\ UNCHANGED request
  BY DEF R7, ByteDone, Proceed, Hold
<1>3. "r7" \in BytePlaces \ {"dummy", "send"}
  BY DEF BytePlaces
<1>4. Passed(card, phase, request, tries, "r7", count, d0) /\ lines.clk = 0
  BY <1>2, <1>3, BytePassed
<1>5. IF count > 1 THEN OnLine(card, phase, request, tries, "r7", count - 1, 8)
      ELSE RestsExpecting(card, 2)
  BY ONLY <1>4 DEF Passed
<1>6. CASE Again /\ UNCHANGED <<phase, tries>>
  <2>1. at' = "r7" /\ bits' = 8 /\ d0' = 0 /\ count' = count - 1 /\ count > 1
    BY <1>2, <1>6 DEF Again, Receive
  <2>2. OnLine(card, phase', request, tries', "r7", count', 8)
    BY <1>5, <1>6, <2>1
  <2>3. QED
    BY <1>1, <1>2, <1>3, <1>4, <2>1, <2>2, InStepAtReading
<1>7. CASE count = 1 /\ SendCommand("cmd55")
  <2>1. at' = "select" /\ phase' = "cmd55"
    BY <1>7 DEF SendCommand
  <2>2. RestsExpecting(card, 2)
    BY <1>5, <1>7
  <2>3. Rests(card) /\ Stage(card, "cmd55") /\ Clean(card)
    BY <2>2 DEF RestsExpecting, Stage
  <2>4. QED
    BY <1>1, <1>2, <2>1, <2>3, InStepAtSelect
<1>8. QED
  BY <1>6, <1>7 DEF R7

LEMMA Cmd55InStep ==
  ASSUME Running, Cmd55Returns
  PROVE  InStep'
<1>1. DriverOk' /\ phase = "cmd55" /\ at = "return"
  BY Cmd55Types DEF Running, Cmd55Returns
<1>2. d0 = 0 /\ RestsExpecting(card, 3)
  BY <1>1, AtReturn DEF Returned
<1>3. SendCommand("acmd41") /\ card' = card
  BY <1>2 DEF Cmd55Returns, Proceed, Hold
<1>4. at' = "select" /\ phase' = "acmd41"
  BY <1>3 DEF SendCommand
<1>5. Rests(card) /\ Stage(card, "acmd41") /\ Clean(card)
  BY <1>2 DEF RestsExpecting, Stage
<1>6. QED
  BY <1>1, <1>3, <1>4, <1>5, InStepAtSelect

LEMMA Acmd41InStep ==
  ASSUME Running, Acmd41Returns
  PROVE  InStep' /\ EndInit("ok")
<1>1. phase = "acmd41" /\ at = "return" /\ bits = 0
  BY AtReturn DEF Acmd41Returns
<1>2. d0 = 0 /\ RestsInitialised(card)
  BY <1>1, AtReturn DEF Returned
<1>3. d0 % 256 = 0
  BY <1>2
<1>4. EndInit("ok")
  BY <1>3 DEF Acmd41Returns
<1>5. card' = card
  BY ONLY <1>1, <1>4, Running, EndInitTypes DEF Running
<1>6. at' = "none" /\ call' = "idle" /\ ready'
  BY <1>4 DEF EndInit, Finish
<1>7. RestsInitialised(card')
  BY <1>2, <1>5
<1>8. QED
  BY ONLY <1>4, <1>6, <1>7, InStepAtIdle

LEMMA StartCallInStep ==
  ASSUME Running, NEW routine, NEW command, StartCall(routine, command),
         \/ routine = "MMCReadSector" /\ command = "cmd17"
         \/ routine = "MMCWriteSector" /\ command = "cmd24"
  PROVE  InStep'
<1>1. DriverOk'
  BY ONLY Running, StartCall(routine, command), StartCallTypes,
          \/ routine = "MMCReadSector" /\ command = "cmd17"
          \/ routine = "MMCWriteSector" /\ command = "cmd24" DEF Running
<1>2. call = "idle" /\ card' = card /\ at' = "select" /\ phase' = command
  BY DEF StartCall, SendCommand, Hold
<1>3. RestsInitialised(card)
  BY <1>2 DEF Running, InStep
<1>4. Rests(card) /\ Stage(card, command) /\ Clean(card)
  BY <1>3 DEF RestsInitialised, Stage
<1>5. QED
  BY <1>1, <1>2, <1>4, InStepAtSelect

LEMMA Cmd17InStep ==
  ASSUME Running, Cmd17Returns
  PROVE  InStep' /\ at' = "token"
<1>1. DriverOk' /\ phase = "cmd17" /\ at = "return"
  BY Cmd17Types DEF Running, Cmd17Returns
<1>2. d0 = 0 /\ OnLine(card, phase, request, tries, "token", 1, 8) /\ lines.clk = 0
  BY <1>1, AtReturn DEF Returned
<1>3. /\ at' = "token" /\ bits' = 8 /\ d0' = 0 /\ card' = card /\ lines' = lines
      /\ UNCHANGED <<phase, tries, request>>
  BY <1>2 DEF Cmd17Returns, Receive, ProceedReading, Hold
<1>4. OnLine(card, phase, request, tries, "token", count', 8)
  BY ONLY <1>2 DEF OnLine, About, Speaks, Says, Behind
<1>5. "token" \in BytePlaces \ {"dummy", "send"}
  BY DEF BytePlaces
<1>6. QED
  BY <1>1, <1>2, <1>3, <1>4, <1>5, InStepAtReading

LEMMA TokenInStep ==
  ASSUME Running, Token
  PROVE  InStep' /\ at' = "data"
<1>1. DriverOk'
  BY TokenTypes DEF Running
<1>2. at = "token" /\ bits = 0
  BY DEF Token, ByteDone
<1>3. "token" \in BytePlaces \ {"dummy"} /\ "data" \in BytePlaces \ {"dummy", "send"}
  BY DEF BytePlaces
<1>4. Passed(card, phase, request, tries, "token", count, d0) /\ lines.clk = 0
  BY <1>2, <1>3, BytePassed
<1>5. d0 = 254 /\ OnLine(card, phase, request, tries, "data", SectorSize, 8)
  BY ONLY <1>4 DEF Passed
<1>6. /\ at' = "data" /\ bits' = 8 /\ d0' = 0 /\ count' = SectorSize /\ card' = card /\ lines' = lines
      /\ UNCHANGED <<phase, tries, request, buffer>>
  BY <1>5 DEF Token, Receive, ProceedReading, Hold
<1>7. Filled(request', buffer', count')
  <2>1. 0 .. SectorSize - SectorSize - 1 = {}
    BY Sizes
  <2>2. QED
    BY <1>6, <2>1 DEF Filled
<1>8. QED
  BY <1>1, <1>3, <1>4, <1>5, <1>6, <1>7, InStepAtReading

LEMMA DataInStep ==
  ASSUME Running, Data
  PROVE  InStep'
<1>1. /\ DriverOk' /\ buffer \in SectorData /\ SectorSize - count \in 0 .. SectorSize - 1
  BY DataTypes DEF Running
<1>2. at = "data" /\ bits = 0
  BY DEF Data, ByteDone
<1>3. "data" \in BytePlaces \ {"dummy", "send"} /\ "trailer" \in BytePlaces \ {"dummy", "send"}
  BY DEF BytePlaces
<1>4. /\ Passed(card, phase, request, tries, "data", count, d0) /\ lines.clk = 0
      /\ Filled(request, buffer, count) /\ count \in 1 .. SectorSize
  BY <1>2, <1>3, BytePassed, AtByte, TriesAre DEF Amid
<1>5. /\ request < Capacity => d0 = Disk[request][SectorSize - count]
      /\ IF count > 1 THEN OnLine(card, phase, request, tries, "data", count - 1, 8)
         ELSE OnLine(card, phase, request, tries, "trailer", 3, 8)
  BY ONLY <1>4 DEF Passed
<1>6. /\ buffer' = [buffer EXCEPT ![SectorSize - count] = d0] /\ card' = card /\ lines' = lines
      /\ UNCHANGED <<phase, tries, request>>
  BY DEF Data, ProceedReading, Hold
<1>7. Filled(request, buffer', count - 1)
  <2>1. PICK k \in 0 .. SectorSize - 1, b \in SectorData : k = SectorSize - count /\ b = buffer
    BY <1>1
  <2>2. buffer' = [b EXCEPT ![k] = d0]
    BY <1>6, <2>1
  <2>3. b[k] = b[k] /\ buffer'[k] = d0 /\ \A i \in 0 .. SectorSize - 1 : i # k => buffer'[i] = b[i]
    BY ONLY <2>2, k \in 0 .. SectorSize - 1, b \in SectorData DEF SectorData
  <2>4. ASSUME request < Capacity, NEW i \in 0 .. SectorSize - (count - 1) - 1
        PROVE  buffer'[i] = Disk[request][i]
    <3>1. i \in 0 .. SectorSize - 1 /\ (i # k => i \in 0 .. SectorSize - count - 1)
      BY <1>4, <2>1, Sizes
    <3>2. CASE i = k
      BY ONLY <1>5, <2>1, <2>3, <2>4, <3>2
    <3>3. CASE i # k
      <4>1. b[i] = Disk[request][i]
        BY ONLY <1>4, <2>1, <2>4, <3>1, <3>3 DEF Filled
      <4>2. QED
        BY ONLY <2>3, <3>1, <3>3, <4>1
    <3>4. QED
      BY <3>2, <3>3
  <2>5. QED
    BY ONLY <2>4 DEF Filled
<1>8. CASE count > 1
  <2>1. at' = "data" /\ bits' = 8 /\ d0' = 0 /\ count' = count - 1
    BY <1>2, <1>8 DEF Data, Again, Receive
  <2>2. OnLine(card, phase, request, tries, "data", count', 8)
    BY <1>5, <1>8, <2>1
  <2>3. Filled(request', buffer', count')
    BY <1>6, <1>7, <2>1
  <2>4. QED
    BY <1>1, <1>3, <1>4, <1>6, <2>1, <2>2, <2>3, InStepAtReading
<1>9. CASE ~(count > 1)
  <2>1. at' = "trailer" /\ bits' = 8 /\ d0' = 0 /\ count' = 3
    BY <1>9 DEF Data, Receive, Trailing
  <2>2. OnLine(card, phase, request, tries, "trailer", count', 8)
    BY <1>5, <1>9, <2>1
  <2>3. count - 1 = 0
    BY <1>4, <1>9
  <2>4. Filled(request', buffer', 0)
    BY <1>6, <1>7, <2>3
  <2>5. QED
    BY <1>1, <1>3, <1>4, <1>6, <2>1, <2>2, <2>4, InStepAtReading
<1>10. QED
  BY <1>8, <1>9

LEMMA TrailerInStep ==
  ASSUME Running, Trailer
  PROVE  InStep' /\ (at' # "trailer" => EndCall("ok") /\ Filled(request, buffer, 0) /\ call = "MMCReadSector")
<1>1. DriverOk'
  BY TrailerTypes DEF Running
<1>2. at = "trailer" /\ bits = 0
  BY DEF Trailer, ByteDone
<1>3. "trailer" \in BytePlaces \ {"dummy", "send"}
  BY DEF BytePlaces
<1>4. /\ Passed(card, phase, request, tries, "trailer", count, d0) /\ lines.clk = 0
      /\ Filled(request, buffer, 0)
  BY <1>2, <1>3, BytePassed, AtByte
<1>5. IF count > 1 THEN OnLine(card, phase, request, tries, "trailer", count - 1, 8)
      ELSE RestsInitialised(card)
  BY ONLY <1>4 DEF Passed
<1>6. CASE Again /\ UNCHANGED buffer /\ ProceedReading
  <2>1. /\ at' = "trailer" /\ bits' = 8 /\ d0' = 0 /\ count' = count - 1 /\ count > 1
        /\ card' = card /\ lines' = lines /\ UNCHANGED <<phase, tries, request, buffer>>
    BY <1>2, <1>6 DEF Again, Receive, ProceedReading, Hold
  <2>2. OnLine(card, phase, request, tries, "trailer", count', 8)
    BY <1>5, <2>1
  <2>3. Filled(request', buffer', 0)
    BY <1>4, <2>1
  <2>4. QED
    BY <1>1, <1>3, <1>4, <2>1, <2>2, <2>3, InStepAtReading
<1>7. CASE count = 1 /\ EndCall("ok")
  <2>1. RestsInitialised(card)
    BY <1>5, <1>7
  <2>2. card' = card
    BY ONLY <1>2, <1>7, Running, EndCallTypes DEF Running
  <2>3. call = "MMCReadSector" /\ ready
    BY <1>2, Typed DEF Running, Course, Results
  <2>4. at' = "none" /\ call' = "idle" /\ ready'
    BY <1>7, <2>3 DEF EndCall, Finish
  <2>5. QED
    BY <1>4, <1>7, <2>1, <2>2, <2>3, <2>4, InStepAtIdle
<1>8. QED
  BY <1>6, <1>7 DEF Trailer

LEMMA Cmd24InStep ==
  ASSUME Running, Cmd24Returns
  PROVE  InStep' /\ EndCall("error") /\ call = "MMCWriteSector"
<1>1. phase = "cmd24" /\ at = "return"
  BY DEF Cmd24Returns
<1>2. d0 = 4 /\ RestsInitialised(card) /\ bits = 0 /\ call = "MMCWriteSector" /\ ready
  BY <1>1, AtReturn DEF Returned
<1>3. EndCall("error")
  BY <1>2 DEF Cmd24Returns
<1>4. card' = card
  BY ONLY <1>2, <1>3, Running, EndCallTypes DEF Running
<1>5. at' = "none" /\ call' = "idle" /\ ready'
  BY <1>2, <1>3 DEF EndCall, Finish
<1>6. QED
  BY <1>2, <1>3, <1>4, <1>5, InStepAtIdle

\* A reset that does not spoil the card leaves it restorable.
LEMMA ResetInStep ==
  ASSUME DriverOk, CardRuns, card.cardInserted, Reset, ~spoilt', card'.cardInserted
  PROVE  InStep'
<1>1. CardRuns' /\ lines'.clk = 0
  BY ResetTypes
<1>2. call' = "boot" /\ at' = "none" /\ ~Streaming(card') /\ ~HalfInitialised(card')
  BY DEF Reset
<1>3. PICK d : d = card'
  OBVIOUS
<1>4. CardOk(d) /\ d.lastClock = 0 /\ ~Streaming(d) /\ ~HalfInitialised(d)
  BY <1>1, <1>2, <1>3 DEF CardRuns
<1>5. d.state \in {"WAIT_CLOCKS", "WAIT_BYTE", "WRITE_BYTE"} /\ d.expectedCommand \in 0 .. 3
  BY ONLY <1>4 DEF CardOk, Cards, States, Handlers
<1>6. ASSUME d.state = "WAIT_BYTE"
      PROVE  Restorable(d)
  <2>1. d.initialised \/ d.expectedCommand = 0
    BY <1>4, <1>5 DEF HalfInitialised
  <2>2. Stage(d, "cmd0")
    BY <2>1 DEF Stage, Expects
  <2>3. QED
    BY ONLY <1>6, <2>2 DEF Restorable
<1>7. ASSUME d.state = "WRITE_BYTE"
      PROVE  Restorable(d)
  <2>1. d.nextState = "AFTER_COMMAND_RESPONSE"
    BY ONLY <1>4, <1>7 DEF CardOk, Handlers, Streaming
  <2>2. d.initialised
    BY <1>4, <2>1 DEF HalfInitialised
  <2>3. QED
    BY ONLY <1>7, <2>1, <2>2 DEF Restorable
<1>8. d.state = "WAIT_CLOCKS" => Restorable(d)
  BY DEF Restorable
<1>9. Restorable(d)
  BY ONLY <1>5, <1>6, <1>7, <1>8
<1>10. QED
  BY <1>2, <1>3, <1>9 DEF InStep, BytePlaces

\* The card stays inserted, or absent.
LEMMA InsertedStays ==
  ASSUME DriverOk, CardRuns, [Next]_vars
  PROVE  card'.cardInserted = card.cardInserted
<1>1. DriverOk'
  BY NextTypes
<1>2. PICK c, d, l : c = card /\ d = card' /\ l = lines'
  OBVIOUS
<1>3. CardOk(c) /\ l \in Lines
  <2>1. lines' \in Lines
    BY <1>1 DEF DriverOk, Levels
  <2>2. QED
    BY <1>2, <2>1 DEF CardRuns
<1>4. d = Clocked(c, l) \/ d = c
  <2>1. CASE Raise \/ Lower \/ Select
    BY <1>2, <2>1 DEF Raise, Lower, Select, Write
  <2>2. CASE Busy \/ Sent \/ Answer \/ Dummy
    BY <1>2, <2>2 DEF Busy, Sent, Answer, Dummy, Hold
  <2>3. CASE StartInit \/ Reset
    BY <1>2, <2>3 DEF StartInit, Reset, Write
  <2>4. CASE Cmd0Returns \/ Cmd8Returns \/ R7 \/ Cmd55Returns \/ Acmd41Returns
    BY <1>2, <2>4 DEF Cmd0Returns, Cmd8Returns, R7, Cmd55Returns, Acmd41Returns, Proceed, Hold, EndInit,
                      Finish, Write
  <2>5. CASE Cmd17Returns \/ Token \/ Data \/ Trailer \/ Cmd24Returns
    BY <1>2, <2>5 DEF Cmd17Returns, Token, Data, Trailer, Cmd24Returns, ProceedReading, Hold, EndCall,
                      Finish, Write
  <2>6. CASE MMCReadSector \/ MMCWriteSector
    BY <1>2, <2>6 DEF MMCReadSector, MMCWriteSector, StartCall, Hold
  <2>7. CASE UNCHANGED vars
    BY <1>2, <2>7 DEF vars
  <2>8. QED
    BY <2>1, <2>2, <2>3, <2>4, <2>5, <2>6, <2>7 DEF Next, Driver, NoDevice
<1>5. d = Clocked(c, l) => d.cardInserted = c.cardInserted
  BY ONLY <1>3, ClockedOk
<1>6. QED
  BY <1>2, <1>4, <1>5

LEMMA InStepNext ==
  ASSUME Running, ~spoilt, [Next]_vars, ~spoilt'
  PROVE  InStep'
<1>1. CASE Raise
  BY <1>1, RaiseInStep
<1>2. CASE Lower
  BY <1>2, LowerInStep
<1>3. CASE Select
  BY <1>3, SelectInStep
<1>4. CASE Busy
  BY <1>4, BusyInStep
<1>5. CASE Sent
  BY <1>5, SentInStep
<1>6. CASE Answer
  BY <1>6, AnswerInStep
<1>7. CASE StartInit
  BY <1>7, StartInitInStep
<1>8. CASE Dummy
  BY <1>8, DummyInStep
<1>9. CASE Cmd0Returns
  BY <1>9, Cmd0InStep
<1>10. CASE Cmd8Returns
  BY <1>10, Cmd8InStep
<1>11. CASE R7
  BY <1>11, R7InStep
<1>12. CASE Cmd55Returns
  BY <1>12, Cmd55InStep
<1>13. CASE Acmd41Returns
  BY <1>13, Acmd41InStep
<1>14. CASE Cmd17Returns
  BY <1>14, Cmd17InStep
<1>15. CASE Token
  BY <1>15, TokenInStep
<1>16. CASE Data
  BY <1>16, DataInStep
<1>17. CASE Trailer
  BY <1>17, TrailerInStep
<1>18. CASE Cmd24Returns
  BY <1>18, Cmd24InStep
<1>19. CASE MMCReadSector \/ MMCWriteSector
  BY <1>19, StartCallInStep DEF MMCReadSector, MMCWriteSector
<1>20. CASE Reset
  <2>1. DriverOk /\ CardRuns /\ card.cardInserted /\ card'.cardInserted
    BY <1>20, InsertedStays DEF Running, Next
  <2>2. QED
    BY <1>20, <2>1, ResetInStep
<1>21. CASE UNCHANGED vars
  BY <1>21 DEF vars, registers, Running, InStep, ClocksLeft
<1>22. QED
  BY <1>1, <1>2, <1>3, <1>4, <1>5, <1>6, <1>7, <1>8, <1>9, <1>10, <1>11, <1>12, <1>13, <1>14,
     <1>15, <1>16, <1>17, <1>18, <1>19, <1>20, <1>21 DEF Next, Driver, NoDevice

-----------------------------------------------------------------------------
(***************************************************************************)
(* Without a card.                                                         *)
(***************************************************************************)
\* The lines of a reader that nobody answers.
LEMMA NobodyAnswers ==
  ASSUME NEW b \in 1 .. 8, NEW place, place # "send", NEW x, Carries(x, 255, place, b)
  PROVE  Carries(((x * 2) % 256) + 1, 255, place, b - 1)
<1>1. PICK v \in Byte : v = 255
  BY Members
<1>2. (((v \div Pow[b]) * 2) % 256) + (Low(v, b) \div 128) = v \div Pow[b - 1]
  BY ONLY b \in 1 .. 8, v \in Byte, BitHeard
<1>3. Low(v, b) \div 128 = 1
  BY <1>1, HighLine
<1>4. x = v \div Pow[b]
  BY <1>1 DEF Carries
<1>5. ((x * 2) % 256) + 1 = v \div Pow[b - 1]
  BY ONLY <1>2, <1>3, <1>4
<1>6. QED
  BY <1>1, <1>5 DEF Carries

\* The card that is not there.
LEMMA AbsentCard ==
  ASSUME NEW c, CardOk(c), ~c.cardInserted, c.lastClock = 0, c.state = "WAIT_CLOCKS", NEW l \in Lines,
         NEW d, d = Clocked(c, l)
  PROVE  d.state = "WAIT_CLOCKS" /\ (l.clk = 1 => d.miso = 1) /\ (l.clk = 0 => d = c)
<1>1. CASE l.clk = c.lastClock
  BY <1>1 DEF Clocked
<1>2. CASE l.clk # c.lastClock
  <2>1. d = [c EXCEPT !.miso = 1] /\ c \in Cards
    BY <1>2 DEF Clocked, CardOk
  <2>2. d.state = c.state /\ d.miso = 1
    BY ONLY <2>1 DEF Cards
  <2>3. QED
    BY <1>2, <2>2
<1>3. QED
  BY <1>1, <1>2

Missing == DriverOk /\ CardRuns /\ ~card.cardInserted /\ Absent

LEMMA MissingCard ==
  ASSUME Missing, lines' \in Lines, card' = Clocked(card, lines') \/ card' = card
  PROVE  card'.state = "WAIT_CLOCKS" /\ (lines'.clk = 0 => card' = card)
         /\ (lines'.clk = 1 /\ card' = Clocked(card, lines') => card'.miso = 1)
<1>1. PICK c, d, l : c = card /\ d = card' /\ l = lines'
  OBVIOUS
<1>2. CardOk(c) /\ ~c.cardInserted /\ c.lastClock = 0 /\ c.state = "WAIT_CLOCKS" /\ l \in Lines
  BY <1>1 DEF Missing, CardRuns, Absent
<1>3. d = Clocked(c, l) =>
        d.state = "WAIT_CLOCKS" /\ (l.clk = 1 => d.miso = 1) /\ (l.clk = 0 => d = c)
  BY ONLY <1>2, AbsentCard
<1>4. QED
  BY <1>1, <1>2, <1>3

LEMMA RaiseAbsent ==
  ASSUME Missing, Raise
  PROVE  Absent'
<1>1. /\ DriverOk' /\ at \in BytePlaces /\ d0 \in Byte /\ lines'.clk = 1 /\ lines' \in Lines /\ card' = Clocked(card, lines')
  BY RaiseTypes DEF Missing
<1>2. card'.state = "WAIT_CLOCKS" /\ card'.miso = 1
  BY <1>1, MissingCard
<1>3. /\ bits > 0 /\ lines.clk = 0
      /\ d0' = ((d0 * 2) % 256) + (IF at = "send" THEN 0 ELSE card'.miso)
      /\ UNCHANGED <<call, phase, at, bits, ready, spoilt>>
  BY DEF Raise
<1>4. ASSUME at \in {"busy", "answer"}
      PROVE  Carries(d0', 255, at, bits - 1)
  <2>1. PICK b \in 1 .. 8, x \in Byte, place \in BytePlaces : b = bits /\ x = d0 /\ place = at
    <3>1. bits \in 1 .. 8
      BY <1>3, Typed DEF Missing
    <3>2. QED
      BY <1>1, <3>1
  <2>2. Carries(x, 255, place, b)
    <3>1. bits - lines.clk = b
      BY <1>3, <2>1
    <3>2. QED
      BY <1>4, <2>1, <3>1 DEF Missing, Absent
  <2>3. place # "send"
    BY <1>4, <2>1
  <2>4. Carries(((x * 2) % 256) + 1, 255, place, b - 1)
    BY ONLY b \in 1 .. 8, <2>2, <2>3, NobodyAnswers
  <2>5. d0' = ((x * 2) % 256) + 1
    BY <1>2, <1>3, <2>1, <2>3
  <2>6. QED
    BY <2>1, <2>4, <2>5
<1>5. at # "return"
  BY <1>1 DEF BytePlaces
<1>6. QED
  BY <1>1, <1>2, <1>3, <1>4, <1>5 DEF Missing, Absent

LEMMA LowerAbsent ==
  ASSUME Missing, Lower
  PROVE  Absent'
<1>1. at \in BytePlaces /\ lines'.clk = 0 /\ lines' \in Lines /\ card' = Clocked(card, lines')
      /\ bits \in 1 .. 8
  BY LowerTypes DEF Missing
<1>2. card'.state = "WAIT_CLOCKS"
  BY <1>1, MissingCard
<1>3. lines.clk = 1 /\ bits' = bits - 1 /\ UNCHANGED <<call, phase, at, d0, ready, spoilt>>
  BY DEF Lower
<1>4. bits' - lines'.clk = bits - lines.clk
  BY <1>1, <1>3
<1>5. QED
  BY <1>2, <1>3, <1>4 DEF Missing, Absent

LEMMA SelectAbsent ==
  ASSUME Missing, Select
  PROVE  Absent'
<1>1. /\ Write([lines EXCEPT !.cs = 1]) /\ at' = "busy" /\ bits' = 8 /\ d0' = 0
      /\ UNCHANGED <<call, phase, ready, spoilt>> /\ at = "select"
  BY DEF Select, Receive
<1>2. lines.clk = 0 /\ lines \in Lines
  BY <1>1, Typed DEF Missing, Levels, Registers, BytePlaces
<1>3. PICK l \in Lines : l = [lines EXCEPT !.cs = 1] /\ l.clk = 0
  BY ONLY <1>2, 1 \in {0, 1}, SelectedLines
<1>4. lines' \in Lines /\ lines'.clk = 0 /\ card' = Clocked(card, lines')
  BY <1>1, <1>3 DEF Write
<1>5. card'.state = "WAIT_CLOCKS"
  BY <1>4, MissingCard
<1>6. Carries(0, 255, "busy", 8) /\ bits' - lines'.clk = 8
  BY <1>1, <1>4, Members, FreshByte
<1>7. QED
  BY <1>1, <1>5, <1>6 DEF Missing, Absent

\* A place that reads, with its first bit to come.
LEMMA AbsentReads ==
  ASSUME Missing, Hold, bits = 0, bits' = 8, d0' = 0, at' \in BytePlaces \ {"send"},
         UNCHANGED <<call, ready, spoilt, phase>>
  PROVE  Absent'
<1>1. Levels(at, bits, lines)
  BY Typed DEF Missing
<1>2. card' = card /\ lines' = lines /\ lines.clk = 0
  BY <1>1 DEF Hold, Levels
<1>3. Carries(0, 255, at', 8) /\ bits' - lines'.clk = 8
  BY <1>2, Members, FreshByte
<1>4. at' # "return"
  BY DEF BytePlaces
<1>5. QED
  BY <1>2, <1>3, <1>4 DEF Missing, Absent

\* The last bit of a byte has been read.
LEMMA AbsentPassed ==
  ASSUME Missing, bits = 0, at \in {"busy", "answer"}
  PROVE  d0 = 255
<1>1. Levels(at, bits, lines)
  BY Typed DEF Missing
<1>2. bits - lines.clk = 0
  BY <1>1 DEF Levels
<1>3. Carries(d0, 255, at, 0)
  BY <1>2 DEF Missing, Absent
<1>4. PICK v \in Byte : v = 255
  BY Members
<1>5. QED
  BY <1>3, <1>4, WholeByte DEF Carries

LEMMA ByteAbsent ==
  ASSUME Missing, Busy \/ Sent \/ Answer \/ Dummy
  PROVE  Absent'
<1>1. bits = 0 /\ Hold /\ UNCHANGED <<call, ready, spoilt>> /\ card' = card
  BY DEF Busy, Sent, Answer, Dummy, ByteDone, Hold
<1>2. CASE Busy
  <2>1. at = "busy" /\ UNCHANGED phase
    BY <1>2 DEF Busy, ByteDone
  <2>2. d0 = 255
    BY <1>1, <2>1, AbsentPassed
  <2>3. at' = "send"
    BY <1>2, <2>2 DEF Busy, Send
  <2>4. QED
    BY <1>1, <2>1, <2>3 DEF Missing, Absent
<1>3. CASE Sent
  <2>1. UNCHANGED phase
    BY <1>3 DEF Sent
  <2>2. CASE count < 6
    <3>1. at' = "send"
      BY <1>3, <2>2 DEF Sent, Send
    <3>2. QED
      BY <1>1, <2>1, <3>1 DEF Missing, Absent
  <2>3. CASE ~(count < 6)
    <3>1. at' = "answer" /\ bits' = 8 /\ d0' = 0 /\ "answer" \in BytePlaces
      BY <1>3, <2>3 DEF Sent, Receive, BytePlaces
    <3>2. QED
      BY <1>1, <2>1, <3>1, AbsentReads
  <2>4. QED
    BY <2>2, <2>3
<1>4. CASE Answer
  <2>1. at = "answer" /\ UNCHANGED phase
    BY <1>4 DEF Answer, ByteDone
  <2>2. d0 = 255
    BY <1>1, <2>1, AbsentPassed
  <2>3. Again \/ GiveUp(ResponseTimeout)
    BY <1>4, <2>2 DEF Answer
  <2>4. CASE Again
    <3>1. at' = "answer" /\ bits' = 8 /\ d0' = 0 /\ "answer" \in BytePlaces
      BY <2>1, <2>4 DEF Again, Receive, BytePlaces
    <3>2. QED
      BY <1>1, <2>1, <3>1, AbsentReads
  <2>5. CASE GiveUp(ResponseTimeout)
    <3>1. at' = "return" /\ d0' = ResponseTimeout
      BY <2>5 DEF GiveUp
    <3>2. QED
      BY <1>1, <2>1, <3>1 DEF Missing, Absent
  <2>6. QED
    BY <2>3, <2>4, <2>5
<1>5. CASE Dummy
  <2>1. CASE count > 1
    <3>1. at' = "dummy" /\ phase' = phase
      BY <1>5, <2>1 DEF Dummy, Again, Receive, ByteDone
    <3>2. QED
      BY <1>1, <3>1 DEF Missing, Absent
  <2>2. CASE ~(count > 1)
    <3>1. at' = "select" /\ phase' = "cmd0"
      BY <1>5, <2>2 DEF Dummy, SendCommand
    <3>2. QED
      BY <1>1, <3>1 DEF Missing, Absent
  <2>3. QED
    BY <2>1, <2>2
<1>6. QED
  BY <1>2, <1>3, <1>4, <1>5

LEMMA StartInitAbsent ==
  ASSUME Missing, StartInit
  PROVE  Absent'
<1>1. card' = card
  BY StartInitTypes DEF Missing
<1>2. call' = "MMCInit" /\ phase' = "none" /\ at' = "dummy" /\ UNCHANGED <<ready, spoilt>>
  BY DEF StartInit, Receive
<1>3. QED
  BY <1>1, <1>2 DEF Missing, Absent

LEMMA Cmd0Absent ==
  ASSUME Missing, Cmd0Returns
  PROVE  Absent'
<1>1. d0 = 258 /\ at = "return" /\ bits = 0
  BY Typed DEF Missing, Absent, Cmd0Returns, ResponseTimeout, Registers, BytePlaces
<1>2. CASE SendCommand("cmd0") /\ Proceed
  <2>1. at' = "select" /\ phase' = "cmd0" /\ card' = card /\ UNCHANGED <<call, ready, spoilt>>
    BY <1>2 DEF SendCommand, Proceed, Hold
  <2>2. QED
    BY <2>1 DEF Missing, Absent
<1>3. CASE EndInit("error")
  <2>1. card' = card
    BY ONLY <1>1, <1>3, Missing, EndInitTypes DEF Missing
  <2>2. call' = "idle" /\ phase' = "none" /\ at' = "none" /\ ready' = FALSE /\ spoilt' = spoilt
    BY <1>3 DEF EndInit, Finish
  <2>3. QED
    BY <2>1, <2>2 DEF Missing, Absent
<1>4. QED
  BY <1>1, <1>2, <1>3 DEF Cmd0Returns

LEMMA ResetAbsent ==
  ASSUME Missing, Reset
  PROVE  Absent' /\ card' = card
<1>1. LinesOff \in Lines /\ lines' = LinesOff /\ lines'.clk = 0 /\ card' = Clocked(card, LinesOff)
  BY ResetTypes DEF Missing, Reset, Write
<1>2. card' = card
  BY <1>1, MissingCard
<1>3. ~Streaming(card) /\ ~HalfInitialised(card)
  BY DEF Missing, Absent, CardRuns, CardOk, Streaming, HalfInitialised
<1>4. ~spoilt'
  BY <1>2, <1>3 DEF Reset
<1>5. call' = "boot" /\ phase' = "none" /\ at' = "none" /\ ready' = FALSE
  BY DEF Reset
<1>6. QED
  BY <1>2, <1>4, <1>5 DEF Missing, Absent

\* Nothing else happens.
LEMMA OthersAbsent ==
  ASSUME Missing
  PROVE  ~(\/ Cmd8Returns \/ R7 \/ Cmd55Returns \/ Acmd41Returns \/ Cmd17Returns \/ Token \/ Data
           \/ Trailer \/ Cmd24Returns \/ MMCReadSector \/ MMCWriteSector)
<1>1. phase \in {"none", "cmd0"} /\ ~ready /\ Course(call, phase, at)
  BY Typed DEF Missing, Absent
<1>2. at \notin {"r7", "token", "data", "trailer"}
  BY ONLY <1>1 DEF Course
<1>3. QED
  BY ONLY <1>1, <1>2 DEF Cmd8Returns, R7, Cmd55Returns, Acmd41Returns, Cmd17Returns, Token, Data, Trailer,
     Cmd24Returns, MMCReadSector, MMCWriteSector, StartCall, ByteDone

LEMMA AbsentNext ==
  ASSUME Missing, [Next]_vars
  PROVE  Absent'
<1>1. CASE UNCHANGED vars
  <2>1. UNCHANGED <<card, lines, call, phase, at, bits, d0, ready, spoilt>>
    BY <1>1 DEF vars, registers
  <2>2. QED
    BY <2>1 DEF Missing, Absent
<1>2. QED
  BY <1>1, RaiseAbsent, LowerAbsent, SelectAbsent, ByteAbsent, StartInitAbsent, Cmd0Absent, ResetAbsent,
     OthersAbsent DEF Next, Driver, NoDevice

-----------------------------------------------------------------------------
(***************************************************************************)
(* The invariant.                                                          *)
(***************************************************************************)
LEMMA InvInit ==
  ASSUME Init
  PROVE  Inv
<1>1. DriverOk /\ CardRuns
  BY StartTypes
<1>2. /\ card.state = "WAIT_CLOCKS" /\ ~spoilt /\ ~ready /\ call = "boot" /\ at = "none"
      /\ phase = "none"
  BY DEF Init, NewCard
<1>3. InStep /\ Absent
  BY <1>2 DEF InStep, Absent, Restorable, BytePlaces
<1>4. QED
  BY <1>1, <1>3 DEF Inv

LEMMA InvNext ==
  ASSUME Inv, [Next]_vars
  PROVE  Inv'
<1>1. DriverOk /\ CardRuns /\ DriverOk' /\ CardRuns' /\ card'.cardInserted = card.cardInserted
  BY NextTypes, InsertedStays DEF Inv
<1>2. ASSUME card'.cardInserted, ~spoilt'
      PROVE  InStep'
  <2>1. CASE Reset
    BY <1>1, <1>2, <2>1, ResetInStep
  <2>2. CASE ~Reset
    <3>1. spoilt' = spoilt
      <4>1. CASE Driver
        <5>1. CASE Raise \/ Lower \/ Select \/ Busy \/ Sent \/ Answer \/ StartInit \/ Dummy
          BY <5>1 DEF Raise, Lower, Select, Busy, Sent, Answer, StartInit, Dummy
        <5>2. CASE Cmd0Returns \/ Cmd8Returns \/ R7 \/ Cmd55Returns \/ Acmd41Returns
          BY <5>2 DEF Cmd0Returns, Cmd8Returns, R7, Cmd55Returns, Acmd41Returns, Proceed, EndInit
        <5>3. CASE Cmd17Returns \/ Token \/ Data \/ Trailer \/ Cmd24Returns
          BY <5>3 DEF Cmd17Returns, Token, Data, Trailer, Cmd24Returns, ProceedReading, EndCall
        <5>4. QED
          BY <4>1, <5>1, <5>2, <5>3 DEF Driver
      <4>2. CASE MMCReadSector \/ MMCWriteSector
        BY <4>2 DEF MMCReadSector, MMCWriteSector, StartCall
      <4>3. CASE UNCHANGED vars
        BY <4>3 DEF vars
      <4>4. QED
        BY <2>2, <4>1, <4>2, <4>3 DEF Next, NoDevice
    <3>2. Running /\ ~spoilt
      BY <1>1, <1>2, <3>1 DEF Inv, Running
    <3>3. QED
      BY <1>2, <3>2, InStepNext
  <2>3. QED
    BY <2>1, <2>2
<1>3. ASSUME ~card'.cardInserted
      PROVE  Absent'
  <2>1. Missing
    BY <1>1, <1>3 DEF Inv, Missing
  <2>2. QED
    BY <2>1, AbsentNext
<1>4. QED
  BY <1>1, <1>2, <1>3 DEF Inv

LEMMA Invariant == Spec => []Inv
<1>1. Init => Inv
  BY InvInit
<1>2. Inv /\ [Next]_vars => Inv'
  BY InvNext
<1>3. QED
  BY <1>1, <1>2, PTL DEF Spec

\* MMCInit finds the card that is inserted, however long its sectors and
\* wherever in a command a reset caught the driver: it returns to an idle
\* system without a device only when the card is absent, or was left amid an
\* initialisation or the data of a sector.
THEOREM CardIsFound == Spec => []InitSucceeds
<1>1. Inv => InitSucceeds
  BY DEF Inv, InStep, InitSucceeds
<1>2. QED
  BY <1>1, Invariant, PTL

-----------------------------------------------------------------------------
(***************************************************************************)
(* The driver and the card implement SectorDevice.                         *)
(***************************************************************************)
\* What is asked for is on the card.
RequestsOnCard == Requests \subseteq 0 .. Capacity - 1

Mode ==
  CASE call \in {"boot", "MMCInit"} -> "starting"
    [] call = "MMCReadSector"       -> "reading"
    [] call = "MMCWriteSector"      -> "writing"
    [] call = "idle"                -> IF ready THEN "ready" ELSE "absent"
Told == [kind |-> status, bytes |-> IF status = "ok" THEN buffer ELSE <<>>]

Same == card'.cardInserted = card.cardInserted

LEMMA DeviceVars ==
  ASSUME Same, UNCHANGED <<Mode, Told, spoilt, request>>
  PROVE  UNCHANGED Device!vars
BY DEF Same, Mode, Told, Device!vars

\* A step inside a call.
LEMMA QuietStep ==
  ASSUME Same, UNCHANGED <<call, ready, status, spoilt, request>>, status = "ok" => buffer' = buffer
  PROVE  UNCHANGED Device!vars
<1>1. UNCHANGED <<Mode, Told>>
  BY DEF Mode, Told
<1>2. QED
  BY <1>1, DeviceVars

LEMMA InitIsDevice ==
  ASSUME Init
  PROVE  Device!Init
<1>1. card.cardInserted \in BOOLEAN
  BY StartTypes DEF CardRuns, CardOk, Cards
<1>2. call = "boot" /\ request = 0 /\ status = "none" /\ spoilt = FALSE
  BY DEF Init
<1>3. (~spoilt) = TRUE
  BY <1>2
<1>4. Mode = "starting" /\ Told = Device!None
  BY <1>2 DEF Mode, Told, Device!None
<1>5. QED
  BY ONLY <1>1, <1>2, <1>3, <1>4 DEF Mode, Told, Device!Init

\* The end of MMCInit.
LEMMA EndInitIsStart ==
  ASSUME Inv, Same, call = "MMCInit", NEW result, EndInit(result),
         ~spoilt => ((result = "ok") <=> card.cardInserted)
  PROVE  Device!Start
<1>1. /\ call' = "idle" /\ status' = "none" /\ ready' = (result = "ok")
      /\ UNCHANGED <<request, buffer, spoilt>>
  BY DEF EndInit, Finish
<1>2. status = "none"
  BY Typed DEF Inv, Results
<1>3. Mode = "starting" /\ Told' = Told
  BY <1>1, <1>2 DEF Mode, Told
<1>4. Mode' = IF ready' THEN "ready" ELSE "absent"
  BY <1>1 DEF Mode
<1>5. ~spoilt => (ready' <=> card.cardInserted)
  BY <1>1
<1>6. Mode' \in (IF ~spoilt THEN {IF card.cardInserted THEN "ready" ELSE "absent"}
                 ELSE {"ready", "absent"})
  BY ONLY <1>4, <1>5
<1>7. QED
  BY ONLY <1>1, <1>3, <1>6, Same DEF Mode, Told, Same, Device!Start

LEMMA SoundRuns ==
  ASSUME Inv, ~spoilt, card.cardInserted
  PROVE  Running
BY DEF Inv, Running

LEMMA CardThere ==
  ASSUME Inv, \/ Cmd8Returns \/ R7 \/ Cmd55Returns \/ Acmd41Returns \/ Cmd17Returns \/ Token \/ Data
              \/ Trailer \/ Cmd24Returns \/ MMCReadSector \/ MMCWriteSector
  PROVE  card.cardInserted
BY OthersAbsent DEF Inv, Missing

LEMMA InitReturnsAre ==
  ASSUME Inv, Same, Cmd0Returns \/ Cmd8Returns \/ Cmd55Returns \/ Acmd41Returns
  PROVE  Device!Start \/ UNCHANGED Device!vars
<1>1. call = "MMCInit"
  BY Typed DEF Inv, Course, Cmd0Returns, Cmd8Returns, Cmd55Returns, Acmd41Returns
<1>2. CASE Proceed
  <2>1. UNCHANGED <<call, ready, status, spoilt, request, buffer>>
    BY <1>2 DEF Proceed
  <2>2. QED
    BY <2>1, QuietStep
<1>3. CASE EndInit("error")
  <2>1. ~spoilt => ~card.cardInserted
    <3>1. SUFFICES ASSUME ~spoilt, card.cardInserted
                   PROVE  FALSE
      OBVIOUS
    <3>2. Running
      BY <3>1, SoundRuns
    <3>3. ready' = FALSE /\ at' = "none" /\ call' = "idle" /\ spoilt' = spoilt
      BY <1>3 DEF EndInit, Finish
    <3>4. InStep'
      BY <3>1, <3>2, Cmd0InStep, Cmd8InStep, Cmd55InStep, Acmd41InStep
    <3>5. QED
      BY <3>3, <3>4 DEF InStep
  <2>2. ~spoilt => (("error" = "ok") <=> card.cardInserted)
    BY <2>1
  <2>3. QED
    BY <1>1, <1>3, <2>2, EndInitIsStart
<1>4. CASE EndInit("ok") /\ Acmd41Returns
  <2>1. card.cardInserted
    BY <1>4, CardThere
  <2>2. ~spoilt => (("ok" = "ok") <=> card.cardInserted)
    BY <2>1
  <2>3. QED
    BY <1>1, <1>4, <2>2, EndInitIsStart
<1>5. QED
  BY <1>2, <1>3, <1>4 DEF Cmd0Returns, Cmd8Returns, Cmd55Returns, Acmd41Returns

LEMMA StartCallIsAsk ==
  ASSUME Inv, Same, NEW routine \in {"MMCReadSector", "MMCWriteSector"}, NEW command,
         StartCall(routine, command)
  PROVE  \E s \in Requests : Device!Ask(s)
<1>1. PICK s \in Requests : request' = s
  BY DEF StartCall
<1>2. call = "idle" /\ ready /\ call' = routine /\ status' = "none" /\ spoilt' = spoilt
  BY DEF StartCall
<1>3. Mode = "ready" /\ Mode' \in {"reading", "writing"} /\ Told' = Device!None
  BY <1>2 DEF Mode, Told, Device!None
<1>4. Device!Ask(s)
  BY ONLY <1>1, <1>2, <1>3, Same DEF Mode, Told, Same, Device!Ask
<1>5. QED
  BY <1>4

\* The end of a call after which nothing is promised.
LEMMA EndCallIsMisanswer ==
  ASSUME Inv, Same, spoilt, call \in {"MMCReadSector", "MMCWriteSector"},
         NEW result \in {"ok", "error"}, EndCall(result)
  PROVE  Device!Misanswer
<1>1. /\ call' = "idle" /\ status' = result /\ UNCHANGED <<request, ready, spoilt>>
  BY DEF EndCall, Finish
<1>2. ready
  BY Typed DEF Inv, Results
<1>3. Mode \in {"reading", "writing"} /\ Mode' = "ready" /\ Told'.kind \in {"ok", "error"}
  BY <1>1, <1>2 DEF Mode, Told
<1>4. QED
  BY ONLY <1>1, <1>3, Same, spoilt DEF Mode, Told, Same, Device!Misanswer

LEMMA ReadIsAnswer ==
  ASSUME RequestsOnCard, Inv, Same, ~spoilt, call = "MMCReadSector", EndCall("ok"),
         Filled(request, buffer, 0)
  PROVE  Device!Answer
<1>1. /\ call' = "idle" /\ status' = "ok" /\ UNCHANGED <<request, buffer, ready, spoilt>>
  BY DEF EndCall, Finish
<1>2. ready /\ buffer \in SectorData /\ request \in Requests \cup {0}
  BY Typed DEF Inv, Results, Asked
<1>3. request \in 0 .. Capacity - 1 /\ request < Capacity
  BY <1>2, MmcCardAssumption DEF RequestsOnCard
<1>4. buffer = Disk[request]
  <2>1. PICK b \in SectorData, e \in SectorData : b = buffer /\ e = Disk[request]
    BY <1>2, <1>3, MmcCardAssumption
  <2>2. \A i \in 0 .. SectorSize - 1 : b[i] = e[i]
    <3>1. SectorSize - 0 - 1 = SectorSize - 1
      BY Sizes
    <3>2. QED
      BY ONLY <1>3, <2>1, <3>1, Filled(request, buffer, 0) DEF Filled
  <2>3. b = e
    <3>1. DOMAIN b = 0 .. SectorSize - 1 /\ DOMAIN e = 0 .. SectorSize - 1
      BY DEF SectorData
    <3>2. b = [i \in 0 .. SectorSize - 1 |-> b[i]] /\ e = [i \in 0 .. SectorSize - 1 |-> e[i]]
      BY DEF SectorData
    <3>3. [i \in 0 .. SectorSize - 1 |-> b[i]] = [i \in 0 .. SectorSize - 1 |-> e[i]]
      BY ONLY <2>2, Zenon
    <3>4. QED
      BY ONLY <3>2, <3>3, Zenon
  <2>4. QED
    BY <2>1, <2>3
<1>5. Mode = "reading" /\ Mode' = "ready" /\ Told' = Device!Bytes(Disk[request])
  BY <1>1, <1>2, <1>4 DEF Mode, Told, Device!Bytes
<1>6. QED
  BY ONLY <1>1, <1>5, Same, ~spoilt DEF Mode, Told, Same, Device!Answer

LEMMA WriteIsRefuse ==
  ASSUME Inv, Same, ~spoilt, call = "MMCWriteSector", EndCall("error")
  PROVE  Device!Refuse
<1>1. /\ call' = "idle" /\ status' = "error" /\ UNCHANGED <<request, buffer, ready, spoilt>>
  BY DEF EndCall, Finish
<1>2. ready
  BY Typed DEF Inv, Results
<1>3. Mode = "writing" /\ Mode' = "ready" /\ Told' = Device!Refused
  BY <1>1, <1>2 DEF Mode, Told, Device!Refused
<1>4. QED
  BY ONLY <1>1, <1>3, Same, ~spoilt DEF Mode, Told, Same, Device!Refuse

LEMMA CallReturnsAre ==
  ASSUME RequestsOnCard, Inv, Same, Cmd17Returns \/ Token \/ Trailer \/ Cmd24Returns
  PROVE  Device!Answer \/ Device!Misanswer \/ Device!Refuse \/ UNCHANGED Device!vars
<1>1. call \in {"MMCReadSector", "MMCWriteSector"} /\ status = "none"
  BY Typed DEF Inv, Course, Results, Cmd17Returns, Token, Trailer, Cmd24Returns, ByteDone
<1>2. CASE ProceedReading
  <2>1. UNCHANGED <<call, ready, status, spoilt, request>>
    BY <1>2 DEF ProceedReading
  <2>2. QED
    BY <1>1, <2>1, QuietStep
<1>3. CASE ~ProceedReading
  <2>1. PICK result \in {"ok", "error"} : EndCall(result)
    BY <1>3 DEF Cmd17Returns, Token, Trailer, Cmd24Returns
  <2>2. CASE spoilt
    BY <1>1, <2>1, <2>2, EndCallIsMisanswer
  <2>3. CASE ~spoilt
    <3>1. Running
      BY <2>3, CardThere, SoundRuns
    <3>2. at' = "none"
      BY <2>1 DEF EndCall, Finish
    <3>3. CASE Cmd17Returns \/ Token
      BY <3>1, <3>2, <3>3, Cmd17InStep, TokenInStep
    <3>4. CASE Trailer
      <4>1. EndCall("ok") /\ Filled(request, buffer, 0) /\ call = "MMCReadSector"
        BY <3>1, <3>2, <3>4, TrailerInStep
      <4>2. QED
        BY <2>3, <4>1, ReadIsAnswer
    <3>5. CASE Cmd24Returns
      <4>1. EndCall("error") /\ call = "MMCWriteSector"
        BY <3>1, <3>5, Cmd24InStep
      <4>2. QED
        BY <2>3, <4>1, WriteIsRefuse
    <3>6. QED
      BY <3>3, <3>4, <3>5
  <2>4. QED
    BY <2>2, <2>3
<1>4. QED
  BY <1>2, <1>3

LEMMA ResetIsReset ==
  ASSUME Inv, Same, Reset
  PROVE  Device!Reset
<1>1. call' = "boot" /\ status' = "none" /\ UNCHANGED request
  BY DEF Reset
<1>2. spoilt' \in BOOLEAN
  BY ResetTypes, NextTypes DEF Inv, DriverOk
<1>3. (~spoilt') \in BOOLEAN
  OBVIOUS
<1>4. Mode' = "starting" /\ Told' = Device!None
  BY <1>1 DEF Mode, Told, Device!None
<1>5. QED
  BY ONLY <1>1, <1>3, <1>4, Same DEF Mode, Told, Same, Device!Reset

LEMMA NextIsDevice ==
  ASSUME RequestsOnCard, Inv, [Next]_vars
  PROVE  [Device!Next]_(Device!vars)
<1>1. Same
  BY InsertedStays DEF Inv, Same
<1>2. CASE Raise \/ Lower \/ Select \/ Busy \/ Sent \/ Answer \/ Dummy \/ R7
  <2>1. UNCHANGED <<call, ready, status, spoilt, request, buffer>>
    BY <1>2 DEF Raise, Lower, Select, Busy, Sent, Answer, Dummy, R7, Proceed
  <2>2. QED
    BY <1>1, <2>1, QuietStep
<1>3. CASE StartInit
  <2>1. call = "boot" /\ call' = "MMCInit" /\ UNCHANGED <<ready, status, spoilt, request, buffer>>
    BY <1>3 DEF StartInit
  <2>2. UNCHANGED <<Mode, Told>>
    BY <2>1 DEF Mode, Told
  <2>3. QED
    BY <1>1, <2>1, <2>2, DeviceVars
<1>4. CASE Cmd0Returns \/ Cmd8Returns \/ Cmd55Returns \/ Acmd41Returns
  BY <1>1, <1>4, InitReturnsAre DEF Device!Next
<1>5. CASE Cmd17Returns \/ Token \/ Trailer \/ Cmd24Returns
  BY <1>1, <1>5, CallReturnsAre DEF Device!Next
<1>6. CASE Data
  <2>1. UNCHANGED <<call, ready, status, spoilt, request>> /\ at = "data"
    BY <1>6 DEF Data, ProceedReading, ByteDone
  <2>2. status = "none"
    BY <2>1, Typed DEF Inv, Course, Results
  <2>3. QED
    BY <1>1, <2>1, <2>2, QuietStep
<1>7. CASE MMCReadSector \/ MMCWriteSector
  <2>1. \E s \in Requests : Device!Ask(s)
    BY <1>1, <1>7, StartCallIsAsk DEF MMCReadSector, MMCWriteSector
  <2>2. QED
    BY <2>1 DEF Device!Next
<1>8. CASE Reset
  BY <1>1, <1>8, ResetIsReset DEF Device!Next
<1>9. CASE UNCHANGED vars
  <2>1. UNCHANGED <<call, ready, status, spoilt, request, buffer>>
    BY <1>9 DEF vars
  <2>2. QED
    BY <1>1, <2>1, QuietStep
<1>10. QED
  BY <1>2, <1>3, <1>4, <1>5, <1>6, <1>7, <1>8, <1>9 DEF Next, Driver, NoDevice

\* What the storage layer sees is a SectorDevice, whatever the length and the
\* bytes of a sector and however often the machine is reset: a call on a sound
\* card returns the sector that was asked for, or refuses a write, and a device
\* is there after MMCInit when and only when the card is.  That every call
\* returns is left to the run.
THEOREM LinkIsDevice ==
  ASSUME RequestsOnCard
  PROVE  Spec => Device!Init /\ [][Device!Next]_(Device!vars)
<1>1. Init => Device!Init
  BY InitIsDevice
<1>2. Inv /\ [Next]_vars => [Device!Next]_(Device!vars)
  BY NextIsDevice
<1>3. QED
  BY <1>1, <1>2, Invariant, PTL DEF Spec

=============================================================================
