---------------------------- MODULE M68kMachine -----------------------------
(***************************************************************************)
(* The emulated computer as one value: the registers of the processor      *)
(* (include/m68k.h), RAM, ROM and the devices that answer on the bus       *)
(* (src/bus/bus.c, the address map of src/emuse.c), and the ways an        *)
(* instruction reaches its operands (src/m68k/decode.c, sourcedest.c,      *)
(* pushpop.c).  Operators take a machine and return the machine they       *)
(* leave.                                                                  *)
(*                                                                         *)
(* The top four bits of an address select a device, as in the code.  Of    *)
(* the UART only one waiting character (rx) and its interrupt enable (ier) *)
(* are here, SerialLink has the rest; video and card are left out.  What   *)
(* an unmapped address reads is not modelled: no program reads one.        *)
(***************************************************************************)
EXTENDS M68kShift, Sequences

CONSTANTS
  AddressBits,   \* 24
  RamSize,       \* a power of 2
  Rom            \* the bytes at the start of ROM: the reset vector

ASSUME MachineAssumption ==
  AddressBits \in 5 .. 4 * ByteBits /\ RamSize \in Nat \ {0} /\ DOMAIN Rom \subseteq Nat

Bytes == 0 .. Span("byte") - 1
align24(address) == address % (2 ^ AddressBits)

\* The machine: registers, memory, output latch, the interrupt lines of the
\* timer and the UART, and the two flags of m68kClock.
Machines ==
  [d : [0 .. 7 -> Longs], a : [0 .. 7 -> Longs], pc : Longs, sr : StatusRegisters,
   usp : Longs, ssp : Longs, ram : [0 .. RamSize - 1 -> Bytes],
   latch : [0 .. 7 -> 0 .. 3], timerBit : BOOLEAN, tick : BOOLEAN, rx : BOOLEAN, ier : BOOLEAN,
   crashed : BOOLEAN, resetState : BOOLEAN]

Crash(m) == [m EXCEPT !.crashed = TRUE]

\* The status register as the word that is pushed and moved.
WordOf(sr) ==
  LET Bit(flag, weight) == IF flag THEN weight ELSE 0 IN
  Bit(sr.C, 1) + Bit(sr.V, 2) + Bit(sr.Z, 4) + Bit(sr.N, 8) + Bit(sr.X, 16)
    + 32 * sr.level + Bit(sr.S, 32 * (Levels + 1))

StatusOf(word) ==
  LET Bit(weight) == (word \div weight) % 2 = 1 IN
  [C |-> Bit(1), V |-> Bit(2), Z |-> Bit(4), N |-> Bit(8), X |-> Bit(16),
   level |-> (word \div 32) % (Levels + 1), S |-> Bit(32 * (Levels + 1))]

-----------------------------------------------------------------------------
(* The bus.                                                                *)

Region(address) == address \div (2 ^ (AddressBits - 4))
RAM == 0
TIMER_ACK == 10
UART == 11
AREG == 13
ROM == 15

\* The output latch: registers of two bits at the odd addresses.
TIMER_ACT == 2
TIMER_FREQ == 3
OVR == 4
isRomOverlay(m)    == m.latch[OVR] \div 2 = 0
isTimerActive(m)   == m.latch[TIMER_ACT] % 2 = 1
getTimerSetting(m) == m.latch[TIMER_FREQ]

\* The latch and the UART have eight registers, at odd addresses.
Register(address) == (address \div 2) % 8
RBR == 0
IER == 1

busReadByte(m, address) ==
  LET inRom == address % (2 ^ (AddressBits - 4)) IN
  CASE Region(address) = RAM /\ ~isRomOverlay(m) -> m.ram[address % RamSize]
    [] Region(address) \in {RAM, ROM} /\ inRom \in DOMAIN Rom -> Rom[inRom]
    [] OTHER -> 0

busReadWord(m, address) ==
  LET even == address - (address % 2) IN
  busReadByte(m, even) * Span("byte") + busReadByte(m, even + 1)

\* Reading acknowledges the interrupt of the device that is read; a long is
\* read as two words.
Acknowledged(m, address, size) ==
  CASE Region(address) = TIMER_ACK -> [m EXCEPT !.tick = FALSE]
    [] /\ Region(address) = UART /\ Register(address) = RBR
       /\ size = "byte" => address % 2 = 1 -> [m EXCEPT !.rx = FALSE]
    [] OTHER -> m

AfterRead(m, address, size) ==
  IF size = "long" THEN Acknowledged(Acknowledged(m, address, "word"), address + 2, "word")
                   ELSE Acknowledged(m, address, size)

busWriteByte(m, address, byte) ==
  CASE Region(address) = RAM /\ ~isRomOverlay(m) ->
         [m EXCEPT !.ram[address % RamSize] = Cut(byte, "byte")]
    [] Region(address) = TIMER_ACK -> [m EXCEPT !.tick = FALSE]
    [] Region(address) = UART /\ address % 2 = 1 /\ Register(address) = IER ->
         [m EXCEPT !.ier = byte % 2 = 1]
    [] Region(address) = AREG /\ address % 2 = 1 ->
         [m EXCEPT !.latch[Register(address)] = byte % 4]
    [] OTHER -> m

busWriteWord(m, address, word) ==
  LET even == (address % RamSize) - (address % 2) IN
  CASE Region(address) = RAM /\ ~isRomOverlay(m) ->
         [m EXCEPT !.ram[even] = Cut(word \div Span("byte"), "byte"),
                   !.ram[even + 1] = Cut(word, "byte")]
    [] Region(address) = TIMER_ACK -> [m EXCEPT !.tick = FALSE]
    [] Region(address) = UART /\ Register(address) = IER -> [m EXCEPT !.ier = word % 2 = 1]
    [] Region(address) = AREG -> [m EXCEPT !.latch[Register(address)] = word % 4]
    [] OTHER -> m

\* A long goes over the bus as two words, the upper one first.
Load(m, address, size) ==
  CASE size = "byte" -> busReadByte(m, address)
    [] size = "word" -> busReadWord(m, address)
    [] size = "long" -> busReadWord(m, address) * Span("word") + busReadWord(m, address + 2)

Store(m, address, size, v) ==
  CASE size = "byte" -> busWriteByte(m, address, v)
    [] size = "word" -> busWriteWord(m, address, v)
    [] size = "long" -> busWriteWord(busWriteWord(m, address, v \div Span("word")), address + 2, v)

\* The interrupt inputs, the highest first; 0 if there is none.
TimerLevel == 1
UartLevel == 2
\* Faulty variant: the search ends above the lowest level.
LowestLevelMissed(m) == IF m.rx /\ m.ier THEN UartLevel ELSE 0

busCheckInterrupt(m) ==
  CASE m.rx /\ m.ier -> UartLevel
    [] m.tick /\ ~(m.rx /\ m.ier) -> TimerLevel
    [] OTHER -> 0

-----------------------------------------------------------------------------
(* The stack.                                                              *)

pushWord(m, word) ==
  LET top == align24(m.a[7] - 2) IN busWriteWord([m EXCEPT !.a[7] = top], top, word)

\* What pop returns, and the machine after it.
Top(m) == busReadWord(m, m.a[7])
pop(m) == [m EXCEPT !.a[7] = align24(@ + 2)]

-----------------------------------------------------------------------------
(* Effective addresses.  An instruction names an operand by a mode, a      *)
(* register and what its extension words hold (ext); decoding it moves the *)
(* program counter behind those words.                                     *)

increasePc(m, words) == [m EXCEPT !.pc = align24(@ + 2 * words)]

InRegister == {"Dn", "An"}
Direct     == {"(An)", "(An)+", "-(An)"}
Modes == InRegister \cup Direct
           \cup {"d(An)", "d(An,Xn)", "#", "abs.W", "abs.L", "d(PC)", "d(PC,Xn)"}

NoOperand == [mode |-> "none", xn |-> 0, address |-> 0, immediate |-> 0]
DataRegister(xn)    == [NoOperand EXCEPT !.mode = "Dn", !.xn = xn]
AddressRegister(xn) == [NoOperand EXCEPT !.mode = "An", !.xn = xn]
Immediate(v)        == [NoOperand EXCEPT !.mode = "#", !.immediate = v]

\* The index register of an extension word, whole or its lower word.
Index(m, ext) == LET index == m[ext.file][ext.reg] IN
                 IF ext.long THEN index ELSE Signed(index, "word")

getEffectiveAddress(m, e, size) ==
  LET At(address, words) ==
        [m |-> increasePc(m, words),
         operand |-> [mode |-> e.mode, xn |-> e.xn, address |-> Cut(address, "long"),
                      immediate |-> 0]]
  IN CASE e.mode \in InRegister -> At(0, 0)
       [] e.mode \in Direct     -> At(m.a[e.xn], 0)
       [] e.mode = "d(An)"      -> At(e.ext + m.a[e.xn], 1)
       [] e.mode = "d(An,Xn)"   -> At(e.ext.disp + Index(m, e.ext) + m.a[e.xn], 1)
       [] e.mode = "abs.W"      -> At(Cut(e.ext, "word"), 1)
       [] e.mode = "abs.L"      -> At(e.ext, 2)
       [] e.mode = "d(PC)"      -> At(m.pc + e.ext, 1)
       [] e.mode = "d(PC,Xn)"   -> At(m.pc + e.ext.disp + Index(m, e.ext), 1)
       [] e.mode = "#"          ->
            [m |-> increasePc(m, IF size = "long" THEN 2 ELSE 1),
             operand |-> Immediate(Cut(e.ext, size))]
       [] OTHER -> [m |-> Crash(m), operand |-> NoOperand]

-----------------------------------------------------------------------------
(* Reading and writing operands.  The address of an operand in a stepping  *)
(* mode is stepped by every access: reading and then writing one steps     *)
(* twice and writes to another address than was read.                      *)

Step(operand, size) ==
  CASE size = "long" -> 4
    [] size = "word" -> 2
    [] OTHER         -> IF operand.xn = 7 THEN 2 ELSE 1

Stepped(m, operand, by) ==
  LET address == align24(m.a[operand.xn] + by) IN
  [m |-> [m EXCEPT !.a[operand.xn] = address], operand |-> [operand EXCEPT !.address = address]]

preDecrement(m, operand, size) ==
  IF operand.mode = "-(An)" THEN Stepped(m, operand, -Step(operand, size))
                            ELSE [m |-> m, operand |-> operand]

postIncrement(m, operand, size) ==
  IF operand.mode = "(An)+" THEN Stepped(m, operand, Step(operand, size))
                            ELSE [m |-> m, operand |-> operand]

\* The value read, and the machine and the operand as they are left.
Read(v, left) == [value |-> v, operand |-> left.operand, m |-> left.m]

readMemory(before, size) ==
  LET address == before.operand.address IN
  Read(Load(before.m, address, size),
       postIncrement(AfterRead(before.m, address, size), before.operand, size))

readSource(m, operand, size) ==
  LET Held(v) == Read(v, [m |-> m, operand |-> operand])
  IN CASE operand.mode = "#"  -> Held(operand.immediate)
       [] operand.mode = "Dn" -> Held(m.d[operand.xn])
       [] operand.mode = "An" -> Held(m.a[operand.xn])
       [] OTHER -> readMemory(preDecrement(m, operand, size), size)

\* Only these can be written; of the absolute modes just the long one.
Writable(operand) == operand.mode \in InRegister \cup Direct \cup {"d(An)", "d(An,Xn)", "abs.L"}

\* Flags change for data registers and memory behind a register, not for
\* absolute addresses.
writeDestWithFlagSetting(m, operand, size, v, setFlags) ==
  LET Flagged(n) == IF setFlags THEN [n EXCEPT !.sr = setNZ(@, v, size)] ELSE n
      before == preDecrement(m, operand, size)
      target == before.operand.address
  IN CASE operand.mode = "Dn" ->
            Flagged([m EXCEPT !.d[operand.xn] = @ - Cut(@, size) + Cut(v, size)])
       [] operand.mode = "An" ->
            IF size = "byte" THEN m
            ELSE [m EXCEPT !.a[operand.xn] = Cut(Signed(v, size), "long")]
       [] operand.mode = "abs.L" -> Store(m, operand.address, size, v)
       [] Writable(operand) /\ operand.mode \notin {"Dn", "An", "abs.L"} ->
            postIncrement(Store(Flagged(before.m), target, size, v), before.operand, size).m
       [] OTHER -> m

writeDest(m, operand, size, v)        == writeDestWithFlagSetting(m, operand, size, v, TRUE)
writeDestNoFlags(m, operand, size, v) == writeDestWithFlagSetting(m, operand, size, v, FALSE)

\* Most instructions crash the machine when the destination is refused.
writeOrCrash(m, operand, size, v) ==
  IF Writable(operand) THEN writeDest(m, operand, size, v) ELSE Crash(m)
=============================================================================
