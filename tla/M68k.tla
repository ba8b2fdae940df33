-------------------------------- MODULE M68k --------------------------------
(***************************************************************************)
(* The emulated 68000 at work (src/m68k/m68k.c): m68kClock executes one    *)
(* instruction, or takes an interrupt in its place, or fetches the reset   *)
(* vector; then the devices on the bus are clocked (busClock).             *)
(*                                                                         *)
(* A program is a function from addresses to instructions, decoded: the    *)
(* fields of the opcode are those of a record, and the words behind it are *)
(* in the operands (ea).  An instruction may be interrupted before or      *)
(* after, never within, as in the code.                                    *)
(*                                                                         *)
(* Not enumerated, because the code then uses fields of DecodedInstruction *)
(* that no one has set: ADDX with memory operands, and LEA, PEA, JMP, JSR  *)
(* with an operand that is no address.                                     *)
(***************************************************************************)
EXTENDS M68kMachine

Ext == INSTANCE SequencesExt

CONSTANTS
  Programs,      \* name -> address -> instruction
  Starts,        \* name -> the machines about to run that program, each with a budget
  FirstVector    \* 24: the vector of interrupt level 0

VARIABLES
  machine, program,
  frames,        \* history: the registers at each interrupt not yet returned from
  strayed,       \* history: the last reset left an interrupt above the mask
  budget         \* bounds: ticks, characters and resets still to come

vars == <<machine, program, frames, strayed, budget>>

Code == Programs[program]

-----------------------------------------------------------------------------
(* Decoding: which operand is read and which is written.                   *)

Decoded(m, src, dst, size) == [m |-> m, src |-> src, dst |-> dst, size |-> size]

FromAddress(at, dst, size) == Decoded(at.m, at.operand, dst, size)
ToAddress(at, src, size)   == Decoded(at.m, src, at.operand, size)

decodeSource(m, i, dst) == FromAddress(getEffectiveAddress(m, i.ea, i.size), dst, i.size)
decodeDest(m, i, src)   == ToAddress(getEffectiveAddress(m, i.ea, i.size), src, i.size)

\* The direction bit of the opcode: into the register, or out of it.
decodeAlu(m, i) ==
  IF i.toEa THEN decodeDest(m, i, DataRegister(i.reg)) ELSE decodeSource(m, i, DataRegister(i.reg))

\* The immediate words come before those of the destination.
decodeAluImmediate(m, i) ==
  LET data == getEffectiveAddress(m, [i.ea EXCEPT !.mode = "#", !.ext = i.data], i.size) IN
  decodeDest(data.m, i, data.operand)

OrEight(data) == IF data = 0 THEN 8 ELSE data

\* On an address register the whole register takes part.
decodeAddqSubq(m, i) ==
  LET size == IF i.ea.mode = "An" THEN "long" ELSE i.size
      data == Immediate(OrEight(i.data)) IN
  IF i.ea.mode = "An" /\ i.size = "byte" THEN Decoded(Crash(m), data, NoOperand, size)
  ELSE decodeDest(m, [i EXCEPT !.size = size], data)

\* Both addresses are computed before the source is read.
decodeMove(m, i) ==
  LET from == getEffectiveAddress(m, i.ea, i.size) IN
  decodeDest(from.m, [i EXCEPT !.ea = i.to], from.operand)

\* The number of the bit is in a register, or in a word of its own: then a
\* data register is written with the size word.
decodeBtst(m, i) ==
  LET Sized(whole) == [i EXCEPT !.size = IF i.ea.mode = "Dn" THEN whole ELSE "byte"] IN
  IF i.immediate THEN decodeAluImmediate(m, Sized("word"))
                 ELSE decodeDest(m, Sized("long"), DataRegister(i.reg))

-----------------------------------------------------------------------------
(* Execution.                                                              *)

\* The destination is read when the source has been.
readDest(from, d) == readSource(from.m, d.dst, d.size)

\* Of ADDX the flag Z can only be cleared.
storeAlu(d, function, to, r) ==
  [writeOrCrash([to.m EXCEPT !.sr = r.sr], to.operand, d.size, r.value) EXCEPT
     !.sr.Z = IF function = "addx" THEN to.m.sr.Z /\ Cut(r.value, d.size) = 0 ELSE @]

executeAlu(d, function) ==
  LET from == readSource(d.m, d.src, d.size)
      Into(to) == storeAlu(d, function, to, Alu(function, from.value, to.value, d.size, to.m.sr)) IN
  Into(readDest(from, d))

\* A subtraction whose result is dropped; X is saved and put back.
executeCmp(d) ==
  LET from == readSource(d.m, d.src, d.size)
      Against(to) ==
        [to.m EXCEPT !.sr = [aluSub(from.value, to.value, d.size, @).sr EXCEPT !.X = to.m.sr.X]] IN
  Against(readDest(from, d))

executeAddaSuba(d, function) ==
  LET from == readSource(d.m, d.src, d.size)
      src  == Signed(from.value, d.size) IN
  [from.m EXCEPT !.a[d.dst.xn] = Cut(IF function = "sub" THEN @ - src ELSE @ + src, "long")]

\* A data register becomes what the operation makes of it and of the source.
Assigned(m, xn, r) == [m EXCEPT !.d[xn] = r.value, !.sr = r.sr]

Multiplied(function, register, src, sr) ==
  CASE function = "mulu" -> executeMulu(register, src, sr)
    [] function = "muls" -> executeMuls(register, src, sr)
    [] function = "divu" -> executeDivu(register, src, sr)

IntoRegister(d, function) ==
  LET Apply(from) == Assigned(from.m, d.dst.xn,
                              Multiplied(function, from.m.d[d.dst.xn], from.value, from.m.sr)) IN
  Apply(readSource(d.m, d.src, d.size))

\* Division by zero stops the machine: there is no exception.
divuOrCrash(d) ==
  IF Cut(readSource(d.m, d.src, d.size).value, "word") = 0
  THEN Crash(d.m) ELSE IntoRegister(d, "divu")

InPlace(m, xn, function) ==
  Assigned(m, xn, CASE function = "ext.w" -> executeExtw(m.d[xn], m.sr)
                    [] function = "ext.l" -> executeExtl(m.d[xn], m.sr)
                    [] function = "swap"  -> executeSwap(m.d[xn], m.sr))

setShiftModeSizeAndValue(m, i) ==
  IF i.immediate THEN OrEight(i.data) ELSE m.d[i.reg] % (2 * Bits("long"))

shiftRegister(m, i) ==
  LET count == setShiftModeSizeAndValue(m, i)
      r     == Shift(i.function, Cut(m.d[i.ea.xn], i.size), count, i.size, m.sr) IN
  writeDest([m EXCEPT !.sr = r.sr], DataRegister(i.ea.xn), i.size, r.value)

\* Z tells what the bit was before.
executeBit(d, function) ==
  LET wanted == IF d.src.mode = "Dn" THEN d.m.d[d.src.xn] ELSE d.src.immediate
      bit    == 2 ^ (wanted % (IF d.dst.mode = "Dn" THEN Bits("long") ELSE Bits("byte")))
      IsSet(to)  == (to.value \div bit) % 2 = 1
      Changed(to) == CASE function = "bclr" -> to.value - (IF IsSet(to) THEN bit ELSE 0)
                      [] OTHER             -> to.value + (IF IsSet(to) THEN 0 ELSE bit)
      After(to)  == IF function = "btst" THEN to.m
                    ELSE writeOrCrash(to.m, to.operand, d.size, Changed(to))
      Tested(to) == [After(to) EXCEPT !.sr.Z = ~IsSet(to)] IN
  Tested(readSource(d.m, d.dst, d.size))

\* MOVE and NOT add the cycles of the two accesses before looking for the
\* -1 of a refused store: it is noticed only when the read cost nothing.
storeAfter(m, src, operand, size, v) ==
  IF Writable(operand) \/ src.mode \notin InRegister \cup {"#"}
  THEN writeDest(m, operand, size, v) ELSE Crash(m)

executeMove(d) ==
  LET from == readSource(d.m, d.src, d.size)
      kept == IF d.dst.mode = "An" THEN from.m ELSE [from.m EXCEPT !.sr = ClearCV(@)] IN
  storeAfter(kept, d.src, d.dst, d.size, from.value)

executeClr(d) == writeOrCrash(d.m, d.dst, d.size, 0)

executeNot(d) ==
  LET to == readSource(d.m, d.dst, d.size) IN
  storeAfter(to.m, d.dst, to.operand, d.size, execNot(to.value))

executeNeg(d) ==
  LET to == readSource(d.m, d.dst, d.size) IN
  writeOrCrash(to.m, to.operand, d.size, execNeg(to.value, d.size))

executeTst(d) ==
  LET from == readSource(d.m, d.src, d.size) IN
  [from.m EXCEPT !.sr = execTst(from.value, d.size, @)]

\* The stack pointers are not exchanged when the S bit goes.
executeMoveToSr(d) ==
  LET from == readSource(d.m, d.src, d.size) IN
  IF from.m.sr.S THEN [from.m EXCEPT !.sr = StatusOf(from.value)] ELSE Crash(from.m)

executeMoveFromSr(d) == writeOrCrash(d.m, d.dst, d.size, WordOf(d.m.sr))

\* The registers of the mask, D0 .. D7 then A0 .. A7 as 0 .. 15.
Listed(i) == SelectSeq([n \in 1 .. 16 |-> n - 1], LAMBDA n : n \in i.list)

MovemToRegisters(m, i) ==
  LET at == getEffectiveAddress(m, i.ea, i.size)
      Copy(s, n) ==
        LET from == readSource(s.m, s.operand, i.size)
            v    == Cut(Signed(from.value, i.size), "long") IN
        [operand |-> from.operand,
         m |-> IF n < 8 THEN [from.m EXCEPT !.d[n] = v] ELSE [from.m EXCEPT !.a[n - 8] = v]]
  IN Ext!FoldLeft(Copy, [m |-> increasePc(at.m, 1), operand |-> at.operand], Listed(i)).m

MovemFromRegisters(m, i) ==
  LET at == getEffectiveAddress(m, i.ea, i.size)
      Copy(s, n) == writeDestNoFlags(s, at.operand, i.size, IF n < 8 THEN s.d[n] ELSE s.a[n - 8])
  IN Ext!FoldLeft(Copy, increasePc(at.m, 1), Ext!Reverse(Listed(i)))

\* Only the forms that save to the stack and restore from it.
executeMovem(m, i) ==
  CASE i.toRegisters  /\ i.ea.mode = "(An)+" -> MovemToRegisters(m, i)
    [] ~i.toRegisters /\ i.ea.mode = "-(An)" -> MovemFromRegisters(m, i)
    [] OTHER -> Crash(m)

executeLea(m, i) ==
  LET at == getEffectiveAddress(m, i.ea, "long") IN [at.m EXCEPT !.a[i.reg] = at.operand.address]

executePea(m, i) ==
  LET at == getEffectiveAddress(m, i.ea, "long") IN
  pushWord(pushWord(at.m, Cut(at.operand.address, "word")), at.operand.address \div Span("word"))

\* The return address of a subroutine.
Linked(m) ==
  LET top == Cut(m.a[7] - 4, "long") IN Store([m EXCEPT !.a[7] = top], top, "long", m.pc)

executeJmp(m, i) ==
  LET at == getEffectiveAddress(m, i.ea, "long") IN [at.m EXCEPT !.pc = align24(at.operand.address)]

executeJsr(m, i) ==
  LET at == getEffectiveAddress(m, i.ea, "long") IN
  [Linked(at.m) EXCEPT !.pc = align24(at.operand.address)]

executeRts(m) == [m EXCEPT !.pc = Load(m, m.a[7], "long"), !.a[7] = Cut(@ + 4, "long")]

executeRte(m) ==
  LET flags == pop(m)
      upper == pop(flags)
      sr    == StatusOf(Top(m))
      back  == [pop(upper) EXCEPT !.sr = sr,
                                  !.pc = align24(Top(flags) * Span("word") + Top(upper))] IN
  CASE ~m.sr.S -> Crash(m)
    [] m.sr.S /\ sr.S  -> back
    [] m.sr.S /\ ~sr.S -> [back EXCEPT !.ssp = back.a[7], !.a[7] = m.usp]

\* A displacement counts from behind the opcode, wherever it is kept.
decodeBranch(m, i) == IF i.wide THEN increasePc(m, 1) ELSE m
Branched(m, i) == [m EXCEPT !.pc = align24(@ + i.disp - (IF i.wide THEN 2 ELSE 0))]

executeBranch(m, i) ==
  LET next == decodeBranch(m, i) IN
  CASE i.op = "bra" -> Branched(next, i)
    [] i.op = "bsr" -> Branched(Linked(next), i)
    [] i.op = "bcc" -> IF checkCondition(i.condition, m.sr) THEN Branched(next, i) ELSE next

\* Faulty variant: the loop ends at zero, one turn early.
DbccToZero(m, i) ==
  LET next  == increasePc(m, 1)
      count == Cut(m.d[i.reg] - 1, "word")
      counted == [next EXCEPT !.d[i.reg] = @ - Cut(@, "word") + count] IN
  IF count = 0 THEN counted ELSE [counted EXCEPT !.pc = align24(@ + i.disp - 2)]

executeDbcc(m, i) ==
  LET next    == increasePc(m, 1)
      count   == Cut(m.d[i.reg] - 1, "word")
      counted == [next EXCEPT !.d[i.reg] = @ - Cut(@, "word") + count] IN
  CASE checkCondition(i.condition, m.sr) -> next
    [] ~checkCondition(i.condition, m.sr) /\ count = Span("word") - 1 -> counted
    [] OTHER -> [counted EXCEPT !.pc = align24(@ + i.disp - 2)]

\* The table of decoding rules: what each kind of instruction does.
execute(m, i) ==
  CASE i.op = "alu"   -> executeAlu(decodeAlu(m, i), i.function)
    [] i.op = "alui"  -> executeAlu(decodeAluImmediate(m, i), i.function)
    [] i.op = "addx"  -> executeAlu(Decoded(m, DataRegister(i.ea.xn), DataRegister(i.reg), i.size), "addx")
    [] i.op = "quick" -> executeAlu(decodeAddqSubq(m, i), i.function)
    [] i.op = "cmp"   -> executeCmp(decodeSource(m, i, DataRegister(i.reg)))
    [] i.op = "cmpa"  -> executeCmp(decodeSource(m, i, AddressRegister(i.reg)))
    [] i.op = "cmpi"  -> executeCmp(decodeAluImmediate(m, i))
    [] i.op = "adda"  -> executeAddaSuba(decodeSource(m, i, AddressRegister(i.reg)), i.function)
    [] i.op \in {"mulu", "muls"} -> IntoRegister(decodeSource(m, i, DataRegister(i.reg)), i.op)
    [] i.op = "divu"  -> divuOrCrash(decodeSource(m, i, DataRegister(i.reg)))
    [] i.op \in {"ext.w", "ext.l", "swap"} -> InPlace(m, i.ea.xn, i.op)
    [] i.op = "shift" -> shiftRegister(m, i)
    [] i.op = "bit"   -> executeBit(decodeBtst(m, i), i.function)
    [] i.op = "move"  -> executeMove(decodeMove(m, i))
    [] i.op = "moveq" -> executeMove(Decoded(m, Immediate(Cut(i.data, "long")), DataRegister(i.reg), "long"))
    [] i.op = "clr"   -> executeClr(decodeDest(m, i, NoOperand))
    [] i.op = "not"   -> executeNot(decodeDest(m, i, NoOperand))
    [] i.op = "neg"   -> executeNeg(decodeDest(m, i, NoOperand))
    [] i.op = "tst"   -> executeTst(decodeSource(m, i, NoOperand))
    [] i.op = "move to sr"   -> executeMoveToSr(decodeSource(m, i, NoOperand))
    [] i.op = "move from sr" -> executeMoveFromSr(decodeDest(m, i, NoOperand))
    [] i.op = "movem" -> executeMovem(m, i)
    [] i.op = "lea"   -> executeLea(m, i)
    [] i.op = "pea"   -> executePea(m, i)
    [] i.op = "jmp"   -> executeJmp(m, i)
    [] i.op = "jsr"   -> executeJsr(m, i)
    [] i.op = "rts"   -> executeRts(m)
    [] i.op = "rte"   -> executeRte(m)
    [] i.op = "dbcc"  -> executeDbcc(m, i)
    [] i.op \in {"bra", "bsr", "bcc"} -> executeBranch(m, i)
    [] OTHER -> Crash(m)   \* CMPM, DIVS, ROXL and ROXR of memory, anything unknown

-----------------------------------------------------------------------------
(* m68kClock.                                                              *)

\* An odd program counter stops the machine, as does code nobody wrote.
CrashIfOdd(m) == IF m.pc % 2 = 1 THEN Crash(m) ELSE m
Executed(m) ==
  CrashIfOdd(IF m.pc \in DOMAIN Code THEN execute(increasePc(m, 1), Code[m.pc]) ELSE Crash(m))

postReset(m) ==
  LET ssp == Load(m, 0, "long") IN
  [m EXCEPT !.ssp = ssp, !.a[7] = ssp, !.pc = Load(m, 4, "long"), !.sr.S = TRUE,
            !.resetState = FALSE]

\* Faulty variant: an interrupted user program's stack is used.
SameStack(m, level) ==
  LET pushed == pushWord(pushWord(pushWord(m, Cut(m.pc, "word")), m.pc \div Span("word")), WordOf(m.sr)) IN
  [pushed EXCEPT !.sr.S = TRUE, !.sr.level = level,
                 !.pc = align24(Load(pushed, 4 * (level + FirstVector), "long"))]

interrupted(m, level) ==
  LET onStack == IF m.sr.S THEN m
                 ELSE [m EXCEPT !.usp = m.a[7], !.sr.S = TRUE, !.a[7] = m.ssp]
      lower   == pushWord(onStack, Cut(m.pc, "word"))
      upper   == pushWord(lower, m.pc \div Span("word"))
      pushed  == pushWord(upper, WordOf(m.sr)) IN
  [pushed EXCEPT !.sr.level = level,
                 !.pc = align24(Load(pushed, 4 * (level + FirstVector), "long"))]

\* The frequency of the timer is not modelled: its bit may turn at any clock.
timerClock(m, bit) ==
  IF isTimerActive(m)
  THEN [m EXCEPT !.timerBit = bit, !.tick = @ \/ (bit /\ ~m.timerBit)]
  ELSE m

uartClock(m, arrives) == [m EXCEPT !.rx = @ \/ arrives]

\* The devices are clocked once the processor has left m.
busClock(m) ==
  \E bit \in BOOLEAN, arrives \in BOOLEAN :
    /\ bit => isTimerActive(m) /\ getTimerSetting(m) > 0
    /\ arrives => budget.characters > 0
    /\ LET rises == bit /\ ~m.timerBit IN
       /\ rises => budget.ticks > 0
       /\ budget.ticks = 0 /\ isTimerActive(m) => bit = m.timerBit
       /\ budget' = [budget EXCEPT !.ticks = @ - (IF rises THEN 1 ELSE 0),
                                   !.characters = @ - (IF arrives THEN 1 ELSE 0)]
    /\ machine' = timerClock(uartClock(m, arrives), bit)
    /\ UNCHANGED <<program, strayed>>

Running == ~machine.crashed /\ ~machine.resetState
Pending == busCheckInterrupt(machine) > machine.sr.level

PostReset ==
  /\ ~machine.crashed /\ machine.resetState
  /\ busClock(postReset(machine))
  /\ UNCHANGED frames

HandleInterrupt ==
  /\ Running /\ Pending
  /\ frames' = <<[d |-> machine.d, a |-> machine.a, pc |-> machine.pc, sr |-> machine.sr]>> \o frames
  /\ busClock(interrupted(machine, busCheckInterrupt(machine)))

Returns == machine.pc \in DOMAIN Code /\ Code[machine.pc].op = "rte" /\ frames # <<>>

ExecuteInstruction ==
  /\ Running /\ ~Pending
  /\ frames' = IF Returns THEN Tail(frames) ELSE frames
  /\ busClock(Executed(machine))

Clock == PostReset \/ HandleInterrupt \/ ExecuteInstruction

\* busReset, between two clocks.  The timer has no reset function, and the
\* interrupt mask stays as it is: what is then pending above it is taken before
\* the first instruction, with a vector of the overlaid ROM, which has none.
Reset ==
  /\ budget.resets > 0
  /\ budget' = [budget EXCEPT !.resets = @ - 1]
  /\ machine' = [machine EXCEPT !.crashed = FALSE, !.resetState = TRUE, !.pc = 0,
                                !.latch = [r \in 0 .. 7 |-> 0], !.ier = FALSE]
  /\ strayed' = Pending'
  /\ frames' = <<>>
  /\ UNCHANGED program

Init ==
  /\ frames = <<>> /\ strayed = FALSE
  /\ program \in DOMAIN Starts
  /\ \E s \in Starts[program] : machine = s.machine /\ budget = s.budget

Next == Clock \/ Reset

\* Nothing is left for the processor to do.
Settled == machine.crashed \/ (Running /\ ~Pending /\ Executed(machine) = machine)

\* The audio thread clocks the machine for as long as it has not crashed: the
\* clock goes on, or the program idles.  (It is weak fairness of Clock, but for
\* the devices: they need not do anything more.)
Spec == Init /\ [][Next]_vars /\ ([]<>Settled \/ []<><<Clock>>_vars)
=============================================================================
