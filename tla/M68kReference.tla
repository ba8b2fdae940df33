--------------------------- MODULE M68kReference ----------------------------
(***************************************************************************)
(* What programs rely on when they run on the emulated 68000, said of      *)
(* integers and not of flags: the properties of the processor.             *)
(*                                                                         *)
(* Expected gives, for a program that runs to an end, the address of its   *)
(* last instruction and the registers and memory it must leave.            *)
(***************************************************************************)
EXTENDS M68k

CONSTANT Expected

Instruction == Code[machine.pc]
Executing(ops) == /\ Running /\ ~Pending
                  /\ machine.pc \in DOMAIN Code /\ Instruction.op \in ops

Number(truth) == IF truth THEN 1 ELSE 0
FitsSigned(v, size) == -(Span(size) \div 2) <= v /\ v < Span(size) \div 2
Bit(v, n) == (v \div (2 ^ n)) % 2

\* What is left of the register when its lower part becomes v.
LowerPart(register, v, size) == (register \div Span(size)) * Span(size) + v

\* Flags of a result v: carry and overflow as told, N and Z by v.
Flags(sr, carry, overflow, v, size) ==
  [sr EXCEPT !.C = carry, !.V = overflow, !.N = v >= Span(size) \div 2, !.Z = v = 0]

-----------------------------------------------------------------------------
(* Arithmetic.                                                             *)

\* The register and the flags that adding or subtracting must leave; the
\* carry in is that of ADDX.
AddOrSubtract(a, b, carryIn, sign, size, sr) ==
  LET ua == a % Span(size)
      ub == b % Span(size)
      whole  == ub + sign * (ua + carryIn)
      signed == Signed(ub, size) + sign * (Signed(ua, size) + carryIn)
      carry  == whole \notin 0 .. Span(size) - 1
      v      == whole % Span(size) IN
  [value |-> LowerPart(b, v, size),
   sr    |-> [Flags(sr, carry, ~FitsSigned(signed, size), v, size) EXCEPT !.X = carry]]

Bitwise2(Op(_, _), a, b, size, sr) ==
  LET digit[n \in 0 .. Bits(size)] ==
        IF n = 0 THEN 0 ELSE digit[n - 1] + (2 ^ (n - 1)) * Op(Bit(a, n - 1), Bit(b, n - 1)) IN
  [value |-> LowerPart(b, digit[Bits(size)], size),
   sr    |-> Flags(sr, FALSE, FALSE, digit[Bits(size)], size)]

Product(a, b, signed, sr) ==
  LET Factor(v) == IF signed THEN Signed(v, "word") ELSE v % Span("word")
      v == (Factor(a) * Factor(b)) % Span("long") IN
  [value |-> v, sr |-> Flags(sr, FALSE, FALSE, v, "long")]

\* before, after: machines; a and b what the two registers held.
RightSum(i, before, after) ==
  LET a == before.d[i.ea.xn]
      b == before.d[i.reg]
      sr == before.sr
      sum == AddOrSubtract(a, b, IF i.op = "addx" THEN Number(sr.X) ELSE 0,
                           IF i.op = "cmp" \/ i.function = "sub" THEN -1 ELSE 1, i.size, sr)
      wanted ==
        CASE i.op = "addx" -> [sum EXCEPT !.sr.Z = @ /\ sr.Z]
          [] i.op = "cmp"  -> [value |-> b, sr |-> [sum.sr EXCEPT !.X = sr.X]]
          [] i.op = "mulu" -> Product(a, b, FALSE, sr)
          [] i.op = "muls" -> Product(a, b, TRUE, sr)
          [] i.op = "alu" /\ i.function = "and" -> Bitwise2(LAMBDA x, y : x * y, a, b, i.size, sr)
          [] i.op = "alu" /\ i.function = "or"  -> Bitwise2(LAMBDA x, y : x + y - x * y, a, b, i.size, sr)
          [] i.op = "alu" /\ i.function = "eor" -> Bitwise2(LAMBDA x, y : (x + y) % 2, a, b, i.size, sr)
          [] OTHER -> sum
  IN after.d[i.reg] = wanted.value /\ after.sr = wanted.sr

\* A quotient that fits, or the register as it was and V.
RightQuotient(i, before, after) ==
  LET divisor  == before.d[i.ea.xn] % Span("word")
      dividend == before.d[i.reg]
      quotient == after.d[i.reg] % Span("word")
      remains  == after.d[i.reg] \div Span("word") IN
  IF dividend >= divisor * Span("word")
  THEN after.d[i.reg] = dividend /\ after.sr.V
  ELSE /\ dividend = quotient * divisor + remains
       /\ remains < divisor
       /\ after.sr = Flags(before.sr, FALSE, FALSE, quotient, "word")

\* Additions, subtractions, comparisons, logic, products and quotients of two
\* data registers are those of the integers the registers stand for, unsigned
\* in C and X, signed in V, for every carry that comes in (alu.c, mulu.c,
\* div.c); the rest of the destination register and the other registers keep
\* what they had.
ArithmeticIsRight ==
  [][Executing({"alu", "addx", "cmp", "mulu", "muls", "divu"}) /\ ExecuteInstruction
       => LET i == Instruction IN
          i.ea.mode = "Dn" /\ i.ea.xn # i.reg =>
            /\ IF i.op = "divu" THEN RightQuotient(i, machine, machine')
                                ELSE RightSum(i, machine, machine')
            /\ \A r \in 0 .. 7 \ {i.reg} : machine'.d[r] = machine.d[r]]_vars

-----------------------------------------------------------------------------
(* Shifts.                                                                 *)

\* count places, one at a time; c is the bit that left last.
OnePlaceAtATime(function, v, count, size) ==
  LET top == Span(size) \div 2
      place[n \in 0 .. count] ==
        IF n = 0 THEN [v |-> v, c |-> 0]
        ELSE LET u == place[n - 1].v IN
             CASE function = "lsl" -> [v |-> (2 * u) % Span(size), c |-> u \div top]
               [] function = "lsr" -> [v |-> u \div 2, c |-> u % 2]
               [] function = "rol" -> [v |-> ((2 * u) % Span(size)) + (u \div top), c |-> u \div top]
               [] function = "ror" -> [v |-> (u \div 2) + top * (u % 2), c |-> u % 2]
  IN place[count]

ByPlaces(function, v, count, size, sr) ==
  LET last == OnePlaceAtATime(function, v, count, size)
      out  == Flags(sr, last.c = 1, FALSE, last.v, size) IN
  [value |-> last.v, sr |-> IF function \in {"lsl", "lsr"} THEN [out EXCEPT !.X = last.c = 1] ELSE out]

\* Multiplication by a power of two; V when the product is no signed number.
ByDoubling(v, count, size, sr) ==
  LET bits   == Bits(size)
      result == IF count < bits THEN (v * 2 ^ count) % Span(size) ELSE 0
      carry  == count <= bits /\ Bit(v, bits - count) = 1
      wide   == IF count < bits THEN ~FitsSigned(Signed(v, size) * 2 ^ count, size) ELSE v # 0 IN
  [value |-> result, sr |-> [Flags(sr, carry, wide, result, size) EXCEPT !.X = carry]]

\* Division by a power of two, rounded down.
ByHalving(v, count, size, sr) ==
  LET places == IF count < Bits(size) THEN count ELSE Bits(size)
      result == (Signed(v, size) \div (2 ^ places)) % Span(size)
      carry  == (Signed(v, size) \div (2 ^ (places - 1))) % 2 = 1 IN
  [value |-> result, sr |-> [Flags(sr, carry, FALSE, result, size) EXCEPT !.X = carry]]

\* A rotation of one bit more than the size: X is the top one.
ThroughX(function, v, count, size, sr) ==
  LET ring  == 2 * Span(size)
      turns == count % (Bits(size) + 1)
      left  == IF function = "roxl" THEN turns ELSE (Bits(size) + 1 - turns) % (Bits(size) + 1)
      \* One place at a time: a long shifted by all its bits is too wide for TLC.
      place[n \in 0 .. left] ==
        IF n = 0 THEN v + Span(size) * Number(sr.X)
        ELSE ((2 * place[n - 1]) % ring) + ((2 * place[n - 1]) \div ring)
      result == place[left] % Span(size)
      x      == place[left] >= Span(size) IN
  [value |-> result, sr |-> [Flags(sr, x, FALSE, result, size) EXCEPT !.X = x]]

RightShift(i, before, after) ==
  LET register == before.d[i.ea.xn]
      v        == register % Span(i.size)
      count    == IF i.immediate THEN IF i.data = 0 THEN 8 ELSE i.data
                  ELSE before.d[i.reg] % (2 * Bits("long"))
      stays    == Flags(before.sr, i.function \in {"roxl", "roxr"} /\ before.sr.X,
                        before.sr.V, v, i.size)
      wanted   ==
        CASE count = 0 -> [value |-> v, sr |-> stays]
          [] count # 0 /\ i.function = "asl" -> ByDoubling(v, count, i.size, before.sr)
          [] count # 0 /\ i.function = "asr" -> ByHalving(v, count, i.size, before.sr)
          [] count # 0 /\ i.function \in {"roxl", "roxr"} -> ThroughX(i.function, v, count, i.size, before.sr)
          [] OTHER -> ByPlaces(i.function, v, count, i.size, before.sr)
  IN \/ i.function \in {"rol", "ror"} /\ count % Bits(i.size) = 0
     \/ /\ after.d[i.ea.xn] = LowerPart(register, wanted.value, i.size)
        /\ after.sr = wanted.sr

\* Every shift and rotation, for every count a register can hold, below, at
\* and beyond the width: the logical ones and the rotations move the bits one
\* place as many times, the arithmetic ones multiply and divide by a power of
\* two, those through X rotate one bit more (shift.c).  Apart: a rotation by no
\* place or by full turns, where the code keeps C (a 68000 sets it), and V at
\* a shift by no place.
ShiftsAreRight ==
  [][Executing({"shift"}) /\ ExecuteInstruction => RightShift(Instruction, machine, machine')]_vars

-----------------------------------------------------------------------------
(* Branches.                                                               *)

\* What each condition says of two numbers that were compared, b with a.
Holds(condition, a, b, size) ==
  LET ua == a % Span(size)
      ub == b % Span(size)
      sa == Signed(a, size)
      sb == Signed(b, size) IN
  CASE condition = "HI" -> ub > ua
    [] condition = "LS" -> ub <= ua
    [] condition = "CC" -> ub >= ua
    [] condition = "CS" -> ub < ua
    [] condition = "NE" -> ub # ua
    [] condition = "EQ" -> ub = ua
    [] condition = "VC" -> FitsSigned(sb - sa, size)
    [] condition = "VS" -> ~FitsSigned(sb - sa, size)
    [] condition = "PL" -> (ub - ua) % Span(size) < Span(size) \div 2
    [] condition = "MI" -> (ub - ua) % Span(size) >= Span(size) \div 2
    [] condition = "GE" -> sb >= sa
    [] condition = "LT" -> sb < sa
    [] condition = "GT" -> sb > sa
    [] condition = "LE" -> sb <= sa

\* A branch behind a comparison of two data registers is taken exactly when
\* the relation its condition names holds of what the registers hold, also
\* when interrupts came between the two (alu.c executeCmp, condition.c,
\* branch.c, m68k.c handleInterrupt and rte.c).
BranchesCompare ==
  [][Executing({"bcc"}) /\ ExecuteInstruction
       => LET compared == machine.pc - 2 IN
          compared \in DOMAIN Code /\ Code[compared].op = "cmp" =>
            LET i == Code[compared]
                taken == Holds(Instruction.condition, machine.d[i.ea.xn], machine.d[i.reg], i.size) IN
            machine'.pc = machine.pc + 2 + (IF taken THEN Instruction.disp
                                            ELSE IF Instruction.wide THEN 2 ELSE 0)]_vars

-----------------------------------------------------------------------------
(* Interrupts.                                                             *)

\* An interrupt handler that saves what it uses is invisible: RTE gives the
\* interrupted program its registers, stack pointer, flags, mask and mode
\* back, whatever was interrupted and however deep (handleInterrupt, rte.c,
\* movem.c).
HandlersAreTransparent ==
  [][Running /\ ~Pending /\ Returns /\ ExecuteInstruction
       => LET saved == Head(frames) IN
          /\ machine'.d = saved.d /\ machine'.a = saved.a
          /\ machine'.pc = saved.pc /\ machine'.sr = saved.sr]_vars

\* A program that runs to its end leaves the registers and the memory it must,
\* wherever it was interrupted and reset; and nothing on the way stops the
\* machine, but for a reset that leaves an interrupt above the mask (m68kReset):
\* from that the next reset recovers.
OutcomeIsRight ==
  /\ machine.crashed => strayed
  /\ program \in DOMAIN Expected /\ frames = <<>> /\ Running =>
       LET e == Expected[program] IN
       machine.pc = e.pc =>
         /\ \A r \in DOMAIN e.d : machine.d[r] = e.d[r]
         /\ \A r \in DOMAIN e.a : machine.a[r] = e.a[r]
         /\ \A b \in DOMAIN e.ram : machine.ram[b] = e.ram[b]

\* Every tick of the timer is acknowledged by its handler in the end: the
\* interrupt is taken once the mask and the UART allow it, also when a reset
\* came between, unless it came with the tick above the mask
\* (busCheckInterrupt, m68kClock, timer.c).
TicksAreServed == machine.tick ~> (~machine.tick \/ strayed)
=============================================================================
