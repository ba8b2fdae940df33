------------------------------ MODULE M68kAlu -------------------------------
(***************************************************************************)
(* The arithmetic of the emulated 68000 (src/m68k/alu.c, shift.c, clr.c,   *)
(* mulu.c, div.c, ext.c, swap.c, condition.c): what an operation makes of  *)
(* its operands and of the status register.                                *)
(*                                                                         *)
(* A byte has ByteBits bits, a word twice and a long four times as many.   *)
(* The status register is a record of its flags, of the interrupt mask     *)
(* (level) and of the supervisor bit; setFlag is EXCEPT.  A result is      *)
(* uint32_t in the code, so it is a long here, whatever the operand size:  *)
(* the caller cuts it down when it stores it.                              *)
(***************************************************************************)
EXTENDS Integers, Bitwise

CONSTANTS ByteBits, Levels   \* 8 bits, interrupt levels 1 .. 7

ASSUME AluAssumption == ByteBits \in Nat \ {0, 1} /\ Levels \in Nat

Sizes == {"byte", "word", "long"}
Bits(size) == CASE size = "byte" -> ByteBits
                [] size = "word" -> 2 * ByteBits
                [] size = "long" -> 4 * ByteBits
Span(size) == 2 ^ Bits(size)
Cut(v, size) == v % Span(size)
Negative(v, size) == 2 * Cut(v, size) >= Span(size)
Signed(v, size) == IF Negative(v, size) THEN Cut(v, size) - Span(size) ELSE Cut(v, size)
Longs == 0 .. Span("long") - 1

StatusRegisters ==
  [C : BOOLEAN, V : BOOLEAN, Z : BOOLEAN, N : BOOLEAN, X : BOOLEAN, level : 0 .. Levels, S : BOOLEAN]

setNZ(sr, v, size) == [sr EXCEPT !.N = Negative(v, size), !.Z = Cut(v, size) = 0]
ClearCV(sr) == [sr EXCEPT !.C = FALSE, !.V = FALSE]
Result(v, sr) == [value |-> v % Span("long"), sr |-> sr]

-----------------------------------------------------------------------------
(* Addition: src + dst, the operands cut to the size.                      *)

setAddFlags(sr, sum, size) ==
  LET carry == sum # Cut(sum, size) IN [sr EXCEPT !.C = carry, !.X = carry]

setOverflow(sr, a, b, sum, size) ==
  [sr EXCEPT !.V = /\ Negative(a, size) = Negative(b, size)
                   /\ Negative(a, size) # Negative(sum, size)]

Sum(a, b, x, size, sr) ==
  LET sum == Cut(a, size) + Cut(b, size) + x IN
  Result(sum, setOverflow(setAddFlags(sr, sum, size), a, b, sum, size))

aluAdd(a, b, size, sr) == Sum(a, b, 0, size, sr)

\* Faulty variant: the carry of the lower half is forgotten.
AddxNoCarryIn(a, b, size, sr) == Sum(a, b, 0, size, sr)
aluAddx(a, b, size, sr) == Sum(a, b, IF sr.X THEN 1 ELSE 0, size, sr)

\* dst - src; a borrow shows as a difference below zero.
aluSub(a, b, size, sr) ==
  LET difference == Cut(b, size) - Cut(a, size)
      borrow     == difference < 0 IN
  Result(difference,
         [setNZ(sr, difference, size) EXCEPT
            !.C = borrow, !.X = borrow,
            !.V = /\ Negative(b, size) # Negative(a, size)
                  /\ Negative(difference, size) # Negative(b, size)])

aluAnd(a, b, size, sr) == Result(a & b, ClearCV(sr))
aluOr(a, b, size, sr)  == Result(a | b, ClearCV(sr))
aluEor(a, b, size, sr) == Result(a ^^ b, ClearCV(sr))

Alu(function, a, b, size, sr) ==
  CASE function = "add"  -> aluAdd(a, b, size, sr)
    [] function = "addx" -> aluAddx(a, b, size, sr)
    [] function = "sub"  -> aluSub(a, b, size, sr)
    [] function = "and"  -> aluAnd(a, b, size, sr)
    [] function = "or"   -> aluOr(a, b, size, sr)
    [] function = "eor"  -> aluEor(a, b, size, sr)

-----------------------------------------------------------------------------
(* Multiplication and division of a register by a word.                    *)

executeMulu(register, src, sr) ==
  LET product == Cut(register, "word") * Cut(src, "word") IN
  Result(product, ClearCV(setNZ(sr, product, "long")))

executeMuls(register, src, sr) ==
  LET product == Signed(register, "word") * Signed(src, "word") IN
  Result(product, ClearCV(setNZ(sr, product, "long")))

\* The divisor is not 0.  A quotient that does not fit leaves the register.
executeDivu(register, src, sr) ==
  LET divisor   == Cut(src, "word")
      quotient  == register \div divisor
      remainder == register % divisor
      cleared   == [ClearCV(sr) EXCEPT !.N = FALSE, !.Z = FALSE] IN
  IF quotient # Cut(quotient, "word")
  THEN Result(register, [cleared EXCEPT !.V = TRUE])
  ELSE Result(remainder * Span("word") + quotient, setNZ(cleared, quotient, "word"))

-----------------------------------------------------------------------------
(* Operations with one operand.                                            *)

\* EXT.W sets Z from the whole register, upper half included.
executeExtw(register, sr) ==
  LET extended == register - Cut(register, "word") + Cut(Signed(register, "byte"), "word") IN
  Result(extended,
         ClearCV([sr EXCEPT !.Z = extended = 0, !.N = Negative(extended, "word")]))

executeExtl(register, sr) ==
  LET extended == Cut(Signed(register, "word"), "long") IN
  Result(extended, ClearCV(setNZ(sr, extended, "long")))

executeSwap(register, sr) ==
  LET swapped == Cut(register, "word") * Span("word") + register \div Span("word") IN
  Result(swapped, ClearCV(setNZ(sr, swapped, "long")))

execNot(v) == Span("long") - 1 - v

execNeg(v, size) == Cut(-v, size)

execTst(v, size, sr) == ClearCV(setNZ(sr, v, size))

-----------------------------------------------------------------------------
(* The sixteen conditions of a branch.                                     *)

\* Faulty variant: less than is told by the sign of the difference alone.
LessBySign(condition, sr) ==
  CASE condition = "LT" -> sr.N
    [] condition = "LE" -> sr.Z \/ sr.N
    [] condition = "EQ" -> sr.Z
    [] condition \in {"HI", "GT", "GE"} -> ~sr.Z /\ ~sr.N
    [] OTHER -> FALSE

checkCondition(condition, sr) ==
  CASE condition = "T"  -> TRUE
    [] condition = "F"  -> FALSE
    [] condition = "HI" -> ~sr.C /\ ~sr.Z
    [] condition = "LS" -> sr.C \/ sr.Z
    [] condition = "CC" -> ~sr.C
    [] condition = "CS" -> sr.C
    [] condition = "NE" -> ~sr.Z
    [] condition = "EQ" -> sr.Z
    [] condition = "VC" -> ~sr.V
    [] condition = "VS" -> sr.V
    [] condition = "PL" -> ~sr.N
    [] condition = "MI" -> sr.N
    [] condition = "GE" -> sr.N = sr.V
    [] condition = "LT" -> sr.N # sr.V
    [] condition = "GT" -> ~sr.Z /\ sr.N = sr.V
    [] condition = "LE" -> sr.Z \/ sr.N # sr.V
=============================================================================
