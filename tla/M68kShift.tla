----------------------------- MODULE M68kShift ------------------------------
(***************************************************************************)
(* The shifts and rotations of the emulated 68000 (src/m68k/shift.c).      *)
(* Each takes a value cut to its size and a count, and returns the value   *)
(* and the status register.  The loops of the arithmetic shifts and of the *)
(* rotations through X go one place a turn, as in the code; the others     *)
(* are computed at once.                                                   *)
(***************************************************************************)
EXTENDS M68kAlu

TopBit(size) == Span(size) \div 2

\* After count turns of step, from first.
Iterate(step(_), first, count) ==
  LET turn[i \in 0 .. count] == IF i = 0 THEN first ELSE step(turn[i - 1]) IN turn[count]

arithmeticShiftLeft(v, count, size, sr) ==
  LET Turn(s) == LET shifted == Cut(2 * s.v, size) IN
                 [v |-> shifted, carry |-> Negative(s.v, size),
                  overflow |-> s.overflow \/ Negative(s.v, size) # Negative(shifted, size)]
      last == Iterate(Turn, [v |-> v, carry |-> FALSE, overflow |-> FALSE], count) IN
  Result(last.v, [sr EXCEPT !.C = last.carry, !.X = last.carry, !.V = last.overflow])

\* The sign is the bit below the top once the value has moved.
arithmeticShiftRight(v, count, size, sr) ==
  LET Turn(s) == LET shifted == s.v \div 2 IN
                 [v |-> IF 2 * shifted >= TopBit(size) THEN shifted + TopBit(size) ELSE shifted,
                  carry |-> s.v % 2 = 1]
      last == Iterate(Turn, [v |-> v, carry |-> FALSE], count) IN
  Result(last.v, [sr EXCEPT !.C = last.carry, !.X = last.carry, !.V = FALSE])

shiftLeft(v, count, size, sr) ==
  LET bits  == Bits(size)
      carry == CASE count < bits -> (v \div 2 ^ (bits - count)) % 2 = 1
                 [] count = bits -> v % 2 = 1
                 [] OTHER        -> FALSE IN
  Result(IF count < bits THEN Cut(v * 2 ^ count, size) ELSE 0,
         [sr EXCEPT !.C = carry, !.X = carry, !.V = FALSE])

\* Faulty variant: a shift by the whole width is taken for a longer one.
ShiftRightFullWidth(v, count, size, sr) ==
  LET bits  == Bits(size)
      carry == count < bits /\ (v \div 2 ^ (count - 1)) % 2 = 1 IN
  Result(IF count < bits THEN v \div 2 ^ count ELSE 0,
         [sr EXCEPT !.C = carry, !.X = carry, !.V = FALSE])

shiftRight(v, count, size, sr) ==
  LET bits  == Bits(size)
      carry == CASE count < bits -> (v \div 2 ^ (count - 1)) % 2 = 1
                 [] count = bits -> Negative(v, size)
                 [] OTHER        -> FALSE IN
  Result(IF count < bits THEN v \div 2 ^ count ELSE 0,
         [sr EXCEPT !.C = carry, !.X = carry, !.V = FALSE])

rotateExtendRight(v, count, size, sr) ==
  LET Turn(s) == [v |-> s.v \div 2 + (IF s.x THEN TopBit(size) ELSE 0), x |-> s.v % 2 = 1]
      last == Iterate(Turn, [v |-> v, x |-> sr.X], count) IN
  Result(last.v, [sr EXCEPT !.X = last.x, !.C = last.x, !.V = FALSE])

rotateExtendLeft(v, count, size, sr) ==
  LET Turn(s) == [v |-> Cut(2 * s.v, size) + (IF s.x THEN 1 ELSE 0), x |-> Negative(s.v, size)]
      last == Iterate(Turn, [v |-> v, x |-> sr.X], count) IN
  Result(last.v, [sr EXCEPT !.X = last.x, !.C = last.x, !.V = FALSE])

rotateLeft(v, count, size, sr) ==
  LET rotated == Cut(v * 2 ^ count, size) + v \div 2 ^ (Bits(size) - count) IN
  Result(rotated, [sr EXCEPT !.C = rotated % 2 = 1, !.V = FALSE])

rotateRight(v, count, size, sr) ==
  LET rotated == v \div 2 ^ count + Cut(v * 2 ^ (Bits(size) - count), size) IN
  Result(rotated, [sr EXCEPT !.C = Negative(rotated, size), !.V = FALSE])

\* A rotation by no place or by full turns leaves C and V as they are.
rotate(function, v, count, size, sr) ==
  LET places == count % Bits(size) IN
  CASE places = 0       -> Result(v, sr)
    [] function = "rol" -> rotateLeft(v, places, size, sr)
    [] OTHER            -> rotateRight(v, places, size, sr)

executeShift(function, v, count, size, sr) ==
  CASE count = 0         -> Result(v, [sr EXCEPT !.C = function \in {"roxr", "roxl"} /\ sr.X])
    [] function = "asl"  -> arithmeticShiftLeft(v, count, size, sr)
    [] function = "asr"  -> arithmeticShiftRight(v, count, size, sr)
    [] function = "lsl"  -> shiftLeft(v, count, size, sr)
    [] function = "lsr"  -> shiftRight(v, count, size, sr)
    [] function = "roxl" -> rotateExtendLeft(v, count, size, sr)
    [] function = "roxr" -> rotateExtendRight(v, count, size, sr)

Shift(function, v, count, size, sr) ==
  IF function \in {"rol", "ror"} THEN rotate(function, v, count, size, sr)
                                 ELSE executeShift(function, v, count, size, sr)
=============================================================================
