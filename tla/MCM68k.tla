------------------------------ MODULE MCM68k --------------------------------
\* A processor of 4, 8 and 16 bits: single instructions over their operands,
\* and a program that boots, serves interrupts and computes.
EXTENDS M68kReference, TLC

RomBase == 15 * 256
MCRom == [byte \in 0 .. 7 |-> CASE byte = 2 -> 4 [] byte = 5 -> 15 [] byte = 6 -> 1 [] OTHER -> 0]

-----------------------------------------------------------------------------
(* Instructions.                                                           *)

Ea(mode, xn, ext) == [mode |-> mode, xn |-> xn, ext |-> ext]
D(n)          == Ea("Dn", n, 0)
A(n)          == Ea("An", n, 0)
To(address)   == Ea("abs.L", 0, address)
Literal(v)    == Ea("#", 0, v)

Op(op) ==
  [op |-> op, function |-> "", size |-> "word", ea |-> D(0), to |-> D(0), reg |-> 0, data |-> 0,
   toEa |-> FALSE, immediate |-> FALSE, condition |-> "", disp |-> 0, wide |-> FALSE,
   list |-> {}, toRegisters |-> FALSE]

Move(size, from, to) == [Op("move") EXCEPT !.size = size, !.ea = from, !.to = to]
On(op, size, ea)     == [Op(op) EXCEPT !.size = size, !.ea = ea]
Into(op, ea, reg)    == [Op(op) EXCEPT !.ea = ea, !.reg = reg]
Branch(op, disp)     == [Op(op) EXCEPT !.disp = disp]
If(condition, disp)  == [Branch("bcc", disp) EXCEPT !.condition = condition]
Save(list)           == [Op("movem") EXCEPT !.size = "long", !.ea = Ea("-(An)", 7, 0), !.list = list]
Restore(list)        == [Save(list) EXCEPT !.ea = Ea("(An)+", 7, 0), !.toRegisters = TRUE]
BitOp(function, n, ea) ==
  [On("bit", "byte", ea) EXCEPT !.function = function, !.immediate = TRUE, !.data = n]
Idle == Branch("bra", -2)

-----------------------------------------------------------------------------
(* Single instructions, then idle: D0 is the source, D1 the destination.   *)

First == RomBase + 16
Alone(i) == First :> i @@ (First + 2) :> Idle

Functions == {"add", "sub", "and", "or", "eor"}
Shifts == {"asl", "asr", "lsl", "lsr", "rol", "ror", "roxl", "roxr"}
Conditions == {"HI", "LS", "CC", "CS", "NE", "EQ", "VC", "VS", "PL", "MI", "GE", "LT", "GT", "LE"}
Words == {"mulu", "muls", "divu"}

Calculations ==
  [key \in {<<"alu", f, s>> : f \in Functions, s \in Sizes} \cup {<<"op", o, s>> : o \in {"addx", "cmp"}, s \in Sizes}
             \cup {<<"op", o, "word">> : o \in Words} |->
     Alone([Op(IF key[1] = "alu" THEN "alu" ELSE key[2]) EXCEPT
              !.function = key[2], !.size = key[3], !.reg = 1])]

\* The count in D0, or the immediate one of the name.
Counts == "D0" :> 0 @@ "#1" :> 1 @@ "#7" :> 7 @@ "#8" :> 0
Shiftings ==
  [key \in {<<"shift", f, s, c>> : f \in Shifts, s \in Sizes, c \in DOMAIN Counts} |->
     Alone([Op("shift") EXCEPT !.function = key[2], !.size = key[3], !.ea = D(1),
                               !.immediate = key[4] # "D0", !.data = Counts[key[4]]])]

Comparisons ==
  [key \in {<<"branch", c, s>> : c \in Conditions, s \in {"byte", "word"}} |->
     First :> [Op("cmp") EXCEPT !.size = key[3], !.reg = 1]
     @@ (First + 2) :> If(key[2], 2) @@ (First + 4) :> Idle @@ (First + 6) :> Idle]

-----------------------------------------------------------------------------
(* The program that boots: as bios.asm and blinker.asm do, it turns the    *)
(* overlay off, masks interrupts, sets the vectors, starts the timer, lets *)
(* interrupts in and goes to work.                                         *)

Work == RomBase + 76
TimerISR == RomBase + 192
UartISR == RomBase + 220
Last == Work + 88
Masked == WordOf([C |-> FALSE, V |-> FALSE, Z |-> FALSE, N |-> FALSE, X |-> FALSE, level |-> 3, S |-> TRUE])

Boot(supervisor) ==
  First :> Move("byte", Literal(2), To(13 * 256 + 9))
  @@ (First + 8)  :> On("move to sr", "word", Literal(Masked))
  @@ (First + 12) :> Move("long", Literal(TimerISR), To(4 * (1 + FirstVector)))
  @@ (First + 22) :> Move("long", Literal(UartISR), To(4 * (2 + FirstVector)))
  @@ (First + 32) :> Move("byte", Literal(1), To(13 * 256 + 7))
  @@ (First + 40) :> Move("byte", Literal(1), To(13 * 256 + 5))
  @@ (First + 48) :> Move("byte", Literal(1), To(11 * 256 + 3))
  @@ (First + 56) :> On("move to sr", "word", Literal(IF supervisor THEN 128 ELSE 0))

\* The timer's handler counts ticks, the UART's takes the character.
Handlers ==
  TimerISR        :> Save({0, 8})
  @@ (TimerISR + 4)  :> Into("lea", Ea("abs.W", 0, 24), 0)
  @@ (TimerISR + 8)  :> Move("byte", Ea("(An)", 0, 0), D(0))
  @@ (TimerISR + 10) :> [On("quick", "byte", D(0)) EXCEPT !.function = "add", !.data = 1]
  @@ (TimerISR + 12) :> Move("byte", D(0), Ea("(An)", 0, 0))
  @@ (TimerISR + 14) :> On("tst", "byte", To(10 * 256 + 1))
  @@ (TimerISR + 20) :> Restore({0, 8})
  @@ (TimerISR + 24) :> Op("rte")
  @@ UartISR        :> Save({1, 9})
  @@ (UartISR + 4)  :> Into("lea", To(11 * 256), 1)
  @@ (UartISR + 10) :> Move("byte", Ea("d(An)", 1, 1), D(1))
  @@ (UartISR + 14) :> Restore({1, 9})
  @@ (UartISR + 18) :> Op("rte")

\* Three numbers are stored, two of them added by a subroutine; and so on.
Job(stack) ==
  Work        :> Into("lea", Ea("abs.W", 0, stack), 7)
  @@ (Work + 4)  :> Into("lea", Ea("abs.W", 0, 16), 0)
  @@ (Work + 8)  :> [Op("moveq") EXCEPT !.reg = 2, !.data = 2]
  @@ (Work + 10) :> On("clr", "word", D(3))
  @@ (Work + 12) :> [On("quick", "word", D(3)) EXCEPT !.function = "add", !.data = 3]
  @@ (Work + 14) :> Move("word", D(3), Ea("(An)+", 0, 0))
  @@ (Work + 16) :> [Branch("dbcc", -6) EXCEPT !.condition = "F", !.reg = 2]
  @@ (Work + 20) :> Branch("bsr", 74)
  @@ (Work + 22) :> Into("cmp", D(4), 3)
  @@ (Work + 24) :> If("GT", 22)
  @@ (Work + 26) :> On("pea", "long", Ea("d(An)", 0, 4))
  @@ (Work + 30) :> Move("long", Ea("(An)+", 7, 0), D(5))
  @@ (Work + 32) :> BitOp("bset", 2, D(5))
  @@ (Work + 36) :> BitOp("bclr", 3, D(5))
  @@ (Work + 40) :> BitOp("btst", 0, D(5))
  @@ (Work + 44) :> [If("EQ", 4) EXCEPT !.wide = TRUE]
  @@ (Work + 50) :> On("swap", "long", D(3))
  @@ (Work + 52) :> Into("lea", Ea("d(PC)", 0, 6), 1)
  @@ (Work + 56) :> On("jmp", "long", Ea("(An)", 1, 0))
  @@ (Work + 60) :> Move("word", Ea("d(An,Xn)", 0, [disp |-> -2, file |-> "d", reg |-> 6, long |-> FALSE]), D(7))
  @@ (Work + 64) :> On("jsr", "long", To(Work + 104))
  @@ (Work + 70) :> On("neg", "byte", D(7))
  @@ (Work + 72) :> On("ext.w", "word", D(7))
  @@ (Work + 74) :> On("not", "word", D(7))
  @@ (Work + 76) :> Into("mulu", D(4), 7)
  @@ (Work + 78) :> Into("divu", Literal(4), 7)
  @@ (Work + 82) :> On("move from sr", "word", D(1))
  @@ (Work + 84) :> [Into("adda", D(4), 0) EXCEPT !.function = "add"]
  @@ (Work + 86) :> On("tst", "word", D(7))
  @@ Last        :> Idle
  @@ (Work + 96)  :> Move("word", Ea("-(An)", 0, 0), D(4))
  @@ (Work + 98)  :> [Into("alu", Ea("d(An)", 0, -2), 4) EXCEPT !.function = "add"]
  @@ (Work + 102) :> Op("rts")
  @@ (Work + 104) :> [On("alui", "byte", D(6)) EXCEPT !.function = "or", !.data = 1]
  @@ (Work + 108) :> Op("rts")

\* Too short to be of use: for the runs with a reset.
ShortJob ==
  Work :> [Op("moveq") EXCEPT !.reg = 2, !.data = 1]
  @@ (Work + 2) :> [Branch("dbcc", -2) EXCEPT !.condition = "F", !.reg = 2]
  @@ (Work + 6) :> Idle

Boots == <<"boot", "supervisor">> :> (Boot(TRUE) @@ Handlers @@ Job(64))
         @@ <<"boot", "user">> :> (Boot(FALSE) @@ Handlers @@ Job(36))
         @@ <<"boot", "reset">> :> (Boot(TRUE) @@ Handlers @@ ShortJob)

MCPrograms == Calculations @@ Shiftings @@ Comparisons @@ Boots

Outcome(stack) ==
  [pc |-> Last,
   d |-> 2 :> 255 @@ 3 :> 9 * 256 @@ 4 :> 15 @@ 5 :> 20 @@ 6 :> 1 @@ 7 :> 3 * 256 + 18,
   a |-> 0 :> 35 @@ 1 :> Work + 60 @@ 7 :> stack,
   ram |-> 16 :> 0 @@ 17 :> 3 @@ 18 :> 0 @@ 19 :> 6 @@ 20 :> 0 @@ 21 :> 9]
MCExpected == <<"boot", "supervisor">> :> Outcome(64) @@ <<"boot", "user">> :> Outcome(36)
              @@ <<"boot", "reset">> :>
                   [pc |-> Work + 6, d |-> 2 :> 255, a |-> 7 :> 64,
                    ram |-> 8 :> 0 @@ 9 :> TimerISR \div 256 @@ 10 :> (TimerISR \div 16) % 16 @@ 11 :> TimerISR % 16]

-----------------------------------------------------------------------------
(* Where the runs start.                                                   *)

PowerOn ==
  [d |-> [r \in 0 .. 7 |-> 0], a |-> [r \in 0 .. 7 |-> 0], pc |-> 0, usp |-> 0, ssp |-> 0,
   sr |-> [C |-> FALSE, V |-> FALSE, Z |-> FALSE, N |-> FALSE, X |-> FALSE, level |-> 0, S |-> FALSE],
   ram |-> [b \in 0 .. RamSize - 1 |-> 0], latch |-> [r \in 0 .. 7 |-> 0],
   timerBit |-> FALSE, tick |-> FALSE, rx |-> FALSE, ier |-> FALSE,
   crashed |-> FALSE, resetState |-> TRUE]

\* As some program left it, interrupts masked; c is C and V, opposite to X.
Loaded(a, b, x, z) ==
  [PowerOn EXCEPT !.d[0] = a, !.d[1] = b, !.pc = First, !.resetState = FALSE, !.latch[OVR] = 2,
                  !.sr = [C |-> ~x, V |-> ~x, Z |-> z, N |-> ~z, X |-> x, level |-> Levels, S |-> TRUE]]

Spent == [ticks |-> 0, characters |-> 0, resets |-> 0]
Start(m) == [machine |-> m, budget |-> Spent]

AllBytes == 0 .. 15
WordEdges == {0, 1, 2, 127, 128, 129, 254, 255}
LongEdges == {0, 1, 255, 256, 32767, 32768, 65279, 65535}
Edges(size) == CASE size = "byte" -> AllBytes [] size = "word" -> WordEdges [] OTHER -> LongEdges
\* The upper part of the destination is not touched.
Above(size) == IF size = "byte" THEN 80 ELSE 0

Operands(key) ==
  CASE key = <<"op", "divu", "word">> ->
         (WordEdges \ {0}) \X (LongEdges \cup WordEdges \cup {3 * 127, 129 * 256 - 1, 129 * 256})
    [] key[2] \in {"mulu", "muls"} -> WordEdges \X LongEdges
    [] OTHER -> Edges(key[3]) \X {b + Above(key[3]) : b \in Edges(key[3])}

\* Counts below, at and beyond each width; 33 counts as 1.
Shifted(key) ==
  (IF key[4] = "D0" THEN {0, 1, 3, 4, 5, 7, 8, 9, 15, 16, 17, 31, 33} ELSE {0})
    \X {b + Above(key[3]) : b \in Edges(key[3])}

MCStarts ==
  [p \in DOMAIN Calculations |->
     {Start(Loaded(o[1], o[2], x, z)) : o \in Operands(p), x \in BOOLEAN, z \in {FALSE, p[2] = "addx"}}]
  @@ [p \in DOMAIN Shiftings   |-> {Start(Loaded(o[1], o[2], x, FALSE)) : o \in Shifted(p), x \in BOOLEAN}]
  @@ [p \in DOMAIN Comparisons |-> {Start(Loaded(a, b, FALSE, FALSE)) : a \in Edges(p[3]), b \in Edges(p[3])}]
  @@ [p \in DOMAIN Boots       |->
        {[machine |-> PowerOn,
          budget |-> [ticks |-> 1, characters |-> IF p[2] = "supervisor" THEN 2 ELSE 1,
                      resets |-> IF p[2] = "reset" THEN 2 ELSE 0]]}]
=============================================================================
