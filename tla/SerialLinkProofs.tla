-------------------------- MODULE SerialLinkProofs --------------------------
(***************************************************************************)
(* The serial line is a reliable stream, for every size of its buffers,    *)
(* thresholds and trigger levels that leaves room for what is under way.   *)
(***************************************************************************)
EXTENDS SerialLink, Integers, TLAPS

-----------------------------------------------------------------------------
(***************************************************************************)
(* From the guest to the host.                                             *)
(*                                                                         *)
(* UARTPutChar looks at the status register and writes later; between the  *)
(* two the interrupt handler, the timers of the UART and a reset may run.  *)
(* The argument: of all these only UARTPutChar itself fills the FIFO.      *)
(***************************************************************************)
\* The FIFO's count stays in its range, without which the test of the status
\* register would say nothing.
TransmitterOK ==
  /\ txCount \in 0 .. TxFifoSize
  /\ mainAt \in InitSteps \cup GetSteps \cup PutSteps \cup {"run"}
  /\ TransmitNeverDiscards

LEMMA TransmitterInit == Init => TransmitterOK
BY SerialLinkAssumption
   DEF Init, TransmitterOK, TransmitNeverDiscards, InitSteps

LEMMA TransmitterStep == TransmitterOK /\ [Next]_vars => TransmitterOK'
<1> SUFFICES ASSUME TransmitterOK, [Next]_vars
             PROVE  TransmitterOK'
  OBVIOUS
<1> USE SerialLinkAssumption
    DEF TransmitterOK, TransmitNeverDiscards, InitSteps, GetSteps, PutSteps
<1>1. CASE UNCHANGED vars
  BY <1>1 DEF vars, uart
<1>2. CASE HostSend \/ ReaderNext \/ ClockReceive \/ ClockQuiet \/ IsrNext
  <2>1. UNCHANGED <<txCount, mainAt>>
    BY <1>2 DEF HostSend, ReaderNext, Look, MayRead, Read, Bump, ClockReceive, ClockQuiet,
                IsrNext, IsrEnter, IsrTake, IsrThrottle, IsrMore, uart
  <2>2. QED
    BY <2>1
\* A byte that leaves for the host makes room.
<1>3. CASE ClockSend
  BY <1>3 DEF ClockSend
<1>4. CASE InitPointers \/ InitFifos \/ InitRts \/ InitIer
  BY <1>4 DEF InitPointers, InitFifos, InitRts, InitIer, MainStep, uart
<1>5. CASE Sample \/ Allow \/ Check \/ Fetch \/ HearByte \/ CallGetChar \/ CallPutChar
  BY <1>5 DEF Sample, Allow, Check, Fetch, HearByte, CallGetChar, CallPutChar, MainStep
\* The only way to "write".
<1>6. CASE Poll
  BY <1>6 DEF Poll, MainStep, TransmitReady
<1>7. CASE Write
  BY <1>7 DEF Write, MainStep
<1>8. CASE Reset
  BY <1>8 DEF Reset
<1>9. QED
  BY <1>1, <1>2, <1>3, <1>4, <1>5, <1>6, <1>7, <1>8 DEF Next, RoutineNext

\* UARTPutChar never makes the UART answer "Transmit discard" (uart.asm,
\* UARTPutChar; uart.c, transmitByte).
THEOREM NothingDiscarded == Spec => []TransmitNeverDiscards
<1>1. TransmitterOK => TransmitNeverDiscards
  BY DEF TransmitterOK
<1>2. QED
  BY <1>1, TransmitterInit, TransmitterStep, PTL DEF Spec

-----------------------------------------------------------------------------
(***************************************************************************)
(* From the host to the guest.                                             *)
(*                                                                         *)
(* The argument follows a byte: the ring holds the bytes after LeftRing,   *)
(* the FIFO those between Stored and LeftRing, the guest buffer those      *)
(* between heard and Stored, each in order and without a gap.  The ring    *)
(* is safe by its free slots alone; the guest buffer is safe because RTS   *)
(* bounds the unread bytes, and nothing joins those under way after it.    *)
(***************************************************************************)

(***************************************************************************)
(* Pointers that wrap.                                                     *)
(***************************************************************************)
\* A remainder of a number below twice the divisor, without the remainder.
LEMMA SmallRest ==
  ASSUME NEW n \in Nat \ {0}, NEW a \in 0 .. 2 * n - 1
  PROVE  a % n = IF a < n THEN a ELSE a - n
<1>1. /\ a % n \in 0 .. n - 1
      /\ a = n * (a \div n) + (a % n)
      /\ a \div n \in Int
  BY Z3
<1>2. a \div n \in {0, 1}
  <2>1. a \div n > 0 - 1
    BY <1>1, Z3
  <2>2. a \div n < 2
    BY <1>1, Z3
  <2>3. QED
    BY <1>1, <2>1, <2>2
<1>3. CASE a \div n = 0
  BY <1>1, <1>3
<1>4. CASE a \div n = 1
  BY <1>1, <1>4
<1>5. QED
  BY <1>2, <1>3, <1>4

\* Advance wraps at the last slot and nowhere else.
LEMMA AdvanceIs ==
  ASSUME NEW size \in Nat, NEW p \in 0 .. size - 1
  PROVE  /\ Advance(p, size) = IF p = size - 1 THEN 0 ELSE p + 1
         /\ Advance(p, size) \in 0 .. size - 1
<1>1. size \in Nat \ {0} /\ p + 1 \in 0 .. 2 * size - 1
  OBVIOUS
<1>2. (p + 1) % size = IF p + 1 < size THEN p + 1 ELSE p + 1 - size
  <2> DEFINE a == p + 1
  <2>1. a \in 0 .. 2 * size - 1
    BY <1>1
  <2> HIDE DEF a
  <2>2. a % size = IF a < size THEN a ELSE a - size
    BY <1>1, <2>1, SmallRest
  <2>3. QED
    BY <2>2 DEF a
<1> DEFINE r == (p + 1) % size
<1>3. Advance(p, size) = r /\ r = IF p + 1 < size THEN p + 1 ELSE p + 1 - size
  BY <1>2 DEF Advance
<1> HIDE DEF r
<1>4. QED
  BY <1>3

\* The distance is a difference, and a size more when the pointer has wrapped.
LEMMA DistanceIs ==
  ASSUME NEW size \in Nat, NEW p \in 0 .. size - 1, NEW q \in 0 .. size - 1
  PROVE  /\ Distance(p, q, size) = IF q >= p THEN q - p ELSE q + size - p
         /\ Distance(p, q, size) \in 0 .. size - 1
<1>1. size \in Nat \ {0} /\ q + size - p \in 0 .. 2 * size - 1
  OBVIOUS
<1>2. (q + size - p) % size = IF q + size - p < size THEN q + size - p ELSE q + size - p - size
  <2> DEFINE a == q + size - p
  <2>1. a \in 0 .. 2 * size - 1
    BY <1>1
  <2> HIDE DEF a
  <2>2. a % size = IF a < size THEN a ELSE a - size
    BY <1>1, <2>1, SmallRest
  <2>3. QED
    BY <2>2 DEF a
<1> DEFINE r == (q + size - p) % size
<1>3. /\ Distance(p, q, size) = r
      /\ r = IF q + size - p < size THEN q + size - p ELSE q + size - p - size
  BY <1>2 DEF Distance
<1> HIDE DEF r
<1>4. QED
  BY <1>3

\* Equal pointers, and only they, mean an empty buffer.
LEMMA DistanceZero ==
  ASSUME NEW size \in Nat, NEW p \in 0 .. size - 1, NEW q \in 0 .. size - 1
  PROVE  Distance(p, q, size) = 0 <=> p = q
<1>1. Distance(p, q, size) = IF q >= p THEN q - p ELSE q + size - p
  BY DistanceIs
<1>2. QED
  BY <1>1

\* Advancing the pointer ahead adds one to the distance, unless the buffer is full.
LEMMA DistanceTo ==
  ASSUME NEW size \in Nat, NEW p \in 0 .. size - 1, NEW q \in 0 .. size - 1
  PROVE  Distance(p, Advance(q, size), size)
           = IF Distance(p, q, size) = size - 1 THEN 0 ELSE Distance(p, q, size) + 1
<1> DEFINE r == Advance(q, size)
<1>1. r \in 0 .. size - 1 /\ r = IF q = size - 1 THEN 0 ELSE q + 1
  BY AdvanceIs
<1>2. /\ Distance(p, q, size) = IF q >= p THEN q - p ELSE q + size - p
      /\ Distance(p, r, size) = IF r >= p THEN r - p ELSE r + size - p
  BY <1>1, DistanceIs
<1> HIDE DEF r
<1>3. Distance(p, r, size) = IF Distance(p, q, size) = size - 1 THEN 0 ELSE Distance(p, q, size) + 1
  BY <1>1, <1>2
<1>4. QED
  BY <1>3 DEF r

\* Advancing the pointer behind takes one off, unless the buffer is empty.
LEMMA DistanceFrom ==
  ASSUME NEW size \in Nat, NEW p \in 0 .. size - 1, NEW q \in 0 .. size - 1
  PROVE  Distance(Advance(p, size), q, size)
           = IF p = q THEN size - 1 ELSE Distance(p, q, size) - 1
<1> DEFINE r == Advance(p, size)
<1>1. r \in 0 .. size - 1 /\ r = IF p = size - 1 THEN 0 ELSE p + 1
  BY AdvanceIs
<1>2. /\ Distance(p, q, size) = IF q >= p THEN q - p ELSE q + size - p
      /\ Distance(r, q, size) = IF q >= r THEN q - r ELSE q + size - r
  BY <1>1, DistanceIs
<1> HIDE DEF r
<1>3. Distance(r, q, size) = IF p = q THEN size - 1 ELSE Distance(p, q, size) - 1
  BY <1>1, <1>2
<1>4. QED
  BY <1>3 DEF r

\* Two slots at the same distance are one slot.
LEMMA DistanceDiffers ==
  ASSUME NEW size \in Nat, NEW p \in 0 .. size - 1, NEW q \in 0 .. size - 1, NEW r \in 0 .. size - 1
  PROVE  Distance(p, q, size) = Distance(p, r, size) => q = r
<1>1. /\ Distance(p, q, size) = IF q >= p THEN q - p ELSE q + size - p
      /\ Distance(p, r, size) = IF r >= p THEN r - p ELSE r + size - p
  BY DistanceIs
<1>2. QED
  BY <1>1
-----------------------------------------------------------------------------
\* The bytes in the ring, and those that can still follow once RTS is
\* deasserted: read_thread may already be past its test of RTS.
InRing   == Distance(readPtr, writePtr, RingSize)
UnderWay == Len(rxFifo) + InRing + (IF readerAt \in {"read", "bump"} THEN 1 ELSE 0)

\* The ring is never overrun, and its bytes are numbered without a gap.
RingInv ==
  /\ LeftRing >= 0
  /\ readerAt = "rts" => headroom <= RingSize - InRing
  /\ InRing + (IF readerAt \in {"read", "bump"} THEN 1 ELSE 0) <= RingSize - Slack
  /\ readerAt = "bump" => ring[writePtr] = taken
  /\ \A s \in 0 .. RingSize - 1 :
       Distance(readPtr, s, RingSize) < InRing =>
         ring[s] = LeftRing + 1 + Distance(readPtr, s, RingSize)

\* So are those of the FIFO; the handler finds a byte when it looks.
FifoInv ==
  /\ \A i \in 1 .. Len(rxFifo) : rxFifo[i] = Stored + i
  /\ isrAt = "take" => rxFifo # <<>>

\* What was stored was sent before.
ValueInv ==
  /\ \A s \in 0 .. RingSize - 1 : ring[s] <= taken
  /\ \A s \in 0 .. BufSize - 1 : buf[s] <= LeftRing
  /\ mainAt = "bump" => d0 <= LeftRing
  /\ heard <= LeftRing

\* The BIOS configures the UART alone.
InitInv ==
  /\ mainAt \in InitSteps => isrAt = "none"
  /\ mainAt \in InitSteps \ {"initPointers"} => rdPtr = wrPtr
  /\ mainAt \notin InitSteps => ier

\* The guest buffer holds the bytes between heard and Stored.
BufferInv ==
  Listening =>
    /\ Stored - heard = Unread
    /\ \A s \in 0 .. BufSize - 1 :
         Distance(rdPtr, s, BufSize) < Unread => buf[s] = heard + 1 + Distance(rdPtr, s, BufSize)
    /\ mainAt \in {"allow", "check"} => d0 <= Unread
    /\ mainAt \in {"fetch", "bump"} => Unread >= 1
    /\ mainAt = "bump" => d0 = heard + 1

\* With RTS asserted there are at most so many unread bytes: UARTGetChar
\* asserts it below the one threshold, but for what the handler stored since
\* it looked, and the handler deasserts it at the other.
AssertedMax ==
  LET allowed == EnableThreshold + Trigger + ArrivalsPerStep - 2
  IN  IF allowed >= DisableThreshold THEN allowed ELSE DisableThreshold - 1

\* What is under way has room in the guest buffer: above the mark, and the
\* byte the handler is storing, as long as more may join it.
HasRoom ==
  /\ UnderWay < BufSize
  /\ rts => AssertedMax + 1 + UnderWay < BufSize

FlowInv ==
  Listening =>
    /\ Unread + UnderWay < BufSize
    /\ rts => Unread <= AssertedMax + (IF isrAt = "throttle" THEN 1 ELSE 0)
    /\ mainAt = "allow" => Unread + Len(rxFifo) <= d0 + Trigger - 1 + arrivals

LineInv == TypeOK /\ RingInv /\ FifoInv /\ ValueInv /\ InitInv
StreamInv == LineInv /\ BufferInv /\ FlowInv
-----------------------------------------------------------------------------
\* The numbers the invariants speak of are numbers, and in range.
LEMMA Counts ==
  ASSUME TypeOK
  PROVE  /\ InRing \in 0 .. RingSize - 1
         /\ LeftRing = taken - InRing - (IF readerAt = "bump" THEN 1 ELSE 0)
         /\ LeftRing \in Int
         /\ Len(rxFifo) \in Nat
         /\ Stored = LeftRing - Len(rxFifo)
         /\ Stored \in Int
         /\ Unread \in 0 .. BufSize - 1
<1>1. InRing \in 0 .. RingSize - 1
  BY DistanceIs, SerialLinkAssumption DEF InRing, TypeOK
<1>2. Unread \in 0 .. BufSize - 1
  BY DistanceIs, SerialLinkAssumption DEF Unread, TypeOK
<1>3. taken \in Nat /\ Len(rxFifo) \in Nat
  BY SerialLinkAssumption DEF TypeOK
<1>4. LeftRing = taken - InRing - (IF readerAt = "bump" THEN 1 ELSE 0)
  BY DEF LeftRing, InRing
<1>5. LeftRing \in Int
  BY <1>1, <1>3, <1>4
<1>6. Stored = LeftRing - Len(rxFifo)
  BY DEF Stored
<1>7. QED
  BY <1>1, <1>2, <1>3, <1>4, <1>5, <1>6

\* Only the UART takes bytes from the ring, one at a time.
LEMMA RingCounts ==
  ASSUME TypeOK, RingInv
  PROVE  /\ Look \/ MayRead \/ Read \/ UNCHANGED <<taken, reader, readPtr>> =>
              InRing' = InRing /\ LeftRing' = LeftRing
         /\ Bump => InRing' = InRing + 1 /\ LeftRing' = LeftRing
         /\ ClockReceive => InRing' = InRing - 1 /\ LeftRing' = LeftRing + 1
<1> USE SerialLinkAssumption
<1>1. /\ InRing \in 0 .. RingSize - 1 /\ LeftRing \in Int
      /\ LeftRing = taken - InRing - (IF readerAt = "bump" THEN 1 ELSE 0)
      /\ taken \in Nat /\ writePtr \in 0 .. RingSize - 1 /\ readPtr \in 0 .. RingSize - 1
      /\ RingSize \in Nat /\ Slack \in 1 .. RingSize - 1
  BY Counts DEF TypeOK
<1>2. ASSUME Look \/ MayRead \/ UNCHANGED <<taken, reader, readPtr>>
      PROVE  InRing' = InRing /\ LeftRing' = LeftRing
  BY <1>2 DEF Look, MayRead, LeftRing, InRing, host, reader
<1>3. ASSUME Read PROVE InRing' = InRing /\ LeftRing' = LeftRing
  <2>1. InRing' = InRing
    BY <1>3 DEF Read, InRing
  <2>2. LeftRing' = LeftRing
    BY <1>1, <1>3 DEF Read, LeftRing, InRing
  <2>3. QED
    BY <2>1, <2>2
<1>4. ASSUME Bump PROVE InRing' = InRing + 1 /\ LeftRing' = LeftRing
  <2>1. /\ UNCHANGED <<taken, readPtr>> /\ readerAt = "bump" /\ readerAt' = "look"
        /\ writePtr' = Advance(writePtr, RingSize)
    BY <1>4 DEF Bump, host
  <2>2. InRing' = InRing + 1
    BY <1>1, <2>1, DistanceTo DEF InRing, RingInv
  <2>3. LeftRing' = LeftRing
    BY <1>1, <2>1, <2>2 DEF LeftRing, InRing
  <2>4. QED
    BY <2>2, <2>3
<1>5. ASSUME ClockReceive PROVE InRing' = InRing - 1 /\ LeftRing' = LeftRing + 1
  <2>1. /\ UNCHANGED <<taken, writePtr, readerAt>>
        /\ readPtr' = Advance(readPtr, RingSize) /\ readPtr # writePtr
    BY <1>5 DEF ClockReceive, host, reader, Receivable, ByteAvailable
  <2>2. InRing' = InRing - 1
    BY <1>1, <2>1, DistanceFrom DEF InRing
  <2>3. LeftRing' = LeftRing + 1
    BY <1>1, <2>1, <2>2 DEF LeftRing, InRing
  <2>4. QED
    BY <2>2, <2>3
<1>6. QED
  BY <1>2, <1>3, <1>4, <1>5

\* The rest of the machine leaves the reader alone.
LEMMA ReaderApart ==
  ASSUME HostSend \/ ClockQuiet \/ ClockSend \/ Reset \/ IsrNext \/ RoutineNext
           \/ CallGetChar \/ CallPutChar \/ UNCHANGED vars
  PROVE  UNCHANGED <<taken, reader, readPtr>>
<1>1. CASE HostSend \/ ClockQuiet \/ ClockSend \/ Reset \/ UNCHANGED vars
  BY <1>1 DEF HostSend, ClockQuiet, ClockSend, Reset, vars, host
<1>2. CASE IsrNext
  BY <1>2 DEF IsrNext, IsrEnter, IsrTake, IsrThrottle, IsrMore, host
<1>3. CASE RoutineNext \/ CallGetChar \/ CallPutChar
  BY <1>3 DEF RoutineNext, CallGetChar, CallPutChar, InitPointers, InitFifos, InitRts,
     InitIer, Sample, Allow, Check, Fetch, HearByte, Poll, Write, MainStep, host
<1>4. QED
  BY <1>1, <1>2, <1>3

\* The bytes that left the ring only grow in number.
LEMMA LeftRingGrows ==
  ASSUME TypeOK, RingInv, [Next]_vars
  PROVE  \/ LeftRing' = LeftRing
         \/ ClockReceive /\ LeftRing' = LeftRing + 1
BY RingCounts, ReaderApart DEF Next, ReaderNext

\* The headroom read_thread looked at can only have grown when it stores a byte.
LEMMA RingStep ==
  ASSUME TypeOK, RingInv, [Next]_vars
  PROVE  RingInv'
<1> USE SerialLinkAssumption
<1>0. /\ InRing \in 0 .. RingSize - 1 /\ LeftRing \in Int
      /\ LeftRing = taken - InRing - (IF readerAt = "bump" THEN 1 ELSE 0)
      /\ taken \in Nat /\ writePtr \in 0 .. RingSize - 1 /\ readPtr \in 0 .. RingSize - 1
      /\ RingSize \in Nat /\ Slack \in 1 .. RingSize - 1
  BY Counts DEF TypeOK
<1>1. CASE UNCHANGED <<taken, reader, readPtr>>
  BY <1>1 DEF RingInv, LeftRing, InRing, reader
<1>2. CASE Look
  <2>1. UNCHANGED <<taken, ring, writePtr, readPtr>> /\ readerAt = "look" /\ readerAt' = "rts"
    BY <1>2 DEF Look, host
  <2>2. Headroom = RingSize - InRing
    <3>1. /\ Distance(writePtr, readPtr, RingSize)
               = IF readPtr >= writePtr THEN readPtr - writePtr ELSE readPtr + RingSize - writePtr
          /\ Distance(readPtr, writePtr, RingSize)
               = IF writePtr >= readPtr THEN writePtr - readPtr ELSE writePtr + RingSize - readPtr
      BY <1>0, DistanceIs
    <3>2. QED
      BY <1>0, <3>1 DEF Headroom, InRing
  <2>3. UNCHANGED <<LeftRing, InRing>>
    BY <1>2, RingCounts
  <2>4. headroom' = RingSize - InRing
    BY <1>2, <2>2 DEF Look
  <2>5. QED
    BY <1>0, <2>1, <2>3, <2>4 DEF RingInv
<1>3. CASE MayRead
  <2>1. /\ UNCHANGED <<taken, ring, writePtr, readPtr>>
        /\ readerAt = "rts" /\ readerAt' \in {"read", "look"}
        /\ readerAt' = "read" => headroom > Slack
    BY <1>3 DEF MayRead, host, Room
  <2>2. UNCHANGED <<LeftRing, InRing>>
    BY <1>3, RingCounts
  <2>3. headroom \in 0 .. RingSize /\ headroom <= RingSize - InRing
    BY <2>1 DEF RingInv, TypeOK
  <2>4. QED
    BY <1>0, <2>1, <2>2, <2>3 DEF RingInv
<1>4. CASE Read
  <2>1. CASE taken < sent
    <3>1. /\ UNCHANGED <<writePtr, readPtr>> /\ readerAt = "read" /\ readerAt' = "bump"
          /\ taken' = taken + 1 /\ ring' = [ring EXCEPT ![writePtr] = taken + 1]
          /\ ring \in [0 .. RingSize - 1 -> Bytes \cup {Blank}]
      BY <1>4, <2>1 DEF Read, TypeOK
    <3>2. InRing' = InRing /\ LeftRing' = LeftRing
      BY <1>4, RingCounts
    \* The slot is not one of those in use.
    <3>3. ASSUME NEW s \in 0 .. RingSize - 1, Distance(readPtr, s, RingSize) < InRing
          PROVE  ring'[s] = ring[s]
      <4>1. s # writePtr
        BY <3>3, <1>0 DEF InRing
      <4>2. QED
        BY <3>1, <4>1
    <3>4. ring'[writePtr'] = taken'
      BY <1>0, <3>1
    <3>5. QED
      BY <1>0, <3>1, <3>2, <3>3, <3>4 DEF RingInv
  <2>2. CASE ~(taken < sent)
    BY <1>4, <2>2, <1>0 DEF Read, RingInv, LeftRing, InRing
  <2>3. QED
    BY <2>1, <2>2
<1>5. CASE Bump
  <2>1. /\ UNCHANGED <<taken, ring, readPtr>> /\ readerAt = "bump" /\ readerAt' = "look"
        /\ writePtr' = Advance(writePtr, RingSize)
    BY <1>5 DEF Bump, host
  <2>2. InRing + 1 <= RingSize - Slack
    BY <2>1 DEF RingInv
  <2>3. InRing' = InRing + 1 /\ LeftRing' = LeftRing
    BY <1>5, RingCounts
  <2>4. ASSUME NEW s \in 0 .. RingSize - 1, Distance(readPtr, s, RingSize) < InRing + 1
        PROVE  ring[s] = LeftRing + 1 + Distance(readPtr, s, RingSize)
    <3>1. CASE s = writePtr
      BY <3>1, <2>1, <1>0 DEF RingInv, InRing
    <3>2. CASE s # writePtr
      <4>1. Distance(readPtr, s, RingSize) \in 0 .. RingSize - 1
        BY <1>0, DistanceIs
      <4>2. Distance(readPtr, s, RingSize) # InRing
        BY <3>2, <1>0, DistanceDiffers DEF InRing
      <4>3. Distance(readPtr, s, RingSize) < InRing
        BY <4>1, <4>2, <2>4, <1>0
      <4>4. QED
        BY <4>3 DEF RingInv
    <3>3. QED
      BY <3>1, <3>2
  <2>5. QED
    BY <1>0, <2>1, <2>2, <2>3, <2>4 DEF RingInv
<1>6. CASE ClockReceive
  <2>1. /\ UNCHANGED <<taken, ring, writePtr, headroom, readerAt>>
        /\ readPtr' = Advance(readPtr, RingSize) /\ readPtr # writePtr
    BY <1>6 DEF ClockReceive, host, reader, Receivable, ByteAvailable
  <2>2. InRing' = InRing - 1 /\ LeftRing' = LeftRing + 1
    BY <1>6, RingCounts
  <2>3. ASSUME NEW s \in 0 .. RingSize - 1, Distance(readPtr', s, RingSize) < InRing - 1
        PROVE  ring[s] = LeftRing + 2 + Distance(readPtr', s, RingSize)
    <3>1. /\ Distance(readPtr', s, RingSize)
               = IF readPtr = s THEN RingSize - 1 ELSE Distance(readPtr, s, RingSize) - 1
          /\ Distance(readPtr, s, RingSize) \in 0 .. RingSize - 1
      BY <1>0, <2>1, DistanceFrom, DistanceIs
    <3>2. readPtr # s
      BY <3>1, <2>3, <1>0
    <3>3. ring[s] = LeftRing + 1 + Distance(readPtr, s, RingSize)
      BY <3>1, <3>2, <2>3, <1>0 DEF RingInv
    <3>4. QED
      BY <3>1, <3>2, <3>3, <1>0
  <2>4. \A s \in 0 .. RingSize - 1 :
          Distance(readPtr', s, RingSize) < InRing' =>
            ring'[s] = LeftRing' + 1 + Distance(readPtr', s, RingSize)
    <3>1. UNCHANGED ring
      BY <2>1
    <3>2. QED
      BY <3>1, <2>2, <2>3, <1>0, DistanceIs
  <2>5. /\ LeftRing' >= 0
        /\ readerAt' = "rts" => headroom' <= RingSize - InRing'
        /\ InRing' + (IF readerAt' \in {"read", "bump"} THEN 1 ELSE 0) <= RingSize - Slack
        /\ readerAt' = "bump" => ring'[writePtr'] = taken'
    BY <1>0, <2>1, <2>2 DEF RingInv, TypeOK
  <2>6. QED
    BY <2>4, <2>5 DEF RingInv
<1>7. QED
  BY <1>1, <1>2, <1>3, <1>4, <1>5, <1>6, ReaderApart DEF Next, ReaderNext

\* Only the UART and the BIOS touch the FIFO; Stored grows as the handler takes.
LEMMA FifoApart ==
  ASSUME HostSend \/ ReaderNext \/ ClockQuiet \/ ClockSend \/ Reset \/ IsrEnter \/ IsrThrottle
           \/ IsrMore \/ (RoutineNext /\ ~InitFifos) \/ CallGetChar \/ CallPutChar \/ UNCHANGED vars
  PROVE  UNCHANGED rxFifo
<1>1. CASE HostSend \/ ReaderNext \/ ClockQuiet \/ ClockSend \/ Reset \/ UNCHANGED vars
  BY <1>1 DEF HostSend, ReaderNext, Look, MayRead, Read, Bump, ClockQuiet, ClockSend, Reset, vars,
     uart
<1>2. CASE IsrEnter \/ IsrThrottle \/ IsrMore
  BY <1>2 DEF IsrEnter, IsrThrottle, IsrMore, uart
<1>3. CASE (RoutineNext /\ ~InitFifos) \/ CallGetChar \/ CallPutChar
  BY <1>3 DEF RoutineNext, CallGetChar, CallPutChar, InitPointers, InitRts, InitIer, Sample, Allow,
     Check, Fetch, HearByte, Poll, Write
<1>4. QED
  BY <1>1, <1>2, <1>3

\* The byte a UART character brings is the next one.
LEMMA NextByte ==
  ASSUME TypeOK, RingInv, ClockReceive
  PROVE  /\ rxFifo' = Append(rxFifo, LeftRing + 1)
         /\ LeftRing + 1 \in Bytes
         /\ LeftRing < taken
         /\ Len(rxFifo) < FifoSize
<1>1. /\ readPtr \in 0 .. RingSize - 1 /\ writePtr \in 0 .. RingSize - 1 /\ RingSize \in Nat
      /\ readPtr # writePtr /\ taken \in Nat /\ rxFifo \in Seq(Bytes)
  BY SerialLinkAssumption DEF TypeOK, ClockReceive, Receivable, ByteAvailable
<1>2. InRing \in 1 .. RingSize - 1
  BY <1>1, Counts, DistanceZero DEF InRing
<1>3. Distance(readPtr, readPtr, RingSize) = 0
  BY <1>1, DistanceZero
<1>4. ring[readPtr] = LeftRing + 1
  BY <1>1, <1>2, <1>3, Counts DEF RingInv
<1>5. LeftRing >= 0 /\ LeftRing < taken /\ taken <= MaxBytes /\ MaxBytes \in Nat
  BY <1>1, <1>2, Counts, SerialLinkAssumption DEF TypeOK, RingInv
<1>6. LeftRing + 1 \in Bytes
  BY <1>5, <1>1, Counts DEF Bytes
<1>7. Len(rxFifo) < FifoSize /\ rxFifo' = FifoWrite(rxFifo, ring[readPtr])
  BY DEF ClockReceive, Receivable
<1>8. QED
  BY <1>1, <1>4, <1>5, <1>6, <1>7, SerialLinkAssumption DEF FifoWrite, TypeOK

\* The FIFO keeps the order of the ring.
LEMMA FifoStep ==
  ASSUME TypeOK, RingInv, FifoInv, InitInv, [Next]_vars
  PROVE  FifoInv'
<1> USE SerialLinkAssumption
<1>0. rxFifo \in Seq(Bytes) /\ Stored \in Int /\ LeftRing \in Int /\ Stored = LeftRing - Len(rxFifo)
  BY Counts DEF TypeOK
<1>1. CASE ClockReceive
  <2>1. rxFifo' = Append(rxFifo, LeftRing + 1) /\ LeftRing' = LeftRing + 1 /\ isrAt' = isrAt
        /\ LeftRing + 1 \in Bytes
    BY <1>1, NextByte, RingCounts DEF ClockReceive, guest
  <2>2. Len(rxFifo') = Len(rxFifo) + 1
    BY <1>0, <2>1
  <2>3. Stored' = Stored
    BY <1>0, <2>1, <2>2 DEF Stored
  <2>4. ASSUME NEW i \in 1 .. Len(rxFifo) + 1 PROVE rxFifo'[i] = Stored + i
    <3>1. CASE i = Len(rxFifo) + 1
      BY <1>0, <2>1, <3>1
    <3>2. CASE i \in 1 .. Len(rxFifo)
      BY <1>0, <2>1, <3>2 DEF FifoInv
    <3>3. QED
      BY <1>0, <3>1, <3>2
  <2>5. rxFifo' # <<>>
    BY <1>0, <2>1
  <2>6. QED
    BY <2>2, <2>3, <2>4, <2>5 DEF FifoInv
<1>2. CASE IsrTake
  <2>1. /\ rxFifo # <<>> /\ rxFifo' = Tail(rxFifo) /\ isrAt' = "throttle"
        /\ LeftRing' = LeftRing
    BY <1>2, RingCounts, ReaderApart DEF IsrTake, FifoInv, IsrNext
  <2>2. Len(rxFifo') = Len(rxFifo) - 1 /\ Len(rxFifo) >= 1
    BY <1>0, <2>1
  <2>3. Stored' = Stored + 1
    BY <1>0, <2>1, <2>2 DEF Stored
  <2>4. ASSUME NEW i \in 1 .. Len(rxFifo) - 1 PROVE rxFifo'[i] = Stored + 1 + i
    BY <1>0, <2>1, <2>2 DEF FifoInv
  <2>5. QED
    BY <2>1, <2>2, <2>3, <2>4 DEF FifoInv
<1>3. CASE InitFifos
  <2>1. rxFifo' = <<>> /\ isrAt' = isrAt /\ isrAt = "none"
    BY <1>3 DEF InitFifos, MainStep
  <2>2. QED
    BY <2>1 DEF FifoInv
<1>4. CASE UNCHANGED <<rxFifo, isrAt>> /\ LeftRing' = LeftRing
  BY <1>4 DEF FifoInv, Stored
<1>5. CASE IsrEnter \/ IsrThrottle \/ IsrMore \/ Reset
  <2>1. UNCHANGED rxFifo /\ LeftRing' = LeftRing
    BY <1>5, FifoApart, ReaderApart, RingCounts DEF IsrNext
  <2>2. isrAt' = "take" => rxFifo # <<>>
    BY <1>5, <1>0 DEF IsrEnter, IsrThrottle, IsrMore, Reset, Interrupt, DataReady
  <2>3. QED
    BY <2>1, <2>2 DEF FifoInv, Stored
<1>6. CASE HostSend \/ ReaderNext \/ ClockQuiet \/ ClockSend \/ UNCHANGED vars
  <2>1. UNCHANGED <<rxFifo, isrAt>>
    BY <1>6 DEF HostSend, ReaderNext, Look, MayRead, Read, Bump, ClockQuiet, ClockSend, vars,
       uart, guest
  <2>2. LeftRing' = LeftRing
    BY <1>6, RingCounts, ReaderApart DEF ReaderNext
  <2>3. QED
    BY <1>4, <2>1, <2>2
<1>7. CASE (RoutineNext /\ ~InitFifos) \/ CallGetChar \/ CallPutChar
  <2>1. UNCHANGED rxFifo /\ LeftRing' = LeftRing
    BY <1>7, FifoApart, ReaderApart, RingCounts
  <2>2. UNCHANGED isrAt
    BY <1>7 DEF RoutineNext, CallGetChar, CallPutChar, InitPointers, InitRts, InitIer, Sample,
       Allow, Check, Fetch, HearByte, Poll, Write, MainStep
  <2>3. QED
    BY <1>4, <2>1, <2>2
<1>8. QED
  BY <1>1, <1>2, <1>3, <1>5, <1>6, <1>7 DEF Next, IsrNext, RoutineNext

\* The handler takes the next byte, one the ring has let go.
LEMMA TakenByte ==
  ASSUME TypeOK, RingInv, FifoInv, IsrTake
  PROVE  /\ rxFifo # <<>> /\ rxFifo' = Tail(rxFifo)
         /\ buf' = [buf EXCEPT ![wrPtr] = Stored + 1]
         /\ Stored + 1 \in Bytes /\ Stored + 1 <= LeftRing
         /\ LeftRing' = LeftRing /\ Stored' = Stored + 1
<1>1. rxFifo \in Seq(Bytes) /\ rxFifo # <<>> /\ isrAt = "take" /\ LeftRing' = LeftRing
  BY RingCounts, ReaderApart DEF TypeOK, IsrTake, FifoInv, IsrNext
<1>2. Head(rxFifo) = Stored + 1 /\ Head(rxFifo) \in Bytes /\ Len(rxFifo) >= 1
  BY <1>1 DEF FifoInv
<1>3. rxFifo' = Tail(rxFifo) /\ buf' = [buf EXCEPT ![wrPtr] = Head(rxFifo)]
  BY <1>1 DEF IsrTake
<1>4. Len(rxFifo') = Len(rxFifo) - 1
  BY <1>1, <1>3
<1>5. Stored + 1 <= LeftRing /\ Stored' = Stored + 1
  BY <1>1, <1>2, <1>4, Counts DEF Stored
<1>6. QED
  BY <1>1, <1>2, <1>3, <1>5

\* Nothing is in the guest buffer that has not left the ring.
LEMMA ValueStep ==
  ASSUME TypeOK, RingInv, FifoInv, ValueInv, [Next]_vars
  PROVE  ValueInv'
<1> USE SerialLinkAssumption
<1>0. /\ LeftRing \in Int /\ LeftRing' \in {LeftRing, LeftRing + 1} /\ LeftRing <= taken
      /\ taken \in Nat /\ heard \in Nat /\ heard <= LeftRing /\ LeftRing >= 0
      /\ ring \in [0 .. RingSize - 1 -> Nat] /\ buf \in [0 .. BufSize - 1 -> Nat]
      /\ rdPtr \in 0 .. BufSize - 1 /\ wrPtr \in 0 .. BufSize - 1
      /\ writePtr \in 0 .. RingSize - 1
  <2>1. LeftRing \in Int /\ LeftRing <= taken /\ LeftRing >= 0 /\ taken \in Nat
    BY Counts DEF TypeOK, RingInv
  <2>2. LeftRing' \in {LeftRing, LeftRing + 1}
    BY LeftRingGrows
  <2>3. heard \in Nat /\ heard <= LeftRing
    BY DEF TypeOK, ValueInv
  <2>4. ring \in [0 .. RingSize - 1 -> Nat] /\ buf \in [0 .. BufSize - 1 -> Nat]
    <3>1. Bytes \cup {Blank} \subseteq Nat
      BY DEF Bytes, Blank
    <3>2. QED
      BY <3>1 DEF TypeOK
  <2>5. QED
    BY <2>1, <2>2, <2>3, <2>4 DEF TypeOK
<1>1. \A s \in 0 .. RingSize - 1 : ring'[s] <= taken'
  <2>1. CASE Read /\ taken < sent
    BY <1>0, <2>1 DEF Read, ValueInv
  <2>2. CASE UNCHANGED <<ring, taken>>
    BY <2>2 DEF ValueInv
  <2>3. CASE ReaderNext \/ ClockReceive
    BY <2>1, <2>2, <2>3 DEF ReaderNext, Look, MayRead, Read, Bump, ClockReceive, host, reader
  <2>4. QED
    BY <2>2, <2>3, ReaderApart DEF Next, reader
<1>2. \A s \in 0 .. BufSize - 1 : buf'[s] <= LeftRing'
  <2>1. CASE IsrTake
    BY <1>0, <2>1, TakenByte DEF ValueInv
  <2>2. CASE UNCHANGED buf
    BY <1>0, <2>2 DEF ValueInv
  <2>3. QED
    BY <2>1, <2>2 DEF Next, HostSend, ReaderNext, Look, MayRead, Read, Bump, ClockReceive, ClockQuiet,
       ClockSend, IsrNext, IsrEnter, IsrThrottle, IsrMore, RoutineNext, CallGetChar, CallPutChar,
       InitPointers, InitFifos, InitRts, InitIer, Sample, Allow, Check, Fetch, HearByte, Poll, Write,
       MainStep, Reset, vars, guest
<1>3. mainAt' = "bump" => d0' <= LeftRing'
  <2>1. CASE Fetch
    BY <1>0, <2>1 DEF Fetch, MainStep, ValueInv
  <2>2. CASE UNCHANGED <<mainAt, d0>>
    <3>1. mainAt = "bump" => d0 <= LeftRing
      BY DEF ValueInv
    <3>2. mainAt = "bump" => d0 \in Nat
      BY DEF TypeOK, Bytes
    <3>3. QED
      BY <1>0, <2>2, <3>1, <3>2
  <2>3. CASE mainAt' # "bump"
    BY <2>3
  <2>4. QED
    BY <2>1, <2>2, <2>3 DEF Next, HostSend, ReaderNext, Look, MayRead, Read, Bump, ClockReceive,
       ClockQuiet, ClockSend, IsrNext, IsrEnter, IsrTake, IsrThrottle, IsrMore, RoutineNext,
       CallGetChar, CallPutChar, InitPointers, InitFifos, InitRts, InitIer, Sample, Allow, Check,
       HearByte, Poll, Write, MainStep, Reset, vars, guest
<1>4. heard' <= LeftRing'
  <2>1. CASE InitFifos
    <3>1. LeftRing' = LeftRing
      BY <2>1, RingCounts, ReaderApart DEF RoutineNext
    <3>2. QED
      BY <1>0, <2>1, <3>1 DEF InitFifos
  <2>2. CASE HearByte
    <3>1. heard' = d0 /\ d0 <= LeftRing /\ d0 \in Nat
      BY <2>2 DEF HearByte, MainStep, ValueInv, TypeOK, Bytes
    <3>2. QED
      BY <1>0, <3>1
  <2>3. CASE UNCHANGED heard
    BY <1>0, <2>3
  <2>4. QED
    BY <2>1, <2>2, <2>3 DEF Next, HostSend, ReaderNext, Look, MayRead, Read, Bump, ClockReceive,
       ClockQuiet, ClockSend, IsrNext, IsrEnter, IsrTake, IsrThrottle, IsrMore, RoutineNext,
       CallGetChar, CallPutChar, InitPointers, InitRts, InitIer, Sample, Allow, Check, Fetch, Poll,
       Write, MainStep, Reset, vars
<1>5. QED
  BY <1>1, <1>2, <1>3, <1>4 DEF ValueInv

\* UARTInit runs without the handler and empties the guest buffer.
LEMMA InitStepsStep ==
  ASSUME TypeOK, InitInv, [Next]_vars
  PROVE  InitInv'
<1> USE DEF InitInv, InitSteps
<1>1. CASE HostSend \/ ReaderNext \/ ClockReceive \/ ClockQuiet \/ ClockSend \/ UNCHANGED vars
  BY <1>1 DEF HostSend, ReaderNext, Look, MayRead, Read, Bump, ClockReceive, ClockQuiet, ClockSend,
     vars, uart, guest
<1>2. CASE IsrNext
  BY <1>2 DEF IsrNext, IsrEnter, IsrTake, IsrThrottle, IsrMore, Masked, uart
<1>3. CASE InitPointers \/ InitFifos \/ InitRts \/ InitIer
  BY <1>3 DEF InitPointers, InitFifos, InitRts, InitIer, MainStep
<1>4. CASE Sample \/ Allow \/ Check \/ Fetch \/ HearByte
  BY <1>4 DEF Sample, Allow, Check, Fetch, HearByte, MainStep
<1>5. CASE Poll \/ Write \/ CallGetChar \/ CallPutChar
  BY <1>5 DEF Poll, Write, CallGetChar, CallPutChar, MainStep
<1>6. CASE Reset
  BY <1>6 DEF Reset
<1>7. QED
  BY <1>1, <1>2, <1>3, <1>4, <1>5, <1>6 DEF Next, RoutineNext

\* Each variable keeps its range.
LEMMA TypeStep ==
  ASSUME LineInv, [Next]_vars
  PROVE  TypeOK'
<1> USE SerialLinkAssumption
<1>0. TypeOK /\ RingInv /\ FifoInv /\ ValueInv /\ InitInv
  BY DEF LineInv
<1>1. sent' \in 0 .. MaxBytes /\ sent' >= sent /\ taken' \in 0 .. sent'
  <2>0. sent \in 0 .. MaxBytes /\ taken \in 0 .. sent
    BY <1>0 DEF TypeOK
  <2>1. CASE HostSend \/ ReaderNext \/ ClockReceive
    BY <2>0, <2>1 DEF HostSend, ReaderNext, Look, MayRead, Read, Bump, ClockReceive, host
  <2>2. CASE UNCHANGED host
    BY <2>0, <2>2 DEF host
  <2>3. QED
    BY <2>1, <2>2 DEF Next, ClockQuiet, ClockSend, IsrNext, IsrEnter, IsrTake, IsrThrottle, IsrMore,
       RoutineNext, CallGetChar, CallPutChar, InitPointers, InitFifos, InitRts, InitIer, Sample,
       Allow, Check, Fetch, HearByte, Poll, Write, MainStep, Reset, vars
<1>2. heard' \in 0 .. sent'
  <2>0. heard \in 0 .. sent /\ sent \in Nat
    BY <1>0 DEF TypeOK
  <2>1. CASE InitFifos \/ HearByte
    <3>1. sent' = sent
      BY <2>1 DEF InitFifos, HearByte, MainStep, host
    <3>2. LeftRing \in 0 .. sent
      <4>1. LeftRing \in Int /\ InRing \in 0 .. RingSize - 1
            /\ LeftRing = taken - InRing - (IF readerAt = "bump" THEN 1 ELSE 0)
        BY <1>0, Counts
      <4>2. sent \in Nat /\ taken \in 0 .. sent
        BY <1>0 DEF TypeOK
      <4>3. LeftRing <= sent
        BY <4>1, <4>2
      <4>4. LeftRing >= 0
        BY <1>0 DEF TypeOK, RingInv
      <4>5. QED
        BY <2>0, <4>1, <4>3, <4>4
    <3>3. CASE HearByte
      BY <1>0, <3>1, <3>2, <3>3 DEF HearByte, MainStep, ValueInv, TypeOK, Bytes
    <3>4. CASE InitFifos
      BY <3>1, <3>2, <3>4 DEF InitFifos
    <3>5. QED
      BY <2>1, <3>3, <3>4
  <2>2. CASE UNCHANGED heard
    BY <1>1, <2>0, <2>2
  <2>3. QED
    BY <2>1, <2>2 DEF Next, HostSend, ReaderNext, Look, MayRead, Read, Bump, ClockReceive,
       ClockQuiet, ClockSend, IsrNext, IsrEnter, IsrTake, IsrThrottle, IsrMore, RoutineNext,
       CallGetChar, CallPutChar, InitPointers, InitRts, InitIer, Sample, Allow, Check, Fetch, Poll,
       Write, MainStep, Reset, vars
<1>3. /\ ring' \in [0 .. RingSize - 1 -> Bytes \cup {Blank}]
      /\ readPtr' \in 0 .. RingSize - 1 /\ writePtr' \in 0 .. RingSize - 1
      /\ headroom' \in 0 .. RingSize /\ readerAt' \in {"look", "rts", "read", "bump"}
  <2>0. /\ ring \in [0 .. RingSize - 1 -> Bytes \cup {Blank}]
        /\ readPtr \in 0 .. RingSize - 1 /\ writePtr \in 0 .. RingSize - 1
        /\ headroom \in 0 .. RingSize /\ readerAt \in {"look", "rts", "read", "bump"}
        /\ RingSize \in Nat
    BY <1>0 DEF TypeOK
  <2>1. CASE Look
    <3>1. Headroom \in 0 .. RingSize
      BY <2>0, DistanceIs DEF Headroom
    <3>2. QED
      BY <2>0, <2>1, <3>1 DEF Look
  <2>2. CASE MayRead
    BY <2>0, <2>2 DEF MayRead
  <2>3. CASE Read
    <3>1. taken < sent => taken + 1 \in Bytes
      BY <1>0 DEF TypeOK, Bytes
    <3>2. QED
      BY <2>0, <2>3, <3>1 DEF Read
  <2>4. CASE Bump \/ ClockReceive
    BY <2>0, <2>4, AdvanceIs DEF Bump, ClockReceive, reader
  <2>5. CASE UNCHANGED <<reader, readPtr>>
    BY <2>0, <2>5 DEF reader
  <2>6. QED
    BY <2>1, <2>2, <2>3, <2>4, <2>5, ReaderApart DEF Next, ReaderNext
<1>4. rxFifo' \in Seq(Bytes) /\ Len(rxFifo') <= FifoSize
  <2>0. rxFifo \in Seq(Bytes) /\ Len(rxFifo) <= FifoSize
    BY <1>0 DEF TypeOK
  <2>1. CASE ClockReceive
    BY <1>0, <2>0, <2>1, NextByte
  <2>2. CASE IsrTake
    BY <1>0, <2>0, <2>2, TakenByte
  <2>3. CASE InitFifos
    BY <2>3 DEF InitFifos
  <2>4. CASE UNCHANGED rxFifo
    BY <2>0, <2>4
  <2>5. QED
    BY <2>1, <2>2, <2>3, <2>4, FifoApart DEF Next, IsrNext, RoutineNext
<1>5. txCount' \in 0 .. TxFifoSize
  <2>0. txCount \in 0 .. TxFifoSize /\ TxFifoSize \in Nat
    BY <1>0 DEF TypeOK
  <2>1. CASE ClockSend \/ InitFifos \/ Write
    BY <2>0, <2>1 DEF ClockSend, InitFifos, Write
  <2>2. CASE UNCHANGED txCount
    BY <2>0, <2>2
  <2>3. QED
    BY <2>1, <2>2 DEF Next, HostSend, ReaderNext, Look, MayRead, Read, Bump, ClockReceive,
       ClockQuiet, IsrNext, IsrEnter, IsrTake, IsrThrottle, IsrMore, RoutineNext, CallGetChar,
       CallPutChar, InitPointers, InitRts, InitIer, Sample, Allow, Check, Fetch, HearByte, Poll,
       Reset, vars, uart
<1>10. quiet' \in BOOLEAN /\ ier' \in BOOLEAN /\ rts' \in BOOLEAN
  <2>0. quiet \in BOOLEAN /\ ier \in BOOLEAN /\ rts \in BOOLEAN
    BY <1>0 DEF TypeOK
  <2>1. CASE ClockReceive \/ ClockQuiet \/ Reset \/ IsrThrottle
    BY <2>0, <2>1 DEF ClockReceive, ClockQuiet, Reset, IsrThrottle, uart
  <2>2. CASE InitPointers \/ InitRts \/ InitIer \/ Allow
    BY <2>0, <2>2 DEF InitPointers, InitRts, InitIer, Allow, MainStep
  <2>3. CASE UNCHANGED <<quiet, ier, rts>>
    BY <2>0, <2>3
  <2>4. QED
    BY <2>1, <2>2, <2>3 DEF Next, HostSend, ReaderNext, Look, MayRead, Read, Bump, ClockSend, IsrNext,
       IsrEnter, IsrTake, IsrMore, RoutineNext, CallGetChar, CallPutChar, InitFifos, Sample, Check,
       Fetch, HearByte, Poll, Write, MainStep, vars, uart
<1>6. /\ buf' \in [0 .. BufSize - 1 -> Bytes \cup {Blank}]
      /\ rdPtr' \in 0 .. BufSize - 1 /\ wrPtr' \in 0 .. BufSize - 1
      /\ isrAt' \in {"none", "take", "throttle", "more"}
  <2>0. /\ buf \in [0 .. BufSize - 1 -> Bytes \cup {Blank}]
        /\ rdPtr \in 0 .. BufSize - 1 /\ wrPtr \in 0 .. BufSize - 1
        /\ isrAt \in {"none", "take", "throttle", "more"}
        /\ BufSize \in Nat \ {0}
    BY <1>0 DEF TypeOK
  <2>1. CASE IsrTake
    <3>1. Stored + 1 \in Bytes /\ buf' = [buf EXCEPT ![wrPtr] = Stored + 1]
      BY <1>0, <2>1, TakenByte
    <3>2. wrPtr' \in 0 .. BufSize - 1 /\ rdPtr' = rdPtr /\ isrAt' = "throttle"
      BY <2>0, <2>1, AdvanceIs DEF IsrTake
    <3>3. QED
      BY <2>0, <3>1, <3>2
  <2>2. CASE IsrEnter \/ IsrThrottle \/ IsrMore \/ Reset
    BY <2>0, <2>2 DEF IsrEnter, IsrThrottle, IsrMore, Reset
  <2>3. CASE HearByte \/ InitPointers
    <3>1. UNCHANGED <<buf, isrAt>>
      BY <2>3 DEF HearByte, InitPointers, MainStep
    <3>2. rdPtr' \in {0, Advance(rdPtr, BufSize)} /\ wrPtr' \in {0, wrPtr}
      BY <2>3 DEF HearByte, InitPointers
    <3>3. 0 \in 0 .. BufSize - 1 /\ Advance(rdPtr, BufSize) \in 0 .. BufSize - 1
      BY <2>0, AdvanceIs
    <3>4. QED
      BY <2>0, <3>1, <3>2, <3>3
  <2>4. CASE UNCHANGED <<buf, rdPtr, wrPtr, isrAt>>
    BY <2>0, <2>4
  <2>5. QED
    BY <2>1, <2>2, <2>3, <2>4 DEF Next, HostSend, ReaderNext, Look, MayRead, Read, Bump, ClockReceive,
       ClockQuiet, ClockSend, IsrNext, RoutineNext, CallGetChar, CallPutChar, InitFifos, InitRts,
       InitIer, Sample, Allow, Check, Fetch, Poll, Write, MainStep, vars, guest
<1>7. /\ mainAt' \in InitSteps \cup GetSteps \cup PutSteps \cup {"run"}
      /\ d0' \in 0 .. BufSize \/ d0' \in Bytes
  <2>0. /\ mainAt \in InitSteps \cup GetSteps \cup PutSteps \cup {"run"}
        /\ d0 \in 0 .. BufSize \/ d0 \in Bytes
        /\ BufSize \in Nat \ {0}
    BY <1>0 DEF TypeOK
  <2>1. CASE Sample
    BY <1>0, <2>1, Counts DEF Sample, MainStep, GetSteps
  <2>2. CASE Fetch
    BY <1>0, <2>2 DEF Fetch, MainStep, GetSteps, TypeOK, Blank
  <2>3. CASE Allow \/ Check \/ HearByte \/ CallGetChar
    BY <2>0, <2>3 DEF Allow, Check, HearByte, CallGetChar, MainStep, GetSteps
  <2>4. CASE InitPointers \/ InitFifos \/ InitRts \/ InitIer \/ Reset
    BY <2>0, <2>4 DEF InitPointers, InitFifos, InitRts, InitIer, Reset, MainStep, InitSteps
  <2>5. CASE Poll \/ Write \/ CallPutChar
    BY <2>0, <2>5 DEF Poll, Write, CallPutChar, MainStep, PutSteps
  <2>6. CASE UNCHANGED <<mainAt, d0>>
    BY <2>0, <2>6
  <2>7. QED
    BY <2>1, <2>2, <2>3, <2>4, <2>5, <2>6 DEF Next, HostSend, ReaderNext, Look, MayRead, Read, Bump,
       ClockReceive, ClockQuiet, ClockSend, IsrNext, IsrEnter, IsrTake, IsrThrottle, IsrMore,
       RoutineNext, vars, guest
<1>8. arrivals' \in 0 .. ArrivalsPerStep /\ resets' \in 0 .. MaxResets
  <2>0. arrivals \in 0 .. ArrivalsPerStep /\ resets \in 0 .. MaxResets
    BY <1>0 DEF TypeOK
  <2>1. CASE ClockReceive \/ IsrMore \/ Reset
    BY <2>0, <2>1 DEF ClockReceive, IsrMore, Reset
  <2>2. CASE RoutineNext \/ CallGetChar \/ CallPutChar
    BY <2>0, <2>2 DEF RoutineNext, CallGetChar, CallPutChar, InitPointers, InitFifos, InitRts,
       InitIer, Sample, Allow, Check, Fetch, HearByte, Poll, Write, MainStep
  <2>3. CASE UNCHANGED <<arrivals, resets>>
    BY <2>0, <2>3
  <2>4. QED
    BY <2>1, <2>2, <2>3 DEF Next, HostSend, ReaderNext, Look, MayRead, Read, Bump, ClockQuiet,
       ClockSend, IsrNext, IsrEnter, IsrTake, IsrThrottle, vars
<1>9. QED
  BY <1>1, <1>2, <1>3, <1>4, <1>5, <1>6, <1>7, <1>8, <1>10 DEF TypeOK

\* What holds of the line whatever the sizes of its buffers.
LEMMA LineInvariant == Spec => []LineInv
<1>1. ASSUME Init PROVE LineInv
  <2> USE SerialLinkAssumption
  <2>1. TypeOK
    <3>1. /\ ring \in [0 .. RingSize - 1 -> Bytes \cup {Blank}]
          /\ buf \in [0 .. BufSize - 1 -> Bytes \cup {Blank}]
      BY <1>1 DEF Init, Blank
    <3>2. rxFifo \in Seq(Bytes) /\ Len(rxFifo) <= FifoSize
      BY <1>1 DEF Init
    <3>3. mainAt \in InitSteps
      BY <1>1 DEF Init, InitSteps
    <3>4. /\ sent \in 0 .. MaxBytes /\ taken \in 0 .. sent /\ heard \in 0 .. sent
          /\ readPtr \in 0 .. RingSize - 1 /\ writePtr \in 0 .. RingSize - 1
          /\ rdPtr \in 0 .. BufSize - 1 /\ wrPtr \in 0 .. BufSize - 1
          /\ headroom \in 0 .. RingSize /\ txCount \in 0 .. TxFifoSize
          /\ d0 \in 0 .. BufSize /\ arrivals \in 0 .. ArrivalsPerStep /\ resets \in 0 .. MaxResets
      BY <1>1 DEF Init
    <3>5. /\ rts \in BOOLEAN /\ quiet \in BOOLEAN /\ ier \in BOOLEAN
          /\ readerAt \in {"look", "rts", "read", "bump"}
          /\ isrAt \in {"none", "take", "throttle", "more"}
      BY <1>1 DEF Init
    <3>6. QED
      BY <3>1, <3>2, <3>3, <3>4, <3>5 DEF TypeOK
  <2>2. InRing = 0
    BY <1>1, DistanceZero DEF Init, InRing
  <2>3. LeftRing = 0
    BY <1>1, <2>2 DEF Init, LeftRing, InRing
  <2>4. RingInv
    BY <1>1, <2>2, <2>3, DistanceIs DEF Init, RingInv
  <2>5. FifoInv /\ ValueInv /\ InitInv
    BY <1>1, <2>3 DEF Init, FifoInv, ValueInv, InitInv, InitSteps, Blank
  <2>6. QED
    BY <2>1, <2>4, <2>5 DEF LineInv
<1>2. LineInv /\ [Next]_vars => LineInv'
  BY TypeStep, RingStep, FifoStep, ValueStep, InitStepsStep DEF LineInv
<1>3. QED
  BY <1>1, <1>2, PTL DEF Spec

-----------------------------------------------------------------------------
\* Only the handler and the program move the pointers of the guest buffer.
LEMMA GuestApart ==
  ASSUME [Next]_vars, ~IsrTake, ~HearByte, ~InitPointers
  PROVE  UNCHANGED <<buf, rdPtr, wrPtr>>
<1>1. CASE HostSend \/ ReaderNext \/ ClockReceive \/ ClockQuiet \/ ClockSend \/ Reset \/ UNCHANGED vars
  BY <1>1 DEF HostSend, ReaderNext, Look, MayRead, Read, Bump, ClockReceive, ClockQuiet, ClockSend,
     Reset, vars, guest
<1>2. CASE IsrNext
  BY <1>2 DEF IsrNext, IsrEnter, IsrThrottle, IsrMore
<1>3. CASE RoutineNext \/ CallGetChar \/ CallPutChar
  BY <1>3 DEF RoutineNext, CallGetChar, CallPutChar, InitFifos, InitRts, InitIer, Sample, Allow,
     Check, Fetch, Poll, Write, MainStep
<1>4. QED
  BY <1>1, <1>2, <1>3 DEF Next

\* The handler adds an unread byte, the program takes one off.
LEMMA UnreadCounts ==
  ASSUME TypeOK
  PROVE  /\ IsrTake /\ Unread + 1 < BufSize => Unread' = Unread + 1
         /\ HearByte /\ Unread >= 1 => Unread' = Unread - 1
         /\ InitPointers => Unread' = 0
         /\ UNCHANGED <<rdPtr, wrPtr>> => Unread' = Unread
<1>0. rdPtr \in 0 .. BufSize - 1 /\ wrPtr \in 0 .. BufSize - 1 /\ BufSize \in Nat \ {0}
  BY SerialLinkAssumption DEF TypeOK
<1>1. ASSUME IsrTake, Unread + 1 < BufSize PROVE Unread' = Unread + 1
  <2>1. rdPtr' = rdPtr /\ wrPtr' = Advance(wrPtr, BufSize)
    BY <1>1 DEF IsrTake
  <2>2. Unread # BufSize - 1
    BY <1>0, <1>1, Counts
  <2>3. QED
    BY <1>0, <2>1, <2>2, DistanceTo DEF Unread
<1>2. ASSUME HearByte, Unread >= 1 PROVE Unread' = Unread - 1
  <2>1. rdPtr' = Advance(rdPtr, BufSize) /\ wrPtr' = wrPtr
    BY <1>2 DEF HearByte
  <2>2. rdPtr # wrPtr
    BY <1>0, <1>2, DistanceZero DEF Unread
  <2>3. QED
    BY <1>0, <2>1, <2>2, DistanceFrom DEF Unread
<1>3. ASSUME InitPointers PROVE Unread' = 0
  BY <1>0, <1>3, DistanceZero DEF InitPointers, Unread
<1>4. ASSUME UNCHANGED <<rdPtr, wrPtr>> PROVE Unread' = Unread
  BY <1>4 DEF Unread
<1>5. QED
  BY <1>1, <1>2, <1>3, <1>4

\* Only the handler stores, and only a new FIFO forgets.
LEMMA StoredStays ==
  ASSUME TypeOK, RingInv, [Next]_vars, ~IsrTake, ~InitFifos
  PROVE  Stored' = Stored
<1>1. CASE ClockReceive
  <2>1. rxFifo' = Append(rxFifo, LeftRing + 1) /\ LeftRing' = LeftRing + 1 /\ LeftRing + 1 \in Bytes
    BY <1>1, NextByte, RingCounts
  <2>2. rxFifo \in Seq(Bytes) /\ LeftRing \in Int
    BY Counts DEF TypeOK
  <2>3. Len(rxFifo') = Len(rxFifo) + 1
    BY <2>1, <2>2
  <2>4. QED
    BY <2>1, <2>2, <2>3 DEF Stored
<1>2. CASE ~ClockReceive
  <2>1. LeftRing' = LeftRing
    BY <1>2, LeftRingGrows
  <2>2. rxFifo' = rxFifo
    BY <1>2, FifoApart DEF Next, IsrNext, RoutineNext
  <2>3. QED
    BY <2>1, <2>2 DEF Stored
<1>3. QED
  BY <1>1, <1>2

\* The handler does not run while the BIOS sets up the UART.
LEMMA HandlerListens ==
  ASSUME InitInv, isrAt # "none"
  PROVE  Listening
BY DEF InitInv, Listening, InitSteps

\* The guest buffer keeps the order of the FIFO.
LEMMA BufferStep ==
  ASSUME StreamInv, [Next]_vars
  PROVE  BufferInv'
<1> USE SerialLinkAssumption
<1>0. TypeOK /\ RingInv /\ FifoInv /\ InitInv /\ BufferInv /\ FlowInv
  BY DEF StreamInv, LineInv
<1>a. /\ Stored \in Int /\ Unread \in 0 .. BufSize - 1 /\ heard \in Nat
      /\ rdPtr \in 0 .. BufSize - 1 /\ wrPtr \in 0 .. BufSize - 1 /\ BufSize \in Nat \ {0}
      /\ buf \in [0 .. BufSize - 1 -> Bytes \cup {Blank}]
      /\ d0 \in Nat /\ Len(rxFifo) \in Nat /\ InRing \in Nat /\ LeftRing \in Int
  <2>1. d0 \in Nat
    BY <1>0 DEF TypeOK, Bytes
  <2>2. QED
    BY <1>0, <2>1, Counts DEF TypeOK
<1>1. CASE ~Listening'
  BY <1>1 DEF BufferInv
<1>2. CASE InitFifos
  <2>1. LeftRing' = LeftRing /\ rxFifo' = <<>> /\ heard' = LeftRing /\ mainAt' = "initRts"
    BY <1>0, <1>2, RingCounts, ReaderApart DEF InitFifos, MainStep, RoutineNext
  <2>2. Stored' = LeftRing
    BY <1>a, <2>1 DEF Stored
  <2>3. Unread' = 0
    <3>1. rdPtr = wrPtr /\ UNCHANGED <<rdPtr, wrPtr>>
      BY <1>0, <1>2 DEF InitFifos, MainStep, InitInv, InitSteps
    <3>2. QED
      BY <1>a, <3>1, DistanceZero DEF Unread
  <2>4. \A s \in 0 .. BufSize - 1 : ~(Distance(rdPtr', s, BufSize) < 0)
    <3>1. rdPtr' = rdPtr
      BY <1>2 DEF InitFifos
    <3>2. \A s \in 0 .. BufSize - 1 : Distance(rdPtr, s, BufSize) \in 0 .. BufSize - 1
      BY <1>a, DistanceIs
    <3>3. QED
      BY <1>a, <3>1, <3>2
  <2>5. QED
    BY <1>a, <2>1, <2>2, <2>3, <2>4 DEF BufferInv
\* The handler appends the next byte; there is room for it.
<1>3. CASE IsrTake
  <2>1. Listening /\ Len(rxFifo) >= 1
    <3>1. isrAt = "take" /\ rxFifo # <<>> /\ rxFifo \in Seq(Bytes)
      BY <1>0, <1>3 DEF IsrTake, FifoInv, TypeOK
    <3>2. QED
      BY <1>0, <3>1, HandlerListens
  <2>2. Unread + UnderWay < BufSize /\ Stored - heard = Unread
    BY <1>0, <2>1 DEF FlowInv, BufferInv
  <2>3. Unread + 1 < BufSize
    BY <1>a, <2>1, <2>2 DEF UnderWay
  <2>4. /\ Unread' = Unread + 1 /\ Stored' = Stored + 1
        /\ buf' = [buf EXCEPT ![wrPtr] = Stored + 1]
    BY <1>0, <1>3, <2>3, UnreadCounts, TakenByte
  <2>5. UNCHANGED <<heard, d0, mainAt, rdPtr>>
    BY <1>3 DEF IsrTake
  <2>6. ASSUME NEW s \in 0 .. BufSize - 1, Distance(rdPtr, s, BufSize) < Unread + 1
        PROVE  buf'[s] = heard + 1 + Distance(rdPtr, s, BufSize)
    <3>1. CASE s = wrPtr
      BY <1>a, <2>2, <2>4, <3>1 DEF Unread
    <3>2. CASE s # wrPtr
      <4>1. Distance(rdPtr, s, BufSize) \in 0 .. BufSize - 1
        BY <1>a, DistanceIs
      <4>2. Distance(rdPtr, s, BufSize) # Unread
        BY <1>a, <3>2, DistanceDiffers DEF Unread
      <4>3. Distance(rdPtr, s, BufSize) < Unread
        BY <1>a, <2>6, <4>1, <4>2
      <4>4. buf'[s] = buf[s]
        BY <1>a, <2>4, <3>2
      <4>5. QED
        BY <1>0, <2>1, <4>3, <4>4 DEF BufferInv
    <3>3. QED
      BY <3>1, <3>2
  <2>7. Stored' - heard' = Unread'
    BY <1>a, <2>2, <2>4, <2>5
  <2>8. /\ mainAt \in {"allow", "check"} => d0 <= Unread
        /\ mainAt \in {"fetch", "bump"} => Unread >= 1
        /\ mainAt = "bump" => d0 = heard + 1
    BY <1>0, <2>1 DEF BufferInv
  <2>9. QED
    BY <1>a, <2>4, <2>5, <2>6, <2>7, <2>8 DEF BufferInv
\* The program takes the oldest one.
<1>4. CASE HearByte
  <2>1. /\ Listening /\ mainAt = "bump" /\ mainAt' = "run" /\ heard' = d0 /\ buf' = buf
        /\ rdPtr' = Advance(rdPtr, BufSize)
    BY <1>4 DEF HearByte, MainStep, Listening
  <2>2. Unread >= 1 /\ d0 = heard + 1 /\ Stored - heard = Unread
    BY <1>0, <2>1 DEF BufferInv
  <2>3. Unread' = Unread - 1
    BY <1>0, <1>4, <2>2, UnreadCounts
  <2>4. Stored' = Stored
    BY <1>0, <1>4, StoredStays DEF HearByte, InitFifos, IsrTake, MainStep
  <2>5. ASSUME NEW s \in 0 .. BufSize - 1, Distance(rdPtr', s, BufSize) < Unread - 1
        PROVE  buf[s] = heard + 2 + Distance(rdPtr', s, BufSize)
    <3>1. /\ Distance(rdPtr', s, BufSize)
               = IF rdPtr = s THEN BufSize - 1 ELSE Distance(rdPtr, s, BufSize) - 1
          /\ Distance(rdPtr, s, BufSize) \in 0 .. BufSize - 1
      BY <1>a, <2>1, DistanceFrom, DistanceIs
    <3>2. rdPtr # s
      BY <1>a, <2>5, <3>1
    <3>3. buf[s] = heard + 1 + Distance(rdPtr, s, BufSize)
      BY <1>0, <1>a, <2>1, <2>5, <3>1, <3>2 DEF BufferInv
    <3>4. QED
      BY <1>a, <3>1, <3>2, <3>3
  <2>6. \A s \in 0 .. BufSize - 1 :
          Distance(rdPtr', s, BufSize) < Unread' =>
            buf'[s] = heard' + 1 + Distance(rdPtr', s, BufSize)
    <3>1. buf' = buf /\ heard' = heard + 1
      BY <2>1, <2>2
    <3>2. Advance(rdPtr, BufSize) \in 0 .. BufSize - 1
      BY <1>a, AdvanceIs
    <3>3. \A s \in 0 .. BufSize - 1 : Distance(rdPtr', s, BufSize) \in Int
      BY <1>a, <2>1, <3>2, DistanceIs
    <3>4. QED
      BY <1>a, <2>3, <2>5, <3>1, <3>3
  <2>7. Stored' - heard' = Unread'
    BY <1>a, <2>1, <2>2, <2>3, <2>4
  <2>8. QED
    BY <2>1, <2>6, <2>7 DEF BufferInv
<1>5. CASE /\ UNCHANGED <<buf, rdPtr, wrPtr, heard>> /\ Stored' = Stored
           /\ Listening' => Listening
           /\ mainAt' \in {"allow", "check"} => Listening /\ d0' <= Unread
           /\ mainAt' \in {"fetch", "bump"} => Listening /\ Unread >= 1
           /\ mainAt' = "bump" => d0' = heard + 1
  <2>1. Unread' = Unread
    BY <1>0, <1>5, UnreadCounts
  <2>2. QED
    BY <1>0, <1>5, <2>1 DEF BufferInv
<1>6. CASE Sample \/ Allow \/ Check \/ Fetch
  <2>1. UNCHANGED <<buf, rdPtr, wrPtr, heard>> /\ Listening /\ Listening'
    BY <1>6 DEF Sample, Allow, Check, Fetch, MainStep, Listening
  <2>2. Stored' = Stored
    BY <1>0, <1>6, StoredStays DEF Sample, Allow, Check, Fetch, InitFifos, IsrTake, MainStep
  <2>3. /\ mainAt' \in {"allow", "check"} => d0' <= Unread
        /\ mainAt' \in {"fetch", "bump"} => Unread >= 1
        /\ mainAt' = "bump" => d0' = heard + 1
    <3>1. CASE Sample
      BY <1>a, <3>1 DEF Sample, MainStep
    <3>2. CASE Allow
      BY <1>0, <2>1, <3>2 DEF Allow, MainStep, BufferInv
    <3>3. CASE Check
      <4>1. d0 <= Unread
        BY <1>0, <2>1, <3>3 DEF Check, MainStep, BufferInv
      <4>2. QED
        BY <1>a, <3>3, <4>1 DEF Check, MainStep
    <3>4. CASE Fetch
      <4>1. Unread >= 1
        BY <1>0, <2>1, <3>4 DEF Fetch, MainStep, BufferInv
      <4>2. Distance(rdPtr, rdPtr, BufSize) = 0
        BY <1>a, DistanceZero
      <4>3. buf[rdPtr] = heard + 1
        BY <1>0, <1>a, <2>1, <4>1, <4>2 DEF BufferInv
      <4>4. QED
        BY <3>4, <4>1, <4>3 DEF Fetch, MainStep
    <3>5. QED
      BY <1>6, <3>1, <3>2, <3>3, <3>4
  <2>4. QED
    BY <1>5, <2>1, <2>2, <2>3
<1>7. CASE InitRts \/ InitIer \/ CallGetChar \/ CallPutChar \/ Poll \/ Write
  <2>1. /\ UNCHANGED <<buf, rdPtr, wrPtr, heard>> /\ Listening
        /\ mainAt' \notin {"allow", "check", "fetch", "bump"}
    BY <1>7 DEF InitRts, InitIer, CallGetChar, CallPutChar, Poll, Write, MainStep, Listening
  <2>2. Stored' = Stored
    BY <1>0, <1>7, StoredStays
    DEF InitRts, InitIer, CallGetChar, CallPutChar, Poll, Write, InitFifos, IsrTake, MainStep
  <2>3. QED
    BY <1>5, <2>1, <2>2
<1>8. CASE HostSend \/ ReaderNext \/ ClockReceive \/ ClockQuiet \/ ClockSend \/ IsrEnter
             \/ IsrThrottle \/ IsrMore \/ UNCHANGED vars
  <2>1. UNCHANGED <<buf, rdPtr, wrPtr, heard, mainAt, d0>>
    BY <1>8 DEF HostSend, ReaderNext, Look, MayRead, Read, Bump, ClockReceive, ClockQuiet, ClockSend,
       IsrEnter, IsrThrottle, IsrMore, vars, guest
  <2>2. Stored' = Stored
    <3>1. ~InitFifos
      BY <1>8, <2>1 DEF InitFifos, MainStep
    <3>2. CASE ~IsrTake
      BY <1>0, <3>1, <3>2, StoredStays
    <3>3. CASE IsrTake
      BY <1>0, <1>8, <3>3 DEF IsrTake, HostSend, ReaderNext, Look, MayRead, Read, Bump, ClockReceive,
         ClockQuiet, ClockSend, IsrEnter, IsrThrottle, IsrMore, vars, guest
    <3>4. QED
      BY <3>2, <3>3
  <2>3. Listening' = Listening
    BY <2>1 DEF Listening
  <2>4. Listening =>
          /\ mainAt' \in {"allow", "check"} => d0' <= Unread
          /\ mainAt' \in {"fetch", "bump"} => Unread >= 1
          /\ mainAt' = "bump" => d0' = heard + 1
    BY <1>0, <2>1 DEF BufferInv
  <2>5. QED
    BY <1>1, <1>5, <2>1, <2>2, <2>3, <2>4
<1>9. CASE Reset \/ InitPointers
  <2>1. ~Listening'
    BY <1>9 DEF Reset, InitPointers, MainStep, Listening
  <2>2. QED
    BY <2>1, <1>1
<1>10. QED
  BY <1>2, <1>3, <1>4, <1>6, <1>7, <1>8, <1>9 DEF Next, IsrNext, RoutineNext

\* The two marks the unread bytes keep to while RTS is asserted.
LEMMA Limits ==
  /\ AssertedMax \in Nat
  /\ DisableThreshold <= AssertedMax + 1
  /\ EnableThreshold + Trigger + ArrivalsPerStep <= AssertedMax + 2
BY SerialLinkAssumption DEF AssertedMax

\* What is under way is at most a full FIFO and a full ring.
LEMMA UnderWayCounts ==
  ASSUME TypeOK, RingInv, FifoInv
  PROVE  /\ UnderWay \in Nat /\ UnderWay <= FifoSize + RingSize - Slack
         /\ UnderWay >= Len(rxFifo)
<1>1. /\ Len(rxFifo) \in Nat /\ Len(rxFifo) <= FifoSize /\ InRing \in Nat
      /\ FifoSize \in Nat /\ RingSize \in Nat /\ Slack \in Nat
  BY Counts, SerialLinkAssumption DEF TypeOK
<1>2. InRing + (IF readerAt \in {"read", "bump"} THEN 1 ELSE 0) <= RingSize - Slack
  BY DEF RingInv
<1>3. QED
  BY <1>1, <1>2 DEF UnderWay

\* Once RTS is deasserted nothing joins what is under way.
LEMMA NoMoreUnderWay ==
  ASSUME TypeOK, RingInv, FifoInv, [Next]_vars, ~rts, ~IsrTake, ~InitFifos
  PROVE  UnderWay' <= UnderWay
<1>0. /\ Len(rxFifo) \in Nat /\ InRing \in Nat /\ rxFifo \in Seq(Bytes)
  BY Counts DEF TypeOK
<1>1. CASE ClockReceive
  <2>1. rxFifo' = Append(rxFifo, LeftRing + 1) /\ LeftRing + 1 \in Bytes /\ InRing' = InRing - 1
    BY <1>1, NextByte, RingCounts
  <2>2. Len(rxFifo') = Len(rxFifo) + 1
    BY <1>0, <2>1
  <2>3. readerAt' = readerAt
    BY <1>1 DEF ClockReceive, reader
  <2>4. QED
    BY <1>0, <2>1, <2>2, <2>3 DEF UnderWay
<1>2. CASE Bump
  <2>1. InRing' = InRing + 1 /\ rxFifo' = rxFifo /\ readerAt = "bump" /\ readerAt' = "look"
    BY <1>2, RingCounts DEF Bump, uart
  <2>2. QED
    BY <1>0, <2>1 DEF UnderWay
<1>3. CASE Look \/ MayRead \/ Read
  <2>1. InRing' = InRing /\ rxFifo' = rxFifo
    BY <1>3, RingCounts DEF Look, MayRead, Read, uart
  <2>2. readerAt' \in {"read", "bump"} => readerAt \in {"read", "bump"}
    BY <1>3 DEF Look, MayRead, Read
  <2>3. QED
    BY <1>0, <2>1, <2>2 DEF UnderWay
<1>4. CASE ~ClockReceive /\ ~ReaderNext
  <2>1. UNCHANGED <<taken, reader, readPtr>>
    BY <1>4, ReaderApart DEF Next
  <2>2. rxFifo' = rxFifo
    BY <1>4, FifoApart DEF Next, IsrNext, RoutineNext
  <2>3. InRing' = InRing
    BY <2>1, RingCounts
  <2>4. QED
    BY <1>0, <2>1, <2>2, <2>3 DEF UnderWay, reader
<1>5. QED
  BY <1>1, <1>2, <1>3, <1>4 DEF ReaderNext

\* With RTS asserted the guest buffer is filled up to the mark at most.
LEMMA ThrottledInTime ==
  ASSUME StreamInv, [Next]_vars, rts', Listening'
  PROVE  Unread' <= AssertedMax + (IF isrAt' = "throttle" THEN 1 ELSE 0)
<1> USE Limits, SerialLinkAssumption
<1>0. TypeOK /\ RingInv /\ FifoInv /\ InitInv /\ BufferInv /\ FlowInv
  BY DEF StreamInv, LineInv
<1>a. Unread \in 0 .. BufSize - 1 /\ Len(rxFifo) \in Nat /\ UnderWay >= Len(rxFifo) /\ UnderWay \in Nat
      /\ BufSize \in Nat
  BY <1>0, Counts, UnderWayCounts
<1>1. CASE IsrTake
  <2>1. isrAt = "take" /\ isrAt' = "throttle" /\ rts /\ Listening
    BY <1>0, <1>1, HandlerListens DEF IsrTake
  <2>2. Unread <= AssertedMax /\ Unread + UnderWay < BufSize
    BY <1>0, <2>1 DEF FlowInv
  <2>3. Len(rxFifo) >= 1
    BY <1>0, <2>1 DEF FifoInv, TypeOK
  <2>4. Unread' = Unread + 1
    BY <1>0, <1>1, <1>a, <2>2, <2>3, UnreadCounts
  <2>5. QED
    BY <1>a, <2>1, <2>2, <2>4
<1>2. CASE HearByte
  <2>1. /\ mainAt = "bump" /\ isrAt = "none" /\ isrAt' = "none" /\ rts /\ Listening
    BY <1>2 DEF HearByte, MainStep, Listening
  <2>2. Unread >= 1 /\ Unread <= AssertedMax
    BY <1>0, <2>1 DEF BufferInv, FlowInv
  <2>3. Unread' = Unread - 1
    BY <1>0, <1>2, <2>2, UnreadCounts
  <2>4. QED
    BY <1>a, <2>1, <2>2, <2>3
<1>3. CASE InitFifos \/ InitRts
  <2>1. rdPtr = wrPtr /\ UNCHANGED <<rdPtr, wrPtr>>
    BY <1>0, <1>3 DEF InitFifos, InitRts, MainStep, InitInv, InitSteps
  <2>2. Unread' = Unread /\ Unread = 0
    BY <1>0, <2>1, UnreadCounts, DistanceZero DEF Unread, TypeOK
  <2>3. QED
    BY <2>2
<1>4. CASE Allow
  <2>1. /\ mainAt = "allow" /\ isrAt = "none" /\ UNCHANGED <<rdPtr, wrPtr>> /\ Listening
        /\ rts \/ d0 < EnableThreshold
    BY <1>4 DEF Allow, MainStep, Listening
  <2>2. Unread' = Unread
    BY <1>0, <2>1, UnreadCounts
  <2>3. CASE rts
    BY <1>0, <1>a, <2>1, <2>2, <2>3 DEF FlowInv
  <2>4. CASE d0 < EnableThreshold
    <3>1. Unread + Len(rxFifo) <= d0 + Trigger - 1 + arrivals /\ arrivals <= ArrivalsPerStep
      BY <1>0, <2>1 DEF FlowInv, TypeOK
    <3>2. d0 \in Nat /\ arrivals \in Nat
      BY <1>0 DEF TypeOK, Bytes
    <3>3. Unread <= AssertedMax
      BY <1>a, <2>4, <3>1, <3>2
    <3>4. QED
      BY <1>a, <2>2, <3>3
  <2>5. QED
    BY <2>1, <2>3, <2>4
<1>5. CASE IsrThrottle
  <2>1. isrAt' = "more" /\ UNCHANGED <<rdPtr, wrPtr>>
    BY <1>5 DEF IsrThrottle
  <2>2. ~(Unread >= DisableThreshold)
    BY <1>5 DEF IsrThrottle, Throttle
  <2>3. Unread' = Unread
    BY <1>0, <2>1, UnreadCounts
  <2>4. QED
    BY <1>a, <2>1, <2>2, <2>3
<1>6. CASE UNCHANGED <<rdPtr, wrPtr, rts>> /\ Listening
             /\ (isrAt' = isrAt \/ isrAt # "throttle")
  <2>1. Unread' = Unread
    BY <1>0, <1>6, UnreadCounts
  <2>2. Unread <= AssertedMax + (IF isrAt = "throttle" THEN 1 ELSE 0)
    BY <1>0, <1>6 DEF FlowInv
  <2>3. QED
    BY <1>6, <1>a, <2>1, <2>2
<1>7. CASE InitIer \/ Sample \/ Check \/ Fetch \/ CallGetChar \/ CallPutChar \/ Poll \/ Write
  BY <1>6, <1>7 DEF InitIer, Sample, Check, Fetch, CallGetChar, CallPutChar, Poll, Write, MainStep,
     Listening
<1>8. CASE HostSend \/ ReaderNext \/ ClockReceive \/ ClockQuiet \/ ClockSend \/ IsrEnter \/ IsrMore
             \/ UNCHANGED vars
  <2>1. UNCHANGED <<rdPtr, wrPtr, rts, mainAt>> /\ (isrAt' = isrAt \/ isrAt # "throttle")
    <3>1. CASE IsrEnter \/ IsrMore
      BY <3>1 DEF IsrEnter, IsrMore, Masked
    <3>2. CASE HostSend \/ ReaderNext \/ ClockReceive \/ ClockQuiet \/ ClockSend \/ UNCHANGED vars
      BY <3>2 DEF HostSend, ReaderNext, Look, MayRead, Read, Bump, ClockReceive, ClockQuiet,
         ClockSend, vars, guest
    <3>3. QED
      BY <1>8, <3>1, <3>2
  <2>2. Listening
    BY <2>1 DEF Listening
  <2>3. QED
    BY <1>6, <2>1, <2>2
<1>9. CASE Reset \/ InitPointers
  BY <1>9 DEF Reset, InitPointers, MainStep, Listening
<1>10. QED
  BY <1>1, <1>2, <1>3, <1>4, <1>5, <1>7, <1>8, <1>9 DEF Next, IsrNext, RoutineNext

\* What the handler may store between the look and the decision.
LEMMA StoredSinceSample ==
  ASSUME StreamInv, [Next]_vars, mainAt' = "allow"
  PROVE  Unread' + Len(rxFifo') <= d0' + Trigger - 1 + arrivals'
<1> USE SerialLinkAssumption
<1>0. TypeOK /\ RingInv /\ FifoInv /\ InitInv /\ BufferInv /\ FlowInv
  BY DEF StreamInv, LineInv
<1>a. /\ Unread \in 0 .. BufSize - 1 /\ Len(rxFifo) \in Nat /\ BufSize \in Nat
      /\ UnderWay >= Len(rxFifo) /\ UnderWay \in Nat
      /\ d0 \in Nat /\ arrivals \in Nat /\ Trigger \in Nat /\ rxFifo \in Seq(Bytes)
  <2>1. d0 \in Nat
    BY <1>0 DEF TypeOK, Bytes
  <2>2. QED
    BY <1>0, <2>1, Counts, UnderWayCounts DEF TypeOK
<1>1. CASE Sample
  <2>1. /\ mainAt = "sample" /\ ~Interrupt /\ ier
    BY <1>0, <1>1 DEF Sample, MainStep, Masked, InitInv, InitSteps
  <2>2. /\ d0' = Unread /\ arrivals' = 0 /\ UNCHANGED <<rxFifo, rdPtr, wrPtr>>
    BY <1>1 DEF Sample, MainStep
  <2>3. Len(rxFifo) < Trigger
    BY <1>a, <2>1 DEF Interrupt
  <2>4. Unread' = Unread
    BY <1>0, <2>2, UnreadCounts
  <2>5. QED
    BY <1>a, <2>2, <2>3, <2>4
<1>2. ASSUME ~Sample
      PROVE  /\ mainAt = "allow" /\ Listening /\ UNCHANGED d0
             /\ Unread + Len(rxFifo) <= d0 + Trigger - 1 + arrivals
  <2>1. mainAt = "allow" /\ UNCHANGED d0
    BY <1>2 DEF Next, HostSend, ReaderNext, Look, MayRead, Read, Bump, ClockReceive, ClockQuiet,
       ClockSend, IsrNext, IsrEnter, IsrTake, IsrThrottle, IsrMore, RoutineNext, CallGetChar,
       CallPutChar, InitPointers, InitFifos, InitRts, InitIer, Allow, Check, Fetch, HearByte,
       Poll, Write, MainStep, Reset, vars, guest
  <2>2. QED
    BY <1>0, <2>1 DEF Listening, FlowInv
<1>3. CASE ClockReceive
  <2>1. rxFifo' = Append(rxFifo, LeftRing + 1) /\ LeftRing + 1 \in Bytes
    BY <1>0, <1>3, NextByte
  <2>2. Len(rxFifo') = Len(rxFifo) + 1
    BY <1>a, <2>1
  <2>3. UNCHANGED <<rdPtr, wrPtr>> /\ ~Sample
    BY <1>3 DEF ClockReceive, guest, Sample, MainStep
  <2>4. arrivals' = arrivals + 1
    BY <1>2, <1>3, <2>3 DEF ClockReceive, Computing
  <2>5. Unread' = Unread
    BY <1>0, <2>3, UnreadCounts
  <2>6. QED
    BY <1>a, <1>2, <2>2, <2>3, <2>4, <2>5
<1>4. CASE IsrTake
  <2>1. ~Sample /\ UNCHANGED arrivals
    BY <1>4 DEF IsrTake, Sample, MainStep
  <2>2. rxFifo # <<>> /\ rxFifo' = Tail(rxFifo) /\ Unread + UnderWay < BufSize
    BY <1>0, <1>2, <1>4, <2>1, TakenByte DEF FlowInv
  <2>3. Len(rxFifo') = Len(rxFifo) - 1 /\ Len(rxFifo) >= 1
    BY <1>a, <2>2
  <2>4. Unread' = Unread + 1
    BY <1>0, <1>4, <1>a, <2>2, <2>3, UnreadCounts
  <2>5. QED
    BY <1>a, <1>2, <2>1, <2>3, <2>4
<1>5. CASE ~Sample /\ ~ClockReceive /\ ~IsrTake
  <2>1. ~HearByte /\ ~InitPointers /\ ~InitFifos
    BY <1>2, <1>5 DEF HearByte, InitPointers, InitFifos, MainStep
  <2>2. UNCHANGED <<rdPtr, wrPtr>>
    BY <1>5, <2>1, GuestApart
  <2>3. Unread' = Unread
    BY <1>0, <2>2, UnreadCounts
  <2>4. rxFifo' = rxFifo
    BY <1>5, <2>1, FifoApart DEF Next, IsrNext, RoutineNext
  <2>5. arrivals' = arrivals
    BY <1>2, <1>5 DEF Next, HostSend, ReaderNext, Look, MayRead, Read, Bump, ClockQuiet, ClockSend,
       IsrNext, IsrEnter, IsrThrottle, IsrMore, Computing, RoutineNext, CallGetChar,
       CallPutChar, InitPointers, InitFifos, InitRts, InitIer, Allow, Check, Fetch, HearByte,
       Poll, Write, MainStep, Reset, vars
  <2>6. QED
    BY <1>2, <1>5, <2>3, <2>4, <2>5
<1>6. QED
  BY <1>1, <1>3, <1>4, <1>5

\* The same as facts of the next state.
LEMMA LineCounts ==
  LineInv => Unread \in Nat /\ UnderWay \in Nat
<1>1. ASSUME LineInv
      PROVE  Unread \in Nat /\ UnderWay \in Nat
  BY <1>1, Counts, UnderWayCounts DEF LineInv
<1>2. QED
  BY <1>1

\* The unread bytes and those under way fit, before and after a step.
LEMMA FlowStep ==
  ASSUME StreamInv, LineInv', HasRoom', [Next]_vars
  PROVE  FlowInv'
<1> USE SerialLinkAssumption
<1>0. TypeOK /\ RingInv /\ FifoInv /\ InitInv /\ BufferInv /\ FlowInv
  BY DEF StreamInv, LineInv
<1>a. /\ Unread \in 0 .. BufSize - 1 /\ Len(rxFifo) \in Nat /\ BufSize \in Nat
      /\ UnderWay >= Len(rxFifo) /\ UnderWay \in Nat /\ InRing \in Nat
  BY <1>0, Counts, UnderWayCounts
<1>b. PICK unread \in Nat, underWay \in Nat :
        Unread' = unread /\ UnderWay' = underWay
  <2>1. LineInv' => (Unread \in Nat /\ UnderWay \in Nat)'
    BY LineCounts, PTL
  <2>2. QED
    BY <2>1
<1>1. ASSUME Listening' PROVE unread + underWay < BufSize
  <2>1. CASE rts'
    <3>1. unread <= AssertedMax + 1
      BY <1>1, <1>b, <2>1, ThrottledInTime, Limits
    <3>2. AssertedMax + 1 + underWay < BufSize
      <4>1. AssertedMax' = AssertedMax
        BY DEF AssertedMax
      <4>2. QED
        BY <1>b, <2>1, <4>1 DEF HasRoom
    <3>3. QED
      BY <1>a, <1>b, <3>1, <3>2, Limits
  <2>2. CASE ~rts' /\ InitFifos
    <3>1. rdPtr = wrPtr /\ UNCHANGED <<rdPtr, wrPtr>>
      BY <1>0, <2>2 DEF InitFifos, MainStep, InitInv, InitSteps
    <3>2. unread = 0
      BY <1>0, <1>b, <3>1, UnreadCounts, DistanceZero DEF Unread, TypeOK
    <3>3. QED
      BY <1>b, <3>2 DEF HasRoom
  <2>3. CASE ~rts' /\ IsrTake
    <3>1. Listening /\ rxFifo # <<>> /\ rxFifo' = Tail(rxFifo) /\ rxFifo \in Seq(Bytes)
      BY <1>0, <2>3, HandlerListens, TakenByte DEF IsrTake, TypeOK
    <3>2. Len(rxFifo') = Len(rxFifo) - 1 /\ Len(rxFifo) >= 1
      BY <3>1
    <3>3. Unread + UnderWay < BufSize
      BY <1>0, <3>1 DEF FlowInv
    <3>4. Unread' = Unread + 1
      BY <1>0, <1>a, <2>3, <3>2, <3>3, UnreadCounts
    <3>5. UnderWay' = UnderWay - 1
      <4>1. InRing' = InRing /\ readerAt' = readerAt
        BY <1>0, <2>3, RingCounts, ReaderApart DEF IsrNext, reader
      <4>2. QED
        BY <1>a, <3>2, <4>1 DEF UnderWay
    <3>6. QED
      BY <1>a, <1>b, <3>3, <3>4, <3>5
  <2>4. CASE ~rts' /\ ~InitFifos /\ ~IsrTake
    <3>1. Listening
      BY <1>1, <2>4 DEF Next, HostSend, ReaderNext, Look, MayRead, Read, Bump, ClockReceive,
         ClockQuiet, ClockSend, IsrNext, IsrEnter, IsrThrottle, IsrMore, RoutineNext, CallGetChar,
         CallPutChar, InitPointers, InitRts, InitIer, Sample, Allow, Check, Fetch, HearByte,
         Poll, Write, MainStep, Reset, vars, guest, Listening
    <3>2. unread <= Unread
      <4>1. CASE HearByte
        <5>1. Unread >= 1
          BY <1>0, <3>1, <4>1 DEF HearByte, MainStep, BufferInv
        <5>2. QED
          BY <1>0, <1>a, <1>b, <4>1, <5>1, UnreadCounts
      <4>2. CASE ~HearByte
        <5>1. ~InitPointers
          BY <1>1 DEF InitPointers, MainStep, Listening
        <5>2. UNCHANGED <<rdPtr, wrPtr>>
          BY <2>4, <4>2, <5>1, GuestApart
        <5>3. QED
          BY <1>0, <1>a, <1>b, <5>2, UnreadCounts
      <4>3. QED
        BY <4>1, <4>2
    <3>3. CASE ~rts
      <4>1. underWay <= UnderWay
        BY <1>0, <1>b, <2>4, <3>3, NoMoreUnderWay
      <4>2. Unread + UnderWay < BufSize
        BY <1>0, <3>1 DEF FlowInv
      <4>3. QED
        BY <1>a, <1>b, <3>2, <4>1, <4>2
    \* RTS was deasserted by this very step, which does nothing else.
    <3>4. CASE rts
      <4>1. IsrThrottle
        BY <1>0, <2>4, <3>4 DEF TypeOK, Next, HostSend, ReaderNext, Look, MayRead, Read, Bump,
           ClockReceive, ClockQuiet, ClockSend, IsrNext, IsrEnter, IsrMore, RoutineNext, CallGetChar,
           CallPutChar, InitPointers, InitRts, InitIer, Sample, Allow, Check, Fetch, HearByte,
           Poll, Write, MainStep, Reset, vars
      <4>2. UnderWay' = UnderWay
        <5>1. InRing' = InRing /\ readerAt' = readerAt /\ rxFifo' = rxFifo
          BY <1>0, <4>1, RingCounts, ReaderApart, FifoApart DEF IsrNext, reader
        <5>2. QED
          BY <5>1 DEF UnderWay
      <4>3. Unread + UnderWay < BufSize
        BY <1>0, <3>1 DEF FlowInv
      <4>4. QED
        BY <1>a, <1>b, <3>2, <4>2, <4>3
    <3>5. QED
      BY <3>3, <3>4
  <2>5. QED
    BY <2>1, <2>2, <2>3, <2>4
<1>2. QED
  BY <1>1, <1>b, ThrottledInTime, StoredSinceSample DEF FlowInv

\* What holds of the line while what is under way has room.
LEMMA StreamInvariant == Spec /\ []HasRoom => []StreamInv
<1>1. ASSUME Init PROVE BufferInv /\ FlowInv
  BY <1>1 DEF Init, BufferInv, FlowInv, Listening
<1>2. LineInv' /\ HasRoom' /\ StreamInv /\ [Next]_vars => StreamInv'
  BY BufferStep, FlowStep DEF StreamInv
<1>3. LineInv /\ BufferInv /\ FlowInv => StreamInv
  BY DEF StreamInv
<1>4. Init => BufferInv /\ FlowInv
  BY <1>1
<1>5. QED
  BY <1>2, <1>3, <1>4, LineInvariant, PTL DEF Spec

(* Every variable keeps its range, whatever arrives, whenever the handler
   runs and whenever the user resets: no pointer leaves its buffer, and the
   program never hears a byte that was not sent. *)
THEOREM LineTypes == Spec => []TypeOK
<1>1. LineInv => TypeOK
  BY DEF LineInv
<1>2. QED
  BY <1>1, LineInvariant, PTL

(* Up to the UART nothing is lost, doubled or overtaken, in the proportions
   of the program as in any other: the slots kept free are enough although
   read_thread looks at the pointers, and at RTS, before it reads. *)
THEOREM OrderlyUpToTheFifo == Spec => [](RingInv /\ FifoInv)
<1>1. LineInv => RingInv /\ FifoInv
  BY DEF LineInv
<1>2. QED
  BY <1>1, LineInvariant, PTL

(* "Deassert RTS = stop sender" (UartISR) comes in time, whatever the
   interleaving, as long as what is under way fits above the threshold.  In
   the program, with 256 bytes and the threshold at 224, that is 31 bytes; a
   sender that lets more pile up in the ring overruns the guest buffer. *)
THEOREM NeverOverrun == Spec /\ []HasRoom => []BufferNotOverrun
<1>1. ASSUME StreamInv, Listening PROVE Stored - heard < BufSize
  <2>1. Stored - heard = Unread /\ Unread \in 0 .. BufSize - 1 /\ BufSize \in Nat
    BY <1>1, Counts, SerialLinkAssumption DEF StreamInv, LineInv, BufferInv
  <2>2. QED
    BY <2>1
<1>2. StreamInv => BufferNotOverrun
  BY <1>1 DEF BufferNotOverrun
<1>3. QED
  BY <1>2, StreamInvariant, PTL

\* Each step sends, hears, stops, listens, or is invisible.
LEMMA StreamStep ==
  ASSUME StreamInv, [Next]_vars
  PROVE  [Stream!Next]_(Stream!vars)
<1> USE DEF Stream!Next, Stream!vars
<1>0. /\ TypeOK /\ RingInv /\ FifoInv /\ ValueInv /\ InitInv /\ BufferInv
      /\ sent \in Nat /\ taken <= sent /\ heard \in Nat /\ heard <= LeftRing /\ LeftRing <= taken
      /\ LeftRing \in Int /\ taken \in Nat
  <2>1. TypeOK /\ RingInv /\ FifoInv /\ ValueInv /\ InitInv /\ BufferInv
    BY DEF StreamInv, LineInv
  <2>2. LeftRing \in Int
    BY <2>1, Counts
  <2>3. /\ LeftRing = taken - InRing - (IF readerAt = "bump" THEN 1 ELSE 0)
        /\ InRing \in 0 .. RingSize - 1
    BY <2>1, Counts
  <2>4. taken \in 0 .. sent /\ sent \in 0 .. MaxBytes /\ MaxBytes \in Nat
    BY <2>1, SerialLinkAssumption DEF TypeOK
  <2>5. LeftRing <= taken
    BY <2>3, <2>4
  <2>6. QED
    BY <2>1, <2>2, <2>4, <2>5 DEF TypeOK, ValueInv
<1>1. CASE HostSend
  <2>1. Listening' = Listening
    BY <1>1 DEF HostSend, Listening
  <2>2. QED
    BY <1>1, <2>1 DEF HostSend, Stream!Send
<1>2. CASE HearByte
  <2>1. Listening /\ Listening' /\ d0 = heard + 1 /\ d0 <= LeftRing
    BY <1>0, <1>2 DEF HearByte, MainStep, Listening, BufferInv, ValueInv
  <2>2. heard' = heard + 1 /\ heard < sent /\ sent' = sent
    BY <1>0, <1>2, <2>1 DEF HearByte, MainStep, host
  <2>3. QED
    BY <2>1, <2>2 DEF Stream!Hear
<1>3. CASE Reset
  <2>1. UNCHANGED <<sent, heard>> /\ Listening' = FALSE /\ Listening \in BOOLEAN
    BY <1>3 DEF Reset, host, Listening
  <2>2. CASE Listening
    BY <2>1, <2>2 DEF Stream!Stop
  <2>3. CASE Listening = FALSE
    BY <2>1, <2>3
  <2>4. QED
    BY <2>1, <2>2, <2>3
<1>4. CASE InitFifos
  <2>1. ~Listening /\ Listening' /\ heard' = LeftRing /\ sent' = sent
    BY <1>4 DEF InitFifos, MainStep, Listening, host
  <2>2. heard' \in heard .. sent
    BY <1>0, <2>1
  <2>3. QED
    BY <2>1, <2>2 DEF Stream!Listen
<1>5. CASE UNCHANGED <<sent, heard>> /\ Listening' = Listening
  BY <1>5
<1>6. CASE InitPointers \/ InitRts \/ InitIer \/ Sample \/ Allow \/ Check \/ Fetch \/ Poll \/ Write
             \/ CallGetChar \/ CallPutChar
  BY <1>5, <1>6 DEF InitPointers, InitRts, InitIer, Sample, Allow, Check, Fetch, Poll, Write,
     CallGetChar, CallPutChar, MainStep, Listening, host
<1>7. CASE ReaderNext \/ ClockReceive \/ ClockQuiet \/ ClockSend \/ IsrNext \/ UNCHANGED vars
  <2>1. UNCHANGED <<sent, heard, mainAt>>
    BY <1>7 DEF ReaderNext, Look, MayRead, Read, Bump, ClockReceive, ClockQuiet, ClockSend, IsrNext,
       IsrEnter, IsrTake, IsrThrottle, IsrMore, vars, host
  <2>2. QED
    BY <1>5, <2>1 DEF Listening
<1>8. QED
  BY <1>1, <1>2, <1>3, <1>4, <1>6, <1>7 DEF Next, RoutineNext

(* The whole line, three actors, two buffers and a flow control, then
   implements a stream of bytes without gap, repetition or reordering. *)
THEOREM LineIsStream ==
  Spec /\ []HasRoom => Stream!Init /\ [][Stream!Next]_(Stream!vars)
<1>1. Init => Stream!Init
  BY DEF Init, Stream!Init, Listening
<1>2. StreamInv /\ [Next]_vars => [Stream!Next]_(Stream!vars)
  BY StreamStep
<1>3. QED
  BY <1>1, <1>2, StreamInvariant, PTL DEF Spec

=============================================================================
