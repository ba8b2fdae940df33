----------------------------- MODULE SerialLink -----------------------------
(***************************************************************************)
(* The serial line: from the pseudo terminal of the host to the program in *)
(* the emulated machine, and back.                                         *)
(*                                                                         *)
(*   host --pty--> reader thread --ring--> UART FIFO --ISR--> guest buffer *)
(*     (pts_handler.c)               (uart.c)        (uart.asm)            *)
(*                                                                         *)
(* Three actors interleave: the host thread that reads the pseudo          *)
(* terminal, the UART that is clocked after every instruction, and the     *)
(* guest, whose interrupt handler may run between any two instructions of  *)
(* UARTGetChar and UARTPutChar.  RTS flows back from the guest to the      *)
(* reader thread.  A byte is its number in the order of sending.           *)
(*                                                                         *)
(* Abstracted: the UART's timers are nondeterministic delays, but between  *)
(* two steps of a BIOS routine, interrupt handler included, at most        *)
(* ArrivalsPerStep bytes arrive (at 115200 baud a character takes 1280     *)
(* cycles, a handler that empties a full FIFO about twice that).  uartClock *)
(* runs after every instruction, so the line status register is what the   *)
(* FIFOs say whenever the CPU reads it.  The host's stores to the ring are *)
(* seen in program order.                                                  *)
(***************************************************************************)
EXTENDS Naturals, Sequences

CONSTANTS
  MaxBytes,         \* bound: bytes the host sends
  MaxResets,        \* bound: resets by the user
  PtyRoom,          \* bytes the pseudo terminal holds for read()
  RingSize,         \* Reader.buffer: 256
  Slack,            \* slots of the ring that are never filled: 3
  FifoSize,         \* UART_FIFO_SIZE of the receiver: 16
  TxFifoSize,       \* UART_FIFO_SIZE of the transmitter: 16
  Trigger,          \* fifo_trigger: 14
  BufSize,          \* UartRdBuf: 256
  EnableThreshold,  \* UART_RTS_ENABLE_THRESHOLD: 192
  DisableThreshold, \* UART_RTS_DISABLE_THRESHOLD: 224
  ArrivalsPerStep   \* bytes that may arrive within a step of the guest

ASSUME SerialLinkAssumption ==
  /\ MaxBytes \in Nat /\ MaxResets \in Nat /\ PtyRoom \in Nat \ {0}
  /\ RingSize \in Nat /\ Slack \in 1 .. RingSize - 1
  /\ FifoSize \in Nat /\ Trigger \in 1 .. FifoSize /\ TxFifoSize \in Nat \ {0}
  /\ BufSize \in Nat /\ EnableThreshold \in 1 .. BufSize - 1
  /\ DisableThreshold \in EnableThreshold .. BufSize - 1
  /\ ArrivalsPerStep \in Nat \ {0}

VARIABLES
  \* bytes the host sent, and those read() has returned
  sent, taken,
  \* Reader: buffer, read_ptr, write_ptr, rts; headroom while read_thread
  \* needs it, and the statement it is at
  ring, readPtr, writePtr, rts, headroom, readerAt,
  \* Uart: rfifo, the count of tfifo, rxTimeout <= 0, bit 0 of ier
  rxFifo, txCount, quiet, ier,
  \* UartData: UartRdBuf, UartRdPtr, UartWrPtr
  buf, rdPtr, wrPtr,
  \* the guest's program and its interrupt handler; D0 while UARTGetChar
  \* needs it
  mainAt, isrAt, d0,
  \* bytes that arrived within the step of the guest
  arrivals,
  \* history: the last byte the program heard, resets
  heard, resets

host   == <<sent, taken>>
reader == <<ring, writePtr, headroom, readerAt>>
uart   == <<rxFifo, txCount, quiet, ier>>
guest  == <<buf, rdPtr, wrPtr, isrAt, d0>>
vars   == <<host, reader, readPtr, rts, uart, guest, mainAt, arrivals, heard, resets>>

Bytes == 1 .. MaxBytes
Blank == 0   \* what an empty FIFO and an unused slot read as

InitSteps == {"initPointers", "initFifos", "initRts", "initIer"}
GetSteps  == {"sample", "allow", "check", "fetch", "bump"}
PutSteps  == {"poll", "write"}

TypeOK ==
  /\ sent \in 0 .. MaxBytes /\ taken \in 0 .. sent
  /\ ring \in [0 .. RingSize - 1 -> Bytes \cup {Blank}]
  /\ readPtr \in 0 .. RingSize - 1 /\ writePtr \in 0 .. RingSize - 1
  /\ headroom \in 0 .. RingSize /\ rts \in BOOLEAN
  /\ readerAt \in {"look", "rts", "read", "bump"}
  /\ rxFifo \in Seq(Bytes) /\ Len(rxFifo) <= FifoSize
  /\ txCount \in 0 .. TxFifoSize /\ quiet \in BOOLEAN /\ ier \in BOOLEAN
  /\ buf \in [0 .. BufSize - 1 -> Bytes \cup {Blank}]
  /\ rdPtr \in 0 .. BufSize - 1 /\ wrPtr \in 0 .. BufSize - 1
  /\ mainAt \in InitSteps \cup GetSteps \cup PutSteps \cup {"run"}
  /\ isrAt \in {"none", "take", "throttle", "more"}
  /\ d0 \in 0 .. BufSize \/ d0 \in Bytes
  /\ arrivals \in 0 .. ArrivalsPerStep
  /\ heard \in 0 .. sent /\ resets \in 0 .. MaxResets

\* calloc in ptsHandlerCreate and uartCreate; the BIOS is about to start.
Init ==
  /\ sent = 0 /\ taken = 0
  /\ ring = [i \in 0 .. RingSize - 1 |-> Blank]
  /\ readPtr = 0 /\ writePtr = 0 /\ rts = FALSE
  /\ headroom = 0 /\ readerAt = "look"
  /\ rxFifo = <<>> /\ txCount = 0 /\ quiet = TRUE /\ ier = FALSE
  /\ buf = [i \in 0 .. BufSize - 1 |-> Blank]
  /\ rdPtr = 0 /\ wrPtr = 0
  /\ mainAt = "initPointers" /\ isrAt = "none" /\ d0 = 0
  /\ arrivals = 0 /\ heard = 0 /\ resets = 0

\* A pointer into a buffer; the faulty variant wraps one slot late.
AdvanceLate(pointer, size) == IF pointer = size THEN 0 ELSE pointer + 1
Advance(pointer, size) == (pointer + 1) % size

\* How far one pointer is ahead of another.
Distance(from, to, size) == (to + size - from) % size

-----------------------------------------------------------------------------
(***************************************************************************)
(* The host: a terminal program and read_thread.                           *)
(***************************************************************************)

HostSend ==
  /\ sent < MaxBytes /\ sent - taken < PtyRoom
  /\ sent' = sent + 1
  /\ UNCHANGED <<taken, reader, readPtr, rts, uart, guest, mainAt, arrivals, heard, resets>>

\* Free slots of the ring; equal pointers mean it is empty.
Headroom == LET leeway == Distance(writePtr, readPtr, RingSize)
            IN  IF leeway = 0 THEN RingSize ELSE leeway

Look ==
  /\ readerAt = "look"
  /\ headroom' = Headroom
  /\ readerAt' = "rts"
  /\ UNCHANGED <<host, ring, writePtr, readPtr, rts, uart, guest, mainAt, arrivals, heard,
                 resets>>

\* A byte is read only into a ring that keeps some slots free; the faulty
\* variant fills it up.
RoomFor1 == headroom > 0
Room == headroom > Slack

MayRead ==
  /\ readerAt = "rts"
  /\ readerAt' = IF rts /\ Room THEN "read" ELSE "look"
  /\ headroom' = 0
  /\ UNCHANGED <<host, ring, writePtr, readPtr, rts, uart, guest, mainAt, arrivals,
                 heard, resets>>

\* read() is nonblocking: with nothing sent it returns no byte.
Read ==
  /\ readerAt = "read"
  /\ IF taken < sent
     THEN /\ ring' = [ring EXCEPT ![writePtr] = taken + 1]
          /\ taken' = taken + 1
          /\ readerAt' = "bump"
     ELSE readerAt' = "look" /\ UNCHANGED <<ring, taken>>
  /\ UNCHANGED <<sent, writePtr, headroom, readPtr, rts, uart, guest, mainAt, arrivals, heard,
                 resets>>

Bump ==
  /\ readerAt = "bump"
  /\ writePtr' = Advance(writePtr, RingSize)
  /\ readerAt' = "look"
  /\ UNCHANGED <<host, ring, headroom, readPtr, rts, uart, guest, mainAt, arrivals, heard,
                 resets>>

ReaderNext == Look \/ MayRead \/ Read \/ Bump

-----------------------------------------------------------------------------
(***************************************************************************)
(* The UART: uartClock.                                                    *)
(***************************************************************************)

ByteAvailable == writePtr # readPtr

\* The program, or the BIOS before it comes to UARTInit, computes for as
\* long as it likes; a serial routine does not.
Computing == mainAt \in {"run", "initPointers"} /\ isrAt = "none"

\* handleRxFifo: a character time has passed.
Receivable == ByteAvailable /\ Len(rxFifo) < FifoSize

FifoWrite(fifo, byte) == IF Len(fifo) = FifoSize THEN fifo ELSE Append(fifo, byte)

ClockReceive ==
  /\ Receivable
  /\ Computing \/ arrivals < ArrivalsPerStep
  /\ rxFifo' = FifoWrite(rxFifo, ring[readPtr])
  /\ readPtr' = Advance(readPtr, RingSize)
  /\ quiet' = FALSE
  /\ arrivals' = IF Computing THEN 0 ELSE arrivals + 1
  /\ UNCHANGED <<host, reader, rts, txCount, ier, guest, mainAt, heard, resets>>

\* rxTimeout runs out, four character times after the last byte.
ClockQuiet ==
  /\ ~quiet
  /\ quiet' = TRUE
  /\ UNCHANGED <<host, reader, readPtr, rts, rxFifo, txCount, ier, guest, mainAt, arrivals,
                 heard, resets>>

\* handleTxFifo: ptsWriteByte hands a character to the host.
ClockSend ==
  /\ txCount > 0
  /\ txCount' = txCount - 1
  /\ UNCHANGED <<host, reader, readPtr, rts, rxFifo, quiet, ier, guest, mainAt, arrivals,
                 heard, resets>>

\* handleStatusRegisters; the faulty variant signals room in a full FIFO.
DataReady == rxFifo # <<>>
TransmitReadyLate == txCount <= TxFifoSize
TransmitReady == txCount < TxFifoSize

\* uartIsInterrupt with the FIFO enabled; the faulty variant waits for the
\* trigger level only.
InterruptAtTrigger == ier /\ Len(rxFifo) >= Trigger
Interrupt == ier /\ \/ rxFifo # <<>> /\ quiet
                    \/ Len(rxFifo) >= Trigger

-----------------------------------------------------------------------------
(***************************************************************************)
(* The guest's interrupt handler, UartISR.                                 *)
(***************************************************************************)

\* The BIOS configures the machine with interrupts disabled.
Masked == mainAt \in InitSteps \/ isrAt # "none"

IsrEnter ==
  /\ Interrupt /\ ~Masked
  /\ isrAt' = "take"
  /\ UNCHANGED <<host, reader, readPtr, rts, uart, buf, rdPtr, wrPtr, d0, mainAt, arrivals,
                 heard, resets>>

\* Read RBR and store the byte; an empty FIFO reads as 0.
IsrTake ==
  /\ isrAt = "take"
  /\ buf' = [buf EXCEPT ![wrPtr] = IF rxFifo = <<>> THEN Blank ELSE Head(rxFifo)]
  /\ rxFifo' = IF rxFifo = <<>> THEN rxFifo ELSE Tail(rxFifo)
  /\ wrPtr' = Advance(wrPtr, BufSize)
  /\ isrAt' = "throttle"
  /\ UNCHANGED <<host, reader, readPtr, rts, txCount, quiet, ier, rdPtr, d0, mainAt, arrivals,
                 heard, resets>>

Unread == Distance(rdPtr, wrPtr, BufSize)

\* Deassert RTS at the threshold.
Throttle == Unread >= DisableThreshold

IsrThrottle ==
  /\ isrAt = "throttle"
  /\ rts' = (rts /\ ~Throttle)
  /\ isrAt' = "more"
  /\ UNCHANGED <<host, reader, readPtr, uart, buf, rdPtr, wrPtr, d0, mainAt, arrivals, heard,
                 resets>>

IsrMore ==
  /\ isrAt = "more"
  /\ isrAt' = IF DataReady THEN "take" ELSE "none"
  /\ UNCHANGED <<host, reader, readPtr, rts, uart, buf, rdPtr, wrPtr, d0, mainAt, heard,
                 resets>>
  /\ arrivals' = IF Computing' THEN 0 ELSE arrivals

IsrNext == IsrEnter \/ IsrTake \/ IsrThrottle \/ IsrMore

-----------------------------------------------------------------------------
(***************************************************************************)
(* The guest's program: UARTInit, UARTGetChar, UARTPutChar.  The handler   *)
(* runs first when the UART interrupts.                                    *)
(***************************************************************************)
MainStep(from, to) ==
  /\ mainAt = from /\ isrAt = "none" /\ (Interrupt => Masked)
  /\ mainAt' = to
  /\ arrivals' = 0
  /\ UNCHANGED <<host, reader, readPtr, quiet, buf, isrAt, resets>>

InitPointers ==
  /\ MainStep("initPointers", "initFifos")
  /\ rdPtr' = 0 /\ wrPtr' = 0 /\ ier' = FALSE
  /\ UNCHANGED <<rts, rxFifo, txCount, d0, heard>>

\* The number of the last byte that left the ring for the FIFO.
LeftRing ==
  taken - Distance(readPtr, writePtr, RingSize) - (IF readerAt = "bump" THEN 1 ELSE 0)

\* FCR resets both FIFOs: what was under way to the old program is gone.
InitFifos ==
  /\ MainStep("initFifos", "initRts")
  /\ rxFifo' = <<>> /\ txCount' = 0
  /\ heard' = LeftRing
  /\ UNCHANGED <<rts, ier, rdPtr, wrPtr, d0>>

InitRts ==
  /\ MainStep("initRts", "initIer")
  /\ rts' = TRUE
  /\ UNCHANGED <<rxFifo, txCount, ier, rdPtr, wrPtr, d0, heard>>

InitIer ==
  /\ MainStep("initIer", "run")
  /\ ier' = TRUE
  /\ UNCHANGED <<rts, rxFifo, txCount, rdPtr, wrPtr, d0, heard>>

CallGetChar ==
  /\ MainStep("run", "sample")
  /\ UNCHANGED <<rts, rxFifo, txCount, ier, rdPtr, wrPtr, d0, heard>>

\* D0 = UartWrPtr - UartRdPtr: the handler may change UartWrPtr from here on.
Sample ==
  /\ MainStep("sample", "allow")
  /\ d0' = Unread
  /\ UNCHANGED <<rts, rxFifo, txCount, ier, rdPtr, wrPtr, heard>>

Allow ==
  /\ MainStep("allow", "check")
  /\ rts' = (rts \/ d0 < EnableThreshold)
  /\ UNCHANGED <<rxFifo, txCount, ier, rdPtr, wrPtr, d0, heard>>

\* With nothing unread UARTGetChar returns -1.
Check ==
  /\ MainStep("check", IF d0 = 0 THEN "run" ELSE "fetch")
  /\ d0' = 0
  /\ UNCHANGED <<rts, rxFifo, txCount, ier, rdPtr, wrPtr, heard>>

Fetch ==
  /\ MainStep("fetch", "bump")
  /\ d0' = buf[rdPtr]
  /\ UNCHANGED <<rts, rxFifo, txCount, ier, rdPtr, wrPtr, heard>>

HearByte ==
  /\ MainStep("bump", "run")
  /\ rdPtr' = Advance(rdPtr, BufSize)
  /\ heard' = d0 /\ d0' = 0
  /\ UNCHANGED <<rts, rxFifo, txCount, ier, wrPtr>>

CallPutChar ==
  /\ MainStep("run", "poll")
  /\ UNCHANGED <<rts, rxFifo, txCount, ier, rdPtr, wrPtr, d0, heard>>

Poll ==
  /\ MainStep("poll", IF TransmitReady THEN "write" ELSE "poll")
  /\ UNCHANGED <<rts, rxFifo, txCount, ier, rdPtr, wrPtr, d0, heard>>

\* transmitByte discards the byte when the FIFO is full.
Write ==
  /\ MainStep("write", "run")
  /\ txCount' = IF txCount = TxFifoSize THEN txCount ELSE txCount + 1
  /\ UNCHANGED <<rts, rxFifo, ier, rdPtr, wrPtr, d0, heard>>

\* The routines run to their end once they are called.
RoutineNext ==
  \/ InitPointers \/ InitFifos \/ InitRts \/ InitIer
  \/ Sample \/ Allow \/ Check \/ Fetch \/ HearByte \/ Poll \/ Write

\* Ctrl+R: m68kReset and uartReset.  The FIFOs, RTS and the ring stay.
Reset ==
  /\ resets < MaxResets
  /\ resets' = resets + 1
  /\ ier' = FALSE
  /\ mainAt' = "initPointers" /\ isrAt' = "none"
  /\ arrivals' = 0 /\ d0' = 0
  /\ UNCHANGED <<host, reader, readPtr, rts, rxFifo, txCount, quiet, buf, rdPtr, wrPtr,
                 heard>>

Next ==
  \/ HostSend \/ ReaderNext \/ ClockReceive \/ ClockQuiet \/ ClockSend
  \/ IsrNext \/ RoutineNext \/ CallGetChar \/ CallPutChar \/ Reset

(***************************************************************************)
(* The thread and the timers of the UART go on, the CPU runs, and the      *)
(* program asks for input again and again, as the shell and the editor do. *)
(***************************************************************************)
Fairness ==
  /\ WF_vars(ReaderNext)
  /\ WF_vars(ClockReceive) /\ WF_vars(ClockQuiet) /\ WF_vars(ClockSend)
  /\ WF_vars(IsrNext) /\ WF_vars(RoutineNext)
  /\ SF_vars(CallGetChar)

Spec == Init /\ [][Next]_vars /\ Fairness

-----------------------------------------------------------------------------
\* The last byte the handler stored, while no byte of a program that was
\* reset is left behind it.
Stored == LeftRing - Len(rxFifo)
Listening == mainAt \notin {"initPointers", "initFifos"}

(* "Deassert RTS = stop sender" (UartISR): the sender is stopped in time for
   all that is still under way, so the guest buffer is never overrun. *)
BufferNotOverrun == Listening => Stored - heard < BufSize

(* UARTPutChar sends when the status register says there is room, and the
   UART never answers "Transmit discard", although the handler may run
   between the two. *)
TransmitNeverDiscards == mainAt = "write" => txCount < TxFifoSize

(* The line as a whole is a reliable stream of bytes. *)
Stream == INSTANCE ByteStream WITH listening <- Listening
ReliableStream == Stream!Spec

=============================================================================
