# A formal model of emuse

emuse emulates a small Motorola 68000 computer: a CPU, a VGA-like picture, a
serial port, a timer and an SD card (C, `src/`), and it comes with that
computer's BIOS, file system and shell (68000 assembly, `asm/`).  This
directory holds TLA+ modules of the parts of it that are hard to test, the TLC
configurations that check them on small instances, and proofs of their most
important properties.  Paths below are relative to the repository.

## The system

    UI thread (application.c)                      audio thread (audio.c)
      keyboard, stop/run/step, reset  --atomics-->   getNextSample: CPU cycles
      renders the finished frame      <--frame ptr-  vgaTicker: the picture
                                                       |
                                         busClock -> m68kClock, uartClock,
                                                       mmcClock, timerClock
      reader thread (pts_handler.c) --ring--> UART FIFO --interrupt--> BIOS
                                    <--RTS--
      BIOS in the machine: uart.asm, memman.asm, mmc.asm, fat16.asm,
        fileman.asm, exeloader.asm, shell
      programs of the machine: the editor (edit/src), demos

| Component | State | Operations | What makes it correct |
|---|---|---|---|
| Run control | `runRequested`, `audioIsBusy`, `readyFramePtr`, `is_stepping`, crash flags, reset state, overlay | callback, stop, resume, step, reset, quit, frame swap and upload | exclusive access while stopped; stops are granted; a crash stops the machine; frames are handed over finished; a reset makes it run again |
| Audio clock | fractions, overshoot | sample, instruction, crash, clear, reset | no drift from the sound card, over any time; picture in step |
| Serial line | ring and indices, FIFOs, RTS, guest buffer and indices | reader thread, UART clock, interrupt handler, get, put, init, reset | a reliable byte stream; no stage overruns the next |
| Memory manager | linked headers, allocator start | init, alloc, free, avail | best fit, no overlap, nothing lost, exact accounting |
| MMC card, SPI | card state, bits and bytes in flight, sector buffer | clock edges, commands, sector read | the driver and the card never disagree on where a byte begins |
| FAT16 file system | path contexts, shared sector buffer | resolve a path, read a directory, read a file | a file is read as its bytes in order, whatever the pieces |
| Interrupts, timer | levels, mask, timer flag, both stack pointers | clock, acknowledge, accept, return, reset | every tick is served; a handler cannot be noticed by what it interrupts |
| CPU instructions, bus | registers, flags, memory, output latch | decode, read and write operands, execute | results and flags are those of the numbers meant; programs come to the right end |
| Text editor | slots, index, free stack, cursor, scrolled screen | load, type, enter, delete, backspace, move | it edits a list of lines; no slot is lost or shared; the screen shows the text |
| Executable loader, shell, console | - | - | see `PROJECT.json` for why they are not modelled |

The hard behaviours are listed with their lines under `hazards` in
`PROJECT.json`, each with the properties that watch it or the reason none does.

## Modules

**RunControl** - the two threads.  `pc["audio"]` and `pc["ui"]` are the
statements the threads are at; a step touches at most one variable the other
thread may touch at the same time.  The machine itself (`Clock` ... `Swap`) is
one operator parameterised by the thread that runs it, as in the code
`mainTicker` is called by `getNextSample` and by `singleStep`.  The stores of
`m68kReset` become visible in any order.  The CPU is reduced to crashed or not,
reset pending or not, and where its `pc` came from; a frame to `FrameTicks`
strips.

**AudioClock** - the arithmetic of `getNextSample`, statement by statement,
with the resets that race it.  Ghost variables `owed` and `dotsOwed` say what
the machine should have run and did not.

**SerialLink** - reader thread, UART and guest.  Bytes are their numbers in the
order of sending, so every property about loss, order and repetition is about
numbers.  **ByteStream** is what the line promises; SerialLink implements it
with `listening <- Listening`.

**MemMan** - the allocator, a turn of a list walk per step.  **Allocator** is
the promise: a set of blocks, best fit, the first one taken unchecked.  `Linked` follows the list as a program
would; `Blocks` maps it to the abstract set.

**MmcCard**, **MmcLink**, **SectorDevice** - the SD card as a record and
`Clocked(c, lines)`, the operator that is `mmcClock`; the driver of `mmc.asm`
bit-banging it through the addressable latch, `Raise` and `Lower` being the two
edges of a clock pulse; and the promise to the file system: a device that is
found or not, reads sectors and refuses writes.  A reset switches the lines off
between any two instructions and leaves the card as it is.  `spoilt` marks what
follows a reset in the middle of a sector or of an initialisation.

**FileSystem** - paths, directories and files.  `DosBuffer` is the number of
the sector last read into it, and a byte of a file is `<<sector, offset>>`, so a
property about bytes is one about where they come from.  A step is an iteration
of a loop or a sector read.  `Listed`, `Named` and `ByteAt` say what the disk
holds, without the code; `pos` counts what the program has read of a context.

**M68kAlu**, **M68kShift**, **M68kMachine**, **M68k** - the processor and the
computer around it, in layers: what an operation makes of numbers and flags;
the shifts; the machine as one record with its bus and the ways to an operand;
and `m68kClock`, which resets, takes an interrupt or executes.  As in the code
an instruction is a function from machine to machine (`execute` is the table of
decoding rules), and the devices are clocked after it.  Opcodes are decoded
already: a program is a function from addresses to records.  A byte has
`ByteBits` bits, so the same definitions serve widths a model checker can
enumerate.  `frames` remembers the registers at each interrupt, `strayed` a reset with one
pending, for the properties.
**M68kReference** defines the same results a second time, from integers and
without the code, and states the properties.

**TextBuffer**, **Editor** - a text as a list of lines with a cursor, and the
program of slots, index, free stack and partial redrawing that promises it.  A key
is an operator from editor to editor, composed of the code's functions; `text`
keeps what is behind the NULs, since lines are split and joined in place.  The
screen is part of the state: a row holds what was last drawn in it or scrolled
into it.

The `MC...` modules extend these with values for the constants that a
configuration cannot write down.  `...Proofs` modules hold the theorems.

In the modules a definition that is followed by one of a similar name and
meaning (`SameSector` before `AfterSector`) is a plausible mistake in that piece
of code: `mutants` in `PROJECT.json` says which property notices it.

## What the runs show

| Run | Module, configuration | Shows |
|---|---|---|
| run_control | MCRunControl | stop, step, reset and the double buffer are safe; every stop is granted; every crash stops the machine |
| run_control_reset | MCRunControlReset.cfg | *violation*: a reset that races a crash leaves the machine standing still |
| audio_clock | MCAudioClock | the carried values account for every cycle; races skew by at most an instruction and a cycle each; picture in step |
| serial_link | MCSerialLink | the line into the guest is a reliable stream, over a reset too, when the guest buffer has room for all that is under way |
| serial_rts | MCSerialLinkRts.cfg | *violation*: in the proportions of the program it has not |
| memman | MCMemMan | the list is a best-fit allocator with an unchecked first block: nothing lost, exact accounting, also over stale headers and wrong frees |
| mmc | MCMmcLink | driver and card agree on every bit; the layer above sees a SectorDevice |
| mmc_reset | MCMmcLinkReset.cfg | *violation*: a reset in the middle of an initialisation loses the card |
| files | MCFileSystem | what is read of a path leads where it says; listings and files come out as the disk has them, for two contexts in any order, but for what is taken from a replaced sector |
| files_error | MCFileSystemError.cfg | *violation*: an unreadable sector never comes back as an error |
| cpu | MCM68k | arithmetic, shifts, conditions against M68kReference; booting programs interrupted anywhere, one of them reset anywhere: it recovers, at the latest from the next reset |
| editor | MCEditor | slots and index implement a TextBuffer, nothing lost or shared, screen and text agree |

Run one with `tlc -workers 2 -config MCMemMan.cfg MCMemMan.tla`.

### Findings

1. `application.c:65` resets a running machine without stopping the audio
   thread.  If that thread is between `cpu.crashed` and `audio->crashed`,
   the second stays set: the machine stands still, and no crash screen says so
   (`ResetRevives`).
2. `uart.asm:49` deasserts RTS with room for 31 bytes, but up to 253 bytes of the
   emulator's ring and 16 of the FIFO still follow (`BufferNotOverrun`).
3. `mmc.c:148` has no way back for a card half initialised
   (`InitAlwaysSucceeds`).
4. `partman.asm:210` pushes A6 and does not pull it: after a device error `rts`
   jumps into data (`ErrorsAreReported`).

### Deviations the models keep

No run calls these wrong; the models do what the code does, or exclude the case by a
named bound.  The first two contradict what the repository says, the others nothing that
is written in it.

*Memory manager*: the first request is granted unchecked (`memman.asm:69`), though
`memman.asm:50` and `rootlib.i:224-225` promise 0 if there is not enough RAM.  The model
grants it, too: `GrantIsRam` excepts that one block, and `Allocator` takes it unchecked
(`GrantFirst`).

*Paths*: behind `.` and `..` one character is skipped whatever it is
(`fileman.asm:153-161`).  When it is the NUL at the end of the path, the lookup goes on
with what lies in memory behind it, though `fileman.asm:253` and `rootlib.i:128` ask for no
more than zero-terminated paths.  In the model a path has a part `behind` its NUL, and
`OpenFindsThePath` says what the elements that are read (`Elements`) lead to.

*Processor*, against a 68000: a reset keeps the interrupt mask and the timer's
flag (`m68k.c:574`); an instruction that reads and writes `(An)+` or `-(An)` steps
it twice (`sourcedest.c:3`), and `MOVE (A0)+,(A0)+` writes where it read; a store to
`abs.W` is lost or crashes (`move.c:14`); MOVE to SR does not exchange the stacks
(`move.c:75`) and MOVE from SR sets N and Z; EXT.W takes Z from the whole register
(`ext.c:19`); NEG and CLR leave C, V and X; CMPA.W does not extend the sign;
BSET and BCLR with an immediate number store a word into a data register;
a rotation by none or full turns keeps C, a shift by none keeps V; stores to
absolute addresses leave N and Z; division by zero, DIVS, CMPM and MOVEM other
than to and from the stack crash; ADDX of memory runs on fields nobody set
(`alu.c:171`).

*Editor*: Up and Down keep the column, so the cursor may be past the end of a
line: what is typed there is behind the NUL, Enter there brings back old text,
Right never meets the end (`edit.c:386`) and runs out of the slot.  End can make the
column negative (`edit.c:409`), and Home then does not redraw.  A missing or empty
file leaves no line, and typing goes nowhere (`edit.c:115`).  Lines beyond the
last slot are dropped while loading.

### Bounds and assumptions

**run_control**: two samples per callback, two instructions per sample, frames
of two strips.  Two of each is where the first, a middle and the last
iteration differ; the theorems say the same for all numbers.  The violation
needs one of each.

**audio_clock**: frequencies 3, 7 and 5 are coprime, so every phase of the
fractions occurs; instructions of up to `MaxCycles = 4` exceed a sample
(7/3 cycles), so a sample may have nothing to run.  `MaxRaces = 2` resets of the
running machine: the second one meets what the first has displaced.

**serial_link**: all sizes are small, their proportions kept where a property
depends on them: the ring has slack, the trigger level equals the FIFO (a tail
shorter than it needs the silence timeout), the buffer holds
`DisableThreshold` plus ring, FIFO and the byte being read.  `MaxBytes = 8` goes
round every one of the buffers.  `ArrivalsPerStep` bounds how many bytes arrive
during one instruction of the guest: at some 1280 cycles per character it is
less than one.  Deadlock is not checked: the host may have sent everything.
The stores of the ring's two threads are seen in program order, as on x86;
the ring's indices are not atomic, and on a weaker machine this would be an
assumption about luck.

**memman**: a heap of nine headers' length takes every pattern of up to four
blocks and their gaps; requests of 1, 3 and 6 need one, two and more headers;
`WrongPointers` are no blocks; one further boot finds stale headers.
The first request is small, takes the whole heap or goes beyond the RAM
(`FirstRequests`).  Behind a first block beyond the RAM frees, MemAvail and the next boot are
followed, but no further allocation (`InRam`): its gap wraps, and headers would be
written where there is no memory.  Requests lie below the wrap of `Word`, as those of all
programs in the repository do.

**mmc**: `SectorSize = 3` for 512, two sectors, retry counts of three.  The sizes
keep what the argument rests on: token, sector and checksum together are longer
than the dummy clocks after power-up and a response fits into the tries.
Requests lie within the card.  Two resets strike between any two clock edges.

**files**: sectors of four bytes and three entries, clusters of two sectors, a
file over two clusters that ends inside a sector, one that does not fill its
cluster, an empty one, a subdirectory that fills its sector exactly, deleted
and skipped entries, a root of two sectors.  Amounts of 1, 3, 4 and 7 end
before, at and behind sector and cluster ends.  The directories end inside their
first cluster and paths do not go on behind a file (hazards at `fat16.asm:237`
and `fileman.asm:339`).  A program does not go on with a listing after its end, nor
after another context has replaced its sector; files are read on in that case,
and only the bytes from `DosBuffer` are excepted.  Of the paths two end in dots and have
further names behind their NUL; one has names behind its NUL that are not read.

**cpu**: bytes of four bits, words of eight, longs of sixteen; three levels
(timer 1, UART 2, mask up to 3) and twelve address bits, of which four select a
device as in the code.  Single instructions start with every byte, or with the
numbers at the edges of words and longs, every incoming carry and counts below, at and
beyond each width (33 exceeds the counter's range and wraps).  Programs boot from a
reset vector: a long one in supervisor mode with one tick and two characters, in user mode
with one of each, and a short one with two resets as well.  Each may strike between any
two instructions, the handlers' included: the UART's handler (level 2) interrupts the
timer's (level 1), never the other way round, and a tick that comes during the UART's waits for
its end.  A reset that comes with an interrupt above the mask pending sends the processor to
a vector the overlaid ROM does not have (`strayed`); the model stops there, where the
computer would execute whatever it meets, and the second reset shows that the machine recovers.
A crashed machine stands still until it is reset, so deadlock is not checked.

**editor**: four slots of four characters, a screen of two rows and two columns:
every line can scroll sideways, the text scrolls, slots run out and lines fill up.
`Edits = 3` changes, with any number of cursor keys around them, reach every pair of
split, join and reuse.  Both files begin with more than a screen or with a line that
must be cut.  Two bounds exclude keys: none takes the cursor out of the slot of its
line (`InSlot`), none overwrites the NUL at its end (`TypeKey`); the code has neither guard.
The terminal is assumed to clip a line that is wider than it is: `edit.c:318` prints the rows
but the cursor's whole, and nothing in the repository turns auto-wrap off.

### Fairness

**RunControl**: the scheduler runs both threads and SDL asks for samples
(`WF`), and the event queue is found empty again and again (`SF`): a user presses
finitely many keys between two frames.  Without the last, a key held down
for ever could keep the UI thread in its event loop.

**SerialLink**: the reader thread, the UART's clock, the interrupt handler and the
routine in progress go on; the program asks for a character again and again
(`SF`, since other calls may come between).  The host need not send anything.

**MemMan**, **MmcLink**, **FileSystem**: the CPU goes on with the call it is
in.  No program has to make a call, no reset and no device error has to occur.

**M68k**: the audio thread clocks the machine for as long as it has not crashed:
clocks go on, or the program has come to its idle loop with nothing pending
(`Settled`).  `Spec` says so directly; it is weak fairness of `Clock` without
asking anything of the devices.

**AudioClock** and **Editor** have no liveness property.

## What is proved

For all values of the constants that the modules' named assumptions allow
(`RunControlAssumption`, `AudioClockAssumption`, `SerialLinkAssumption`,
`MemManAssumption`: positive lengths, frequencies and sizes; `EditorAssumption`: what is read
and typed are strings, and every document has something to show; `FileSystemAssumption`: sizes
and the types of the disk's tables; `DiskAssumption`: below; `MmcCardAssumption` and
`MmcLinkAssumption`: the disk's type, the bounds of the driver's loops, enough dummy clocks to wake
the card, and at least two tries of command 0, of which the code has ten):

| Module | Theorem | Property | Further hypothesis |
|---|---|---|---|
| RunControlProofs | TypeCorrect | `TypeOK` of RunControl | |
| | Exclusion | `ExclusiveAccess` | |
| | FramesFinished | `ReadyFrameIsFinished` | |
| | NoTearing | `NoTearingWithinAFrame` | |
| | CleanReset | `CleanResetRecovers` | |
| AudioClockProofs | ClockRanges | `TypeOK` of AudioClock | |
| | ClockDoesNotDrift | `NoDrift` | |
| | ClockIsRealTime | `InRealTime` | |
| | RacesSkewLittle | `RacesAreHarmless` | |
| | VideoFollows | `VideoInStep` | |
| SerialLinkProofs | NothingDiscarded | `TransmitNeverDiscards` | |
| | LineTypes | `TypeOK` of SerialLink | |
| | OrderlyUpToTheFifo | ring and FIFO hold consecutive bytes | |
| | NeverOverrun | `BufferNotOverrun` | `[]HasRoom` |
| | LineIsStream | ByteStream without its fairness | `[]HasRoom` |
| MemManProofs | ManagerTypes | `TypeOK` of MemMan | `NoWrap`; `InRam` in the model |
| | HeldBlocksAreLinked | `HeldIsLinked` | the same |
| | AnswersAreTrue | `AnswersAreExact` | the same |
| | GrantsAreRam | `GrantIsRam`, the first block excepted | the same |
| | DataSurvives | `DataIsKept` | the same |
| | ManagerAllocates | `Allocates`, all of it | the same |
| EditorProofs | EditorTypes | `TypeOK` of Editor | keys within `InSlot` and `TypeKey`, guards of the model that the code lacks |
| | SlotsAreDivided | `SlotsPartition` | the same |
| | ScreenIsTrue | `ScreenShowsText` | the same, and a terminal that clips |
| | EditorImplementsText | `ImplementsText` | as EditorTypes |
| MmcLinkProofs | LinkTypes | `TypeOK` of MmcLink | |
| | CardIsFound | `InitSucceeds` | |
| | LinkIsDevice | SectorDevice without its fairness | `RequestsOnCard` |
| FileSystemProofs | ContextsArePlaced | the inductive invariant `Inv` | |
| | FileTypes | `TypeOK` of FileSystem | |
| | PathsAreResolved | `OpenFindsThePath`, of the elements read | |
| | BytesComeInOrder | `ReadsInOrder`, bytes of a replaced DosBuffer excepted | |
| | EntriesComeInOrder | `ListsInOrder`, while DosBuffer holds the sector | |

**Run control.**  *Exclusion* does not follow from itself: a step that sets
`runRequested` says nothing of where the audio thread is.  `Handshake` adds the link:
whoever may touch the machine has `audioIsBusy` set; a stop request is only withdrawn by
Resume; and once the spin loop has seen `audioIsBusy = 0`, the callback that
announces itself late still finds `runRequested = 0` at its loop.  `CountersRun`
keeps the counters of the callback in their types.  `HandshakeInv` is their
conjunction with `TypeOK`.

*FramesFinished* and *NoTearing* rest on it, since at most one thread draws
(`OneDriver`); `FrameInv` adds that between publishing and swapping the published
frame is the active buffer, and that an upload of the active buffer means a
lap or a stopped machine.

*CleanReset* needs to know what each half-done reset has stored: `CleanInv` says
`Resetting` inside the three calls of reset and `Recovered` outside.

**Audio clock.**  *ClockDoesNotDrift* is proved with `Balance`, one equation per
statement of `getNextSample`: what is owed, in units of 1/`sampleFreq` cycle, equals
what the locals and the carried values say.  The division that precomputes `baseCycles`
enters by the lemma `WholeAndRest` alone.  *ClockIsRealTime* adds the ranges of
`TypeOK`: fraction in `0 .. sampleFreq - 1`, overshoot below one instruction.
`Balance` breaks with the first race; *RacesSkewLittle* replaces the equation by
an interval as wide as the races so far allow (`Displaced`): a reset can throw away or
bring back at most the two carried values, at whichever statement it strikes.

**Serial line.**  *NothingDiscarded* needs only the range of `txCount` beside it
(`TransmitterOK`): between the test of the status register and the write nobody but
UARTPutChar fills the FIFO, and the write is the only way out of the routine but a
reset.

The other direction follows a byte.  `RingInv`: the ring holds the bytes after `LeftRing`,
in order and without a gap, and the reader thread's old view of the pointer only
makes it see less room than there is.  `FifoInv`: the FIFO holds those between `Stored` and
`LeftRing`.  `BufferInv`: the guest's buffer holds those between `heard` and `Stored`.
The first two hold whatever the sizes (`LineInv`).  The third needs RTS to have been
deasserted in time: `FlowInv` says that the bytes on the way are few whenever RTS has stopped the
sender.  `HasRoom` is the condition it takes, one state at a time: unread bytes
and those under way fit into the buffer while RTS is off.  In the program's
proportions nothing guarantees that (finding 2), and the theorems say how far the line can be
trusted: as long as fewer bytes are on their way.

**Memory manager.**  The properties speak of `Linked`, the headers the links lead to, which
is defined by recursion.  The invariant does not: `Nodes` is the start of the heap and
whatever lies in front of a pointer that is held, and `LinksAscend` says of each that its link leads
to the nearest of them above it and that its block ends there at the latest.
`ManagerInv` adds what each of the three walks has found so far: the best gap behind the headers
already seen (`SearchInv`), the pair of neighbours (`FreeInv`), the free bytes below
`A0` (`SumInv`): together `OrderInv`.  It ends with a first block beyond the RAM; then
`BeyondInv` holds until the next boot: that block is the only one, nothing is linked behind it, and
whatever is called leaves it so.  `ManagerInv` is `OrderInv` or `BeyondInv`.  *LinkedIsNodes* then says that the recursive walk meets `Nodes`
and nothing else: every header is reached by iterating `next`, and ascending
links cannot go on for ever in a bounded memory.  With it the theorems about blocks, and the
refinement of Allocator, follow from `ManagerInv` alone.

The one hypothesis is `NoWrap`: header and mask added to a request do not wrap
(`memman.asm:60`, a hazard); without it a block that was granted overlaps others.  That the first
block may be no memory (`memman.asm:69`) is not assumed away: `FirstFits` only separates the
steps that grant one in RAM from those of *BeyondStarts*.

**Editor.**  The three invariants hold together or not at all: what a row should show
depends on which slot a line is in, a line is well formed only if no other one shares its
slot, and a line fills its slot only if the cursor is on it.  `Sound` is their conjunction
without the screen: `Partition` of the slots, `AllTerminated` lines, and a `Position` on a line
of the text.  `Tidy` says that the screen is right *and* that the terminal's cursor is in
the row of the text's: scrolling moves the screen only at a margin, so without it no step
up or down could be followed.  `InSlot`, the bound on the cursor, is needed once: Home redraws if the
cursor is not at 0, and only a column that is not negative then means that the window is at
its edge.  Each key is followed function by function: where it leaves the screen
(`ShowsBut(first, last)`: right but for these rows) before the rows are drawn.  In the rows above
those it draws, a key relies on lines being in the slots they were in (*InsertIs*,
*RemoveIs*, *ChangeKeeps*); in the others, a row that comes from elsewhere by scrolling
shows its line from the start, since the line that is left was scrolled back first
(*RestoreTidies*).  Loading is an induction over the bytes of the file (*ReadingKeeps*).

*EditorImplementsText* says that nothing of this shows.  `Represents(d, ls)` relates slots and
index to a list of lines: line i's slot holds `ls[i]`, a NUL, and anything
behind it.  Three updates of a slot (a character put in, one taken out, another text copied
behind) and two of the index (a line in, a line out) are shown to do to `ls` what `With`, `Without` and
concatenation do, each under the conditions in which the code calls them.  Every
key is then one of them and a cursor, or a movement (`Wanders`); that a key is a
stutter has to be shown as well, where the line or the document is full and where two lines are too
long to be joined.  Behind the end of a line, where the code shifts or cuts what is not text, the
lemmas say that the text does not change (*OpenedPast*, *ClosedPast*, *CutHolds*).

**SD card.**  A byte is sixteen edges of the clock, and between any two of them driver
and card must agree on what was sent.  The invariant has three levels.  *Bits:* of a byte
v, all but l bits have reached the card (`Hears`) or left it (`Tells`); what the
driver has of it, or has left to send, is the same v cut at the same l (`Carries`).  The shifts and
masks of the two sides are arithmetic modulo powers of two.  *Bytes:* what the card holds
while byte n of a place of the driver is on the line (`About`), what it is saying then (`Says`),
and what follows when it has passed (`Passed`).  *Commands:* the bytes of a
command the card has (`Holds`), what it made of them (`Judged`), where it is when the
answer is back (`Returned`).  `InStep` says all three for every place of the
driver.  It is claimed of a card that is inserted and not `spoilt`; without a card, `Absent`: every
byte reads as 255.

Resets are why the invariant is not simpler.  `Restorable` is what a reset may leave
behind so that MMCInit still works, `Wakes` that the dummy clocks which are left suffice to
take the card from there to rest, and `Holds` allows, for a first command 0, stale bytes above
those of the command: `Judged` then allows that it is refused, and `Returned` that the card is clean
for the next.  Hence the assumption of two tries.  `DriverOk` and `CardOk`, the types, hold
of every card, also of a spoilt one, which may answer anything; so *LinkTypes* excepts nothing.
TLC found `Inv` true of the states of MCMmcLink before it was proved.

`RequestsOnCard` is needed by *LinkIsDevice* alone: for a sector beyond the card the driver gets
the bytes of an earlier one (`mmc.c:156`, a hazard).

**File system.**  The code takes its disk on trust, so the theorems are about disks and paths
that deserve it: `DiskAssumption`.  A directory has an end in its first cluster or its
root sectors (hazard at `fat16.asm:237`) and its entries are sound; a file's
clusters, as far as its size reaches, lie on the disk, as do their places in the FAT;
nothing starts at cluster 1, which `FATCreatePathContext` refuses; and no path goes on behind a file (`fileman.asm:339`).  Behind all directories some
sector begins with an end: a listing that another context has disturbed can be anywhere, and
`TypeOK` needs it to stop; no other theorem uses it.  The disk of the run meets all of this, and TLC
evaluates it there.

`Inv` says of every context where it is.  For a file, `InFile`: the context's
block is cluster q of the chain, r of its sectors were read, and the bytes taken agree with q, r
and the offset; r may be all of the cluster, since the code changes cluster only when it
needs the next sector.  For a directory, `InDirectory`: it stands at a place before which there is
no end, and as many usable entries lie before that place as were delivered.  What
DosBuffer holds is part of the invariant of a listing only while `trusted`, and of a reading
only where it starts, which is why *BytesComeInOrder* excepts the bytes of a sector that
was replaced and none behind them.  For a lookup, `Looks`:
the part of the path in front of A5 has led to the object whose block is in the context, and no
entry already passed has the name looked for; *WayIs* turns the recursive `Way` into its steps.
*StartReads* is about what is taken from the cached sector, *ReadSectorInv* about every further
one.

**NaturalLemmas** holds what these proofs need of natural numbers and the library does not
have in a form the provers can use: induction stated for a *set* of numbers
(*SetInduction*, from the well-foundedness of strict inclusion of finite sets), the least and the greatest element,
the existence of the iterates of a step function (*StepsExist*), and whole
multiples.

**Only model-checked.**  Every liveness property (`StopIsGranted`, `CrashStopsMachine`,
`CallsReturn`, `TicksAreServed`, the fairness in `ReliableStream` and
`ImplementsDevice`), since liveness under fairness is beyond the prover; and
the processor.  Its modules use bitwise operators, which the prover does not know; there the
enumeration of all bytes takes the place of a proof.

## The plan

Modelled, in this order: run control, audio clock, serial line, memory manager, SD card
and driver, file system, processor with interrupts, editor.  The order is that of
what the rest depends on: whether the machine runs at all, what it is fed with, what
its programs rest on, and the programs.  Proved: every
safety property the runs check but the processor's.

Next comes the executable loader: its hunks and relocations, and what its error paths leave
allocated (`exeloader.asm:131`, `:227`).

## Not modelled

Whatever only formats or displays: disassembler, debugger, statistics, fonts, console,
status line, decoding of escape sequences.  In the modelled parts: cycle counts of
single instructions, the timer's frequency, the baud rate, what an unmapped address
reads, the host's file I/O.  Of the BIOS: the executable loader (planned), the shell's
prompt (calls of other components in a row), the boot menu (straight-line code), and
the partition's initialisation, which runs once and fills in constants of
FileSystem.  Third-party and example programs.  `components` in `PROJECT.json`
gives the reason for each.
