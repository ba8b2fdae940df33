----------------------------- MODULE AudioClock -----------------------------
(***************************************************************************)
(* The clock of the emulated machine (src/audio.c).                        *)
(*                                                                         *)
(* The sound card asks for samples; for each of them getNextSample runs    *)
(* CPU instructions worth cpuFreq / sampleFreq cycles.  The ratio is not a *)
(* whole number and instructions are not one cycle long, so a fraction     *)
(* (audioFractionalAcc) and an overshoot (cpuCycleDebt) are carried from   *)
(* one sample to the next, and a second fraction (videoFractionalAcc)      *)
(* carries the dots of the picture.                                        *)
(*                                                                         *)
(* The audio thread and the UI thread meet as in module RunControl: the    *)
(* UI thread stops the machine between two samples, but a reset does not   *)
(* wait, and its stores land in the middle of a sample.  Abstracted: the   *)
(* call of mainTicker after a reset, which returns 0 cycles and changes    *)
(* nothing here; totalCyclesRun, which only the statistics read.           *)
(***************************************************************************)
EXTENDS Integers

CONSTANTS
  sampleFreq, cpuFreq, videoFreq,
  MaxCycles,  \* the longest instruction
  MaxRaces    \* bound: resets of the running machine since it was resumed

ASSUME AudioClockAssumption ==
  /\ sampleFreq \in Nat \ {0} /\ cpuFreq \in Nat \ {0} /\ videoFreq \in Nat \ {0}
  /\ MaxCycles \in Nat \ {0}
  /\ MaxRaces \in Nat

VARIABLES
  \* Audio: the fractions, the overshoot, crashed
  audioFractionalAcc, videoFractionalAcc, cpuCycleDebt, crashed,
  \* locals of getNextSample and the statement it is at
  cyclesForSample, targetCycles, actualCyclesRun, step,
  \* the callback is allowed to run the machine; the stores of an
  \* audioReset that are still to come
  running, resetStores,
  \* history since the machine was resumed or reset: the cycles the machine
  \* should have run less those it ran, in units of 1/sampleFreq cycle; the
  \* dots that were due less those drawn, in units of 1/cpuFreq dot; resets
  \* of the running machine; whether a crash cut a sample short
  owed, dotsOwed, races, cutShort

clock   == <<audioFractionalAcc, videoFractionalAcc, cpuCycleDebt, crashed>>
sample  == <<cyclesForSample, targetCycles, actualCyclesRun, step>>
control == <<running, resetStores>>
history == <<owed, dotsOwed, races, cutShort>>
vars    == <<clock, sample, control, history>>

\* audioInit: whole cycles per sample, and what is left of them.
baseCycles == cpuFreq \div sampleFreq
remainder  == cpuFreq % sampleFreq

AudioStores == {"audioFractionalAcc", "videoFractionalAcc", "cpuCycleDebt", "crashed"}
Steps == {"sample", "carry", "borrow", "target", "cpu"}

ClockOK ==
  /\ audioFractionalAcc \in -sampleFreq .. 2 * sampleFreq - 1
  /\ step \in {"sample", "target", "cpu"} => audioFractionalAcc < sampleFreq
  /\ step = "borrow" => audioFractionalAcc >= 0
  /\ videoFractionalAcc \in 0 .. cpuFreq - 1
  /\ cpuCycleDebt \in 0 .. MaxCycles - 1

SampleOK ==
  /\ step \in Steps
  /\ cyclesForSample \in 0 .. baseCycles + 1
  /\ targetCycles \in Int /\ actualCyclesRun \in Nat
  /\ targetCycles <= baseCycles + 1
  /\ step = "cpu" => actualCyclesRun - targetCycles < MaxCycles

ControlOK ==
  /\ running \in BOOLEAN /\ crashed \in BOOLEAN /\ cutShort \in BOOLEAN
  /\ resetStores \subseteq AudioStores

HistoryOK == owed \in Int /\ dotsOwed \in Int /\ races \in 0 .. MaxRaces + 1

TypeOK == ClockOK /\ SampleOK /\ ControlOK /\ HistoryOK

\* The audio thread starts inside audioInit, before appInit's first reset.
Init ==
  /\ audioFractionalAcc = 0 /\ videoFractionalAcc = 0 /\ cpuCycleDebt = 0
  /\ crashed = FALSE
  /\ cyclesForSample = 0 /\ targetCycles = 0 /\ actualCyclesRun = 0
  /\ step = "sample"
  /\ running = TRUE /\ resetStores = AudioStores
  /\ owed = 0 /\ dotsOwed = 0 /\ races = 1 /\ cutShort = FALSE

-----------------------------------------------------------------------------
(***************************************************************************)
(* getNextSample, statement by statement.                                  *)
(***************************************************************************)

\* A sample begins unless the machine crashed: the fraction grows.
Accumulate ==
  /\ step = "sample" /\ running /\ ~crashed
  /\ audioFractionalAcc' = audioFractionalAcc + remainder
  /\ cyclesForSample' = baseCycles
  /\ step' = "carry"
  /\ UNCHANGED <<videoFractionalAcc, cpuCycleDebt, crashed, targetCycles, actualCyclesRun,
                 control, history>>

\* A whole cycle came together.  The faulty variant misses the exact one.
CarryDueLate == audioFractionalAcc > sampleFreq
CarryDue == audioFractionalAcc >= sampleFreq

Carry ==
  /\ step = "carry"
  /\ IF CarryDue
     THEN cyclesForSample' = cyclesForSample + 1 /\ step' = "borrow"
     ELSE step' = "target" /\ UNCHANGED cyclesForSample
  /\ UNCHANGED <<clock, targetCycles, actualCyclesRun, control, history>>

Borrow ==
  /\ step = "borrow"
  /\ audioFractionalAcc' = audioFractionalAcc - sampleFreq
  /\ step' = "target"
  /\ UNCHANGED <<videoFractionalAcc, cpuCycleDebt, crashed, cyclesForSample, targetCycles,
                 actualCyclesRun, control, history>>

\* The overshoot of the last sample is paid back first; the faulty variant
\* forgets it.
CyclesDueNow == cyclesForSample
CyclesDue == cyclesForSample - cpuCycleDebt

Target ==
  /\ step = "target"
  /\ targetCycles' = CyclesDue
  /\ actualCyclesRun' = 0
  /\ step' = "cpu"
  /\ UNCHANGED <<clock, cyclesForSample, control, history>>

\* The dots of c cycles are drawn at once; what is left of them is kept.
\* The faulty variant starts every instruction at a whole dot.
VideoCatchUpWhole(c) ==
  LET due == c * videoFreq
  IN  /\ videoFractionalAcc' = due % cpuFreq
      /\ dotsOwed' = dotsOwed + c * videoFreq - (due \div cpuFreq) * cpuFreq
VideoCatchUp(c) ==
  LET due == videoFractionalAcc + c * videoFreq
  IN  /\ videoFractionalAcc' = due % cpuFreq
      /\ dotsOwed' = dotsOwed + c * videoFreq - (due \div cpuFreq) * cpuFreq

\* mainTicker ran one instruction of c cycles.
Instruction(c) ==
  /\ step = "cpu" /\ actualCyclesRun < targetCycles
  /\ VideoCatchUp(c)
  /\ actualCyclesRun' = actualCyclesRun + c
  /\ owed' = owed - c * sampleFreq
  /\ UNCHANGED <<audioFractionalAcc, cpuCycleDebt, crashed, cyclesForSample, targetCycles,
                 step, control, races, cutShort>>

\* mainTicker returned -1: the sample is given up where it is.
Crash ==
  /\ step = "cpu" /\ actualCyclesRun < targetCycles
  /\ crashed' = TRUE /\ cutShort' = TRUE
  /\ step' = "sample"
  /\ UNCHANGED <<audioFractionalAcc, videoFractionalAcc, cpuCycleDebt, cyclesForSample,
                 targetCycles, actualCyclesRun, control, owed, dotsOwed, races>>

SampleDone ==
  /\ step = "cpu" /\ actualCyclesRun >= targetCycles
  /\ cpuCycleDebt' = actualCyclesRun - targetCycles
  /\ owed' = owed + cpuFreq
  /\ step' = "sample"
  /\ UNCHANGED <<audioFractionalAcc, videoFractionalAcc, crashed, cyclesForSample,
                 targetCycles, actualCyclesRun, control, dotsOwed, races, cutShort>>

AudioNext ==
  \/ Accumulate \/ Carry \/ Borrow \/ Target \/ Crash \/ SampleDone
  \/ \E c \in 1 .. MaxCycles : Instruction(c)

-----------------------------------------------------------------------------
(***************************************************************************)
(* The UI thread.                                                          *)
(***************************************************************************)

\* stoppedMode: the callback sees the request between two samples.
Stop ==
  /\ running /\ step = "sample" /\ resetStores = {}
  /\ running' = FALSE
  /\ UNCHANGED <<clock, sample, resetStores, history>>

NewHistory == owed' = 0 /\ dotsOwed' = 0 /\ races' = 0 /\ cutShort' = FALSE

\* runningMode clears the accumulators; the faulty variant clears only the
\* fractions.
ClearFractions ==
  /\ audioFractionalAcc' = 0 /\ videoFractionalAcc' = 0
  /\ UNCHANGED cpuCycleDebt
ClearAccumulators ==
  audioFractionalAcc' = 0 /\ videoFractionalAcc' = 0 /\ cpuCycleDebt' = 0

Resume ==
  /\ ~running
  /\ running' = TRUE
  /\ ClearAccumulators
  /\ NewHistory
  /\ UNCHANGED <<crashed, sample, resetStores>>

\* singleStep draws the dots of the instruction; its cycles are not owed to
\* any sample.
SingleStep(c) ==
  /\ ~running
  /\ VideoCatchUp(c)
  /\ UNCHANGED <<audioFractionalAcc, cpuCycleDebt, crashed, sample, control, owed, races,
                 cutShort>>

\* audioReset of a stopped machine.
ResetStopped ==
  /\ ~running
  /\ ClearAccumulators
  /\ crashed' = FALSE
  /\ NewHistory
  /\ UNCHANGED <<sample, control>>

\* audioReset of a running machine: its stores are still to come, ...
ResetRunning ==
  /\ running /\ resetStores = {} /\ races < MaxRaces
  /\ resetStores' = AudioStores
  /\ races' = races + 1
  /\ UNCHANGED <<clock, sample, running, owed, dotsOwed, cutShort>>

\* ... in any order, and one that falls between the load and the store of
\* an addition to the same variable is overwritten.
Overwritten(field) ==
  \/ field = "audioFractionalAcc" /\ step \in {"sample", "borrow"}
  \/ field = "videoFractionalAcc" /\ step = "cpu"

Cleared(value, name, field) == IF name = field THEN 0 ELSE value

ResetStore(field) ==
  /\ field \in resetStores
  /\ resetStores' = resetStores \ {field}
  /\ \/ /\ audioFractionalAcc' = Cleared(audioFractionalAcc, "audioFractionalAcc", field)
        /\ videoFractionalAcc' = Cleared(videoFractionalAcc, "videoFractionalAcc", field)
        /\ cpuCycleDebt' = Cleared(cpuCycleDebt, "cpuCycleDebt", field)
        /\ crashed' = (crashed /\ field # "crashed")
     \/ Overwritten(field) /\ UNCHANGED clock
  /\ UNCHANGED <<sample, running, history>>

UiNext ==
  \/ Stop \/ Resume \/ ResetStopped \/ ResetRunning
  \/ \E c \in 1 .. MaxCycles : SingleStep(c)
  \/ \E field \in AudioStores : ResetStore(field)

Next == AudioNext \/ UiNext

Spec == Init /\ [][Next]_vars

-----------------------------------------------------------------------------
AtSampleBoundary == step = "sample" /\ ~cutShort

\* What the machine owes according to the two values carried over.
CarriedOver == audioFractionalAcc - sampleFreq * cpuCycleDebt

(* The comment "Save the instruction overhang for the next loop iteration":
   at the end of every sample the fraction and the overshoot account for
   every cycle the machine has run since it was resumed or reset, so the
   emulation does not drift from the sound card, over any number of samples. *)
NoDrift == AtSampleBoundary /\ races = 0 => owed = CarriedOver

(* In real time the machine is then less than a cycle behind the sample, and
   ahead of it by less than one instruction. *)
InRealTime ==
  AtSampleBoundary /\ races = 0 =>
    /\ owed < sampleFreq
    /\ owed > -(MaxCycles * sampleFreq)

(* Whatever part of a sample it hits, a reset of the running machine
   displaces the clock by less than one instruction and one cycle. *)
SkewPerReset == sampleFreq * (MaxCycles + 1)

RacesAreHarmless ==
  AtSampleBoundary =>
    /\ owed - CarriedOver <= races * SkewPerReset
    /\ CarriedOver - owed <= races * SkewPerReset

(* "Catch up the PPU based on exact CPU cycles run": the picture follows the
   cycles, of samples and of single steps alike, to a fraction of a dot. *)
VideoInStep == races = 0 => dotsOwed = videoFractionalAcc

=============================================================================
