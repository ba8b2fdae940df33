-------------------------- MODULE AudioClockProofs --------------------------
(***************************************************************************)
(* The clock does not drift, for every sound card, CPU and picture         *)
(* frequency and every instruction length.                                 *)
(*                                                                         *)
(* The argument is a balance kept at every statement of getNextSample: the *)
(* cycles owed, plus the sample in progress, equal the fraction plus the   *)
(* cycles that the sample still has to run.  A reset of the running        *)
(* machine breaks the balance, by a bounded amount: the second part        *)
(* carries that amount along.                                              *)
(***************************************************************************)
EXTENDS AudioClock, TLAPS

\* audioInit splits the ratio without loss.
LEMMA WholeAndRest ==
  /\ baseCycles \in Nat /\ remainder \in 0 .. sampleFreq - 1
  /\ cpuFreq = sampleFreq * baseCycles + remainder
BY AudioClockAssumption, Z3 DEF baseCycles, remainder

\* A division by the CPU frequency loses nothing either.
LEMMA DotsAndRest ==
  ASSUME NEW due \in Nat
  PROVE  /\ due % cpuFreq \in 0 .. cpuFreq - 1
         /\ due \div cpuFreq \in Nat
         /\ due = (due \div cpuFreq) * cpuFreq + (due % cpuFreq)
<1>1. /\ due % cpuFreq \in 0 .. cpuFreq - 1
      /\ due = cpuFreq * (due \div cpuFreq) + (due % cpuFreq)
  BY AudioClockAssumption, Z3
<1>2. due \div cpuFreq \in Int
  BY AudioClockAssumption
<1>3. due \div cpuFreq >= 0
  BY <1>1, <1>2, AudioClockAssumption, Z3
<1>4. QED
  BY <1>1, <1>2, <1>3, AudioClockAssumption

LEMMA Product ==
  ASSUME NEW a \in Nat, NEW b \in Nat
  PROVE  a * b \in Nat
OBVIOUS

LEMMA CatchUp ==
  ASSUME NEW c \in 1 .. MaxCycles, VideoCatchUp(c), dotsOwed \in Int,
         videoFractionalAcc \in 0 .. cpuFreq - 1
  PROVE  /\ videoFractionalAcc' \in 0 .. cpuFreq - 1
         /\ dotsOwed' \in Int
         /\ dotsOwed = videoFractionalAcc => dotsOwed' = videoFractionalAcc'
<1> DEFINE due   == videoFractionalAcc + c * videoFreq
           drawn == (due \div cpuFreq) * cpuFreq
           rest  == due % cpuFreq
<1>1. c * videoFreq \in Nat /\ due \in Nat
  BY Product, AudioClockAssumption
<1>2. rest \in 0 .. cpuFreq - 1 /\ due \div cpuFreq \in Nat /\ due = drawn + rest
  BY <1>1, DotsAndRest
<1>3. drawn \in Nat
  BY <1>2, Product, AudioClockAssumption
<1>4. videoFractionalAcc' = rest /\ dotsOwed' = dotsOwed + c * videoFreq - drawn
  BY DEF VideoCatchUp
<1>5. due = videoFractionalAcc + c * videoFreq
  OBVIOUS
<1> HIDE DEF due, drawn, rest
<1>6. QED
  BY <1>1, <1>2, <1>3, <1>4, <1>5, AudioClockAssumption

-----------------------------------------------------------------------------
\* A stopped machine rests between two samples.
Stopped == ~running => step = "sample" /\ resetStores = {}

\* Without races the values carried over account for everything: what is
\* owed once the sample is counted is the fraction and the cycles to run.
Balance ==
  races = 0 /\ ~cutShort =>
    /\ audioFractionalAcc >= 0
    /\ step = "sample" => owed = audioFractionalAcc - sampleFreq * cpuCycleDebt
    /\ step = "carry" =>
         /\ cyclesForSample = baseCycles
         /\ owed + cpuFreq = audioFractionalAcc + sampleFreq * (baseCycles - cpuCycleDebt)
    /\ step = "borrow" =>
         /\ audioFractionalAcc >= sampleFreq
         /\ owed + cpuFreq = audioFractionalAcc - sampleFreq
                             + sampleFreq * (cyclesForSample - cpuCycleDebt)
    /\ step = "target" =>
         owed + cpuFreq = audioFractionalAcc + sampleFreq * (cyclesForSample - cpuCycleDebt)
    /\ step = "cpu" =>
         owed + cpuFreq = audioFractionalAcc + sampleFreq * (targetCycles - actualCyclesRun)

NoRace == races = 0 => resetStores = {} /\ dotsOwed = videoFractionalAcc

\* Between carry and target the sample has base or base + 1 cycles.
WholeCycles ==
  /\ step = "carry" => cyclesForSample = baseCycles
  /\ step = "borrow" => cyclesForSample = baseCycles + 1

ClockInv == TypeOK /\ Stopped /\ NoRace /\ WholeCycles /\ Balance

LEMMA ClockStep ==
  ASSUME TypeOK, [Next]_vars
  PROVE  ClockOK'
<1> USE AudioClockAssumption, WholeAndRest DEF TypeOK, ClockOK, clock
<1>1. CASE Accumulate
  BY <1>1 DEF Accumulate
<1>2. CASE Carry
  BY <1>2 DEF Carry, CarryDue
<1>3. CASE Borrow
  BY <1>3 DEF Borrow
<1>4. CASE Target \/ Crash \/ Stop \/ ResetRunning
  BY <1>4 DEF Target, Crash, Stop, ResetRunning, sample
<1>5. CASE SampleDone
  BY <1>5 DEF SampleDone, SampleOK
<1>6. ASSUME NEW c \in 1 .. MaxCycles, Instruction(c) \/ SingleStep(c) PROVE ClockOK'
  <2>1. videoFractionalAcc' \in 0 .. cpuFreq - 1
    BY <1>6, CatchUp DEF Instruction, SingleStep, HistoryOK
  <2>2. QED
    BY <1>6, <2>1 DEF Instruction, SingleStep, sample
<1>7. CASE Resume \/ ResetStopped
  <2>1. UNCHANGED step
    BY <1>7 DEF Resume, ResetStopped, sample
  <2>2. QED
    BY <1>7, <2>1 DEF Resume, ResetStopped, ClearAccumulators
<1>8. ASSUME NEW field \in AudioStores, ResetStore(field) PROVE ClockOK'
  BY <1>8 DEF ResetStore, Cleared, sample
<1>9. CASE UNCHANGED vars
  BY <1>9 DEF vars, sample
<1>10. QED
  BY <1>1, <1>2, <1>3, <1>4, <1>5, <1>6, <1>7, <1>8, <1>9 DEF Next, AudioNext, UiNext

LEMMA SampleStep ==
  ASSUME TypeOK, WholeCycles, [Next]_vars
  PROVE  SampleOK'
<1> USE AudioClockAssumption, WholeAndRest DEF TypeOK, SampleOK, Steps, WholeCycles
<1>1. CASE Accumulate \/ Borrow
  BY <1>1 DEF Accumulate, Borrow
<1>2. CASE Carry
  BY <1>2 DEF Carry
<1>3. CASE Target
  BY <1>3 DEF Target, CyclesDue, ClockOK
<1>4. CASE Crash \/ SampleDone
  BY <1>4 DEF Crash, SampleDone
<1>5. ASSUME NEW c \in 1 .. MaxCycles, Instruction(c) PROVE SampleOK'
  BY <1>5 DEF Instruction
<1>6. CASE UNCHANGED sample
  BY <1>6 DEF sample
<1>7. QED
  BY <1>1, <1>2, <1>3, <1>4, <1>5, <1>6
  DEF Next, AudioNext, UiNext, Stop, Resume, ResetStopped, ResetRunning, SingleStep,
      ResetStore, vars

LEMMA FlagsStep ==
  ASSUME ControlOK, [Next]_vars
  PROVE  ControlOK'
<1> USE DEF ControlOK, control, history, clock
<1>1. CASE Accumulate \/ Carry \/ Borrow \/ Target
  BY <1>1 DEF Accumulate, Carry, Borrow, Target
<1>2. CASE Crash \/ SampleDone \/ Stop
  BY <1>2 DEF Crash, SampleDone, Stop
<1>3. ASSUME NEW c \in 1 .. MaxCycles, Instruction(c) \/ SingleStep(c) PROVE ControlOK'
  BY <1>3 DEF Instruction, SingleStep
<1>4. CASE Resume \/ ResetStopped
  BY <1>4 DEF Resume, ResetStopped, NewHistory
<1>5. CASE ResetRunning
  BY <1>5 DEF ResetRunning
<1>6. ASSUME NEW field \in AudioStores, ResetStore(field) PROVE ControlOK'
  BY <1>6 DEF ResetStore
<1>7. CASE UNCHANGED vars
  BY <1>7 DEF vars
<1>8. QED
  BY <1>1, <1>2, <1>3, <1>4, <1>5, <1>6, <1>7 DEF Next, AudioNext, UiNext

LEMMA HistoryStep ==
  ASSUME ClockOK, HistoryOK, [Next]_vars
  PROVE  HistoryOK'
<1> USE AudioClockAssumption DEF HistoryOK, history
<1>1. CASE Accumulate \/ Carry \/ Borrow \/ Target \/ Crash \/ Stop
  BY <1>1 DEF Accumulate, Carry, Borrow, Target, Crash, Stop
<1>2. CASE SampleDone
  BY <1>2 DEF SampleDone
<1>3. ASSUME NEW c \in 1 .. MaxCycles, Instruction(c) \/ SingleStep(c) PROVE HistoryOK'
  <2>1. dotsOwed' \in Int
    BY <1>3, CatchUp DEF Instruction, SingleStep, ClockOK
  <2>2. c * sampleFreq \in Nat
    BY Product
  <2>3. QED
    BY <1>3, <2>1, <2>2 DEF Instruction, SingleStep
<1>4. CASE Resume \/ ResetStopped
  BY <1>4 DEF Resume, ResetStopped, NewHistory
<1>5. CASE ResetRunning
  BY <1>5 DEF ResetRunning
<1>6. ASSUME NEW field \in AudioStores, ResetStore(field) PROVE HistoryOK'
  BY <1>6 DEF ResetStore
<1>7. CASE UNCHANGED vars
  BY <1>7 DEF vars
<1>8. QED
  BY <1>1, <1>2, <1>3, <1>4, <1>5, <1>6, <1>7 DEF Next, AudioNext, UiNext

LEMMA ControlStep ==
  ASSUME ClockInv, [Next]_vars
  PROVE  Stopped' /\ NoRace' /\ WholeCycles'
<1> USE DEF ClockInv, Stopped, NoRace, WholeCycles, control, clock, sample, history
<1>1. CASE Accumulate \/ Carry \/ Borrow \/ Target
  BY <1>1 DEF Accumulate, Carry, Borrow, Target, TypeOK, SampleOK
<1>2. CASE Crash \/ SampleDone
  BY <1>2 DEF Crash, SampleDone
<1>3. ASSUME NEW c \in 1 .. MaxCycles, Instruction(c) \/ SingleStep(c)
      PROVE  Stopped' /\ NoRace' /\ WholeCycles'
  <2>1. dotsOwed = videoFractionalAcc => dotsOwed' = videoFractionalAcc'
    BY <1>3, CatchUp DEF Instruction, SingleStep, TypeOK, ClockOK, HistoryOK
  <2>2. QED
    BY <1>3, <2>1 DEF Instruction, SingleStep
<1>4. CASE Stop \/ ResetRunning
  BY <1>4 DEF Stop, ResetRunning, TypeOK, HistoryOK
<1>5. CASE Resume \/ ResetStopped
  BY <1>5 DEF Resume, ResetStopped, ClearAccumulators, NewHistory
<1>6. ASSUME NEW field \in AudioStores, ResetStore(field)
      PROVE  Stopped' /\ NoRace' /\ WholeCycles'
  BY <1>6 DEF ResetStore
<1>7. CASE UNCHANGED vars
  BY <1>7 DEF vars
<1>8. QED
  BY <1>1, <1>2, <1>3, <1>4, <1>5, <1>6, <1>7 DEF Next, AudioNext, UiNext

LEMMA BalanceStep ==
  ASSUME ClockInv, [Next]_vars
  PROVE  Balance'
<1> USE AudioClockAssumption, WholeAndRest
    DEF ClockInv, TypeOK, ClockOK, SampleOK, HistoryOK, Steps, Balance, control, clock, sample, history
<1>1. CASE Accumulate
  BY <1>1 DEF Accumulate
<1>2. CASE Carry
  <2>1. CASE CarryDue
    BY <1>2, <2>1 DEF Carry, CarryDue
  <2>2. CASE ~CarryDue
    BY <1>2, <2>2 DEF Carry
  <2>3. QED
    BY <2>1, <2>2
<1>3. CASE Borrow
  BY <1>3 DEF Borrow
<1>4. CASE Target
  BY <1>4 DEF Target, CyclesDue
<1>5. CASE Crash
  BY <1>5 DEF Crash
<1>6. CASE SampleDone
  BY <1>6 DEF SampleDone
<1>7. ASSUME NEW c \in 1 .. MaxCycles, Instruction(c) PROVE Balance'
  BY <1>7 DEF Instruction
<1>8. ASSUME NEW c \in 1 .. MaxCycles, SingleStep(c) PROVE Balance'
  BY <1>8 DEF SingleStep
<1>9. CASE Stop
  BY <1>9 DEF Stop
<1>10. CASE ResetRunning
  <2>1. races' # 0
    BY <1>10 DEF ResetRunning
  <2>2. QED
    BY <2>1
<1>11. CASE Resume \/ ResetStopped
  BY <1>11 DEF Resume, ResetStopped, ClearAccumulators, NewHistory, Stopped
<1>12. ASSUME NEW field \in AudioStores, ResetStore(field) PROVE Balance'
  BY <1>12 DEF ResetStore, NoRace
<1>13. CASE UNCHANGED vars
  BY <1>13 DEF vars
<1>14. QED
  BY <1>1, <1>2, <1>3, <1>4, <1>5, <1>6, <1>7, <1>8, <1>9, <1>10, <1>11, <1>12, <1>13
  DEF Next, AudioNext, UiNext

LEMMA ClockInvariant == Spec => []ClockInv
<1>1. ASSUME Init PROVE ClockInv
  <2>1. ClockOK
    BY <1>1, AudioClockAssumption DEF Init, ClockOK
  <2>2. SampleOK
    BY <1>1, AudioClockAssumption, WholeAndRest DEF Init, SampleOK, Steps
  <2>3. ControlOK
    BY <1>1 DEF Init, ControlOK
  <2>4. HistoryOK
    BY <1>1, AudioClockAssumption DEF Init, HistoryOK
  <2>5. Stopped /\ NoRace /\ WholeCycles /\ Balance
    BY <1>1 DEF Init, Stopped, NoRace, WholeCycles, Balance
  <2>6. QED
    BY <2>1, <2>2, <2>3, <2>4, <2>5 DEF ClockInv, TypeOK
<1>2. ClockInv /\ [Next]_vars => ClockInv'
  BY ClockStep, SampleStep, FlagsStep, HistoryStep, ControlStep, BalanceStep DEF ClockInv, TypeOK
<1>3. QED
  BY <1>1, <1>2, PTL DEF Spec

(* The fraction stays below two samples' worth, the overshoot below an
   instruction and the dots below one, whatever a reset hits. *)
THEOREM ClockRanges == Spec => []TypeOK
<1>1. ClockInv => TypeOK
  BY DEF ClockInv
<1>2. QED
  BY <1>1, ClockInvariant, PTL

(* The emulation does not drift from the sound card, whatever the ratio of
   the frequencies and however many samples were played. *)
THEOREM ClockDoesNotDrift == Spec => []NoDrift
<1>1. ClockInv => NoDrift
  BY DEF ClockInv, Balance, NoDrift, AtSampleBoundary, CarriedOver
<1>2. QED
  BY <1>1, ClockInvariant, PTL

(* Less than a cycle behind, less than an instruction ahead. *)
THEOREM ClockIsRealTime == Spec => []InRealTime
<1>1. ASSUME ClockInv, AtSampleBoundary, races = 0
      PROVE  owed < sampleFreq /\ owed > -(MaxCycles * sampleFreq)
  <2>1. /\ owed = audioFractionalAcc - sampleFreq * cpuCycleDebt
        /\ audioFractionalAcc \in 0 .. sampleFreq - 1
        /\ cpuCycleDebt \in 0 .. MaxCycles - 1
    BY <1>1, AudioClockAssumption DEF ClockInv, Balance, AtSampleBoundary, TypeOK, ClockOK
  <2>2. sampleFreq * cpuCycleDebt \in Nat
    BY <2>1, Product, AudioClockAssumption
  <2>3. sampleFreq * (MaxCycles - cpuCycleDebt) \in Nat
    BY <2>1, Product, AudioClockAssumption
  <2>4. sampleFreq * (MaxCycles - 1 - cpuCycleDebt) \in Nat
    BY <2>1, Product, AudioClockAssumption
  <2>5. MaxCycles * sampleFreq = sampleFreq * (MaxCycles - 1 - cpuCycleDebt)
                                 + sampleFreq * cpuCycleDebt + sampleFreq
    BY <2>1, AudioClockAssumption
  <2>6. QED
    BY <2>1, <2>2, <2>4, <2>5, AudioClockAssumption
<1>2. ClockInv => InRealTime
  BY <1>1 DEF InRealTime
<1>3. QED
  BY <1>2, ClockInvariant, PTL

(* The picture follows the cycles to a fraction of a dot. *)
THEOREM VideoFollows == Spec => []VideoInStep
<1>1. ClockInv => VideoInStep
  BY DEF ClockInv, NoRace, VideoInStep
<1>2. QED
  BY <1>1, ClockInvariant, PTL
-----------------------------------------------------------------------------
\* What the machine owes at a statement, if nothing was displaced: Balance
\* says so while races = 0.
CyclesToRun ==
  IF step = "sample" THEN 0 - cpuCycleDebt
  ELSE IF step = "cpu" THEN targetCycles - actualCyclesRun
  ELSE IF step = "borrow" THEN cyclesForSample - cpuCycleDebt - 1
  ELSE cyclesForSample - cpuCycleDebt
Accounted ==
  audioFractionalAcc + sampleFreq * CyclesToRun - (IF step = "sample" THEN 0 ELSE cpuFreq)

\* A reset may displace two samples' worth of fraction and an overshoot, each
\* when its store comes.
ToCome ==
  (IF "audioFractionalAcc" \in resetStores THEN 2 * sampleFreq ELSE 0)
  + (IF "cpuCycleDebt" \in resetStores THEN sampleFreq * (MaxCycles - 1) ELSE 0)

\* What the resets so far may have displaced, and did.
Allowed == races * SkewPerReset

Displaced ==
  ~cutShort =>
    /\ owed - Accounted <= Allowed - ToCome
    /\ Accounted - owed <= Allowed - ToCome

LEMMA SkewSplit ==
  /\ SkewPerReset \in Nat
  /\ sampleFreq * (MaxCycles - 1) \in Nat
  /\ SkewPerReset = 2 * sampleFreq + sampleFreq * (MaxCycles - 1)
<1>1. sampleFreq * (MaxCycles - 1) \in Nat
  BY Product, AudioClockAssumption
<1>2. sampleFreq * (MaxCycles + 1) = 2 * sampleFreq + sampleFreq * (MaxCycles - 1)
  BY AudioClockAssumption
<1>3. QED
  BY <1>1, <1>2, AudioClockAssumption DEF SkewPerReset

\* getNextSample runs up no debt that it does not write down.
LEMMA SampleKeepsAccount ==
  ASSUME ClockInv, AudioNext, ~cutShort'
  PROVE  owed' - Accounted' = owed - Accounted
<1> USE AudioClockAssumption, WholeAndRest
    DEF ClockInv, TypeOK, ClockOK, SampleOK, HistoryOK, Steps, WholeCycles, Accounted, CyclesToRun,
        clock, history
<1>1. CASE Accumulate
  BY <1>1 DEF Accumulate
<1>2. CASE Carry
  <2>1. CASE CarryDue
    BY <1>2, <2>1 DEF Carry
  <2>2. CASE ~CarryDue
    BY <1>2, <2>2 DEF Carry
  <2>3. QED
    BY <2>1, <2>2
<1>3. CASE Borrow
  BY <1>3 DEF Borrow
<1>4. CASE Target
  BY <1>4 DEF Target, CyclesDue
<1>5. CASE Crash
  BY <1>5 DEF Crash
<1>6. CASE SampleDone
  BY <1>6 DEF SampleDone
<1>7. ASSUME NEW c \in 1 .. MaxCycles, Instruction(c) PROVE owed' - Accounted' = owed - Accounted
  BY <1>7 DEF Instruction
<1>8. QED
  BY <1>1, <1>2, <1>3, <1>4, <1>5, <1>6, <1>7 DEF AudioNext

LEMMA DisplacedStep ==
  ASSUME ClockInv, Displaced, [Next]_vars
  PROVE  Displaced'
<1>a. TypeOK /\ TypeOK'
  BY ClockStep, SampleStep, FlagsStep, HistoryStep DEF ClockInv, TypeOK
<1>b. /\ SkewPerReset \in Nat /\ Allowed \in Nat /\ Allowed' \in Nat
      /\ Accounted \in Int /\ Accounted' \in Int
      /\ ToCome \in Nat /\ ToCome' \in Nat
      /\ races' = races => Allowed' = Allowed
  <2>1. SkewPerReset \in Nat /\ Allowed \in Nat /\ Allowed' \in Nat
    <3>1. SkewPerReset' = SkewPerReset
      BY DEF SkewPerReset
    <3>2. races \in Nat /\ races' \in Nat
      BY <1>a, AudioClockAssumption DEF TypeOK, HistoryOK
    <3>3. QED
      BY <3>1, <3>2, SkewSplit, Product DEF Allowed
  <2>2. ToCome \in Nat /\ ToCome' \in Nat
    BY SkewSplit, AudioClockAssumption DEF ToCome
  <2>3. ASSUME NEW n \in Int PROVE sampleFreq * n \in Int
    BY AudioClockAssumption
  <2>4. CyclesToRun \in Int /\ CyclesToRun' \in Int
    BY <1>a, WholeAndRest, AudioClockAssumption DEF CyclesToRun, TypeOK, SampleOK, ClockOK
  <2>5. Accounted \in Int /\ Accounted' \in Int
    BY <1>a, <2>3, <2>4, AudioClockAssumption DEF Accounted, TypeOK, ClockOK
  <2>6. QED
    BY <2>1, <2>2, <2>5 DEF Allowed, SkewPerReset
<1>p. PICK accounted \in Int, toCome \in Nat, allowed \in Nat :
        Accounted' = accounted /\ ToCome' = toCome /\ Allowed' = allowed
  BY <1>b
<1>c. ASSUME ~cutShort, owed - Accounted <= Allowed - ToCome,
             Accounted - owed <= Allowed - ToCome,
             UNCHANGED <<owed, races>>,
             Accounted' - Accounted <= ToCome - ToCome',
             Accounted - Accounted' <= ToCome - ToCome'
      PROVE  /\ owed' - Accounted' <= Allowed' - ToCome'
             /\ Accounted' - owed' <= Allowed' - ToCome'
  <2>1. owed \in Int /\ owed' = owed /\ Allowed' = Allowed
    BY <1>a, <1>b, <1>c DEF TypeOK, HistoryOK
  <2>2. QED
    BY <2>1, <1>b, <1>c, <1>p
<1> USE AudioClockAssumption DEF clock, sample, control, history
<1>1. CASE AudioNext /\ ~cutShort'
  <2>1. UNCHANGED <<races, resetStores>> /\ ~cutShort
    BY <1>1 DEF AudioNext, Accumulate, Carry, Borrow, Target, Crash, SampleDone, Instruction
  <2>2. owed' - Accounted' = owed - Accounted
    BY <1>1, SampleKeepsAccount
  <2>3. ToCome' = ToCome /\ Allowed' = Allowed
    BY <2>1, <1>b, <1>p DEF ToCome
  <2>4. PICK o \in Int : owed' = o /\ owed \in Int
    BY <1>a DEF TypeOK, HistoryOK
  <2>5. QED
    BY <2>1, <2>2, <2>3, <2>4, <1>b, <1>p DEF Displaced
<1>2. CASE cutShort'
  BY <1>2 DEF Displaced
<1>3. CASE Stop
  BY <1>3 DEF Stop, Accounted, CyclesToRun, Displaced, ToCome, Allowed, SkewPerReset
<1>4. ASSUME NEW c \in 1 .. MaxCycles, SingleStep(c) PROVE Displaced'
  BY <1>4 DEF SingleStep, Accounted, CyclesToRun, Displaced, ToCome, Allowed, SkewPerReset
\* Everything is in balance again.
<1>5. CASE Resume \/ ResetStopped
  <2>1. step' = "sample" /\ resetStores' = {} /\ audioFractionalAcc' = 0 /\ cpuCycleDebt' = 0
    BY <1>5 DEF Resume, ResetStopped, ClockInv, Stopped, ClearAccumulators
  <2>2. owed' = 0 /\ races' = 0
    BY <1>5 DEF Resume, ResetStopped, NewHistory
  <2>3. CyclesToRun' = 0
    BY <2>1 DEF CyclesToRun
  <2>4. Accounted' = 0
    BY <2>1, <2>3 DEF Accounted
  <2>5. ToCome' = 0
    BY <2>1 DEF ToCome
  <2>6. Allowed' = 0
    BY <2>2, SkewSplit DEF Allowed, SkewPerReset
  <2>7. QED
    BY <2>2, <2>4, <2>5, <2>6 DEF Displaced
\* A reset is allowed its share when it begins, ...
<1>6. CASE ResetRunning
  <2>1. Accounted' = Accounted /\ UNCHANGED <<owed, cutShort>>
    BY <1>6 DEF ResetRunning, Accounted, CyclesToRun
  <2>2. ToCome = 0
    BY <1>6 DEF ResetRunning, ToCome
  <2>3. ToCome' = SkewPerReset
    BY <1>6, SkewSplit DEF ResetRunning, AudioStores, ToCome
  <2>4. races \in Nat /\ races' = races + 1 /\ owed \in Int
    BY <1>6, <1>a DEF ResetRunning, TypeOK, HistoryOK
  <2>5. Allowed' = Allowed + SkewPerReset
    <3>1. SkewPerReset' = SkewPerReset
      BY DEF SkewPerReset
    <3>2. QED
      BY <2>4, <3>1, <1>b, <1>p DEF Allowed
  <2>6. QED
    BY <2>1, <2>2, <2>3, <2>4, <2>5, <1>b, <1>p DEF Displaced
\* ... and uses it up store by store.
<1>7. ASSUME NEW field \in AudioStores, ResetStore(field) PROVE Displaced'
  <2>1. UNCHANGED <<sample, history>> /\ resetStores' = resetStores \ {field} /\ field \in resetStores
    BY <1>7 DEF ResetStore
  <2>2. CASE field = "audioFractionalAcc"
    <3>1. ToCome = ToCome' + 2 * sampleFreq
      BY <2>1, <2>2, SkewSplit DEF ToCome
    <3>2. /\ UNCHANGED cpuCycleDebt
          /\ audioFractionalAcc' \in {0, audioFractionalAcc}
          /\ audioFractionalAcc \in -sampleFreq .. 2 * sampleFreq - 1
      BY <1>7, <2>2, <1>a DEF ResetStore, Cleared, TypeOK, ClockOK
    <3>3. CyclesToRun' = CyclesToRun /\ CyclesToRun \in Int
      BY <2>1, <3>2, <1>a, WholeAndRest DEF CyclesToRun, TypeOK, SampleOK, ClockOK
    <3>4. Accounted' - Accounted = audioFractionalAcc' - audioFractionalAcc
      <4>1. sampleFreq * CyclesToRun' = sampleFreq * CyclesToRun /\ sampleFreq * CyclesToRun \in Int
        BY <3>3
      <4>2. audioFractionalAcc \in Int /\ audioFractionalAcc' \in Int /\ step' = step
        BY <2>1, <1>a DEF TypeOK, ClockOK
      <4>3. QED
        BY <4>1, <4>2 DEF Accounted
    <3>5. /\ Accounted' - Accounted <= ToCome - ToCome'
          /\ Accounted - Accounted' <= ToCome - ToCome'
      <4>1. PICK a \in Int : audioFractionalAcc' = a
        BY <3>2
      <4>2. QED
        BY <3>1, <3>2, <3>4, <4>1, <1>b, <1>p
    <3>6. QED
      BY <2>1, <3>5, <1>c DEF Displaced
  <2>3. CASE field = "cpuCycleDebt"
    <3>1. ToCome = ToCome' + sampleFreq * (MaxCycles - 1)
      BY <2>1, <2>3, SkewSplit DEF ToCome
    <3>2. /\ audioFractionalAcc' = audioFractionalAcc /\ step' = step
          /\ audioFractionalAcc \in Int
          /\ cpuCycleDebt \in 0 .. MaxCycles - 1 /\ cpuCycleDebt' \in {0, cpuCycleDebt}
      BY <1>7, <2>1, <2>3, <1>a DEF ResetStore, Cleared, TypeOK, ClockOK, Overwritten
    <3>3. PICK d \in 0 .. MaxCycles - 1 : CyclesToRun' = CyclesToRun + d /\ CyclesToRun \in Int
      <4>1. UNCHANGED <<step, targetCycles, actualCyclesRun, cyclesForSample>>
        BY <2>1
      <4>2. targetCycles \in Int /\ actualCyclesRun \in Int /\ cyclesForSample \in Int
        BY <1>a, WholeAndRest DEF TypeOK, SampleOK
      <4>3. CyclesToRun \in Int
        BY <3>2, <4>2 DEF CyclesToRun
      <4>4. CyclesToRun' \in {CyclesToRun, CyclesToRun + cpuCycleDebt}
        <5>1. CASE cpuCycleDebt' = 0
          BY <3>2, <4>1, <4>2, <5>1 DEF CyclesToRun
        <5>2. CASE cpuCycleDebt' = cpuCycleDebt
          BY <4>1, <5>2 DEF CyclesToRun
        <5>3. QED
          BY <3>2, <5>1, <5>2
      <4>5. QED
        BY <3>2, <4>3, <4>4
    <3>4. sampleFreq * CyclesToRun' = sampleFreq * CyclesToRun + sampleFreq * d
      BY <3>3
    <3>5. sampleFreq * d \in Nat /\ sampleFreq * (MaxCycles - 1 - d) \in Nat
      BY <3>3, Product
    <3>6. sampleFreq * (MaxCycles - 1) = sampleFreq * d + sampleFreq * (MaxCycles - 1 - d)
      BY <3>3
    <3>7. Accounted' - Accounted = sampleFreq * d
      <4>1. sampleFreq * CyclesToRun \in Int
        BY <3>3
      <4>2. QED
        BY <3>2, <3>4, <3>5, <4>1 DEF Accounted
    <3>8. /\ Accounted' - Accounted <= ToCome - ToCome'
          /\ Accounted - Accounted' <= ToCome - ToCome'
      <4> DEFINE skew == sampleFreq * d
                 rest == sampleFreq * (MaxCycles - 1 - d)
      <4>1. skew \in Nat /\ rest \in Nat /\ ToCome = ToCome' + skew + rest /\ Accounted' - Accounted = skew
        BY <3>1, <3>5, <3>6, <3>7, <1>b, <1>p
      <4> HIDE DEF skew, rest
      <4>2. QED
        BY <4>1, <1>b, <1>p
    <3>9. QED
      BY <2>1, <3>8, <1>c DEF Displaced
  <2>4. CASE field \in {"videoFractionalAcc", "crashed"}
    <3>1. Accounted' = Accounted /\ ToCome' = ToCome
      BY <1>7, <2>1, <2>4 DEF ResetStore, Cleared, Accounted, CyclesToRun, ToCome
    <3>2. QED
      BY <2>1, <3>1, <1>b, <1>c DEF Displaced
  <2>5. QED
    BY <2>2, <2>3, <2>4 DEF AudioStores
<1>8. CASE UNCHANGED vars
  BY <1>8 DEF vars, Accounted, CyclesToRun, Displaced, ToCome, Allowed, SkewPerReset
<1>9. QED
  BY <1>1, <1>2, <1>3, <1>4, <1>5, <1>6, <1>7, <1>8 DEF Next, UiNext

(* Whatever part of a sample the resets of a running machine hit, each of
   them displaces the clock by less than an instruction and a cycle: the
   displacements do not grow with the samples played since. *)
THEOREM RacesSkewLittle == Spec => []RacesAreHarmless
<1>1. ASSUME Init PROVE Displaced
  <2>1. ToCome = SkewPerReset
    BY <1>1, SkewSplit DEF Init, AudioStores, ToCome
  <2>2. Accounted = 0
    BY <1>1, AudioClockAssumption DEF Init, Accounted, CyclesToRun
  <2>3. QED
    BY <1>1, <2>1, <2>2, SkewSplit DEF Init, Displaced, Allowed
<1>2. ASSUME ClockInv, Displaced, AtSampleBoundary
      PROVE  /\ owed - CarriedOver <= Allowed
             /\ CarriedOver - owed <= Allowed
  <2>1. /\ audioFractionalAcc \in Int /\ cpuCycleDebt \in Int /\ owed \in Int /\ races \in Nat
    BY <1>2, AudioClockAssumption DEF ClockInv, TypeOK, ClockOK, HistoryOK
  <2>2. CarriedOver = Accounted /\ Accounted \in Int
    BY <1>2, <2>1, AudioClockAssumption DEF AtSampleBoundary, CarriedOver, Accounted, CyclesToRun
  <2>3. ToCome \in Nat /\ Allowed \in Nat
    BY <2>1, SkewSplit, Product, AudioClockAssumption DEF ToCome, Allowed
  <2>4. QED
    BY <1>2, <2>1, <2>2, <2>3 DEF Displaced, AtSampleBoundary
<1>3. ClockInv /\ Displaced => RacesAreHarmless
  BY <1>2 DEF RacesAreHarmless, Allowed
<1>4. ClockInv /\ Displaced /\ [Next]_vars => Displaced'
  BY DisplacedStep
<1>5. QED
  BY <1>1, <1>3, <1>4, ClockInvariant, PTL DEF Spec

=============================================================================
