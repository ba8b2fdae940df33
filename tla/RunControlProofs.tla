-------------------------- MODULE RunControlProofs --------------------------
(***************************************************************************)
(* What the handshake of RunControl guarantees for every size of a         *)
(* callback, a sample and a frame.                                         *)
(*                                                                         *)
(* The footprint lemmas say which actions change a group of variables, so  *)
(* that every later proof looks only at the actions that can disturb it.   *)
(***************************************************************************)
EXTENDS RunControl, TLAPS

LEMMA SharedFootprint ==
  ASSUME [Next]_vars
  PROVE  UNCHANGED shared \/ CallbackBusy \/ CallbackLeave \/ StopRequest \/ Resume
BY DEF Next, AudioNext, UiNext, KeyPressed, Terminated, RunMachine, vars, Clock, PostReset,
       ResetDone, Execute, Fault, Draw, Swap, CallbackEnter, CallbackLoop, M68kReset,
       BusReset, AudioReset, StopAcknowledged, LoopTop, ToggleStepping, SingleStep,
       ResetKey, EventsDrained, GrabFrame, Uploaded, Quit, AudioDestroy

LEMMA VideoFootprint ==
  ASSUME [Next]_vars
  PROVE  UNCHANGED video \/ GrabFrame \/ \E t \in Threads : Draw(t) \/ Swap(t)
BY DEF Next, AudioNext, UiNext, KeyPressed, Terminated, RunMachine, vars, Threads, Clock,
       PostReset, ResetDone, Execute, Fault, CallbackEnter, CallbackBusy, CallbackLoop,
       CallbackLeave, M68kReset, BusReset, AudioReset, StopRequest, StopAcknowledged,
       LoopTop, ToggleStepping, Resume, SingleStep, ResetKey, EventsDrained, Uploaded,
       Quit, AudioDestroy

LEMMA CpuFootprint ==
  ASSUME [Next]_vars
  PROVE  \/ UNCHANGED cpu
         \/ BusReset
         \/ \E register \in Registers : M68kReset(register)
         \/ \E t \in Threads : PostReset(t) \/ ResetDone(t) \/ Execute(t)
BY DEF Next, AudioNext, UiNext, KeyPressed, Terminated, RunMachine, vars, Threads, Clock,
       Fault, Draw, Swap, CallbackEnter, CallbackBusy, CallbackLoop, CallbackLeave,
       AudioReset, StopRequest, StopAcknowledged, LoopTop, ToggleStepping, Resume,
       SingleStep, ResetKey, EventsDrained, GrabFrame, Uploaded, Quit, AudioDestroy

LEMMA UiFootprint ==
  ASSUME [Next]_vars
  PROVE  \/ UNCHANGED ui
         \/ \E register \in Registers : M68kReset(register)
         \/ AudioReset \/ StopRequest \/ ToggleStepping \/ ResetKey \/ GrabFrame \/ Uploaded
         \/ Quit
BY DEF Next, AudioNext, UiNext, KeyPressed, Terminated, RunMachine, vars, Clock, PostReset,
       ResetDone, Execute, Fault, Draw, Swap, CallbackEnter, CallbackBusy, CallbackLoop,
       CallbackLeave, BusReset, StopAcknowledged, LoopTop, Resume, SingleStep,
       EventsDrained, AudioDestroy

LEMMA AudioFootprint ==
  ASSUME [Next]_vars
  PROVE  \/ UNCHANGED audio
         \/ CallbackBusy \/ CallbackLoop \/ AudioReset
         \/ \E t \in Threads : Fault(t) \/ Draw(t) \/ Swap(t)
BY DEF Next, AudioNext, UiNext, KeyPressed, Terminated, RunMachine, vars, Threads, Clock,
       PostReset, ResetDone, Execute, CallbackEnter, CallbackLeave, M68kReset, BusReset,
       StopRequest, StopAcknowledged, LoopTop, ToggleStepping, Resume, SingleStep,
       ResetKey, EventsDrained, GrabFrame, Uploaded, Quit, AudioDestroy

-----------------------------------------------------------------------------
(***************************************************************************)
(* The flags two threads decide by, related to the step each is at.  The   *)
(* audio thread is busy from the moment it may touch the machine; a        *)
(* machine the UI thread has stopped stays out of the audio thread's hands *)
(* until Resume, because the callback looks at runRequested again before   *)
(* every sample.                                                           *)
(***************************************************************************)
Handshake ==
  /\ pc["audio"] \in Machine \cup {"loop", "leave"} => audioIsBusy = 1
  /\ runRequested = 0 => isStepping \/ pc["ui"] = "resume"
  /\ isStepping => runRequested = 0
  /\ pc["ui"] \in Machine \cup {"spin"} => isStepping
  /\ pc["ui"] = "resume" => runRequested = 0 /\ ~isStepping
  /\ runRequested = 0 /\ pc["ui"] # "spin" => pc["audio"] \notin Machine

\* getNextSample is inside the callback's buffer and inside its sample.
CountersRun ==
  pc["audio"] \in Machine => samplesLeft >= 1 /\ instrLeft >= 1

LEMMA PcStep ==
  ASSUME PcOK, [Next]_vars
  PROVE  PcOK'
<1> USE DEF PcOK, Threads, AudioSteps, UiSteps, Machine, At, Goto
<1>1. ASSUME NEW t \in Threads, RunMachine(t) PROVE PcOK'
  BY <1>1 DEF RunMachine, Clock, PostReset, ResetDone, Execute, Fault, Draw, Swap,
              InstructionDone
<1>2. CASE CallbackEnter \/ CallbackBusy \/ CallbackLoop \/ CallbackLeave
  BY <1>2 DEF CallbackEnter, CallbackBusy, CallbackLoop, CallbackLeave
<1>3. ASSUME NEW register \in Registers, M68kReset(register) PROVE PcOK'
  BY <1>3 DEF M68kReset
<1>4. CASE BusReset \/ AudioReset \/ StopRequest \/ StopAcknowledged \/ Resume \/ LoopTop
  BY <1>4 DEF BusReset, AudioReset, StopRequest, StopAcknowledged, Resume, LoopTop
<1>5. CASE GrabFrame \/ Uploaded \/ AudioDestroy \/ EventsDrained
  BY <1>5 DEF GrabFrame, Uploaded, AudioDestroy, EventsDrained
<1>6. CASE KeyPressed
  BY <1>6 DEF KeyPressed, ToggleStepping, SingleStep, ResetKey, Quit
<1>7. CASE UNCHANGED vars
  BY <1>7 DEF vars
<1>8. QED
  BY <1>1, <1>2, <1>3, <1>4, <1>5, <1>6, <1>7 DEF Next, AudioNext, UiNext, Terminated

LEMMA SharedStep ==
  ASSUME SharedOK, [Next]_vars
  PROVE  SharedOK'
BY SharedFootprint DEF SharedOK, shared, CallbackBusy, CallbackLeave, StopRequest, Resume

LEMMA CpuStep ==
  ASSUME CpuOK, [Next]_vars
  PROVE  CpuOK'
<1> USE DEF CpuOK
<1>1. CASE UNCHANGED cpu
  BY <1>1 DEF cpu
<1>2. CASE BusReset
  BY <1>2 DEF BusReset
<1>3. ASSUME NEW register \in Registers, M68kReset(register) PROVE CpuOK'
  BY <1>3 DEF M68kReset
<1>4. ASSUME NEW t \in Threads, PostReset(t) \/ ResetDone(t) PROVE CpuOK'
  BY <1>4 DEF PostReset, ResetDone
<1>5. ASSUME NEW t \in Threads, Execute(t) PROVE CpuOK'
  BY <1>5 DEF Execute
<1>6. QED
  BY <1>1, <1>2, <1>3, <1>4, <1>5, CpuFootprint

LEMMA UiStep ==
  ASSUME UiOK, VideoOK, [Next]_vars
  PROVE  UiOK'
<1> USE DEF UiOK, VideoOK, Registers, Buffers
<1>1. CASE UNCHANGED ui
  BY <1>1 DEF ui
<1>2. ASSUME NEW register \in Registers, M68kReset(register) PROVE UiOK'
  BY <1>2 DEF M68kReset
<1>3. CASE AudioReset \/ StopRequest \/ ToggleStepping \/ Uploaded \/ Quit
  BY <1>3 DEF AudioReset, StopRequest, ToggleStepping, Uploaded, Quit, ui
<1>4. CASE ResetKey
  BY <1>4 DEF ResetKey
<1>5. CASE GrabFrame
  BY <1>5 DEF GrabFrame, UnfinishedFrame
<1>6. QED
  BY <1>1, <1>2, <1>3, <1>4, <1>5, UiFootprint

LEMMA VideoStep ==
  ASSUME VideoOK, [Next]_vars
  PROVE  VideoOK'
<1> USE RunControlAssumption DEF VideoOK, Buffers
<1>1. CASE UNCHANGED video
  BY <1>1 DEF video
<1>2. CASE GrabFrame
  BY <1>2 DEF GrabFrame
<1>3. ASSUME NEW t \in Threads, Draw(t) PROVE VideoOK'
  <2>1. beam' \in 0 .. FrameTicks - 1
    BY <1>3 DEF Draw
  <2>2. QED
    BY <1>3, <2>1 DEF Draw, FrameDrawn
<1>4. ASSUME NEW t \in Threads, Swap(t) PROVE VideoOK'
  BY <1>4 DEF Swap, OtherBuffer
<1>5. QED
  BY <1>1, <1>2, <1>3, <1>4, VideoFootprint

LEMMA AudioStep ==
  ASSUME AudioOK, PcOK, CountersRun, [Next]_vars
  PROVE  AudioOK'
<1> USE RunControlAssumption DEF AudioOK, CountersRun, At, Machine, Threads, audio
<1>1. CASE UNCHANGED audio
  BY <1>1
<1>2. CASE CallbackBusy
  BY <1>2 DEF CallbackBusy
<1>3. CASE AudioReset
  BY <1>3 DEF AudioReset
<1>4. CASE CallbackLoop
  <2>1. samplesLeft' \in 0 .. SamplesPerCallback /\ instrLeft' \in 0 .. InstrPerSample
    BY <1>4 DEF CallbackLoop, CallbackOver
  <2>2. QED
    BY <1>4, <2>1 DEF CallbackLoop
<1>5. ASSUME NEW t \in Threads, Fault(t) PROVE AudioOK'
  <2>1. CASE t = "ui"
    BY <1>5, <2>1 DEF Fault
  <2>2. CASE t = "audio"
    <3>1. samplesLeft' \in 0 .. SamplesPerCallback /\ audioCrashed' = TRUE
      BY <1>5, <2>2 DEF Fault
    <3>2. QED
      BY <1>5, <3>1 DEF Fault
  <2>3. QED
    BY <2>1, <2>2
<1>6. ASSUME NEW t \in Threads, Draw(t) \/ Swap(t) PROVE AudioOK'
  <2>1. At(t, "draw") \/ At(t, "swap")
    BY <1>6 DEF Draw, Swap
  <2>2. UNCHANGED audio \/ InstructionDone(t)
    BY <1>6 DEF Draw, Swap
  <2>3. CASE InstructionDone(t)
    BY <2>1, <2>3 DEF InstructionDone
  <2>4. QED
    BY <1>1, <2>2, <2>3
<1>7. QED
  BY <1>1, <1>2, <1>3, <1>4, <1>5, <1>6, AudioFootprint

LEMMA HandshakeStep ==
  ASSUME PcOK, SharedOK, UiOK, Handshake, [Next]_vars
  PROVE  Handshake'
<1> USE DEF PcOK, SharedOK, UiOK, Handshake, Threads, AudioSteps, UiSteps, Machine, At,
            Goto, shared, ui
<1>1. ASSUME NEW t \in Threads, Clock(t) \/ PostReset(t) \/ ResetDone(t) PROVE Handshake'
  BY <1>1 DEF Clock, PostReset, ResetDone
<1>2. ASSUME NEW t \in Threads, Execute(t) \/ Fault(t) PROVE Handshake'
  BY <1>2 DEF Execute, Fault
<1>3. ASSUME NEW t \in Threads, Draw(t) \/ Swap(t) PROVE Handshake'
  BY <1>3 DEF Draw, Swap, InstructionDone
<1>4. CASE CallbackEnter \/ CallbackBusy \/ CallbackLeave
  BY <1>4 DEF CallbackEnter, CallbackBusy, CallbackLeave
<1>5. CASE CallbackLoop
  BY <1>5 DEF CallbackLoop, CallbackOver
<1>6. ASSUME NEW register \in Registers, M68kReset(register) PROVE Handshake'
  BY <1>6 DEF M68kReset
<1>7. CASE BusReset \/ AudioReset
  BY <1>7 DEF BusReset, AudioReset
<1>8. CASE StopRequest \/ StopAcknowledged
  BY <1>8 DEF StopRequest, StopAcknowledged
<1>9. CASE LoopTop \/ GrabFrame \/ Uploaded \/ EventsDrained
  BY <1>9 DEF LoopTop, GrabFrame, Uploaded, EventsDrained
<1>10. CASE ToggleStepping
  BY <1>10 DEF ToggleStepping
<1>11. CASE Resume
  BY <1>11 DEF Resume
<1>12. CASE SingleStep \/ ResetKey \/ Quit \/ AudioDestroy
  BY <1>12 DEF SingleStep, ResetKey, Quit, AudioDestroy
<1>13. CASE UNCHANGED vars
  BY <1>13 DEF vars
<1>14. QED
  BY <1>1, <1>2, <1>3, <1>4, <1>5, <1>6, <1>7, <1>8, <1>9, <1>10, <1>11, <1>12, <1>13
  DEF Next, AudioNext, UiNext, KeyPressed, Terminated, RunMachine

LEMMA CountersStep ==
  ASSUME PcOK, AudioOK, CountersRun, [Next]_vars
  PROVE  CountersRun'
<1> USE RunControlAssumption
    DEF PcOK, AudioOK, CountersRun, Threads, AudioSteps, UiSteps, Machine, At, Goto, audio
<1>1. ASSUME NEW t \in Threads, RunMachine(t) PROVE CountersRun'
  BY <1>1 DEF RunMachine, Clock, PostReset, ResetDone, Execute, Fault, Draw, Swap,
              InstructionDone
<1>2. CASE CallbackEnter \/ CallbackBusy \/ CallbackLoop \/ CallbackLeave
  BY <1>2 DEF CallbackEnter, CallbackBusy, CallbackLoop, CallbackLeave, CallbackOver
<1>3. CASE UiNext \/ KeyPressed \/ EventsDrained
  <2>1. ASSUME NEW register \in Registers, M68kReset(register) PROVE CountersRun'
    BY <2>1 DEF M68kReset
  <2>2. CASE BusReset \/ AudioReset \/ StopRequest \/ StopAcknowledged \/ Resume
    BY <2>2 DEF BusReset, AudioReset, StopRequest, StopAcknowledged, Resume
  <2>3. CASE LoopTop \/ GrabFrame \/ Uploaded \/ AudioDestroy \/ EventsDrained
    BY <2>3 DEF LoopTop, GrabFrame, Uploaded, AudioDestroy, EventsDrained
  <2>4. CASE KeyPressed
    BY <2>4 DEF KeyPressed, ToggleStepping, SingleStep, ResetKey, Quit
  <2>5. QED
    BY <1>1, <1>3, <2>1, <2>2, <2>3, <2>4 DEF UiNext
<1>4. CASE UNCHANGED vars
  BY <1>4 DEF vars
<1>5. QED
  BY <1>1, <1>2, <1>3, <1>4 DEF Next, AudioNext, Terminated

HandshakeInv == TypeOK /\ Handshake /\ CountersRun

LEMMA HandshakeInvariant == Spec => []HandshakeInv
<1>1. ASSUME Init PROVE HandshakeInv
  <2>1. PcOK /\ Handshake /\ CountersRun
    BY <1>1 DEF Init, PcOK, Handshake, CountersRun, Threads, AudioSteps, UiSteps, Machine
  <2>2. SharedOK /\ CpuOK
    BY <1>1 DEF Init, SharedOK, CpuOK
  <2>3. /\ beam \in 0 .. FrameTicks - 1
        /\ samplesLeft \in 0 .. SamplesPerCallback /\ instrLeft \in 0 .. InstrPerSample
    BY <1>1, RunControlAssumption DEF Init
  <2>4. UiOK
    BY <1>1 DEF Init, UiOK, Registers
  <2>5. VideoOK /\ AudioOK
    BY <1>1, <2>3 DEF Init, VideoOK, AudioOK, Buffers
  <2>6. QED
    BY <2>1, <2>2, <2>4, <2>5 DEF HandshakeInv, TypeOK
<1>2. ASSUME HandshakeInv, [Next]_vars PROVE HandshakeInv'
  BY <1>2, PcStep, SharedStep, CpuStep, UiStep, VideoStep, AudioStep, HandshakeStep,
     CountersStep DEF HandshakeInv, TypeOK
<1>3. QED
  BY <1>1, <1>2, PTL DEF Spec

(* Type correctness: every counter of the callback stays within its buffer
   and the beam stays within the frame. *)
THEOREM TypeCorrect == Spec => []TypeOK
<1>1. HandshakeInv => TypeOK
  BY DEF HandshakeInv
<1>2. QED
  BY <1>1, HandshakeInvariant, PTL

(* The handshake is a mutual exclusion: whenever the UI thread steps or
   resets a stopped machine, clears the audio clock or copies the picture
   that is being drawn, the audio thread is outside getNextSample. *)
THEOREM Exclusion == Spec => []ExclusiveAccess
<1>1. HandshakeInv => ExclusiveAccess
  BY DEF HandshakeInv, Handshake, TypeOK, PcOK, ExclusiveAccess, UiOwnsMachine, ResetSteps,
         Machine
<1>2. QED
  BY <1>1, HandshakeInvariant, PTL

-----------------------------------------------------------------------------
(***************************************************************************)
(* The picture.  A frame is published in the step before the swap, so      *)
(* outside that window the published frame is the buffer at rest, and an   *)
(* upload keeps clear of the beam until a further frame was finished.      *)
(***************************************************************************)
FrameInv ==
  /\ ReadyFrameIsFinished
  /\ \A t \in Threads : At(t, "swap") => readyFrame \in {activeBuffer, NULL}
  /\ uploading # NULL => At("ui", "upload")
  /\ uploading = activeBuffer => lapped \/ isStepping \/ At("audio", "swap")
  /\ At("audio", "swap") => uploading \in {activeBuffer, NULL} \/ lapped

\* At most one thread runs the machine.
LEMMA OneDriver ==
  ASSUME Handshake, PcOK, pc["ui"] \in Machine
  PROVE  pc["audio"] \notin Machine
BY DEF Handshake, Machine, PcOK

\* A thread comes to the swap by publishing a frame and leaves it by swapping.
LEMMA SwapControl ==
  ASSUME PcOK, [Next]_vars, NEW t \in Threads, ~Draw(t), ~Swap(t)
  PROVE  At(t, "swap")' <=> At(t, "swap")
<1> USE DEF PcOK, Threads, AudioSteps, UiSteps, Machine, At, Goto
<1>1. ASSUME NEW u \in Threads, RunMachine(u) PROVE At(t, "swap")' <=> At(t, "swap")
  <2>1. CASE u = t
    BY <1>1, <2>1 DEF RunMachine, Clock, PostReset, ResetDone, Execute, Fault
  <2>2. CASE u # t
    BY <1>1, <2>2 DEF RunMachine, Clock, PostReset, ResetDone, Execute, Fault, Draw, Swap,
                      InstructionDone
  <2>3. QED
    BY <2>1, <2>2
<1>2. CASE CallbackEnter \/ CallbackBusy \/ CallbackLoop \/ CallbackLeave
  BY <1>2 DEF CallbackEnter, CallbackBusy, CallbackLoop, CallbackLeave
<1>3. ASSUME NEW register \in Registers, M68kReset(register)
      PROVE  At(t, "swap")' <=> At(t, "swap")
  BY <1>3 DEF M68kReset
<1>4. CASE BusReset \/ AudioReset \/ StopRequest \/ StopAcknowledged \/ Resume \/ LoopTop
  BY <1>4 DEF BusReset, AudioReset, StopRequest, StopAcknowledged, Resume, LoopTop
<1>5. CASE GrabFrame \/ Uploaded \/ AudioDestroy \/ EventsDrained \/ KeyPressed
  BY <1>5 DEF GrabFrame, Uploaded, AudioDestroy, EventsDrained, KeyPressed, ToggleStepping,
              SingleStep, ResetKey, Quit
<1>6. CASE UNCHANGED vars
  BY <1>6 DEF vars
<1>7. QED
  BY <1>1, <1>2, <1>3, <1>4, <1>5, <1>6 DEF Next, AudioNext, UiNext, Terminated

\* While a picture is uploaded only the audio thread moves.
LEMMA UploadControl ==
  ASSUME PcOK, [Next]_vars, At("ui", "upload"), ~Uploaded
  PROVE  At("ui", "upload")' /\ UNCHANGED <<isStepping, racyReset>>
<1> USE DEF PcOK, Threads, AudioSteps, UiSteps, Machine, At, Goto, ui
<1>1. CASE RunMachine("audio")
  BY <1>1 DEF RunMachine, Clock, PostReset, ResetDone, Execute, Fault, Draw, Swap,
              InstructionDone
<1>2. CASE CallbackEnter \/ CallbackBusy \/ CallbackLoop \/ CallbackLeave
  BY <1>2 DEF CallbackEnter, CallbackBusy, CallbackLoop, CallbackLeave
<1>3. CASE UNCHANGED vars
  BY <1>3 DEF vars
<1>4. CASE UiNext \/ KeyPressed \/ EventsDrained
  BY <1>4 DEF UiNext, KeyPressed, EventsDrained, RunMachine, Clock, PostReset, ResetDone,
              Execute, Fault, Draw, Swap, M68kReset, BusReset, AudioReset, StopRequest,
              StopAcknowledged, Resume, LoopTop, GrabFrame, AudioDestroy, ToggleStepping,
              SingleStep, ResetKey, Quit
<1>5. QED
  BY <1>1, <1>2, <1>3, <1>4 DEF Next, AudioNext, Terminated

LEMMA FrameStep ==
  ASSUME HandshakeInv, FrameInv, [Next]_vars
  PROVE  FrameInv'
<1> USE DEF HandshakeInv, TypeOK, FrameInv, ReadyFrameIsFinished, Buffers, NULL, Threads
<1>1. ASSUME NEW t \in Threads, Draw(t) PROVE FrameInv'
  BY <1>1, OneDriver DEF Draw, FrameDrawn, InstructionDone, At, Goto, PcOK, VideoOK, UiOK, ui,
     Machine
<1>2. ASSUME NEW t \in Threads, Swap(t) PROVE FrameInv'
  BY <1>2, OneDriver DEF Swap, OtherBuffer, InstructionDone, At, Goto, PcOK, VideoOK, UiOK,
     ui, Machine
<1>3. CASE GrabFrame
  BY <1>3 DEF GrabFrame, UnfinishedFrame, At, Goto, PcOK, VideoOK, Handshake, SharedOK,
     Machine
<1>4. CASE Uploaded
  BY <1>4 DEF Uploaded, video, At, Goto, PcOK, VideoOK
<1>5. ASSUME UNCHANGED video, ~GrabFrame, ~Uploaded, \A t \in Threads : ~Draw(t) /\ ~Swap(t)
      PROVE  FrameInv'
  <2>1. \A t \in Threads : At(t, "swap")' <=> At(t, "swap")
    BY <1>5, SwapControl
  <2>2. UNCHANGED uploading
    BY <1>5, UiFootprint DEF ui, M68kReset, AudioReset, StopRequest, ToggleStepping, ResetKey,
       GrabFrame, Quit
  <2>3. At("ui", "upload") => At("ui", "upload")' /\ UNCHANGED isStepping
    BY <1>5, UploadControl
  <2>4. QED
    BY <1>5, <2>1, <2>2, <2>3 DEF video, VideoOK, At
<1>6. QED
  BY <1>1, <1>2, <1>3, <1>4, <1>5, VideoFootprint

LEMMA FrameInvariant == Spec => [](HandshakeInv /\ FrameInv)
<1>1. Init => FrameInv
  BY DEF Init, FrameInv, ReadyFrameIsFinished, NULL, At, Threads, Buffers
<1>2. HandshakeInv /\ FrameInv /\ [Next]_vars => FrameInv'
  BY FrameStep
<1>3. QED
  BY <1>1, <1>2, HandshakeInvariant, PTL DEF Spec

(* Between two swaps, the frame handed to the renderer is never the one the
   beam is drawing into. *)
THEOREM FramesFinished == Spec => []ReadyFrameIsFinished
<1>1. FrameInv => ReadyFrameIsFinished
  BY DEF FrameInv
<1>2. QED
  BY <1>1, FrameInvariant, PTL

(* The beam reaches the buffer that is being uploaded only after a whole
   further frame, for every number of strips in a frame. *)
THEOREM NoTearing == Spec => []NoTearingWithinAFrame
<1>1. ASSUME HandshakeInv, FrameInv PROVE NoTearingWithinAFrame
  <2>1. SUFFICES ASSUME uploading = activeBuffer, At("audio", "draw") PROVE lapped
    BY DEF NoTearingWithinAFrame
  <2>2. uploading # NULL
    BY <1>1, <2>1 DEF HandshakeInv, TypeOK, VideoOK, Buffers, NULL
  <2>3. At("ui", "upload") /\ ~At("audio", "swap")
    BY <1>1, <2>1, <2>2 DEF FrameInv, At
  <2>4. ~isStepping
    BY <1>1, <2>1, <2>3 DEF HandshakeInv, Handshake, At, Machine
  <2>5. QED
    BY <1>1, <2>1, <2>3, <2>4 DEF FrameInv
<1>2. QED
  BY <1>1, FrameInvariant, PTL

-----------------------------------------------------------------------------
(***************************************************************************)
(* The reset.  While a stopped machine is being reset nobody else moves    *)
(* it; from then on a pending reset finds the ROM mapped, an instruction   *)
(* runs only when no reset is pending, and the audio clock notes a crash   *)
(* only of a CPU that did crash.                                           *)
(***************************************************************************)
Resetting ==
  /\ isStepping
  /\ At("ui", "m68kReset") => "resetState" \in resetStores \/ resetState
  /\ ~At("ui", "m68kReset") => resetState
  /\ At("ui", "audioReset") => romOverlay

Recovered ==
  /\ resetState => romOverlay
  /\ ~resetState => pcOrigin = "rom"
  /\ audioCrashed => cpuCrashed
  /\ \A t \in Threads :
       /\ At(t, "execute") => ~resetState
       /\ At(t, "postReset") => resetState
       /\ At(t, "resetDone") => pcOrigin = "rom"
       /\ At(t, "fault") => cpuCrashed

CleanInv ==
  ~racyReset => IF pc["ui"] \in ResetSteps THEN Resetting ELSE Recovered

CleanBase == HandshakeInv /\ CleanInv

LEMMA CleanMachineStep ==
  ASSUME CleanBase, ~racyReset, NEW t \in Threads, RunMachine(t)
  PROVE  CleanInv'
<1> USE DEF CleanBase, HandshakeInv, TypeOK, PcOK, Threads, At, Goto, ResetSteps
<1> DEFINE other == IF t = "ui" THEN "audio" ELSE "ui"
<1>1. /\ pc[t] \in Machine /\ pc["ui"] \notin ResetSteps /\ Recovered
      /\ pc[other] \notin Machine
  <2>1. pc[t] \in Machine
    BY DEF RunMachine, Clock, PostReset, ResetDone, Execute, Fault, Draw, Swap, Machine
  <2>2. pc["ui"] \notin ResetSteps
    BY <2>1 DEF CleanInv, Resetting, Handshake, Machine
  <2>3. pc[other] \notin Machine
    BY <2>1, OneDriver
  <2>4. QED
    BY <2>1, <2>2, <2>3 DEF CleanInv
<1>2. SUFFICES pc'["ui"] \notin ResetSteps /\ Recovered'
  BY DEF CleanInv
<1> USE <1>1
<1>3. CASE Clock(t)
  BY <1>3 DEF Clock, Recovered, cpu, audio, Machine
<1>4. CASE PostReset(t)
  BY <1>4 DEF PostReset, Recovered, audio, Machine
<1>5. CASE ResetDone(t)
  BY <1>5 DEF ResetDone, Recovered, audio, Machine
<1>6. CASE Execute(t)
  BY <1>6 DEF Execute, Recovered, audio, Machine
<1>7. CASE Fault(t)
  BY <1>7 DEF Fault, Recovered, cpu, Machine
<1>8. CASE Draw(t) \/ Swap(t)
  BY <1>8 DEF Draw, Swap, InstructionDone, Recovered, cpu, audio, Machine
<1>9. QED
  BY <1>3, <1>4, <1>5, <1>6, <1>7, <1>8 DEF RunMachine

LEMMA CleanStep ==
  ASSUME CleanBase, [Next]_vars
  PROVE  CleanInv'
<1> USE DEF CleanBase, HandshakeInv, TypeOK, PcOK, Threads, At, Goto, ResetSteps
<1>1. ASSUME NEW t \in Threads, RunMachine(t) PROVE CleanInv'
  <2>1. UNCHANGED racyReset
    BY <1>1 DEF RunMachine, Clock, PostReset, ResetDone, Execute, Fault, Draw, Swap, ui
  <2>2. QED
    BY <1>1, <2>1, CleanMachineStep DEF CleanInv
<1>2. ASSUME NEW register \in Registers, M68kReset(register) PROVE CleanInv'
  BY <1>2 DEF M68kReset, CleanInv, Resetting, UiOK, CpuOK
<1>3. CASE BusReset
  BY <1>3 DEF BusReset, CleanInv, Resetting, ui
<1>4. CASE AudioReset
  BY <1>4 DEF AudioReset, CleanInv, Resetting, Recovered, cpu, Handshake, Machine
<1>5. CASE ResetKey
  BY <1>5 DEF ResetKey, CleanInv, Resetting, Registers, Handshake, SharedOK
<1>6. CASE CallbackEnter \/ CallbackBusy \/ CallbackLoop \/ CallbackLeave
  BY <1>6 DEF CallbackEnter, CallbackBusy, CallbackLoop, CallbackLeave, CleanInv, Resetting,
              Recovered, cpu, ui, audio
<1>7. CASE StopRequest \/ StopAcknowledged \/ Resume \/ LoopTop \/ GrabFrame \/ Uploaded
  BY <1>7 DEF StopRequest, StopAcknowledged, Resume, LoopTop, GrabFrame, Uploaded, CleanInv,
              Recovered, cpu, ui, audio
<1>8. CASE EventsDrained \/ ToggleStepping \/ SingleStep \/ Quit \/ AudioDestroy
  BY <1>8 DEF EventsDrained, ToggleStepping, SingleStep, Quit, AudioDestroy, CleanInv,
              Recovered, cpu, ui, audio
<1>9. CASE UNCHANGED vars
  BY <1>9 DEF vars, CleanInv, Resetting, Recovered, cpu, ui, audio
<1>10. QED
  BY <1>1, <1>2, <1>3, <1>4, <1>5, <1>6, <1>7, <1>8, <1>9
  DEF Next, AudioNext, UiNext, KeyPressed, Terminated

(* After a reset of a stopped machine the CPU starts from the ROM's vectors
   and the audio clock follows it, whatever the program, the handshake and
   earlier resets did: an instruction that maps the RAM over address 0 can
   only run after the vectors were fetched. *)
THEOREM CleanReset == Spec => []CleanResetRecovers
<1>1. Init => CleanInv
  BY DEF Init, CleanInv
<1>2. HandshakeInv /\ CleanInv /\ [Next]_vars => CleanInv'
  BY CleanStep DEF CleanBase
<1>3. CleanInv => CleanResetRecovers
  BY DEF CleanInv, Recovered, CleanResetRecovers
<1>4. QED
  BY <1>1, <1>2, <1>3, HandshakeInvariant, PTL DEF Spec

=============================================================================
