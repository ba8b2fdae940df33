----------------------------- MODULE RunControl -----------------------------
(***************************************************************************)
(* The two threads of the emulator and the handshake between them.         *)
(*                                                                         *)
(* The SDL audio thread runs the emulated machine: its callback            *)
(* (src/audio.c) executes CPU instructions until the cycles of one audio   *)
(* sample are spent, and draws the picture as it goes (src/vga.c).  The    *)
(* UI thread (src/application.c) polls the keyboard, renders, and takes    *)
(* the machine over when the user stops it.  They share two atomics,       *)
(* runRequested and audioIsBusy, an atomic frame pointer, and plain        *)
(* variables of the CPU and of the audio clock.                            *)
(*                                                                         *)
(* A step of the model is a run of statements that touches at most one     *)
(* variable another thread may touch at the same time.  Abstracted: the    *)
(* CPU is reduced to whether it crashed, whether a reset is pending and    *)
(* where its program counter came from; an instruction draws one of        *)
(* FrameTicks strips of the picture; a sample takes InstrPerSample         *)
(* instructions (module AudioClock has the arithmetic); fullscreen and     *)
(* the display toggles are left out.                                       *)
(***************************************************************************)
EXTENDS Naturals

CONSTANTS
  SamplesPerCallback,  \* len of legacyAudioCallback
  InstrPerSample,      \* instructions until targetCycles is reached
  FrameTicks           \* strips in a frame: H_TOTAL * V_TOTAL ticks

ASSUME RunControlAssumption ==
  /\ SamplesPerCallback \in Nat \ {0}
  /\ InstrPerSample \in Nat \ {0}
  /\ FrameTicks \in Nat \ {0}

VARIABLES
  \* SharedState (include/sharedstate.h)
  runRequested, audioIsBusy, readyFrame,
  \* Application: is_stepping, running; booted says that appInit's reset is over
  isStepping, running, booted,
  \* Cpu and M68k: crashed, resetState, the origin of the pc register
  cpuCrashed, resetState, pcOrigin,
  \* AddrLatch: TRUE when ROM is mapped over the RAM at address 0
  romOverlay,
  \* Audio: crashed
  audioCrashed,
  \* Vga: activeWriteBuffer and the strip the beam is in
  activeBuffer, beam,
  \* control: the step each thread is at, the samples of the callback and
  \* the instructions of the sample that are left, the stores of m68kReset
  \* that are not visible yet, and the buffer SDL_UpdateTexture is reading
  pc, samplesLeft, instrLeft, resetStores, uploading,
  \* history: the last reset began while the machine was running; a whole
  \* frame was finished since the upload in progress began
  racyReset, lapped

shared == <<runRequested, audioIsBusy>>
video  == <<readyFrame, activeBuffer, beam, lapped>>
cpu    == <<cpuCrashed, resetState, pcOrigin, romOverlay>>
ui     == <<isStepping, running, booted, resetStores, uploading, racyReset>>
audio  == <<audioCrashed, samplesLeft, instrLeft>>
vars   == <<shared, video, cpu, ui, audio, pc>>

Threads  == {"audio", "ui"}
Buffers  == {"bufferA", "bufferB"}
NULL     == "NULL"

\* What m68kReset stores, and a faulty variant that forgets resetState.
RegistersNoFlag == {"crashed", "pc"}
Registers == {"crashed", "resetState", "pc"}

\* The steps of one call of mainTicker and of the video catch-up after it.
Machine == {"clock", "postReset", "resetDone", "execute", "draw", "swap", "fault"}
AudioSteps == Machine \cup {"idle", "enter", "loop", "leave"}
UiSteps == Machine \cup
  {"m68kReset", "busReset", "audioReset", "stop", "spin", "resume",
   "top", "events", "render", "upload", "quit", "done"}

OtherBuffer(b) == IF b = "bufferA" THEN "bufferB" ELSE "bufferA"

At(t, step)   == pc[t] = step
Goto(t, step) == pc' = [pc EXCEPT ![t] = step]

SharedOK == runRequested \in {0, 1} /\ audioIsBusy \in {0, 1}

VideoOK ==
  /\ readyFrame \in Buffers \cup {NULL} /\ activeBuffer \in Buffers
  /\ beam \in 0 .. FrameTicks - 1 /\ lapped \in BOOLEAN

CpuOK ==
  /\ cpuCrashed \in BOOLEAN /\ resetState \in BOOLEAN /\ romOverlay \in BOOLEAN
  /\ pcOrigin \in {"zero", "rom", "ram"}

UiOK ==
  /\ isStepping \in BOOLEAN /\ running \in BOOLEAN
  /\ booted \in BOOLEAN /\ racyReset \in BOOLEAN
  /\ resetStores \subseteq {"crashed", "resetState", "pc"}
  /\ uploading \in Buffers \cup {NULL}

AudioOK ==
  /\ audioCrashed \in BOOLEAN
  /\ samplesLeft \in 0 .. SamplesPerCallback
  /\ instrLeft \in 0 .. InstrPerSample

PcOK ==
  /\ pc \in [Threads -> AudioSteps \cup UiSteps]
  /\ pc["audio"] \in AudioSteps /\ pc["ui"] \in UiSteps

TypeOK == SharedOK /\ VideoOK /\ CpuOK /\ UiOK /\ AudioOK /\ PcOK

(***************************************************************************)
(* appInit starts the audio thread before its own reset: the CPU is still  *)
(* as m68kInit left it, all zero, with ROM mapped at address 0.            *)
(***************************************************************************)
Init ==
  /\ runRequested = 1 /\ audioIsBusy = 0
  /\ readyFrame = NULL /\ activeBuffer = "bufferA" /\ beam = 0
  /\ isStepping = FALSE /\ running = TRUE /\ booted = FALSE
  /\ cpuCrashed = FALSE /\ resetState = FALSE
  /\ pcOrigin = "zero" /\ romOverlay = TRUE
  /\ audioCrashed = FALSE
  /\ pc = [t \in Threads |-> IF t = "audio" THEN "idle" ELSE "m68kReset"]
  /\ samplesLeft = 0 /\ instrLeft = 0
  /\ resetStores = Registers /\ uploading = NULL
  /\ racyReset = TRUE /\ lapped = FALSE

-----------------------------------------------------------------------------
(***************************************************************************)
(* The machine: mainTicker, run by the audio thread in getNextSample or by *)
(* the UI thread in singleStep.                                            *)
(***************************************************************************)

\* Where thread t goes when its instruction is finished.
InstructionDone(t) ==
  IF t = "ui"
  THEN Goto(t, "events") /\ UNCHANGED audio
  ELSE /\ instrLeft' = instrLeft - 1
       /\ IF instrLeft = 1
          THEN Goto(t, "loop") /\ samplesLeft' = samplesLeft - 1
          ELSE Goto(t, "clock") /\ UNCHANGED samplesLeft
       /\ UNCHANGED audioCrashed

\* m68kClock: a crashed CPU returns -1, a reset one fetches its vectors.
Clock(t) ==
  /\ At(t, "clock")
  /\ Goto(t, IF cpuCrashed THEN "fault" ELSE IF resetState THEN "postReset" ELSE "execute")
  /\ UNCHANGED <<shared, video, cpu, ui, audio>>

\* postReset: stack pointer and program counter from addresses 0 and 4.
PostReset(t) ==
  /\ At(t, "postReset")
  /\ pcOrigin' = IF romOverlay THEN "rom" ELSE "ram"
  /\ Goto(t, "resetDone")
  /\ UNCHANGED <<shared, video, cpuCrashed, resetState, romOverlay, ui, audio>>

\* resetState = false; return 0.  No cycles: the audio thread asks again,
\* singleStep returns.
ResetDone(t) ==
  /\ At(t, "resetDone")
  /\ resetState' = FALSE
  /\ Goto(t, IF t = "ui" THEN "events" ELSE "clock")
  /\ UNCHANGED <<shared, video, cpuCrashed, pcOrigin, romOverlay, ui, audio>>

\* The instruction runs, and may write the output latch that holds the
\* overlay bit, or it cannot be decoded or executed and crashes the CPU.
Execute(t) ==
  /\ At(t, "execute")
  /\ \/ /\ romOverlay' \in BOOLEAN
        /\ Goto(t, "draw")
        /\ UNCHANGED cpuCrashed
     \/ /\ cpuCrashed' = TRUE
        /\ Goto(t, "fault")
        /\ UNCHANGED romOverlay
  /\ UNCHANGED <<shared, video, resetState, pcOrigin, ui, audio>>

\* mainTicker returned -1: only getNextSample notes it.
Fault(t) ==
  /\ At(t, "fault")
  /\ IF t = "ui"
     THEN Goto(t, "events") /\ UNCHANGED <<audioCrashed, samplesLeft>>
     ELSE /\ audioCrashed' = TRUE
          /\ samplesLeft' = samplesLeft - 1
          /\ Goto(t, "loop")
  /\ UNCHANGED <<shared, video, cpu, ui, instrLeft>>

\* The frame that is complete when the beam leaves its last strip, and a
\* faulty variant that swaps first.
FrameDrawnSwapped == OtherBuffer(activeBuffer)
FrameDrawn == activeBuffer

\* videoTicker: draw a strip; the last one publishes the frame.
Draw(t) ==
  /\ At(t, "draw")
  /\ beam' = (beam + 1) % FrameTicks
  /\ IF beam = FrameTicks - 1
     THEN /\ readyFrame' = FrameDrawn
          /\ lapped' = (uploading # NULL)
          /\ Goto(t, "swap") /\ UNCHANGED audio
     ELSE InstructionDone(t) /\ UNCHANGED <<readyFrame, lapped>>
  /\ UNCHANGED <<shared, activeBuffer, cpu, ui>>

Swap(t) ==
  /\ At(t, "swap")
  /\ activeBuffer' = OtherBuffer(activeBuffer)
  /\ InstructionDone(t)
  /\ UNCHANGED <<shared, readyFrame, beam, lapped, cpu, ui>>

RunMachine(t) ==
  \/ Clock(t) \/ PostReset(t) \/ ResetDone(t) \/ Execute(t) \/ Fault(t)
  \/ Draw(t) \/ Swap(t)

-----------------------------------------------------------------------------
(***************************************************************************)
(* The audio thread: legacyAudioCallback.                                  *)
(***************************************************************************)

\* The callback looks at runRequested and plays silence when it is 0.  No
\* callback comes once the stream is destroyed.
CallbackEnter ==
  /\ At("audio", "idle") /\ ~At("ui", "done")
  /\ runRequested = 1
  /\ Goto("audio", "enter")
  /\ UNCHANGED <<shared, video, cpu, ui, audio>>

CallbackBusy ==
  /\ At("audio", "enter")
  /\ audioIsBusy' = 1
  /\ samplesLeft' = SamplesPerCallback
  /\ Goto("audio", "loop")
  /\ UNCHANGED <<runRequested, video, cpu, ui, audioCrashed, instrLeft>>

\* The loop over samples ends with the buffer or with the run request.  The
\* faulty variants leave out one of the two tests.
CallbackOverStale == samplesLeft = 0
CallbackOverrun == runRequested = 0
CallbackOver == samplesLeft = 0 \/ runRequested = 0

\* One turn of the loop over samples; getNextSample returns at once when
\* the audio clock has noted a crash.
CallbackLoop ==
  /\ At("audio", "loop")
  /\ IF CallbackOver
     THEN Goto("audio", "leave") /\ UNCHANGED <<samplesLeft, instrLeft>>
     ELSE IF audioCrashed
     THEN samplesLeft' = samplesLeft - 1 /\ UNCHANGED <<pc, instrLeft>>
     ELSE /\ instrLeft' = InstrPerSample
          /\ Goto("audio", "clock")
          /\ UNCHANGED samplesLeft
  /\ UNCHANGED <<shared, video, cpu, ui, audioCrashed>>

\* The callback gives the machine back; a faulty variant forgets to.
CallbackLeaveBusy ==
  /\ At("audio", "leave")
  /\ Goto("audio", "idle")
  /\ UNCHANGED <<shared, video, cpu, ui, audio>>

CallbackLeave ==
  /\ At("audio", "leave")
  /\ audioIsBusy' = 0
  /\ Goto("audio", "idle")
  /\ UNCHANGED <<runRequested, video, cpu, ui, audio>>

AudioNext ==
  \/ CallbackEnter \/ CallbackBusy \/ CallbackLoop \/ CallbackLeave
  \/ RunMachine("audio")

-----------------------------------------------------------------------------
(***************************************************************************)
(* The UI thread: appInit's reset and stop, then appRun.                   *)
(***************************************************************************)

\* The stores of m68kReset are plain stores: another thread may see them in
\* any order.
M68kReset(register) ==
  /\ At("ui", "m68kReset") /\ register \in resetStores
  /\ resetStores' = resetStores \ {register}
  /\ cpuCrashed' = (cpuCrashed /\ register # "crashed")
  /\ resetState' = (resetState \/ register = "resetState")
  /\ pcOrigin' = IF register = "pc" THEN "zero" ELSE pcOrigin
  /\ IF resetStores = {register} THEN Goto("ui", "busReset") ELSE UNCHANGED pc
  /\ UNCHANGED <<shared, video, romOverlay, isStepping, running, booted, uploading, racyReset,
                 audio>>

\* The reset functions of the other devices; the output latch clears the
\* overlay bit, which maps the ROM.
BusReset ==
  /\ At("ui", "busReset")
  /\ romOverlay' = TRUE
  /\ Goto("ui", "audioReset")
  /\ UNCHANGED <<shared, video, cpuCrashed, resetState, pcOrigin, ui, audio>>

\* audioReset ends reset(); appInit goes on to stop the machine.
AudioReset ==
  /\ At("ui", "audioReset")
  /\ audioCrashed' = FALSE
  /\ booted' = TRUE
  /\ Goto("ui", IF booted THEN "events" ELSE "stop")
  /\ UNCHANGED <<shared, video, cpu, isStepping, running, resetStores, uploading, racyReset,
                 samplesLeft, instrLeft>>

\* stoppedMode: request the pause, then wait for the audio thread.
StopRequest ==
  /\ At("ui", "stop")
  /\ isStepping' = TRUE /\ runRequested' = 0
  /\ Goto("ui", "spin")
  /\ UNCHANGED <<audioIsBusy, video, cpu, running, booted, resetStores, uploading, racyReset,
                 audio>>

StopAcknowledged ==
  /\ At("ui", "spin") /\ audioIsBusy = 0
  /\ Goto("ui", "events")
  /\ UNCHANGED <<shared, video, cpu, ui, audio>>

\* The head of appRun's loop stops a machine that crashed while running (in
\* the faulty variant, one that crashed while stopped).
MustStopInverted == cpuCrashed /\ isStepping
MustStop == cpuCrashed /\ ~isStepping

LoopTop ==
  /\ At("ui", "top")
  /\ Goto("ui", IF MustStop THEN "stop" ELSE "events")
  /\ UNCHANGED <<shared, video, cpu, ui, audio>>

\* F8: toggleStepping and the first half of runningMode, which clears the
\* accumulators of the audio clock; a crashed machine is not resumed.
ToggleStepping ==
  /\ At("ui", "events")
  /\ \/ ~isStepping /\ Goto("ui", "stop") /\ UNCHANGED isStepping
     \/ isStepping /\ ~cpuCrashed /\ isStepping' = FALSE /\ Goto("ui", "resume")
  /\ UNCHANGED <<shared, video, cpu, running, booted, resetStores, uploading, racyReset, audio>>

Resume ==
  /\ At("ui", "resume")
  /\ runRequested' = 1
  /\ Goto("ui", "events")
  /\ UNCHANGED <<audioIsBusy, video, cpu, ui, audio>>

\* F5 and F6 step one instruction of a stopped machine that did not crash.
SingleStep ==
  /\ At("ui", "events") /\ isStepping /\ ~cpuCrashed
  /\ Goto("ui", "clock")
  /\ UNCHANGED <<shared, video, cpu, ui, audio>>

\* Ctrl+R resets, whether the machine is running or not.
ResetKey ==
  /\ At("ui", "events")
  /\ resetStores' = Registers
  /\ racyReset' = (runRequested = 1)
  /\ Goto("ui", "m68kReset")
  /\ UNCHANGED <<shared, video, cpu, isStepping, running, booted, uploading, audio>>

EventsDrained ==
  /\ At("ui", "events")
  /\ Goto("ui", "render")
  /\ UNCHANGED <<shared, video, cpu, ui, audio>>

\* renderEmulatorOutput looks at the unfinished frame only while the machine
\* is stopped; the faulty variant looks at any time.
UnfinishedFrameAlways == activeBuffer
UnfinishedFrame == IF isStepping THEN activeBuffer ELSE NULL

\* renderEmulatorOutput: take the finished frame, or the unfinished one.
GrabFrame ==
  /\ At("ui", "render")
  /\ uploading' = IF readyFrame # NULL THEN readyFrame ELSE UnfinishedFrame
  /\ readyFrame' = NULL /\ lapped' = FALSE
  /\ Goto("ui", "upload")
  /\ UNCHANGED <<shared, activeBuffer, beam, cpu, isStepping, running, booted, resetStores,
                 racyReset, audio>>

Uploaded ==
  /\ At("ui", "upload")
  /\ uploading' = NULL
  /\ Goto("ui", IF running THEN "top" ELSE "quit")
  /\ UNCHANGED <<shared, video, cpu, isStepping, running, booted, resetStores, racyReset, audio>>

\* Alt+Q or the window is closed: the events behind it are still handled, and
\* the picture is rendered once more.
Quit ==
  /\ At("ui", "events")
  /\ running' = FALSE
  /\ UNCHANGED <<shared, video, cpu, isStepping, booted, resetStores, uploading, racyReset,
                 audio, pc>>

\* SDL_DestroyAudioStream returns when no callback is in progress.
AudioDestroy ==
  /\ At("ui", "quit") /\ At("audio", "idle")
  /\ Goto("ui", "done")
  /\ UNCHANGED <<shared, video, cpu, ui, audio>>

\* What the UI thread does of its own accord, and what it does for a key.
UiNext ==
  \/ \E register \in Registers : M68kReset(register)
  \/ BusReset \/ AudioReset \/ StopRequest \/ StopAcknowledged \/ Resume
  \/ LoopTop \/ GrabFrame \/ Uploaded \/ AudioDestroy \/ RunMachine("ui")

KeyPressed == ToggleStepping \/ SingleStep \/ ResetKey \/ Quit

Terminated == At("ui", "done") /\ UNCHANGED vars

Next == AudioNext \/ UiNext \/ KeyPressed \/ EventsDrained \/ Terminated

(***************************************************************************)
(* Both threads keep running, SDL keeps asking for samples, and the event  *)
(* queue is drained again and again: a user presses finitely many keys     *)
(* between two frames.                                                     *)
(***************************************************************************)
Fairness == WF_vars(AudioNext) /\ WF_vars(UiNext) /\ SF_vars(EventsDrained)

Spec == Init /\ [][Next]_vars /\ Fairness

-----------------------------------------------------------------------------
ResetSteps == {"m68kReset", "busReset", "audioReset"}

\* The UI thread relies on the machine standing still: it executes an
\* instruction, clears the audio clock before resuming, resets a stopped
\* machine or copies the buffer that is being drawn.
UiOwnsMachine ==
  \/ pc["ui"] \in Machine \cup {"resume"}
  \/ pc["ui"] \in ResetSteps \cup {"upload"} /\ isStepping

(* "Because audioIsBusy == 0, we have 100% exclusive access to the system":
   while the UI thread steps or resets a stopped machine, clears the
   accumulators or reads the unfinished picture, the audio thread is outside getNextSample, even
   when it entered its callback before the stop was requested. *)
ExclusiveAccess == UiOwnsMachine => pc["audio"] \notin Machine

(* The frame handed to the renderer is finished: tick publishes the buffer
   before it swaps, so only inside that window is the published frame the
   one being drawn. *)
ReadyFrameIsFinished ==
  readyFrame = activeBuffer => \E t \in Threads : At(t, "swap")

(* A picture is not torn by the double buffering: the beam draws into the
   buffer SDL_UpdateTexture is reading only when a whole further frame was
   finished since the upload began. *)
NoTearingWithinAFrame ==
  uploading = activeBuffer /\ At("audio", "draw") => lapped

(* A reset of a stopped machine is complete: the CPU then starts from the
   ROM's vectors, and the audio clock does not hold it back for a crash that
   the reset cleared, whatever racy resets came before. *)
CleanResetRecovers ==
  ~racyReset /\ pc["ui"] \notin ResetSteps =>
    /\ resetState \/ pcOrigin = "rom"
    /\ audioCrashed => cpuCrashed

(* The screen of a crashed machine says PRESS [CTRL+R] TO RESET
   (renderCrashed).  After a reset the machine must be able to run: the
   audio clock holds the machine back only while the CPU is crashed. *)
ResetRevives ==
  audioCrashed /\ pc["ui"] \notin ResetSteps => cpuCrashed

(* stoppedMode's spin loop ends: the audio thread finishes its sample and
   backs off. *)
StopIsGranted == At("ui", "spin") ~> ~At("ui", "spin")

(* A crash while running brings the machine to a stop, unless a reset or
   the end of the program comes first. *)
CrashStopsMachine ==
  cpuCrashed /\ ~isStepping ~> isStepping \/ ~cpuCrashed \/ ~running

=============================================================================
