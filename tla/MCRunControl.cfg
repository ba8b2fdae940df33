CONSTANTS
  SamplesPerCallback = 2
  InstrPerSample = 2
  FrameTicks = 2
SPECIFICATION Spec
INVARIANTS
  TypeOK
  ExclusiveAccess
  ReadyFrameIsFinished
  NoTearingWithinAFrame
  CleanResetRecovers
PROPERTIES
  StopIsGranted
  CrashStopsMachine
