CONSTANTS
  SamplesPerCallback = 1
  InstrPerSample = 1
  FrameTicks = 1
SPECIFICATION Spec
INVARIANT ResetRevives
