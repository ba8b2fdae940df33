SPECIFICATION Spec
CONSTANTS
  sampleFreq = 3
  cpuFreq = 7
  videoFreq = 5
  MaxCycles = 4
  MaxRaces = 2
INVARIANTS
  TypeOK
  NoDrift
  InRealTime
  RacesAreHarmless
  VideoInStep
