SPECIFICATION Spec
CONSTANTS
  MaxBytes = 5
  MaxResets = 0
  PtyRoom = 1
  RingSize = 5
  Slack = 1
  FifoSize = 1
  TxFifoSize = 1
  Trigger = 1
  BufSize = 4
  EnableThreshold = 2
  DisableThreshold = 3
  ArrivalsPerStep = 1
INVARIANTS
  BufferNotOverrun
CHECK_DEADLOCK FALSE
