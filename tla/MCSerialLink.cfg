SPECIFICATION Spec
CONSTANTS
  MaxBytes = 8
  MaxResets = 1
  PtyRoom = 1
  RingSize = 2
  Slack = 1
  FifoSize = 2
  TxFifoSize = 1
  Trigger = 2
  BufSize = 7
  EnableThreshold = 1
  DisableThreshold = 3
  ArrivalsPerStep = 1
INVARIANTS
  TypeOK
  TransmitNeverDiscards
CHECK_DEADLOCK FALSE
PROPERTIES
  ReliableStream
