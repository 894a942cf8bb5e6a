SPECIFICATION Spec
CONSTANTS
  Addrs <- NoAddrs
  AddrText <- NoTexts
  NowSecs <- SomeTime
  DeviceId <- AnId
  MaxRetries = 5
  RetryDelay = 30
  ResponseTimeout = 15
  SessionRecvTimeout = 30
  RegisterTimeout = 5
  ConfirmTimeout = 2
  ErrorPause = 1
  MaxFaults = 3
  MaxWakeUps = 2
INVARIANTS
  SuccessMeansTold
  AttemptsPerFault
  ClosedSessionsSucceeded
PROPERTIES
  WakeUpEnds
CHECK_DEADLOCK FALSE
