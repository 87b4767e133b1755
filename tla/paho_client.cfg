SPECIFICATION Spec
CONSTANTS
  OutMsgs = {1}
  InMsgs = {11, 12}
  InId <- MCOneId
  Unreadable = {12}
  MaxMessageIdentifier = 2
  Options <- MCOptions
  Samples <- MCSamples
  Cuts = {9}
  MaxConnects = 2
  MaxFaults = 2
INVARIANTS ExactlyOnceIn ExactlyOnceOut DeliveredIsTaken HeldIdIsNotReused StoreMirrorsState EndedStaysEnded NothingGarbled WrittenIsReadable
CHECK_DEADLOCK FALSE
PROPERTY AttemptsEnd
