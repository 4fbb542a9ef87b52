SPECIFICATION Spec
CONSTANTS
  InitEventList = 16
  EP_MAX_EVENTS = 2048
  MsgLen = 2
  Room = 3
  LowWater = 2
  MaxBytes = 6
CHECK_DEADLOCK FALSE
INVARIANTS
  BytesOnce
  OnlyDirectOvertakes
  NoFunctorSleeps
PROPERTIES
  QuitStopsLoop
  RequestsAreRead
  BlockedOutputMoves
