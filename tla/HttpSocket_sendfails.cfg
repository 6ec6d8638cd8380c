SPECIFICATION Spec
CONSTANTS
  MessageLen = 2
  ResponseLen = 3
  Capacity = 2
  MaxRequests = 2
  MaxBack = 1
  MaxWire = 4
CHECK_DEADLOCK FALSE
PROPERTIES
  SendNeverMovesBack
