CONSTANTS
  Payload <- Bytes
  NoMsg = NoMsg
  Device <- Station
  Lamp <- NoLamp
  Question <- Relay
  Pin <- Pins
  Measured <- Sample
  QueueMax = 2
  MAX_REWRITE_ATTEMPTS = 2
  MaxRequests = 3
  NODE_ATTEMPTS = 1
  MaxRestarts = 1
SPECIFICATION RelaySpec
INVARIANTS FlowInv GetsLatest
PROPERTIES NoStaleCommand AnswersInOrder
