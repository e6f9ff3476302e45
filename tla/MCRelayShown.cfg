CONSTANTS
  Payload <- Bytes
  NoMsg = NoMsg
  Device <- Station
  Lamp <- NoLamp
  Question <- Relay
  Pin <- Pins
  Measured <- Sample
  QueueMax = 2
  MAX_REWRITE_ATTEMPTS = 2
  MaxRequests = 1
  NODE_ATTEMPTS = 0
  MaxRestarts = 0
SPECIFICATION RelaySpec
PROPERTY ShownIsTrue
