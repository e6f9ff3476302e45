CONSTANTS
  Payload <- Bytes
  NoMsg = NoMsg
  Device <- LampAndReader
  Lamp <- Lamps
  Reader <- Readers
  Question <- Asked
  Pin <- Pins
  Measured <- Sample1
  QueueMax = 1
  MAX_REWRITE_ATTEMPTS = 2
  MaxRequests = 1
  NODE_ATTEMPTS = 1
  MaxRestarts = 1
  MaxChanges = 2
SPECIFICATION SensorFairSpec
INVARIANTS SensorTypeOK OneAlarmPerRise
PROPERTIES EveryRequestSettled EveryFrameHandled RiseNoticed
