SPECIFICATION HomeSpec
CONSTANTS
  t1 = t1
  Payload <- Bytes
  NoMsg = NoMsg
  Device = {2}
  Lamp = {}
  Reader = {2}
  Question <- Asked
  Pin = {1}
  Measured = {0}
  QueueMax = 1
  MAX_REWRITE_ATTEMPTS = 1
  MaxRequests = 1
  NODE_ATTEMPTS = 1
  MaxRestarts = 0
  MaxChanges = 1
  Thread = {t1}
  NoThread = NoThread
  Watcher = Watcher
  Known = {1, 2}
  AlarmNode = 2
  AlarmReg = 1
  Ops = {"current"}
  Reg = {1}
  ScanUpTo = 2
  MaxCalls = 1
  Tick = {1}
  MaxAnswers = 2
  MaxAlarms = 1
INVARIANTS LastIsCounted
PROPERTIES FieldAsAssumed
