SPECIFICATION Spec
CONSTANTS
  t1 = t1
  t2 = t2
  Thread = {t1, t2}
  NoThread = NoThread
  NoMsg = NoMsg
  Payload = {0}
  Node = {1, 2}
  AlarmNode = 2
  AlarmReg = 1
  Ops = {"get"}
  Reg = {4, 5}
  ScanUpTo = 3
  MaxCalls = 2
  Tick = {0}
  MaxDups = 0
  MaxAlarms = 0
INVARIANTS GetAnswersAskedRegister
