SPECIFICATION Spec
CONSTANTS
  t1 = t1
  t2 = t2
  Thread = {t1, t2}
  NoThread = NoThread
  NoMsg = NoMsg
  Payload = {0}
  Node = {1, 2, 257}
  AlarmNode = 2
  AlarmReg = 1
  Ops = {"get", "ping"}
  Reg = {4}
  ScanUpTo = 3
  MaxCalls = 2
  Tick = {0}
  MaxDups = 1
  MaxAlarms = 1
INVARIANTS IInv
PROPERTIES AnswerKept ServesRequests
SYMMETRY Threads
